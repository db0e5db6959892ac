---------------------------- MODULE ProviderStream ----------------------------
(***************************************************************************)
(* What a provider streams, turned into events (_stream_completion and     *)
(* _stream_responses of src/litecoder/providers/compatible.py).  Blocks of *)
(* content come in pieces, interleaved, in one of two dialects.  A tool    *)
(* call is told as a whole once its arguments are all there; until then    *)
(* its identity may lack and its pieces wait.  The stream may end, break   *)
(* or turn invalid at any chunk, also after the one that finished it.      *)
(***************************************************************************)
EXTENDS Naturals, Sequences, SequencesExt

CONSTANTS
    Tools,      \* tool calls of the response; "function" is the legacy one
    MaxChunks   \* bound: chunks streamed

VARIABLES
    dialect,    \* the provider's api_style
    stage,      \* of the stream
    order,      \* the blocks in the order they appeared, which numbers them
    content,    \* by block: its text or arguments, as numbers of chunks
    pending,    \* by call: pending_fragments, not told yet
    known,      \* by call: what of its identity is known
    begun,      \* the blocks that were told to have started
    complete,   \* blocks_completed
    sent,       \* by block: what the provider said
    told,       \* the events
    chunks

vars ==
    <<dialect, stage, order, content, pending, known, begun, complete, sent, told,
      chunks>>

Texts == {"text", "reasoning"}
Blocks == Texts \cup Tools
Identity == {"id", "name"}

Event(type, block, data) == [type |-> type, block |-> block, data |-> data]
Events ==
    [type : {"started", "delta", "call", "completed"}, block : Blocks,
     data : Seq(1 .. MaxChunks)]
        \cup [type : {"response", "error"}, block : {"none"}, data : {<<>>}]

TypeOK ==
    /\ dialect \in {"completion", "responses"}
    /\ stage \in {"streaming", "finished", "over"}
    /\ order \in Seq(Blocks)
    /\ content \in [Blocks -> Seq(1 .. MaxChunks)]
    /\ pending \in [Tools -> Seq(1 .. MaxChunks)]
    /\ known \in [Tools -> SUBSET Identity]
    /\ begun \subseteq Blocks
    /\ complete \in BOOLEAN
    /\ sent \in [Blocks -> Seq(1 .. MaxChunks)]
    /\ told \in Seq(Events)
    /\ chunks \in 0 .. MaxChunks

Init ==
    /\ dialect \in {"completion", "responses"}
    /\ stage = "streaming"
    /\ order = <<>>
    /\ content = [b \in Blocks |-> <<>>]
    /\ pending = [t \in Tools |-> <<>>]
    /\ known = [t \in Tools |-> {}]
    /\ begun = {}
    /\ complete = FALSE
    /\ sent = [b \in Blocks |-> <<>>]
    /\ told = <<>>
    /\ chunks = 0

Appeared == ToSet(order)
Appears(b) == order' = IF b \in Appeared THEN order ELSE Append(order, b)

\* A chunk that is told as these events.
Chunk(spoken, events) ==
    /\ dialect = spoken
    /\ stage = "streaming"
    /\ chunks < MaxChunks
    /\ chunks' = chunks + 1
    /\ told' = told \o events
    /\ UNCHANGED <<dialect, stage, complete>>

Piece == <<chunks + 1>>
Starts(b) == <<Event("started", b, <<>>)>>
Deltas(b, pieces) ==
    [i \in DOMAIN pieces |-> Event("delta", b, <<pieces[i]>>)]

-----------------------------------------------------------------------------
(* Both dialects: text, or reasoning.                                      *)

\* A block is told to start when it appears with its first piece.
TextDelta(b) ==
    /\ b \in Texts
    /\ Chunk(dialect,
             (IF b \in Appeared THEN <<>> ELSE Starts(b)) \o Deltas(b, Piece))
    /\ Appears(b)
    /\ begun' = IF b \in Appeared THEN begun ELSE begun \cup {b}
    /\ content' = [content EXCEPT ![b] = @ \o Piece]
    /\ sent' = [sent EXCEPT ![b] = @ \o Piece]
    /\ UNCHANGED <<pending, known>>

-----------------------------------------------------------------------------
(* Chat completions.                                                       *)

\* Thinking blocks and reasoning items: the block appears, but does not start.
Metadata ==
    /\ Chunk("completion", <<>>)
    /\ Appears("reasoning")
    /\ UNCHANGED <<content, pending, known, begun, sent>>

ToolDeltaLosesPending(t, identity) ==
    LET learnt == known[t] \cup identity IN
    /\ t = "function" => "id" \in identity
    /\ Chunk("completion",
             IF learnt # Identity THEN <<>>
             ELSE (IF t \in begun THEN <<>> ELSE Starts(t)) \o Deltas(t, Piece))
    /\ Appears(t)
    /\ known' = [known EXCEPT ![t] = learnt]
    /\ content' = [content EXCEPT ![t] = @ \o Piece]
    /\ sent' = [sent EXCEPT ![t] = @ \o Piece]
    /\ pending' = [pending EXCEPT ![t] = <<>>]
    /\ begun' = IF learnt = Identity THEN begun \cup {t} ELSE begun

\* _completion_tool_delta: pieces wait until both id and name are known; the
\* legacy call has an id from the start.
ToolDelta(t, identity) ==
    LET learnt == known[t] \cup identity
        waiting == pending[t] \o Piece
    IN
    /\ t = "function" => "id" \in identity
    /\ Chunk("completion",
             IF learnt # Identity THEN <<>>
             ELSE (IF t \in begun THEN <<>> ELSE Starts(t))
                     \o Deltas(t, waiting))
    /\ Appears(t)
    /\ known' = [known EXCEPT ![t] = learnt]
    /\ content' = [content EXCEPT ![t] = @ \o Piece]
    /\ sent' = [sent EXCEPT ![t] = @ \o Piece]
    /\ pending' = [pending EXCEPT ![t] =
                      IF learnt = Identity THEN <<>> ELSE waiting]
    /\ begun' = IF learnt = Identity THEN begun \cup {t} ELSE begun

-----------------------------------------------------------------------------
(* The Responses API.                                                      *)

\* The item names what it can; the call starts when it is all there.
ItemAdded(t, identity) ==
    LET learnt == known[t] \cup identity
        starts == learnt = Identity /\ t \notin begun
    IN
    /\ Chunk("responses", IF starts THEN Starts(t) ELSE <<>>)
    /\ Appears(t)
    /\ known' = [known EXCEPT ![t] = learnt]
    /\ begun' = IF starts THEN begun \cup {t} ELSE begun
    /\ UNCHANGED <<content, pending, sent>>

\* A piece that comes before the id is not told, now or later.
ArgumentsDelta(t) ==
    /\ Chunk("responses", IF "id" \in known[t] THEN Deltas(t, Piece) ELSE <<>>)
    /\ Appears(t)
    /\ content' = [content EXCEPT ![t] = @ \o Piece]
    /\ sent' = [sent EXCEPT ![t] = @ \o Piece]
    /\ UNCHANGED <<pending, known, begun>>

\* What the provider says in an item as a whole is what it said in pieces.
Whole(b) == IF sent[b] = <<>> THEN Piece ELSE sent[b]

\* _capture_responses_item: the whole counts only where there were no pieces.
Captured(items) ==
    /\ content' =
          [b \in Blocks |-> IF b \in items /\ content[b] = <<>> THEN Whole(b)
                            ELSE content[b]]
    /\ sent' = [b \in Blocks |-> IF b \in items THEN Whole(b) ELSE sent[b]]

ItemDone(b, identity) ==
    /\ b \in Tools \cup {"reasoning"}
    /\ Chunk("responses", <<>>)
    /\ Appears(b)
    /\ Captured({b})
    /\ known' =
          [t \in Tools |-> IF t = b THEN known[t] \cup identity ELSE known[t]]
    /\ UNCHANGED <<pending, begun>>

\* response.completed, response.incomplete: it lists every item once more, those
\* not streamed before as well.
Terminal ==
    /\ dialect = "responses"
    /\ stage = "streaming"
    /\ chunks < MaxChunks
    /\ chunks' = chunks + 1
    /\ stage' = "finished"
    /\ \E more \in SUBSET (Blocks \ Appeared) :
          /\ order' = order \o SetToSeq(more)
          /\ Captured(Appeared \cup more)
          /\ \/ UNCHANGED known
             \/ known' = [t \in Tools |->
                            IF t \in Appeared \cup more THEN Identity
                            ELSE known[t]]
    /\ UNCHANGED <<dialect, pending, begun, complete, told>>

-----------------------------------------------------------------------------
(* The end.                                                                *)

\* A block of reasoning without content is passed over; metadata is content.
Completes(b) ==
    (IF b \in Tools THEN <<Event("call", b, content[b])>> ELSE <<>>)
        \o <<Event("completed", b, content[b])>>
Completions == FlattenSeq([i \in DOMAIN order |-> Completes(order[i])])

\* Chat completions make up an id where there is none.
Required == IF dialect = "completion" THEN {"name"} ELSE Identity
Nameless == \E t \in Appeared \cap Tools : ~(Required \subseteq known[t])

Ends(events) ==
    /\ stage' = "over"
    /\ told' = told \o events
    /\ UNCHANGED <<dialect, order, content, pending, known, begun, sent,
                   chunks>>

Fails == Ends(<<Event("error", "none", <<>>)>>)

\* finish_reason: the blocks are completed now; what follows may only be usage.
Finish ==
    /\ dialect = "completion"
    /\ stage = "streaming"
    /\ ~Nameless
    /\ stage' = "finished"
    /\ complete' = TRUE
    /\ told' = told \o Completions
    /\ UNCHANGED <<dialect, order, content, pending, known, begun, sent,
                   chunks>>

\* A chunk is invalid or contradicts what came before, a call has no name or
\* arguments that do not parse, the response failed, or the connection did: none
\* of the blocks is completed, unless all of them were before.
Break ==
    /\ stage # "over"
    /\ Fails
    /\ UNCHANGED complete

StreamEnds ==
    /\ stage = "finished"
    /\ complete \/ ~Nameless
    /\ complete' = TRUE
    /\ Ends((IF complete THEN <<>> ELSE Completions)
                \o <<Event("response", "none", <<>>)>>)

\* The consumer stops reading.
Close ==
    /\ stage # "over"
    /\ Ends(<<>>)
    /\ UNCHANGED complete

Next ==
    \/ \E b \in Texts : TextDelta(b)
    \/ Metadata
    \/ \E t \in Tools, identity \in SUBSET Identity :
          ToolDelta(t, identity) \/ ItemAdded(t, identity)
    \/ \E t \in Tools : ArgumentsDelta(t)
    \/ \E b \in Blocks, identity \in SUBSET Identity : ItemDone(b, identity)
    \/ Terminal
    \/ Finish
    \/ Break
    \/ StreamEnds
    \/ Close

Spec == Init /\ [][Next]_vars

-----------------------------------------------------------------------------
Told(type, block) ==
    SelectSeq(told, LAMBDA e : e.type = type /\ e.block = block)
Pieces(block) ==
    LET deltas == Told("delta", block) IN
    FlattenSeq([i \in DOMAIN deltas |-> deltas[i].data])

\* The events tell one response as the provider sent it, however its blocks were
\* cut and interleaved: a block starts and completes at most once; its completion
\* has all that was sent, in order; what was told of it in pieces is a part of
\* that, and all of it where the pieces of a call have to wait; all the calls of
\* a response are told, or none; and nothing follows the response or the error.
ToldAsSent ==
    /\ \A b \in Blocks :
          LET whole == Told("completed", b) IN
          /\ Len(Told("started", b)) <= 1
          /\ Len(whole) <= 1
          /\ (whole # <<>>) => whole[1].data = sent[b]
          /\ (whole # <<>> /\ Pieces(b) # <<>> /\ dialect = "completion") =>
                whole[1].data = Pieces(b)
          /\ (whole # <<>> /\ b \in Tools) =>
                Told("call", b) = <<Event("call", b, sent[b])>>
    /\ LET calls == {b \in Appeared \cap Tools : Told("call", b) # <<>>} IN
          calls \in {{}, Appeared \cap Tools}
    /\ \A i \in DOMAIN told :
          told[i].type \in {"response", "error"} => i = Len(told)
=============================================================================
