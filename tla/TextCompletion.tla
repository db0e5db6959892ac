---------------------------- MODULE TextCompletion ----------------------------
(***************************************************************************)
(* complete_text_with_retry (src/litecoder/providers/completion.py), which *)
(* the summaries and the memories ask a model with.  A response cut off at *)
(* the token limit is kept and continued, with a larger limit once; an     *)
(* error, an empty or an incomplete response is asked for once more, with  *)
(* the same prefix.  A text is a sequence of pieces, each of which knows   *)
(* how much text the request had in front of it.  What the model has       *)
(* emitted is kept beside, apart from what the code makes of it.           *)
(***************************************************************************)
EXTENDS Naturals, Sequences

CONSTANTS
    MaxRetries,         \* MODEL_RETRY_MAX_ATTEMPTS
    MaxContinuations    \* MODEL_CONTINUATION_MAX_ATTEMPTS

VARIABLES
    options,        \* retry_empty, retry_incomplete, and a limit that can grow
    accumulated,    \* accumulated_text
    expanded,       \* max_tokens_expanded
    continuations,  \* max_token_retries
    retries,        \* what the budget has given
    stop,           \* how the last response stopped
    result,         \* the text returned
    emitted,        \* history: how many pieces the responses before the last one
                    \* have brought that were cut off
    lastText        \* history: the text of the last response

vars ==
    <<options, accumulated, expanded, continuations, retries, stop, result,
      emitted, lastText>>

Stops ==
    {"retryable error", "error", "max tokens", "end turn", "unknown", "other"}
Options == {"retry empty", "retry incomplete", "expandable"}

TypeOK ==
    /\ options \subseteq Options
    /\ accumulated \in Seq(Nat)
    /\ expanded \in BOOLEAN
    /\ continuations \in 0 .. MaxContinuations
    /\ retries \in 0 .. MaxRetries
    /\ stop \in {"none"} \cup Stops
    /\ result \in Seq(Nat)
    /\ emitted \in Nat /\ lastText \in Seq(Nat)

Init ==
    /\ options \in SUBSET Options
    /\ accumulated = <<>>
    /\ expanded = FALSE
    /\ continuations = 0
    /\ retries = 0
    /\ stop = "none"
    /\ result = <<>>
    /\ emitted = 0 /\ lastText = <<>>

TextOfEach(how, piece) ==
    IF how = "max tokens" \/ how = "unknown" THEN accumulated \o piece ELSE piece

\* What the attempt returns should it be the last: the prefix is put in front,
\* unless the attempt said nothing or stopped in another way.
Text(how, piece) ==
    IF \/ how \in {"max tokens", "unknown"}
       \/ how \in {"retryable error", "error", "end turn"} /\ piece # <<>>
    THEN accumulated \o piece
    ELSE piece

\* What the next request has in front of it: an error's text only counts when it
\* continued a prefix.
Prefix(how, piece) ==
    IF \/ how = "max tokens"
       \/ how \in {"retryable error", "error"} /\ accumulated # <<>>
    THEN accumulated \o piece
    ELSE accumulated

Continues ==
    /\ continuations < MaxContinuations
    /\ expanded \/ "expandable" \in options

Wanted(how, piece) ==
    \/ how = "retryable error"
    \/ how = "max tokens" /\ Continues
    \/ how = "end turn" /\ piece = <<>> /\ "retry empty" \in options
    \/ how = "unknown" /\ "retry incomplete" \in options

\* A response that is to be continued: it was cut off at the limit, or it broke
\* off while it continued one.
IsCutOff(how) == how = "max tokens" \/ (how \in {"retryable error", "error"} /\ emitted > 0)

Over == stop # "none"

Attempt(how, piece) ==
    /\ ~Over
    /\ accumulated' = Prefix(how, piece)
    /\ expanded' = (expanded \/ (how = "max tokens" /\ Continues))
    /\ continuations' =
          continuations + (IF how = "max tokens" /\ Continues THEN 1 ELSE 0)
    /\ IF Wanted(how, piece) /\ retries < MaxRetries
       THEN /\ retries' = retries + 1
            /\ emitted' = emitted + (IF IsCutOff(how) THEN Len(piece) ELSE 0)
            /\ UNCHANGED <<stop, result>>
       ELSE /\ stop' = how
            /\ result' = Text(how, piece)
            /\ UNCHANGED <<retries, emitted>>
    /\ lastText' = piece
    /\ UNCHANGED options

Next ==
    \E how \in Stops, piece \in {<<>>, <<Len(accumulated)>>} :
        Attempt(how, piece)

Spec == Init /\ [][Next]_vars

-----------------------------------------------------------------------------
Contiguous(text) == \A i \in DOMAIN text : text[i] = i - 1

\* The prefix is not preserved when the last response, the budget for another one
\* being spent, ended its turn or failed and said nothing, or stopped in a way the
\* code does not know of here, such as a refusal.
PrefixIsDropped ==
    \/ stop \in {"end turn", "retryable error", "error"} /\ lastText = <<>>
    \/ stop = "other"

\* What a request is asked to continue is all that the responses cut off before it
\* have brought, and the text that is returned is that and the last response's, each
\* piece once and in order, whatever failed, was empty or was asked for again between
\* ("preserves the emitted prefix", complete_text_with_retry).  Where the prefix is
\* dropped, the last response's own text is returned, never a part of the prefix.
TextIsContiguous ==
    /\ ~Over => Contiguous(accumulated) /\ Len(accumulated) = emitted
    /\ Over => IF PrefixIsDropped THEN result = lastText
               ELSE Contiguous(result) /\ Len(result) = emitted + Len(lastText)
=============================================================================
