----------------------------- MODULE WorkProofs -----------------------------
(* What is proved of a team and of what its members work with: the memories *)
(* and files they change, and the globs.  Each has its inductive invariant,   *)
(* which its own steps keep (its Step) and those of the others leave alone    *)
(* (Moving).                                                                *)
EXTENDS MCWork, FiniteSetTheorems, SequenceTheorems, TLAPS

\* A step of the composition is a step of each of them, or leaves it alone.
LEMMA Moving ==
    [WorkNext]_workVars =>
        /\ [Next]_vars /\ [Memory!Next]_(Memory!vars)
        /\ [Files!Next]_(Files!vars) /\ [Glob!Next]_(Glob!vars)
<1> SUFFICES ASSUME [WorkNext]_workVars
             PROVE  /\ [Next]_vars /\ [Memory!Next]_(Memory!vars)
                    /\ [Files!Next]_(Files!vars) /\ [Glob!Next]_(Glob!vars)
  OBVIOUS
<1>1. [Next]_vars
  BY DEF WorkNext, Moves, workVars
<1>2. [Memory!Next]_(Memory!vars)
  BY DEF WorkNext, Moves, workVars, memoryVars, Memory!vars
<1>3. [Files!Next]_(Files!vars)
  BY DEF WorkNext, Moves, workVars, fileVars, Files!vars
<1>4. [Glob!Next]_(Glob!vars)
  BY DEF WorkNext, Moves, workVars, globVars, Glob!vars
<1> QED
  BY <1>1, <1>2, <1>3, <1>4

-----------------------------------------------------------------------------
(* The team.                                                               *)

\* What the proofs need of the types: by member, by agent, by message.
TeamTypes ==
    /\ creation \in [Members -> {"none", "joined", "denied", "cancelled"} \cup Creating]
    /\ runtime \in [Members -> {"none", "open", "closed"}]
    /\ worker \in [Members -> {"none", "over"} \cup Live]
    /\ shutdown \in ShutdownPhases
    /\ inTurn \in BOOLEAN

\* The lead's own calls are over when its turn ends or a shutdown begins.
CreatedInTurns ==
    \A m \in Foreground : creation[m] \in Creating => inTurn /\ shutdown = "no"

\* A worker is one that a shutdown finds, and waits for.
WorkersAreFound ==
    \A m \in Foreground :
        /\ worker[m] \in Live =>
              /\ m \in roster /\ m \in tracked
              /\ shutdown \notin {"closing", "draining"}
              /\ shutdown = "gathering" => m \in toClose
        /\ worker[m] \in Live => creation[m] = "joined"

\* A runtime is one that a shutdown closes, unless its creation was cancelled.
RuntimesAreFound ==
    \A m \in Foreground :
        runtime[m] = "open" =>
            \/ creation[m] \in {"assigning", "assigned", "cancelled"}
            \/ /\ m \in roster
               /\ shutdown = "closing" => m \in toClose
               /\ shutdown # "draining"

TeamInv == TeamTypes /\ CreatedInTurns /\ WorkersAreFound /\ RuntimesAreFound

LEMMA TeamInit == Init => TeamInv
<1> SUFFICES ASSUME Init PROVE TeamInv
  OBVIOUS
<1>1. TeamTypes
  BY DEF Init, TeamTypes, Creating, Live, InTurn, Waiting, ShutdownPhases
<1>2. CreatedInTurns /\ WorkersAreFound /\ RuntimesAreFound
  BY DEF Init, CreatedInTurns, WorkersAreFound, RuntimesAreFound, Creating, Live,
     InTurn, Waiting, Foreground
<1> QED
  BY <1>1, <1>2 DEF TeamInv

\* A step that moves none of this.
LEMMA TeamRests ==
    ASSUME TeamInv,
           UNCHANGED <<creation, runtime, worker, roster, tracked, shutdown, inTurn,
                       toClose>>
    PROVE  TeamInv'
  BY DEF TeamInv, TeamTypes, CreatedInTurns, WorkersAreFound, RuntimesAreFound

LEMMA CreateKeepsTeam ==
    ASSUME TeamInv, NEW m \in Members, CreateStep(m)
    PROVE  TeamInv'
<1> USE DEF Creating, Live, InTurn, Waiting, ShutdownPhases, shutdownVars
<1>0. TeamTypes /\ CreatedInTurns /\ WorkersAreFound /\ RuntimesAreFound
  BY DEF TeamInv
<1>r. m \in Foreground /\ creation[m] # "joined" => worker[m] \notin Live
  BY <1>0 DEF WorkersAreFound
<1>1. CASE CreateBegins(m)
  <2>1. TeamTypes'
    BY <1>0, <1>1 DEF TeamTypes, CreateBegins, Acting
  <2>2. CreatedInTurns'
    BY <1>0, <1>1 DEF TeamTypes, CreatedInTurns, CreateBegins, Acting
  <2>3. WorkersAreFound'
    BY <1>0, <1>1 DEF TeamTypes, CreatedInTurns, WorkersAreFound, CreateBegins, Acting
  <2>4. RuntimesAreFound'
    BY <1>0, <1>1 DEF TeamTypes, CreatedInTurns, RuntimesAreFound, CreateBegins, Acting
  <2> QED
    BY <2>1, <2>2, <2>3, <2>4 DEF TeamInv
<1>2. CASE Made(m)
  <2>1. /\ creation[m] = "making" /\ inTurn' = inTurn /\ shutdown' = shutdown
        /\ toClose' = toClose
    BY <1>2 DEF Made
  <2>2. /\ \A n \in Members \ {m} : creation'[n] = creation[n] /\ runtime'[n] = runtime[n]
        /\ runtime' \in [Members -> {"none", "open", "closed"}]
    BY <1>0, <1>2 DEF TeamTypes, Made, Joins
  <2>3. CASE task[m] = "none"
    <3>1. /\ creation' = [creation EXCEPT ![m] = "joined"]
          /\ roster' = roster \cup {m} /\ tracked' = tracked \cup {m}
          /\ worker' = [worker EXCEPT ![m] = "objective"]
      BY <1>2, <2>3 DEF Made, Joins
    <3>2. TeamTypes' /\ CreatedInTurns'
      BY <1>0, <2>1, <2>2, <3>1 DEF TeamTypes, CreatedInTurns
    <3>3. WorkersAreFound'
      BY <1>0, <2>1, <2>2, <3>1 DEF TeamTypes, CreatedInTurns, WorkersAreFound
    <3>4. RuntimesAreFound'
      BY <1>0, <2>1, <2>2, <3>1 DEF TeamTypes, CreatedInTurns, RuntimesAreFound, Foreground
    <3> QED
      BY <3>2, <3>3, <3>4 DEF TeamInv
  <2>4. CASE task[m] # "none"
    <3>1. /\ creation' = [creation EXCEPT ![m] = "assigning"]
          /\ UNCHANGED <<roster, tracked, worker>>
      BY <1>2, <2>4 DEF Made
    <3>2. TeamTypes' /\ CreatedInTurns'
      BY <1>0, <2>1, <2>2, <3>1 DEF TeamTypes, CreatedInTurns
    <3>3. WorkersAreFound' /\ RuntimesAreFound'
      BY <1>0, <2>1, <2>2, <3>1 DEF TeamTypes, WorkersAreFound, RuntimesAreFound, Foreground
    <3> QED
      BY <3>2, <3>3 DEF TeamInv
  <2> QED
    BY <2>3, <2>4
<1>3. CASE MakeFails(m)
  <2>1. TeamTypes'
    BY <1>0, <1>3 DEF TeamTypes, MakeFails
  <2>2. CreatedInTurns'
    BY <1>0, <1>3 DEF TeamTypes, CreatedInTurns, MakeFails
  <2>3. WorkersAreFound'
    BY <1>0, <1>3 DEF TeamTypes, CreatedInTurns, WorkersAreFound, MakeFails
  <2>4. RuntimesAreFound'
    BY <1>0, <1>3 DEF TeamTypes, CreatedInTurns, RuntimesAreFound, MakeFails
  <2> QED
    BY <2>1, <2>2, <2>3, <2>4 DEF TeamInv
<1>4. CASE Assigned(m)
  <2>1. TeamTypes'
    BY <1>0, <1>4 DEF TeamTypes, Assigned
  <2>2. CreatedInTurns'
    BY <1>0, <1>4 DEF TeamTypes, CreatedInTurns, Assigned
  <2>3. WorkersAreFound'
    BY <1>0, <1>4 DEF TeamTypes, CreatedInTurns, WorkersAreFound, Assigned
  <2>4. RuntimesAreFound'
    BY <1>0, <1>4 DEF TeamTypes, CreatedInTurns, RuntimesAreFound, Assigned
  <2> QED
    BY <2>1, <2>2, <2>3, <2>4 DEF TeamInv
<1>5. CASE AssignFails(m)
  <2>1. TeamTypes'
    BY <1>0, <1>5 DEF TeamTypes, AssignFails
  <2>2. CreatedInTurns'
    BY <1>0, <1>5 DEF TeamTypes, CreatedInTurns, AssignFails
  <2>3. WorkersAreFound'
    BY <1>0, <1>5 DEF TeamTypes, CreatedInTurns, WorkersAreFound, AssignFails
  <2>4. RuntimesAreFound'
    BY <1>0, <1>5 DEF TeamTypes, CreatedInTurns, RuntimesAreFound, AssignFails
  <2> QED
    BY <2>1, <2>2, <2>3, <2>4 DEF TeamInv
<1>6. CASE CreateEnds(m)
  <2>1. TeamTypes'
    BY <1>0, <1>6 DEF TeamTypes, CreateEnds, Joins
  <2>2. CreatedInTurns'
    BY <1>0, <1>6 DEF TeamTypes, CreatedInTurns, CreateEnds, Joins
  <2>3. WorkersAreFound'
    BY <1>0, <1>6 DEF TeamTypes, CreatedInTurns, WorkersAreFound, CreateEnds, Joins
  <2>4. RuntimesAreFound'
    BY <1>0, <1>6 DEF TeamTypes, CreatedInTurns, RuntimesAreFound, CreateEnds, Joins
  <2> QED
    BY <2>1, <2>2, <2>3, <2>4 DEF TeamInv
<1>7. CASE CreateIsCancelled(m)
  <2>1. TeamTypes'
    BY <1>0, <1>7 DEF TeamTypes, CreateIsCancelled
  <2>2. CreatedInTurns'
    BY <1>0, <1>7 DEF TeamTypes, CreatedInTurns, CreateIsCancelled
  <2>3. WorkersAreFound'
    BY <1>0, <1>7 DEF TeamTypes, CreatedInTurns, WorkersAreFound, CreateIsCancelled
  <2>c. /\ creation'[m] = "cancelled"
        /\ \A n \in Members \ {m} : creation'[n] = creation[n] /\ runtime'[n] = runtime[n]
        /\ UNCHANGED <<roster, shutdown, toClose>>
    BY <1>0, <1>7 DEF TeamTypes, CreateIsCancelled
  <2>4. RuntimesAreFound'
    BY <1>0, <2>c DEF RuntimesAreFound, Foreground
  <2> QED
    BY <2>1, <2>2, <2>3, <2>4 DEF TeamInv
<1> QED
  BY <1>1, <1>2, <1>3, <1>4, <1>5, <1>6, <1>7 DEF CreateStep

\* What a worker's step comes to: it goes on where it is, or it is over.
LEMMA WorkerKeepsTeam ==
    ASSUME TeamInv, NEW m \in Members, worker[m] \in Live,
           UNCHANGED <<creation, runtime, roster, shutdown, inTurn, toClose>>,
           \/ \E place \in Live : Goes(m, place) /\ UNCHANGED tracked
           \/ Ends(m)
    PROVE  TeamInv'
<1>0. TeamTypes /\ CreatedInTurns /\ WorkersAreFound /\ RuntimesAreFound
  BY DEF TeamInv
<1>1. TeamTypes'
  BY <1>0 DEF TeamTypes, Goes, Ends
<1>2. CreatedInTurns' /\ RuntimesAreFound'
  BY <1>0 DEF CreatedInTurns, RuntimesAreFound
<1>3. \A n \in Members : worker'[n] \in Live =>
          worker[n] \in Live /\ (n \in tracked => n \in tracked')
  BY <1>0 DEF TeamTypes, Goes, Ends, Live, InTurn, Waiting
<1>4. WorkersAreFound'
  BY <1>0, <1>3 DEF WorkersAreFound, Foreground
<1> QED
  BY <1>1, <1>2, <1>4 DEF TeamInv

LEMMA ShutdownKeepsTeam ==
    ASSUME TeamInv, ShutdownBegins \/ ShutdownStep \/ ShutdownIsCancelled
    PROVE  TeamInv'
<1> USE DEF Creating, ShutdownPhases, Foreground
<1>0. TeamTypes /\ CreatedInTurns /\ WorkersAreFound /\ RuntimesAreFound
  BY DEF TeamInv
<1>1. CASE ShutdownBegins
  <2>1. TeamTypes'
    BY <1>0, <1>1 DEF TeamTypes, ShutdownBegins, teamVars
  <2>2. CreatedInTurns'
    BY <1>0, <1>1 DEF TeamTypes, CreatedInTurns, ShutdownBegins, teamVars
  <2>3. WorkersAreFound'
    BY <1>0, <1>1 DEF TeamTypes, CreatedInTurns, WorkersAreFound, ShutdownBegins, teamVars
  <2>4. RuntimesAreFound'
    BY <1>0, <1>1 DEF TeamTypes, CreatedInTurns, RuntimesAreFound, ShutdownBegins, teamVars
  <2> QED
    BY <2>1, <2>2, <2>3, <2>4 DEF TeamInv
<1>2. CASE Gathered
  <2>1. TeamTypes'
    BY <1>0, <1>2 DEF TeamTypes, Gathered
  <2>2. CreatedInTurns'
    BY <1>0, <1>2 DEF TeamTypes, CreatedInTurns, Gathered
  <2>3. WorkersAreFound'
    BY <1>0, <1>2 DEF TeamTypes, CreatedInTurns, WorkersAreFound, Gathered
  <2>4. RuntimesAreFound'
    BY <1>0, <1>2 DEF TeamTypes, CreatedInTurns, RuntimesAreFound, Gathered
  <2> QED
    BY <2>1, <2>2, <2>3, <2>4 DEF TeamInv
<1>3. ASSUME NEW m \in Members, ClosesRuntime(m)
      PROVE  TeamInv'
  <2>1. TeamTypes'
    BY <1>0, <1>3 DEF TeamTypes, ClosesRuntime
  <2>2. CreatedInTurns'
    BY <1>0, <1>3 DEF TeamTypes, CreatedInTurns, ClosesRuntime
  <2>3. WorkersAreFound'
    BY <1>0, <1>3 DEF TeamTypes, CreatedInTurns, WorkersAreFound, ClosesRuntime
  <2>4. RuntimesAreFound'
    BY <1>0, <1>3 DEF TeamTypes, CreatedInTurns, RuntimesAreFound, ClosesRuntime
  <2> QED
    BY <2>1, <2>2, <2>3, <2>4 DEF TeamInv
<1>4. CASE StartsDraining
  <2>1. TeamTypes'
    BY <1>0, <1>4 DEF TeamTypes, StartsDraining, teamVars
  <2>2. CreatedInTurns'
    BY <1>0, <1>4 DEF TeamTypes, CreatedInTurns, StartsDraining, teamVars
  <2>3. WorkersAreFound'
    BY <1>0, <1>4 DEF TeamTypes, CreatedInTurns, WorkersAreFound, StartsDraining, teamVars
  <2>4. RuntimesAreFound'
    BY <1>0, <1>4 DEF TeamTypes, CreatedInTurns, RuntimesAreFound, StartsDraining, teamVars
  <2> QED
    BY <2>1, <2>2, <2>3, <2>4 DEF TeamInv
<1>5. CASE ShutdownEnds
  <2>1. TeamTypes'
    BY <1>0, <1>5 DEF TeamTypes, ShutdownEnds
  <2>2. CreatedInTurns'
    BY <1>0, <1>5 DEF TeamTypes, CreatedInTurns, ShutdownEnds
  <2>3. WorkersAreFound'
    BY <1>0, <1>5 DEF TeamTypes, CreatedInTurns, WorkersAreFound, ShutdownEnds
  <2>4. RuntimesAreFound'
    BY <1>0, <1>5 DEF TeamTypes, CreatedInTurns, RuntimesAreFound, ShutdownEnds
  <2> QED
    BY <2>1, <2>2, <2>3, <2>4 DEF TeamInv
<1>6. CASE ShutdownIsCancelled
  <2>1. TeamTypes'
    BY <1>0, <1>6 DEF TeamTypes, ShutdownIsCancelled, teamVars
  <2>2. CreatedInTurns'
    BY <1>0, <1>6 DEF TeamTypes, CreatedInTurns, ShutdownIsCancelled, teamVars
  <2>3. WorkersAreFound'
    BY <1>0, <1>6 DEF TeamTypes, CreatedInTurns, WorkersAreFound, ShutdownIsCancelled, teamVars
  <2>4. RuntimesAreFound'
    BY <1>0, <1>6 DEF TeamTypes, CreatedInTurns, RuntimesAreFound, ShutdownIsCancelled, teamVars
  <2> QED
    BY <2>1, <2>2, <2>3, <2>4 DEF TeamInv
<1>7. ASSUME NEW a \in Agents, DrainsMailbox(a)
      PROVE  TeamInv'
  BY <1>7, TeamRests DEF DrainsMailbox, teamVars
<1> QED
  BY <1>1, <1>2, <1>3, <1>4, <1>5, <1>6, <1>7 DEF ShutdownStep

LEMMA TeamStep == TeamInv /\ [Next]_vars => TeamInv'
<1> SUFFICES ASSUME TeamInv, [Next]_vars
             PROVE  TeamInv'
  OBVIOUS
<1> USE DEF Live, InTurn, Waiting
<1>0. TeamTypes /\ CreatedInTurns
  BY DEF TeamInv
<1>1. CASE UNCHANGED vars
  BY <1>1, TeamRests DEF vars, teamVars, shutdownVars
<1>2. CASE TurnBegins
  BY <1>0, <1>2 DEF TeamInv, TurnBegins, teamVars, shutdownVars, TeamTypes,
     CreatedInTurns, WorkersAreFound, RuntimesAreFound
<1>3. ASSUME NEW m \in Members, CreateStep(m)
      PROVE  TeamInv'
  BY <1>3, CreateKeepsTeam
<1>4. ASSUME NEW m \in Members, WorkerStep(m)
      PROVE  TeamInv'
  <2>1. worker[m] \in Live
    BY <1>4 DEF WorkerStep, TurnCompletes, TurnFails, LoopEnds, Waits, WakesUp,
       DrainRefused, Drains, Resumes, WorkerFails, WorkerIsCancelled
  <2>2. UNCHANGED <<creation, runtime, roster, shutdown, inTurn, toClose>>
    BY <1>4 DEF WorkerStep, TurnCompletes, TurnFails, LoopEnds, Waits, WakesUp,
       DrainRefused, Drains, Resumes, WorkerFails, WorkerIsCancelled, workerRest,
       shutdownVars
  <2>3. CASE Drains(m) /\ UNCHANGED worker
    BY <2>2, <2>3, TeamRests DEF Drains
  <2>4. CASE ~(Drains(m) /\ UNCHANGED worker)
    <3>1. \/ \E place \in Live : Goes(m, place) /\ UNCHANGED tracked
          \/ Ends(m)
      BY <1>4, <2>4 DEF WorkerStep, TurnCompletes, TurnFails, LoopEnds, Waits, WakesUp,
         DrainRefused, Drains, Resumes, WorkerFails, WorkerIsCancelled
    <3> QED
      BY <2>1, <2>2, <3>1, WorkerKeepsTeam
  <2> QED
    BY <2>3, <2>4
<1>5. ASSUME NEW m \in Members,
             SettlesItsTask(m) \/ ReceivesInTurn(m) \/ CancellationIsCleared(m)
      PROVE  TeamInv'
  BY <1>5, TeamRests DEF SettlesItsTask, ReceivesInTurn, CancellationIsCleared,
     workerRest, teamVars, shutdownVars
<1>6. ASSUME NEW k \in Messages,
             (\E to \in Agents : SendBegins(k, to)) \/ SendEnds(k) \/ SendFails(k)
      PROVE  TeamInv'
  BY <1>6, TeamRests DEF SendBegins, SendEnds, SendFails, teamVars, shutdownVars
<1>7. CASE LeadReceives
  BY <1>7, TeamRests DEF LeadReceives, teamVars, shutdownVars
<1>8. CASE ShutdownBegins \/ ShutdownStep \/ ShutdownIsCancelled
  BY <1>8, ShutdownKeepsTeam
<1> QED
  BY <1>1, <1>2, <1>3, <1>4, <1>5, <1>6, <1>7, <1>8 DEF Next

\* Nothing of a teammate outlives the team, however its creation, its worker, the
\* end of the turn and the shutdown interleave, for any number of teammates.
THEOREM NothingIsLeftBehind == WorkSpec => []NothingOutlivesTheTeam
<1>1. WorkInit => TeamInv
  BY TeamInit DEF WorkInit
<1>2. TeamInv /\ [WorkNext]_workVars => TeamInv'
  BY TeamStep, Moving
<1>3. TeamInv => NothingOutlivesTheTeam
  BY DEF TeamInv, WorkersAreFound, RuntimesAreFound, NothingOutlivesTheTeam
<1> QED
  BY <1>1, <1>2, <1>3, PTL DEF WorkSpec

-----------------------------------------------------------------------------
(* The mail of the team.                                                   *)

MessageStates ==
    [at : {"unsent", "sending", "mailbox", "held", "gone"}, to : Agents]
Place(where, a) == [at |-> where, to |-> a]

\* A sequence has each of the messages that are in a place, and has it once.
Line(sequence, states, where, a) ==
    /\ \A i, j \in DOMAIN sequence : i < j => sequence[i] # sequence[j]
    /\ \A i \in DOMAIN sequence : states[sequence[i]] = Place(where, a)
    /\ \A k \in Messages :
          states[k] = Place(where, a) => \E i \in DOMAIN sequence : sequence[i] = k

MailTypes ==
    /\ inbox \in [Agents -> Seq(Messages)]
    /\ held \in [Members -> Seq(Messages)]
    /\ message \in [Messages -> MessageStates]

MailInv ==
    /\ MailTypes
    /\ \A a \in Agents : Line(inbox[a], message, "mailbox", a)
    /\ \A m \in Members : Line(held[m], message, "held", m)

LEMMA MembersAreAgents == Members \subseteq Agents
  BY TeamsAssumption

LEMMA NobodyThere ==
    ASSUME NEW states, NEW where, NEW a,
           \A k \in Messages : states[k] # Place(where, a)
    PROVE  Line(<<>>, states, where, a)
  BY DEF Line

LEMMA LineKept ==
    ASSUME NEW sequence \in Seq(Messages), NEW before, NEW after, NEW where, NEW a,
           Line(sequence, before, where, a),
           \A k \in Messages :
               after[k] = Place(where, a) <=> before[k] = Place(where, a)
    PROVE  Line(sequence, after, where, a)
<1>1. \A i \in DOMAIN sequence : sequence[i] \in Messages
  OBVIOUS
<1> QED
  BY <1>1 DEF Line

LEMMA MailInit == Init => MailInv
<1> SUFFICES ASSUME Init PROVE MailInv
  OBVIOUS
<1>1. MailTypes
  BY TeamsAssumption DEF Init, BusInit, MailTypes, MessageStates
<1>2. \A k \in Messages : message[k].at = "unsent"
  BY DEF Init
<1>3. \A k \in Messages, a \in Agents :
          message[k] # Place("mailbox", a) /\ message[k] # Place("held", a)
  BY <1>2 DEF Place
<1>4. /\ \A a \in Agents : inbox[a] = <<>>
      /\ \A m \in Members : held[m] = <<>>
  BY DEF Init, BusInit
<1> QED
  BY <1>1, <1>3, <1>4, NobodyThere, MembersAreAgents DEF MailInv

\* What Places does with a whole line.
LEMMA LineMoves ==
    ASSUME MailTypes, NEW sequence \in Seq(Messages), NEW where, NEW a \in Agents,
           Line(sequence, message, where, a), NEW next,
           message' = Places(sequence, next)
    PROVE  /\ \A k \in Messages :
                  message'[k] = IF message[k] = Place(where, a) THEN Place(next, a)
                                ELSE message[k]
           /\ next \in {"unsent", "sending", "mailbox", "held", "gone"} =>
                  message' \in [Messages -> MessageStates]
<1>1. \A k \in Messages :
          (\E i \in DOMAIN sequence : sequence[i] = k) <=> message[k] = Place(where, a)
  BY DEF Line
<1>2. \A k \in Messages :
          message'[k] = IF message[k] = Place(where, a)
                        THEN [message[k] EXCEPT !.at = next] ELSE message[k]
  BY <1>1 DEF Places
<1>3. \A k \in Messages : message[k] = Place(where, a) =>
          [message[k] EXCEPT !.at = next] = Place(next, a)
  BY DEF Place
<1>4. message' = [k \in Messages |-> message'[k]]
  BY DEF Places
<1>5. \A k \in Messages :
          message'[k] = IF message[k] = Place(where, a) THEN Place(next, a)
                        ELSE message[k]
  BY <1>2, <1>3
<1>6. ASSUME next \in {"unsent", "sending", "mailbox", "held", "gone"},
             NEW k \in Messages
      PROVE  message'[k] \in MessageStates
  <2>1. message[k] \in MessageStates
    BY DEF MailTypes
  <2>2. Place(next, a) \in MessageStates
    BY <1>6 DEF MessageStates, Place
  <2> QED
    BY <1>5, <2>1, <2>2
<1> QED
  BY <1>4, <1>5, <1>6

\* A message that goes somewhere else is for whom it was.
LEMMA MessageMoves ==
    ASSUME MailTypes, NEW k \in Messages, NEW where, NEW next,
           message[k].at = where,
           message' = [message EXCEPT ![k].at = next]
    PROVE  /\ message[k].to \in Agents
           /\ message[k] = Place(where, message[k].to)
           /\ message' = [message EXCEPT ![k] = Place(next, message[k].to)]
<1>1. message[k] \in MessageStates
  BY DEF MailTypes
<1>2. PICK v \in {"unsent", "sending", "mailbox", "held", "gone"}, b \in Agents :
          message[k] = [at |-> v, to |-> b]
  BY <1>1 DEF MessageStates
<1>3. [message[k] EXCEPT !.at = next] = Place(next, message[k].to)
  BY <1>2 DEF Place
<1>4. message[k].to \in Agents /\ message[k] = Place(where, message[k].to)
  BY <1>2 DEF Place
<1>5. message' = [message EXCEPT ![k] = [message[k] EXCEPT !.at = next]]
  OBVIOUS
<1> QED
  BY <1>3, <1>4, <1>5

LEMMA PlacesDiffer ==
    \A v, w, a, b : Place(v, a) = Place(w, b) <=> v = w /\ a = b
  BY DEF Place

\* A mailbox is read, by whomever.
LEMMA MailboxIsRead ==
    ASSUME MailInv, NEW a \in Agents, TakeAll(a), message' = Places(inbox[a], "gone"),
           held' = held
    PROVE  MailInv'
<1>1. inbox[a] \in Seq(Messages) /\ Line(inbox[a], message, "mailbox", a)
  BY DEF MailInv, MailTypes
<1>2. /\ \A k \in Messages :
             message'[k] = IF message[k] = Place("mailbox", a) THEN Place("gone", a)
                           ELSE message[k]
      /\ message' \in [Messages -> MessageStates]
  BY <1>1, LineMoves DEF MailInv
<1>3. MailTypes'
  BY <1>2 DEF MailInv, MailTypes, TakeAll
<1>4. ASSUME NEW b \in Agents
      PROVE  Line(inbox'[b], message', "mailbox", b)
  <2>1. CASE b = a
    <3>1. inbox'[b] = <<>>
      BY <2>1 DEF MailInv, MailTypes, TakeAll
    <3>2. \A k \in Messages : message'[k] # Place("mailbox", b)
      BY <1>2, <2>1, PlacesDiffer
    <3> QED
      BY <3>1, <3>2, NobodyThere
  <2>2. CASE b # a
    <3>1. inbox'[b] = inbox[b] /\ inbox[b] \in Seq(Messages)
      BY <2>2 DEF MailInv, MailTypes, TakeAll
    <3>2. \A k \in Messages :
              message'[k] = Place("mailbox", b) <=> message[k] = Place("mailbox", b)
      BY <1>2, <2>2, PlacesDiffer
    <3> QED
      BY <3>1, <3>2, LineKept DEF MailInv
  <2> QED
    BY <2>1, <2>2
<1>5. ASSUME NEW m \in Members
      PROVE  Line(held'[m], message', "held", m)
  <2>1. \A k \in Messages :
            message'[k] = Place("held", m) <=> message[k] = Place("held", m)
    BY <1>2, PlacesDiffer
  <2>2. held[m] \in Seq(Messages) /\ Line(held[m], message, "held", m)
    BY DEF MailInv, MailTypes
  <2> QED
    BY <2>1, <2>2, LineKept
<1> QED
  BY <1>3, <1>4, <1>5 DEF MailInv

\* What a worker holds is told to its runtime, or lost with the worker.
LEMMA HandIsEmptied ==
    ASSUME MailInv, NEW m \in Members, held' = [held EXCEPT ![m] = <<>>],
           message' = Places(held[m], "gone"), inbox' = inbox
    PROVE  MailInv'
<1>0. m \in Agents
  BY MembersAreAgents
<1>1. held[m] \in Seq(Messages) /\ Line(held[m], message, "held", m)
  BY DEF MailInv, MailTypes
<1>2. /\ \A k \in Messages :
             message'[k] = IF message[k] = Place("held", m) THEN Place("gone", m)
                           ELSE message[k]
      /\ message' \in [Messages -> MessageStates]
  BY <1>0, <1>1, LineMoves DEF MailInv
<1>3. MailTypes'
  BY <1>2 DEF MailInv, MailTypes
<1>4. ASSUME NEW b \in Agents
      PROVE  Line(inbox'[b], message', "mailbox", b)
  <2>1. \A k \in Messages :
            message'[k] = Place("mailbox", b) <=> message[k] = Place("mailbox", b)
    BY <1>2, PlacesDiffer
  <2>2. inbox[b] \in Seq(Messages) /\ Line(inbox[b], message, "mailbox", b)
    BY DEF MailInv, MailTypes
  <2> QED
    BY <2>1, <2>2, LineKept
<1>5. ASSUME NEW n \in Members
      PROVE  Line(held'[n], message', "held", n)
  <2>1. CASE n = m
    <3>1. held'[n] = <<>>
      BY <2>1 DEF MailInv, MailTypes
    <3>2. \A k \in Messages : message'[k] # Place("held", n)
      BY <1>2, <2>1, PlacesDiffer
    <3> QED
      BY <3>1, <3>2, NobodyThere
  <2>2. CASE n # m
    <3>1. held'[n] = held[n] /\ held[n] \in Seq(Messages)
      BY <2>2 DEF MailInv, MailTypes
    <3>2. \A k \in Messages :
              message'[k] = Place("held", n) <=> message[k] = Place("held", n)
      BY <1>2, <2>2, PlacesDiffer
    <3> QED
      BY <3>1, <3>2, LineKept DEF MailInv
  <2> QED
    BY <2>1, <2>2
<1> QED
  BY <1>3, <1>4, <1>5 DEF MailInv

\* A worker takes its mailbox into its hand.
LEMMA MailboxIsTaken ==
    ASSUME MailInv, NEW m \in Members, held[m] = <<>>, TakeAll(m),
           held' = [held EXCEPT ![m] = inbox[m]], message' = Places(inbox[m], "held")
    PROVE  MailInv'
<1>0. m \in Agents
  BY MembersAreAgents
<1>1. inbox[m] \in Seq(Messages) /\ Line(inbox[m], message, "mailbox", m)
  BY <1>0 DEF MailInv, MailTypes
<1>2. /\ \A k \in Messages :
             message'[k] = IF message[k] = Place("mailbox", m) THEN Place("held", m)
                           ELSE message[k]
      /\ message' \in [Messages -> MessageStates]
  BY <1>0, <1>1, LineMoves DEF MailInv
<1>3. MailTypes'
  BY <1>0, <1>1, <1>2 DEF MailInv, MailTypes, TakeAll
<1>4. ASSUME NEW b \in Agents
      PROVE  Line(inbox'[b], message', "mailbox", b)
  <2>1. CASE b = m
    <3>1. inbox'[b] = <<>>
      BY <2>1 DEF MailInv, MailTypes, TakeAll
    <3>2. \A k \in Messages : message'[k] # Place("mailbox", b)
      BY <1>2, <2>1, PlacesDiffer
    <3> QED
      BY <3>1, <3>2, NobodyThere
  <2>2. CASE b # m
    <3>1. inbox'[b] = inbox[b] /\ inbox[b] \in Seq(Messages)
      BY <2>2 DEF MailInv, MailTypes, TakeAll
    <3>2. \A k \in Messages :
              message'[k] = Place("mailbox", b) <=> message[k] = Place("mailbox", b)
      BY <1>2, <2>2, PlacesDiffer
    <3> QED
      BY <3>1, <3>2, LineKept DEF MailInv
  <2> QED
    BY <2>1, <2>2
<1>5. ASSUME NEW n \in Members
      PROVE  Line(held'[n], message', "held", n)
  <2>1. CASE n = m
    <3>1. held'[n] = inbox[m]
      BY <2>1 DEF MailInv, MailTypes
    <3>2. \A k \in Messages : message[k] # Place("held", m)
      BY DEF MailInv, Line
    <3>3. \A k \in Messages :
              message'[k] = Place("held", m) <=> message[k] = Place("mailbox", m)
      BY <1>2, <3>2, PlacesDiffer
    <3>4. \A i \in DOMAIN inbox[m] : inbox[m][i] \in Messages
      BY <1>1
    <3> QED
      BY <1>1, <2>1, <3>1, <3>3, <3>4 DEF Line
  <2>2. CASE n # m
    <3>1. held'[n] = held[n] /\ held[n] \in Seq(Messages)
      BY <2>2 DEF MailInv, MailTypes
    <3>2. \A k \in Messages :
              message'[k] = Place("held", n) <=> message[k] = Place("held", n)
      BY <1>2, <2>2, PlacesDiffer
    <3> QED
      BY <3>1, <3>2, LineKept DEF MailInv
  <2> QED
    BY <2>1, <2>2
<1> QED
  BY <1>3, <1>4, <1>5 DEF MailInv

\* A message is on its way, or is lost on it.
LEMMA MailIsSent ==
    ASSUME MailInv, NEW k \in Messages, message[k].at \in {"unsent", "sending"},
           NEW where \in {"sending", "gone"}, NEW to \in Agents,
           message' = [message EXCEPT ![k] = Place(where, to)],
           UNCHANGED <<inbox, held>>
    PROVE  MailInv'
<1>1. MailTypes'
  BY DEF MailInv, MailTypes, MessageStates, Place
<1>2. \A i \in Messages, a \in Agents, w \in {"mailbox", "held"} :
          message'[i] = Place(w, a) <=> message[i] = Place(w, a)
  <2> TAKE i \in Messages, a \in Agents, w \in {"mailbox", "held"}
  <2>1. message[k] # Place(w, a)
    BY DEF Place
  <2>2. Place(where, to) # Place(w, a)
    BY PlacesDiffer
  <2> QED
    BY <2>1, <2>2 DEF MailInv, MailTypes
<1>3. \A a \in Agents : Line(inbox[a], message', "mailbox", a)
  <2> TAKE a \in Agents
  <2>1. inbox[a] \in Seq(Messages) /\ Line(inbox[a], message, "mailbox", a)
    BY DEF MailInv, MailTypes
  <2> QED
    BY <1>2, <2>1, LineKept
<1>4. \A m \in Members : Line(held[m], message', "held", m)
  <2> TAKE m \in Members
  <2>1. held[m] \in Seq(Messages) /\ Line(held[m], message, "held", m)
    BY DEF MailInv, MailTypes
  <2> QED
    BY <1>2, <2>1, LineKept, MembersAreAgents
<1> QED
  BY <1>1, <1>3, <1>4 DEF MailInv

LEMMA MailArrives ==
    ASSUME MailInv, NEW k \in Messages, SendEnds(k)
    PROVE  MailInv'
<1> DEFINE to == message[k].to
<1>1. /\ to \in Agents /\ message[k].at = "sending"
      /\ message' = [message EXCEPT ![k] = Place("mailbox", to)]
  BY MessageMoves DEF SendEnds, MailInv
<1>2. inbox' = [inbox EXCEPT ![to] = Append(@, k)] /\ held' = held
  BY DEF SendEnds, Post
<1> HIDE DEF to
<1>3. MailTypes'
  BY <1>1, <1>2 DEF MailInv, MailTypes, MessageStates, Place
<1>4. \A i \in Messages, a \in Agents, w \in {"mailbox", "held"} :
          message'[i] = Place(w, a) <=>
              message[i] = Place(w, a) \/ (i = k /\ w = "mailbox" /\ a = to)
  <2> TAKE i \in Messages, a \in Agents, w \in {"mailbox", "held"}
  <2>1. message[k] # Place(w, a)
    BY <1>1 DEF Place
  <2>2. message'[i] = IF i = k THEN Place("mailbox", to) ELSE message[i]
    BY <1>1 DEF MailInv, MailTypes
  <2> QED
    BY <2>1, <2>2, PlacesDiffer
<1>5. ASSUME NEW a \in Agents
      PROVE  Line(inbox'[a], message', "mailbox", a)
  <2>0. inbox[a] \in Seq(Messages) /\ Line(inbox[a], message, "mailbox", a)
    BY DEF MailInv, MailTypes
  <2>1. CASE a = to
    <3>1. inbox'[a] = Append(inbox[a], k)
      BY <1>2, <2>1 DEF MailInv, MailTypes
    <3>2. \A i \in DOMAIN inbox[a] : inbox[a][i] \in Messages /\ inbox[a][i] # k
      BY <1>1, <2>0 DEF Line, Place
    <3>3. /\ DOMAIN inbox'[a] = 1 .. Len(inbox[a]) + 1
          /\ DOMAIN inbox[a] = 1 .. Len(inbox[a]) /\ Len(inbox[a]) \in Nat
          /\ \A i \in 1 .. Len(inbox[a]) : inbox'[a][i] = inbox[a][i]
          /\ inbox'[a][Len(inbox[a]) + 1] = k
      BY <2>0, <3>1
    <3>4. \A i, j \in DOMAIN inbox'[a] : i < j => inbox'[a][i] # inbox'[a][j]
      BY <2>0, <3>2, <3>3 DEF Line
    <3>5. \A i \in DOMAIN inbox'[a] : message'[inbox'[a][i]] = Place("mailbox", a)
      BY <1>4, <2>0, <2>1, <3>2, <3>3 DEF Line
    <3>6. ASSUME NEW n \in Messages, message'[n] = Place("mailbox", a)
          PROVE  \E i \in DOMAIN inbox'[a] : inbox'[a][i] = n
      <4>1. CASE n = k
        BY <3>3, <4>1
      <4>2. CASE n # k
        <5>1. message[n] = Place("mailbox", a)
          BY <1>4, <3>6, <4>2
        <5>2. PICK i \in DOMAIN inbox[a] : inbox[a][i] = n
          BY <2>0, <5>1 DEF Line
        <5> QED
          BY <3>3, <5>2
      <4> QED
        BY <4>1, <4>2
    <3> QED
      BY <3>4, <3>5, <3>6 DEF Line
  <2>2. CASE a # to
    <3>1. inbox'[a] = inbox[a]
      BY <1>2, <2>2 DEF MailInv, MailTypes
    <3> QED
      BY <1>4, <2>0, <2>2, <3>1, LineKept
  <2> QED
    BY <2>1, <2>2
<1>6. ASSUME NEW m \in Members
      PROVE  Line(held'[m], message', "held", m)
  <2>1. held[m] \in Seq(Messages) /\ Line(held[m], message, "held", m)
    BY DEF MailInv, MailTypes
  <2> QED
    BY <1>2, <1>4, <2>1, LineKept, MembersAreAgents
<1> QED
  BY <1>3, <1>5, <1>6 DEF MailInv

LEMMA MailStep == MailInv /\ [Next]_vars => MailInv'
<1> SUFFICES ASSUME MailInv, [Next]_vars
             PROVE  MailInv'
  OBVIOUS
<1>1. CASE UNCHANGED <<inbox, held, message>>
  BY <1>1 DEF MailInv, MailTypes
<1>2. ASSUME NEW k \in Messages, NEW to \in Agents, SendBegins(k, to)
      PROVE  MailInv'
  BY <1>2, MailIsSent DEF SendBegins, Place
<1>3. ASSUME NEW k \in Messages, SendFails(k)
      PROVE  MailInv'
  <2>1. /\ message[k].to \in Agents
        /\ message' = [message EXCEPT ![k] = Place("gone", message[k].to)]
    BY <1>3, MessageMoves DEF SendFails, MailInv
  <2> QED
    BY <1>3, <2>1, MailIsSent DEF SendFails
<1>4. ASSUME NEW k \in Messages, SendEnds(k)
      PROVE  MailInv'
  BY <1>4, MailArrives
<1>5. CASE LeadReceives
  <2>1. Lead \in Agents
    BY TeamsAssumption
  <2> QED
    BY <1>5, <2>1, MailboxIsRead DEF LeadReceives
<1>6. ASSUME NEW m \in Members, ReceivesInTurn(m)
      PROVE  MailInv'
  BY <1>6, MailboxIsRead, MembersAreAgents DEF ReceivesInTurn
<1>7. ASSUME NEW a \in Agents, DrainsMailbox(a)
      PROVE  MailInv'
  BY <1>7, MailboxIsRead DEF DrainsMailbox
<1>8. ASSUME NEW m \in Members, Drains(m)
      PROVE  MailInv'
  BY <1>8, MailboxIsTaken DEF Drains
<1>9. ASSUME NEW m \in Members, Resumes(m) \/ WorkerIsCancelled(m)
      PROVE  MailInv'
  BY <1>9, HandIsEmptied DEF Resumes, WorkerIsCancelled
<1>10. ASSUME NEW m \in Members,
              \/ CreateStep(m) \/ SettlesItsTask(m) \/ CancellationIsCleared(m)
              \/ TurnCompletes(m) \/ TurnFails(m) \/ LoopEnds(m) \/ Waits(m)
              \/ WakesUp(m) \/ DrainRefused(m) \/ WorkerFails(m)
       PROVE  UNCHANGED <<inbox, held, message>>
  BY <1>10 DEF CreateStep, CreateBegins, Made, MakeFails, Assigned, AssignFails,
     CreateEnds, CreateIsCancelled, SettlesItsTask, CancellationIsCleared,
     TurnCompletes, TurnFails, LoopEnds, Waits, WakesUp, DrainRefused, WorkerFails
<1>11. ASSUME \/ TurnBegins \/ ShutdownBegins \/ Gathered
              \/ (\E m \in Members : ClosesRuntime(m))
              \/ StartsDraining \/ ShutdownEnds \/ ShutdownIsCancelled
              \/ UNCHANGED vars
       PROVE  UNCHANGED <<inbox, held, message>>
  BY <1>11 DEF TurnBegins, ShutdownBegins, Gathered, ClosesRuntime, StartsDraining,
     ShutdownEnds, ShutdownIsCancelled, vars
<1> QED
  BY <1>1, <1>2, <1>3, <1>4, <1>5, <1>6, <1>7, <1>8, <1>9, <1>10, <1>11
     DEF Next, WorkerStep, ShutdownStep

\* No message is read twice or lost from a mailbox, whoever reads it, for any
\* number of agents and messages.
THEOREM MailIsReadOnce == WorkSpec => []MessagesReadOnce
<1>1. WorkInit => MailInv
  BY MailInit DEF WorkInit
<1>2. MailInv /\ [WorkNext]_workVars => MailInv'
  BY MailStep, Moving
<1>3. MailInv => MessagesReadOnce
  <2> SUFFICES ASSUME MailInv, NEW m \in Members
               PROVE
        LET line == held[m] \o inbox[m] IN
        /\ \A i, j \in DOMAIN line : i < j => line[i] # line[j]
        /\ \A i \in DOMAIN line :
              message[line[i]] =
                 [at |-> IF i <= Len(held[m]) THEN "held" ELSE "mailbox", to |-> m]
        /\ \A k \in Messages :
              (message[k].to = m /\ message[k].at \in {"held", "mailbox"}) =>
                 \E i \in DOMAIN line : line[i] = k
    BY DEF MessagesReadOnce
  <2> DEFINE h == held[m]
             b == inbox[m]
             line == h \o b
  <2>1. /\ h \in Seq(Messages) /\ Line(h, message, "held", m)
        /\ b \in Seq(Messages) /\ Line(b, message, "mailbox", m)
    BY MembersAreAgents DEF MailInv, MailTypes
  <2> HIDE DEF h, b
  <2>2. /\ Len(h) \in Nat /\ Len(b) \in Nat
        /\ DOMAIN h = 1 .. Len(h) /\ DOMAIN b = 1 .. Len(b)
        /\ DOMAIN line = 1 .. Len(h) + Len(b)
        /\ \A i \in 1 .. Len(h) : line[i] = h[i]
        /\ \A i \in 1 .. Len(b) : line[Len(h) + i] = b[i]
    BY <2>1
  <2>3. \A i \in DOMAIN line :
            IF i <= Len(h) THEN i \in DOMAIN h /\ line[i] = h[i]
            ELSE i - Len(h) \in DOMAIN b /\ line[i] = b[i - Len(h)]
    <3> TAKE i \in DOMAIN line
    <3>1. CASE i <= Len(h)
      BY <2>2, <3>1
    <3>2. CASE ~(i <= Len(h))
      <4>1. i - Len(h) \in 1 .. Len(b) /\ Len(h) + (i - Len(h)) = i
        BY <2>2, <3>2
      <4> QED
        BY <2>2, <3>2, <4>1
    <3> QED
      BY <3>1, <3>2
  <2> HIDE DEF line
  <2>4. \A i \in DOMAIN line :
            message[line[i]] = Place(IF i <= Len(h) THEN "held" ELSE "mailbox", m)
    BY <2>1, <2>3 DEF Line
  <2>5. ASSUME NEW i \in DOMAIN line, NEW j \in DOMAIN line, i < j
        PROVE  line[i] # line[j]
    <3>1. CASE j <= Len(h)
      BY <2>1, <2>2, <2>3, <2>5, <3>1 DEF Line
    <3>2. CASE ~(i <= Len(h))
      <4>1. i - Len(h) < j - Len(h) /\ ~(j <= Len(h))
        BY <2>2, <2>5, <3>2
      <4> QED
        BY <2>1, <2>3, <3>2, <4>1 DEF Line
    <3>3. CASE i <= Len(h) /\ ~(j <= Len(h))
      BY <2>4, <3>3, PlacesDiffer
    <3> QED
      BY <2>2, <3>1, <3>2, <3>3
  <2>6. ASSUME NEW k \in Messages, message[k].to = m,
               message[k].at \in {"held", "mailbox"}
        PROVE  \E i \in DOMAIN line : line[i] = k
    <3>1. message[k] = Place("held", m) \/ message[k] = Place("mailbox", m)
      BY <2>6 DEF MailInv, MailTypes, MessageStates, Place
    <3>2. (\E i \in DOMAIN h : h[i] = k) \/ (\E i \in DOMAIN b : b[i] = k)
      BY <2>1, <3>1 DEF Line
    <3> QED
      BY <2>2, <3>2
  <2> QED
    BY <2>4, <2>5, <2>6 DEF line, h, b, Place
<1> QED
  BY <1>1, <1>2, <1>3, PTL DEF WorkSpec
-----------------------------------------------------------------------------
(* The memories.                                                           *)

Numbered == [Names -> Nat]

MemoryTypes ==
    /\ memoryRoot \in {"absent", "bare", "indexed"}
    /\ memories \in Numbered /\ memoryIndex \in Numbered
    /\ target \in Numbered /\ backup \in Numbered
    /\ left \subseteq Names
    /\ owed \in [Names -> SUBSET Nat]
    /\ memoryAt \in [Callers -> Memory!Places]
    /\ memorySeen \in [Callers -> Numbered \X Numbered]
    /\ how \in [Callers -> Memory!Tools \cup Memory!Jobs]
    /\ memoryVersions \in Nat

Working == {"locked", "moving", "undoing", "worked"}

\* Whoever works has the file lock, and is the only one.
OneWorks ==
    /\ memoryLock = {c \in Callers : memoryAt[c] \in Working}
    /\ \A c, d \in Callers :
          memoryAt[c] \in Working /\ memoryAt[d] \in Working => c = d

\* Nothing is half done.
Quiet == \A c \in Callers : memoryAt[c] \notin {"moving", "undoing"}

Kept ==
    /\ \A n \in Names : Memory!Current[n] \in owed[n]
    /\ (memoryRoot = "indexed" /\ ~torn) => memoryIndex = memories

\* Each file is what it was or what it is to be, and the user may find either; the
\* index still lists the former.
Underway ==
    /\ memoryRoot # "absent"
    /\ \A n \in Names :
          /\ memories[n] = IF n \in left THEN backup[n] ELSE target[n]
          /\ target[n] \in owed[n]
          /\ (IF memoryRoot = "indexed" THEN backup[n] ELSE 0) \in owed[n]
    /\ (memoryRoot = "indexed" /\ ~torn) => memoryIndex = backup

MemoryInv == MemoryTypes /\ OneWorks /\ IF Quiet THEN Kept ELSE Underway

LEMMA NothingNumbered == Memory!Nothing \in Numbered
  BY DEF Memory!Nothing, Numbered

LEMMA CurrentNumbered ==
    ASSUME MemoryTypes
    PROVE  Memory!Current \in Numbered
  BY NothingNumbered DEF MemoryTypes, Memory!Current

LEMMA MemoryBegins == Memory!Init => MemoryInv
<1> SUFFICES ASSUME Memory!Init PROVE MemoryInv
  OBVIOUS
<1>1. MemoryTypes
  BY NothingNumbered
  DEF Memory!Init, MemoryTypes, Memory!Places, Memory!Tools, Numbered
<1>2. OneWorks /\ Quiet
  BY DEF Memory!Init, OneWorks, Quiet, Working
<1>3. Kept
  BY DEF Memory!Init, Kept, Memory!Current, Memory!Nothing
<1> QED
  BY <1>1, <1>2, <1>3 DEF MemoryInv

\* What a caller is about is as well typed when it is forgotten.
LEMMA Forgotten ==
    ASSUME MemoryTypes, NEW gone, Memory!Forgets(gone)
    PROVE  /\ how' \in [Callers -> Memory!Tools \cup Memory!Jobs]
           /\ memorySeen' \in [Callers -> Numbered \X Numbered]
  BY NothingNumbered DEF MemoryTypes, Memory!Forgets, Memory!Tools

memoryDisk == <<memoryRoot, memories, memoryIndex, owed, torn>>
memoryWork == <<target, left, backup>>

\* A step that leaves the files, and whoever works on them, alone.
LEMMA MemoryRests ==
    ASSUME MemoryInv, UNCHANGED <<memoryDisk, memoryWork, memoryVersions, memoryLock>>,
           memoryAt' \in [Callers -> Memory!Places],
           how' \in [Callers -> Memory!Tools \cup Memory!Jobs],
           memorySeen' \in [Callers -> Numbered \X Numbered],
           \A c \in Callers :
               /\ memoryAt'[c] \in Working <=> memoryAt[c] \in Working
               /\ memoryAt'[c] \in {"moving", "undoing"} <=>
                      memoryAt[c] \in {"moving", "undoing"}
    PROVE  MemoryInv'
<1>1. MemoryTypes'
  BY DEF MemoryInv, MemoryTypes, memoryDisk, memoryWork
<1>2. OneWorks'
  BY DEF MemoryInv, OneWorks, memoryDisk, memoryWork
<1>3. Quiet' <=> Quiet
  BY DEF Quiet
<1>4. (Kept <=> Kept') /\ (Underway <=> Underway')
  BY DEF Kept, Underway, Memory!Current, Memory!Nothing, memoryDisk, memoryWork
<1> QED
  BY <1>1, <1>2, <1>3, <1>4 DEF MemoryInv

\* While one works, what holds of the files is what holds of its work.
LEMMA WhoeverWorks ==
    ASSUME MemoryInv, NEW c \in Callers, memoryAt[c] \in Working
    PROVE  /\ memoryLock = {c}
           /\ \A d \in Callers : memoryAt[d] \in Working => d = c
           /\ Quiet <=> memoryAt[c] \notin {"moving", "undoing"}
           /\ memoryAt[c] \in {"moving", "undoing"} => Underway
           /\ memoryAt[c] \notin {"moving", "undoing"} => Kept
  BY DEF MemoryInv, OneWorks, Quiet, Working

-----------------------------------------------------------------------------
\* The contents that a call wants are contents.
LEMMA WantedNumbered ==
    ASSUME MemoryTypes, NEW c \in Callers, NEW base \in Numbered,
           NEW wanted \in Memory!Wanted(c, base)
    PROVE  wanted \in Numbered
<1>1. CASE how[c] = "update"
  <2>1. PICK n \in Names : wanted = [base EXCEPT ![n] = memoryVersions + 1]
    BY <1>1 DEF Memory!Wanted
  <2> QED
    BY <2>1 DEF MemoryTypes, Numbered
<1>2. CASE how[c] = "extract"
  <2>1. PICK some \in SUBSET Names :
            wanted = [n \in Names |-> IF n \in some THEN memoryVersions + 1
                                      ELSE base[n]]
    BY <1>2 DEF Memory!Wanted
  <2> QED
    BY <2>1 DEF MemoryTypes, Numbered
<1>3. CASE how[c] = "delete"
  <2>1. PICK n \in Names : wanted = [base EXCEPT ![n] = 0]
    BY <1>3 DEF Memory!Wanted
  <2> QED
    BY <2>1 DEF MemoryTypes, Numbered
<1>4. CASE how[c] = "consolidate"
  <2>1. PICK drop \in SUBSET Names, merge \in SUBSET Names :
            wanted = [n \in Names |-> IF base[n] = 0 \/ n \in drop THEN 0 ELSE
                                      IF n \in merge THEN memoryVersions + 1
                                      ELSE base[n]]
    BY <1>4 DEF Memory!Wanted
  <2> QED
    BY <2>1 DEF MemoryTypes, Numbered
<1> QED
  BY <1>1, <1>2, <1>3, <1>4 DEF MemoryTypes, Memory!Tools, Memory!Jobs

LEMMA MemoryIsPlanned ==
    ASSUME MemoryInv, NEW c \in Callers, Memory!Plan(c)
    PROVE  MemoryInv'
<1> DEFINE base == IF how[c] = "consolidate" THEN memorySeen[c][2] ELSE Memory!Current
<1>1. base \in Numbered
  BY CurrentNumbered DEF MemoryInv, MemoryTypes
<1>2. Memory!Plans(c, base)
  BY DEF Memory!Plan
<1> HIDE DEF base
<1>3. memoryAt[c] = "locked" /\ target' \in Numbered /\ backup' = memories
  BY <1>1, <1>2, WantedNumbered DEF Memory!Plans, MemoryInv
<1>4. memoryVersions' \in Nat
  BY <1>2 DEF Memory!Plans, MemoryInv, MemoryTypes
<1>5. memoryLock' = memoryLock /\ how' = how /\ memorySeen' = memorySeen /\ torn' = torn
  BY <1>2 DEF Memory!Plans
<1>6. /\ Kept /\ \A d \in Callers : memoryAt[d] \in Working => d = c
      /\ memoryLock = {c}
  BY <1>3, WhoeverWorks DEF Working
<1>7. CASE memoryRoot = "absent"
  <2>1. /\ memories' = target' /\ memoryIndex' = target' /\ left' = {}
        /\ memoryRoot' = IF target' = Memory!Nothing THEN memoryRoot ELSE "indexed"
        /\ owed' = [n \in Names |-> {target'[n]}]
        /\ memoryAt' = [memoryAt EXCEPT ![c] = "worked"]
    BY <1>2, <1>7 DEF Memory!Plans
  <2>2. MemoryTypes'
    <3>1. owed' \in [Names -> SUBSET Nat]
      BY <1>3, <2>1 DEF Numbered
    <3> QED
      BY <1>3, <1>4, <1>5, <1>7, <2>1, <3>1
      DEF MemoryInv, MemoryTypes, Memory!Places
  <2>3. OneWorks' /\ Quiet'
    BY <1>3, <1>5, <1>6, <2>1 DEF MemoryInv, MemoryTypes, OneWorks, Quiet, Working
  <2>4. Kept'
    BY <1>3, <1>7, <2>1 DEF Kept, Memory!Current, Memory!Nothing, Numbered
  <2> QED
    BY <2>2, <2>3, <2>4 DEF MemoryInv
<1>8. CASE memoryRoot # "absent"
  <2>1. /\ memories' = memories /\ memoryIndex' = memoryIndex
        /\ memoryRoot' = memoryRoot
        /\ left' = {n \in Names : target'[n] # memories[n]}
        /\ owed' = [n \in Names |->
                      owed[n] \cup (IF n \in Memory!Decides(c) THEN {target'[n]}
                                    ELSE {})]
        /\ memoryAt' = [memoryAt EXCEPT ![c] = "moving"]
    BY <1>2, <1>8 DEF Memory!Plans
  <2>2. MemoryTypes'
    <3>1. owed' \in [Names -> SUBSET Nat]
      BY <1>3, <2>1 DEF Numbered, MemoryInv, MemoryTypes
    <3> QED
      BY <1>3, <1>4, <1>5, <1>8, <2>1, <3>1
      DEF MemoryInv, MemoryTypes, Memory!Places
  <2>3. OneWorks' /\ ~Quiet'
    BY <1>3, <1>5, <1>6, <2>1 DEF MemoryInv, MemoryTypes, OneWorks, Quiet, Working
  <2>4. ASSUME NEW n \in Names
        PROVE  /\ memories'[n] = IF n \in left' THEN backup'[n] ELSE target'[n]
               /\ target'[n] \in owed'[n]
               /\ (IF memoryRoot' = "indexed" THEN backup'[n] ELSE 0) \in owed'[n]
    <3>1. owed'[n] = owed[n] \cup (IF n \in Memory!Decides(c) THEN {target'[n]} ELSE {})
      BY <2>1
    <3>2. target'[n] \in owed'[n]
      <4>1. CASE how[c] = "consolidate"
        <5>1. memorySeen[c][2] = memories
          BY <4>1 DEF Memory!Plan
        <5> QED
          BY <3>1, <4>1, <5>1 DEF Memory!Decides
      <4>2. CASE how[c] # "consolidate" /\ target'[n] # Memory!Current[n]
        BY <3>1, <4>2 DEF Memory!Decides
      <4>3. CASE target'[n] = Memory!Current[n]
        BY <1>6, <3>1, <4>3 DEF Kept
      <4> QED
        BY <4>1, <4>2, <4>3
    <3>3. (IF memoryRoot' = "indexed" THEN backup'[n] ELSE 0) \in owed'[n]
      BY <1>3, <1>6, <2>1, <3>1 DEF Kept, Memory!Current, Memory!Nothing
    <3> QED
      BY <1>3, <2>1, <3>2, <3>3
  <2>5. Underway'
    BY <1>3, <1>5, <1>6, <1>8, <2>1, <2>4 DEF Underway, Kept
  <2> QED
    BY <2>2, <2>3, <2>5 DEF MemoryInv
<1> QED
  BY <1>7, <1>8

LEMMA MemoryMoves ==
    ASSUME MemoryInv, NEW c \in Callers, Memory!Move(c)
    PROVE  MemoryInv'
<1>1. Underway /\ ~Quiet
  BY WhoeverWorks DEF Memory!Move, Working
<1>2. PICK n \in left : /\ memories' = [memories EXCEPT ![n] = target[n]]
                        /\ left' = left \ {n}
  BY DEF Memory!Move
<1>3. n \in Names
  BY DEF MemoryInv, MemoryTypes
<1>4. MemoryTypes'
  <2>1. memories' \in Numbered
    BY <1>2, <1>3 DEF MemoryInv, MemoryTypes, Numbered
  <2> QED
    BY <1>2, <2>1 DEF MemoryInv, MemoryTypes, Memory!Move
<1>5. OneWorks' /\ ~Quiet'
  BY <1>1 DEF MemoryInv, OneWorks, Quiet, Memory!Move
<1>6. \A k \in Names : memories'[k] = IF k \in left' THEN backup[k] ELSE target[k]
  BY <1>1, <1>2, <1>3 DEF Underway, MemoryInv, MemoryTypes, Numbered
<1>7. Underway'
  BY <1>1, <1>6 DEF Underway, Memory!Move
<1> QED
  BY <1>4, <1>5, <1>7 DEF MemoryInv

LEMMA MemoryIsDone ==
    ASSUME MemoryInv, NEW c \in Callers, Memory!MoveIndex(c)
    PROVE  MemoryInv'
<1>1. /\ Underway /\ memoryAt[c] = "moving"
      /\ \A d \in Callers : memoryAt[d] \in Working => d = c
  BY WhoeverWorks DEF Memory!MoveIndex, Working
<1>2. memories = target
  BY <1>1 DEF Underway, Memory!MoveIndex, MemoryInv, MemoryTypes, Numbered
<1>3. MemoryTypes'
  <2>1. owed' \in [Names -> SUBSET Nat]
    BY DEF Memory!MoveIndex, MemoryInv, MemoryTypes, Numbered
  <2> QED
    BY <2>1 DEF Memory!MoveIndex, Memory!workVars, MemoryInv, MemoryTypes, Memory!Places
<1>4. OneWorks' /\ Quiet'
  BY <1>1 DEF MemoryInv, MemoryTypes, OneWorks, Quiet, Working, Memory!MoveIndex
<1>5. Kept'
  BY <1>1, <1>2 DEF Underway, Kept, Memory!MoveIndex, Memory!Current
<1> QED
  BY <1>3, <1>4, <1>5 DEF MemoryInv

LEMMA MemoryIsUndone ==
    ASSUME MemoryInv, NEW c \in Callers, Memory!Undo(c)
    PROVE  MemoryInv'
<1>1. /\ Underway /\ memoryAt[c] = "undoing"
      /\ \A d \in Callers : memoryAt[d] \in Working => d = c
  BY WhoeverWorks DEF Memory!Undo, Working
<1>2. MemoryTypes'
  <2>1. owed' \in [Names -> SUBSET Nat]
    BY DEF Memory!Undo, MemoryInv, MemoryTypes, Numbered
  <2> QED
    BY <2>1 DEF Memory!Undo, Memory!workVars, MemoryInv, MemoryTypes, Memory!Places
<1>3. OneWorks' /\ Quiet'
  BY <1>1 DEF MemoryInv, MemoryTypes, OneWorks, Quiet, Working, Memory!Undo
<1>4. \A n \in Names :
          Memory!Current'[n] = IF memoryRoot = "indexed" THEN backup[n] ELSE 0
  BY DEF Memory!Undo, Memory!Current, Memory!Nothing
<1>5. Kept'
  BY <1>1, <1>4 DEF Underway, Kept, Memory!Undo
<1> QED
  BY <1>2, <1>3, <1>5 DEF MemoryInv

\* Half undone, each file is one of the two that the user may find.
LEMMA HalfUndoneKept ==
    ASSUME MemoryInv, Underway, Memory!HalfUndone
    PROVE  /\ memories' \in Numbered
           /\ Kept'
<1>1. PICK back \in SUBSET Names :
          memories' = [n \in Names |-> IF n \in back THEN backup[n] ELSE memories[n]]
  BY DEF Memory!HalfUndone
<1>2. memories' \in Numbered
  BY <1>1 DEF MemoryInv, MemoryTypes, Numbered
<1>3. \A n \in Names : memories'[n] \in {backup[n], target[n]}
  BY <1>1 DEF Underway
<1>4. \A n \in Names : Memory!Current'[n] \in owed'[n]
  BY <1>3 DEF Underway, Memory!HalfUndone, Memory!Current, Memory!Nothing
<1> QED
  BY <1>2, <1>4 DEF Kept, Memory!HalfUndone

LEMMA MemoryIsLeftTorn ==
    ASSUME MemoryInv, NEW c \in Callers, Memory!UndoFails(c)
    PROVE  MemoryInv'
<1>1. /\ Underway /\ memoryAt[c] = "undoing"
      /\ \A d \in Callers : memoryAt[d] \in Working => d = c
  BY WhoeverWorks DEF Memory!UndoFails, Working
<1>2. memories' \in Numbered /\ Kept'
  BY <1>1, HalfUndoneKept DEF Memory!UndoFails
<1>3. MemoryTypes'
  BY <1>2 DEF Memory!UndoFails, Memory!HalfUndone, Memory!workVars, MemoryInv, MemoryTypes,
         Memory!Places
<1>4. OneWorks' /\ Quiet'
  BY <1>1 DEF MemoryInv, MemoryTypes, OneWorks, Quiet, Working, Memory!UndoFails
<1> QED
  BY <1>2, <1>3, <1>4 DEF MemoryInv

LEMMA MemoryReturns ==
    ASSUME MemoryInv, NEW c \in Callers, Memory!Return(c)
    PROVE  MemoryInv'
<1>1. /\ Kept /\ memoryAt[c] = "worked"
      /\ \A d \in Callers : memoryAt[d] \in Working => d = c
  BY WhoeverWorks DEF Memory!Return, Memory!Runs, Working
<1>2. MemoryTypes'
  BY Forgotten, NothingNumbered
  DEF Memory!Return, Memory!Runs, Memory!diskVars, MemoryInv, MemoryTypes, Memory!Places
<1>3. OneWorks' /\ Quiet'
  BY <1>1
  DEF MemoryInv, MemoryTypes, OneWorks, Quiet, Working, Memory!Return, Memory!Runs
<1>4. Kept'
  BY <1>1 DEF Kept, Memory!Return, Memory!diskVars, Memory!Current, Memory!Nothing
<1> QED
  BY <1>2, <1>3, <1>4 DEF MemoryInv

LEMMA MemoryIsLocked ==
    ASSUME MemoryInv, NEW c \in Callers, Memory!TakeLock(c)
    PROVE  MemoryInv'
<1>1. \A d \in Callers : memoryAt[d] \notin Working
  BY DEF MemoryInv, OneWorks, Memory!TakeLock
<1>2. Kept
  BY <1>1 DEF MemoryInv, Quiet, Working
<1>3. MemoryTypes'
  BY DEF MemoryInv, MemoryTypes, Memory!TakeLock, Memory!diskVars, Memory!workVars,
         Memory!Places
<1>4. OneWorks' /\ Quiet'
  BY <1>1 DEF MemoryInv, MemoryTypes, OneWorks, Quiet, Working, Memory!TakeLock
<1>5. Kept'
  BY <1>2 DEF Kept, Memory!TakeLock, Memory!diskVars, Memory!Current, Memory!Nothing
<1> QED
  BY <1>3, <1>4, <1>5 DEF MemoryInv

LEMMA MemoryCrashes ==
    ASSUME MemoryInv, NEW p, Memory!Crash(p)
    PROVE  MemoryInv'
<1> DEFINE gone == {c \in Callers : ProcessOf[c] = p}
<1>1. /\ memoryAt' = [c \in Callers |-> IF c \in gone THEN "idle" ELSE memoryAt[c]]
      /\ memoryLock' = memoryLock \ gone
      /\ memoryVersions' = memoryVersions
      /\ Memory!Forgets(gone)
      /\ IF memoryLock \subseteq gone
         THEN target' = Memory!Nothing /\ left' = {} /\ backup' = Memory!Nothing
         ELSE UNCHANGED memoryWork
      /\ UNCHANGED <<memoryRoot, memoryIndex, owed>>
  BY DEF Memory!Crash, Memory!HalfUndone, memoryWork, Memory!workVars
<1>2. /\ memoryAt' \in [Callers -> Memory!Places] /\ OneWorks'
      /\ \A c \in Callers : memoryAt'[c] = IF c \in gone THEN "idle" ELSE memoryAt[c]
  BY <1>1 DEF MemoryInv, MemoryTypes, OneWorks, Working, Memory!Places
<1>3. /\ target' \in Numbered /\ backup' \in Numbered /\ left' \subseteq Names
  BY <1>1, NothingNumbered DEF MemoryInv, MemoryTypes, memoryWork
<1>4. /\ how' \in [Callers -> Memory!Tools \cup Memory!Jobs]
      /\ memorySeen' \in [Callers -> Numbered \X Numbered]
  BY <1>1, Forgotten DEF MemoryInv
<1>5. CASE \E c \in gone : memoryAt[c] \in {"moving", "undoing"}
  <2>1. PICK c \in gone : memoryAt[c] \in {"moving", "undoing"}
    BY <1>5
  <2>2. /\ Underway
        /\ \A d \in Callers : memoryAt[d] \in Working => d = c
    BY <2>1, WhoeverWorks DEF Working
  <2>3. Quiet'
    BY <1>2, <2>1, <2>2 DEF Quiet, Working
  <2>4. memories' \in Numbered /\ Kept'
    <3>1. CASE \E d \in gone : memoryAt[d] = "undoing"
      <4>1. Memory!HalfUndone
        BY <3>1 DEF Memory!Crash
      <4> QED
        BY <2>2, <4>1, HalfUndoneKept
    <3>2. CASE ~\E d \in gone : memoryAt[d] = "undoing"
      <4>1. memories' = memories /\ torn' = TRUE
        BY <2>1, <3>2 DEF Memory!Crash
      <4>2. \A n \in Names : Memory!Current'[n] \in owed'[n]
        BY <1>1, <2>2, <4>1 DEF Underway, Memory!Current, Memory!Nothing
      <4> QED
        BY <4>1, <4>2 DEF Kept, MemoryInv, MemoryTypes
    <3> QED
      BY <3>1, <3>2
  <2>5. MemoryTypes'
    BY <1>1, <1>2, <1>3, <1>4, <2>4 DEF MemoryInv, MemoryTypes
  <2> QED
    BY <1>2, <2>3, <2>4, <2>5 DEF MemoryInv
<1>6. CASE ~\E c \in gone : memoryAt[c] \in {"moving", "undoing"}
  <2>1. memories' = memories /\ (torn' <=> torn)
    BY <1>6 DEF Memory!Crash
  <2>2. MemoryTypes'
    BY <1>1, <1>2, <1>3, <1>4, <2>1 DEF MemoryInv, MemoryTypes
  <2>3. CASE Quiet
    <3>1. Quiet'
      BY <1>2, <2>3 DEF Quiet
    <3>2. Kept'
      BY <1>1, <2>1, <2>3 DEF MemoryInv, Kept, Memory!Current, Memory!Nothing
    <3> QED
      BY <1>2, <2>2, <3>1, <3>2 DEF MemoryInv
  <2>4. CASE ~Quiet
    <3>1. PICK c \in Callers : memoryAt[c] \in {"moving", "undoing"}
      BY <2>4 DEF Quiet
    <3>2. c \notin gone
      BY <1>6, <3>1
    <3>3. Underway /\ memoryLock = {c}
      BY <3>1, WhoeverWorks DEF Working
    <3>4. UNCHANGED memoryWork
      BY <1>1, <3>2, <3>3
    <3>5. ~Quiet'
      BY <1>2, <3>1, <3>2 DEF Quiet
    <3>6. Underway'
      BY <1>1, <2>1, <3>3, <3>4 DEF Underway, memoryWork
    <3> QED
      BY <1>2, <2>2, <3>5, <3>6 DEF MemoryInv
  <2> QED
    BY <2>3, <2>4
<1> QED
  BY <1>5, <1>6

LEMMA MemoryStep == MemoryInv /\ [Memory!Next]_(Memory!vars) => MemoryInv'
<1> SUFFICES ASSUME MemoryInv, [Memory!Next]_(Memory!vars)
             PROVE  MemoryInv'
  OBVIOUS
<1>1. CASE UNCHANGED Memory!vars
  BY <1>1, MemoryRests DEF Memory!vars, memoryDisk, memoryWork, MemoryInv, MemoryTypes
<1>2. ASSUME NEW c \in Callers, Memory!Call(c)
      PROVE  MemoryInv'
  <2>1. memoryAt[c] = "idle" /\ UNCHANGED <<memoryDisk, memoryWork, memoryVersions, memoryLock>>
    BY <1>2 DEF Memory!Call, Memory!diskVars, Memory!workVars, memoryDisk, memoryWork
  <2>2. PICK what \in Memory!Tools \cup Memory!Jobs :
            /\ how' = [how EXCEPT ![c] = what]
            /\ memoryAt' = [memoryAt EXCEPT ![c] = IF what \in Memory!Tools
                                                   THEN "gating" ELSE "asking"]
            /\ \/ memorySeen' = [memorySeen EXCEPT ![c] = <<memoryIndex, memories>>]
               \/ memorySeen' = memorySeen
    BY <1>2 DEF Memory!Call
  <2>3. memoryAt' \in [Callers -> Memory!Places]
    BY <2>2 DEF MemoryInv, MemoryTypes, Memory!Places
  <2>4. /\ how' \in [Callers -> Memory!Tools \cup Memory!Jobs]
        /\ memorySeen' \in [Callers -> Numbered \X Numbered]
    BY <2>2 DEF MemoryInv, MemoryTypes
  <2>5. \A d \in Callers :
            /\ memoryAt'[d] \in Working <=> memoryAt[d] \in Working
            /\ memoryAt'[d] \in {"moving", "undoing"} <=>
                   memoryAt[d] \in {"moving", "undoing"}
    BY <2>1, <2>2 DEF MemoryInv, MemoryTypes, Working
  <2> QED
    BY <2>1, <2>3, <2>4, <2>5, MemoryRests
<1>3. ASSUME NEW c \in Callers,
             \/ Memory!Answered(c) \/ Memory!TakeGate(c) \/ Memory!AskLock(c)
             \/ Memory!Refused(c) \/ Memory!MoveFails(c)
      PROVE  MemoryInv'
  <2>1. UNCHANGED <<memoryDisk, memoryWork, memoryVersions, memoryLock, how, memorySeen>>
    BY <1>3 DEF Memory!Answered, Memory!TakeGate, Memory!AskLock, Memory!Refused,
                Memory!MoveFails, Memory!diskVars, Memory!workVars, memoryDisk, memoryWork
  <2>2. PICK to \in Memory!Places :
            /\ memoryAt' = [memoryAt EXCEPT ![c] = to]
            /\ memoryAt[c] \in Working <=> to \in Working
            /\ memoryAt[c] \in {"moving", "undoing"} <=> to \in {"moving", "undoing"}
    BY <1>3 DEF Memory!Answered, Memory!TakeGate, Memory!AskLock, Memory!Refused,
                Memory!MoveFails, Memory!Runs, Memory!Places, Working
  <2>3. memoryAt' \in [Callers -> Memory!Places]
    BY <2>2 DEF MemoryInv, MemoryTypes
  <2>4. \A d \in Callers :
            /\ memoryAt'[d] \in Working <=> memoryAt[d] \in Working
            /\ memoryAt'[d] \in {"moving", "undoing"} <=>
                   memoryAt[d] \in {"moving", "undoing"}
    BY <2>2 DEF MemoryInv, MemoryTypes
  <2> QED
    BY <2>1, <2>3, <2>4, MemoryRests DEF MemoryInv, MemoryTypes
<1>4. ASSUME NEW c \in Callers, Memory!Declined(c) \/ Memory!LockUnavailable(c)
      PROVE  MemoryInv'
  <2>1. /\ UNCHANGED <<memoryDisk, memoryWork, memoryVersions, memoryLock>>
        /\ Memory!Forgets({c})
    BY <1>4 DEF Memory!Declined, Memory!LockUnavailable, Memory!diskVars,
                Memory!workVars, memoryDisk, memoryWork
  <2>2. /\ memoryAt' = [memoryAt EXCEPT ![c] = "idle"]
        /\ memoryAt[c] \in {"asking", "locking"}
    BY <1>4 DEF Memory!Declined, Memory!LockUnavailable, Memory!Runs
  <2>3. memoryAt' \in [Callers -> Memory!Places]
    BY <2>2 DEF MemoryInv, MemoryTypes, Memory!Places
  <2>4. \A d \in Callers :
            /\ memoryAt'[d] \in Working <=> memoryAt[d] \in Working
            /\ memoryAt'[d] \in {"moving", "undoing"} <=>
                   memoryAt[d] \in {"moving", "undoing"}
    BY <2>2 DEF MemoryInv, MemoryTypes, Working
  <2> QED
    BY <2>1, <2>3, <2>4, Forgotten, MemoryRests DEF MemoryInv
<1>5. ASSUME NEW c \in Callers,
             \/ Memory!TakeLock(c) \/ Memory!Return(c) \/ Memory!Plan(c)
             \/ Memory!Move(c) \/ Memory!MoveIndex(c) \/ Memory!Undo(c)
             \/ Memory!UndoFails(c)
      PROVE  MemoryInv'
  BY <1>5, MemoryIsLocked, MemoryReturns, MemoryIsPlanned, MemoryMoves, MemoryIsDone,
     MemoryIsUndone, MemoryIsLeftTorn
<1>6. ASSUME NEW p \in Memory!Processes, Memory!Crash(p)
      PROVE  MemoryInv'
  BY <1>6, MemoryCrashes
<1> QED
  BY <1>1, <1>2, <1>3, <1>4, <1>5, <1>6 DEF Memory!Next

\* What was last written or deleted with success is what the user finds, or what an
\* attempt cut short was about to make of it, for any number of memories, callers
\* and processes, and however often they fail or crash.
THEOREM MemoriesEndure == WorkSpec => []MemoriesAreKept
<1>1. WorkInit => MemoryInv
  BY MemoryBegins DEF WorkInit
<1>2. MemoryInv /\ [WorkNext]_workVars => MemoryInv'
  BY MemoryStep, Moving
<1>3. MemoryInv => MemoriesAreKept
  BY DEF MemoryInv, OneWorks, Quiet, Working, Kept, MemoriesAreKept,
         Memory!MemoriesAreKept
<1> QED
  BY <1>1, <1>2, <1>3, PTL DEF WorkSpec
-----------------------------------------------------------------------------
(* The files.                                                              *)

FilesTypes ==
    /\ leads \in Directories \cup {"link", "nothing"}
    /\ content \in [Directories -> 0 .. MaxFileVersion + 1]     \* never cut off
    /\ leftovers \in [Directories -> SUBSET (FileCalls \X {"part", "whole"})]
    /\ fileAt \in [FileCalls -> Files!Open \cup {"idle", "matching", "done", "dead"}]
    /\ tool \in [FileCalls -> Files!Tools]
    /\ parentHeld \in [FileCalls -> Directories \cup {Files!NotOpen}]
    /\ readText \in [FileCalls -> 0 .. MaxFileVersion]
    /\ payload \in [FileCalls -> 0 .. MaxFileVersion]
    /\ replaced \in [FileCalls -> BOOLEAN]
    /\ outcome \in [FileCalls -> Files!Outcomes]
    /\ found \in [FileCalls -> 0 .. MaxFileVersion + 1]
    /\ fileVersions \in 0 .. MaxFileVersion

LeftIn(c, d) == \E t \in leftovers[d] : t[1] = c
HasLeft(c) == \E d \in Directories : LeftIn(c, d)

\* A call has a directory open while it works there.
HasOpen(c) ==
    fileAt[c] \in Files!Open \ {"parent"} => parentHeld[c] \in Directories

\* Its temporary file is in that directory and in no other, and is whole before
\* the rename; before it is created and after the rename there is none.
Leaves(c) ==
    /\ fileAt[c] \notin {"writing", "renaming", "cleaning", "done", "dead"} =>
           \A d \in Directories : ~LeftIn(c, d)
    /\ fileAt[c] \in {"writing", "renaming", "cleaning"} =>
           \A d \in Directories : LeftIn(c, d) => d = parentHeld[c]
    /\ fileAt[c] = "renaming" => <<c, "whole">> \in leftovers[parentHeld[c]]

Replaces(c) ==
    /\ fileAt[c] \notin {"settling", "done", "dead"} => ~replaced[c]
    /\ fileAt[c] = "settling" => replaced[c]

\* What it tells at its end is what has happened.
Tells(c) ==
    /\ outcome[c] # "none" => fileAt[c] = "done"
    /\ outcome[c] \in Files!Failures => ~replaced[c] /\ ~HasLeft(c)
    /\ outcome[c] = "changed" => replaced[c] /\ ~HasLeft(c)
    /\ outcome[c] = "unchanged" => ~replaced[c] /\ ~HasLeft(c) /\ found[c] = payload[c]
    /\ outcome[c] = "partial" => replaced[c] \/ HasLeft(c)
    /\ outcome[c] = "read" =>
           ~replaced[c] /\ ~HasLeft(c) /\ readText[c] \in Files!Versions

CallInv(c) == HasOpen(c) /\ Leaves(c) /\ Replaces(c) /\ Tells(c)

FilesInv == FilesTypes /\ \A c \in FileCalls : CallInv(c)

LEMMA FilesBegin == Files!Init => FilesInv
<1> SUFFICES ASSUME Files!Init PROVE FilesInv
  OBVIOUS
<1>1. content \in [Directories -> 0 .. MaxFileVersion + 1]
  BY VersionAssumption DEF Files!Init, Files!None
<1>2. FilesTypes
  BY <1>1, VersionAssumption
  DEF Files!Init, Files!None, Files!Tools, Files!Outcomes, FilesTypes
<1>3. ASSUME NEW c \in FileCalls PROVE CallInv(c)
  <2>1. fileAt[c] = "idle" /\ ~replaced[c] /\ outcome[c] = "none"
    BY DEF Files!Init
  <2>2. \A d \in Directories : ~LeftIn(c, d)
    BY DEF Files!Init, LeftIn
  <2> QED
    BY <2>1, <2>2
    DEF CallInv, HasOpen, Leaves, Replaces, Tells, Files!Open, Files!Failures
<1> QED
  BY <1>2, <1>3 DEF FilesInv

\* A step has nothing to do with a call.
SameCall(c) ==
    /\ fileAt'[c] = fileAt[c] /\ parentHeld'[c] = parentHeld[c]
    /\ readText'[c] = readText[c] /\ payload'[c] = payload[c]
    /\ replaced'[c] = replaced[c] /\ outcome'[c] = outcome[c]
    /\ found'[c] = found[c]
    /\ \A d \in Directories, t \in FileCalls \X {"part", "whole"} :
          t[1] = c => (t \in leftovers'[d] <=> t \in leftovers[d])

LEMMA SameCallKept ==
    ASSUME FilesInv, FilesTypes', NEW c \in FileCalls, SameCall(c)
    PROVE  CallInv(c)'
<1>1. \A d \in Directories : LeftIn(c, d)' <=> LeftIn(c, d)
  BY DEF FilesInv, FilesTypes, SameCall, LeftIn
<1>2. HasLeft(c)' <=> HasLeft(c)
  BY <1>1 DEF HasLeft
<1>3. HasOpen(c)'
  BY DEF FilesInv, CallInv, HasOpen, SameCall
<1>4. Leaves(c)'
  <2>1. fileAt[c] = "renaming" => parentHeld[c] \in Directories
    BY DEF FilesInv, CallInv, HasOpen, Files!Open
  <2> QED
    BY <1>1, <2>1 DEF FilesInv, CallInv, Leaves, SameCall
<1>5. Replaces(c)'
  BY DEF FilesInv, CallInv, Replaces, SameCall
<1>6. Tells(c)'
  BY <1>2 DEF FilesInv, CallInv, Tells, SameCall
<1> QED
  BY <1>3, <1>4, <1>5, <1>6 DEF CallInv

LEMMA OneCallMoves ==
    ASSUME FilesInv, FilesTypes', NEW c \in FileCalls, CallInv(c)',
           \A d \in FileCalls \ {c} : SameCall(d)
    PROVE  FilesInv'
  BY SameCallKept DEF FilesInv

\* The temporary files of the other calls stay as they are.
OthersLeave(c) ==
    \A d \in Directories, t \in FileCalls \X {"part", "whole"} :
        t[1] # c => (t \in leftovers'[d] <=> t \in leftovers[d])

\* A call's temporary file is created, written or removed.
LEMMA TemporaryIsOwn ==
    ASSUME FilesTypes, NEW c \in FileCalls, parentHeld[c] \in Directories,
           NEW state \in {"part", "whole", "gone"}, Files!Temporary(c, state)
    PROVE  /\ leftovers' \in [Directories -> SUBSET (FileCalls \X {"part", "whole"})]
           /\ OthersLeave(c)
           /\ \A d \in Directories \ {parentHeld[c]} : LeftIn(c, d)' <=> LeftIn(c, d)
           /\ state = "gone" =>
                 \A d \in Directories : d = parentHeld[c] => ~LeftIn(c, d)'
           /\ state # "gone" => <<c, state>> \in leftovers'[parentHeld[c]]
<1> DEFINE own == IF state = "gone" THEN {} ELSE {<<c, state>>}
           there == {t \in leftovers[parentHeld[c]] : t[1] # c} \cup own
<1>1. leftovers' = [leftovers EXCEPT ![parentHeld[c]] = there]
  BY DEF Files!Temporary
<1>2. own \subseteq FileCalls \X {"part", "whole"} /\ \A t \in own : t[1] = c
  OBVIOUS
<1>3. there \subseteq FileCalls \X {"part", "whole"}
  BY <1>2 DEF FilesTypes
<1>4. leftovers' \in [Directories -> SUBSET (FileCalls \X {"part", "whole"})]
  BY <1>1, <1>3 DEF FilesTypes
<1>5. /\ leftovers'[parentHeld[c]] = there
      /\ \A d \in Directories \ {parentHeld[c]} : leftovers'[d] = leftovers[d]
  BY <1>1 DEF FilesTypes
<1>6. OthersLeave(c)
  BY <1>2, <1>5 DEF OthersLeave
<1>7. \A d \in Directories \ {parentHeld[c]} : LeftIn(c, d)' <=> LeftIn(c, d)
  <2> TAKE d \in Directories \ {parentHeld[c]}
  <2> QED
    BY <1>5 DEF LeftIn
<1>8. ASSUME state = "gone", NEW d \in Directories, d = parentHeld[c]
      PROVE  ~LeftIn(c, d)'
  <2>1. leftovers'[d] = {t \in leftovers[d] : t[1] # c}
    BY <1>5, <1>8
  <2> QED
    BY <2>1 DEF LeftIn
<1>9. state # "gone" => <<c, state>> \in leftovers'[parentHeld[c]]
  BY <1>5
<1> QED
  BY <1>4, <1>6, <1>7, <1>8, <1>9

\* A step that leaves every temporary file alone.
LEMMA LeftStays ==
    ASSUME leftovers' = leftovers, NEW c
    PROVE  /\ \A d \in Directories : LeftIn(c, d)' <=> LeftIn(c, d)
           /\ HasLeft(c)' <=> HasLeft(c)
  BY DEF LeftIn, HasLeft

\* Where a call has no temporary file.
LEMMA NoneLeft ==
    ASSUME NEW c, Leaves(c),
           fileAt[c] \notin {"writing", "renaming", "cleaning", "done", "dead"}
    PROVE  ~HasLeft(c)
  BY DEF Leaves, HasLeft

-----------------------------------------------------------------------------
\* What a call does before it writes, and at its end.
LEMMA CallStep ==
    ASSUME FilesInv, NEW c \in FileCalls,
           \/ Files!Call(c) \/ Files!OpenParent(c) \/ Files!ParentDenied(c) \/ Files!Read(c)
           \/ Files!LookDenied(c) \/ Files!LookFails(c) \/ Files!NoMatch(c) \/ Files!Match(c)
           \/ Files!Unchanged(c) \/ Files!Differs(c) \/ Files!Settle(c) \/ Files!SettleFails(c)
           \/ Files!WriteFails(c) \/ Files!CleanUpFails(c)
    PROVE  FilesInv'
<1> USE DEF Files!Open, Files!Tools, Files!Outcomes, Files!NotOpen
<1>0. FilesTypes /\ CallInv(c)
  BY DEF FilesInv
<1>1. CASE Files!Call(c)
  <2>0. leftovers' = leftovers
    BY <1>1 DEF Files!Call, Files!diskVars
  <2>1. FilesTypes'
    BY <1>0, <1>1, VersionAssumption
    DEF FilesTypes, Files!Call, Files!Goes, Files!Versions, Files!diskVars
  <2>2. CallInv(c)'
    BY <1>0, <1>1, <2>0, LeftStays
    DEF FilesTypes, CallInv, HasOpen, Leaves, Replaces, Tells, Files!Call, Files!Goes,
        Files!Versions, Files!diskVars
  <2>3. \A d \in FileCalls \ {c} : SameCall(d)
    BY <1>0, <1>1, <2>0
    DEF FilesTypes, SameCall, Files!Call, Files!Goes, Files!Versions, Files!diskVars
  <2> QED
    BY <2>1, <2>2, <2>3, OneCallMoves
<1>2. CASE Files!OpenParent(c)
  <2>0. leftovers' = leftovers
    BY <1>2 DEF Files!OpenParent, Files!diskVars
  <2>1. FilesTypes'
    BY <1>0, <1>2, VersionAssumption
    DEF FilesTypes, Files!OpenParent, Files!Goes, Files!diskVars
  <2>2. CallInv(c)'
    BY <1>0, <1>2, <2>0, LeftStays
    DEF FilesTypes, CallInv, HasOpen, Leaves, Replaces, Tells, Files!OpenParent,
        Files!Goes, Files!diskVars
  <2>3. \A d \in FileCalls \ {c} : SameCall(d)
    BY <1>0, <1>2, <2>0
    DEF FilesTypes, SameCall, Files!OpenParent, Files!Goes, Files!diskVars
  <2> QED
    BY <2>1, <2>2, <2>3, OneCallMoves
<1>3. CASE Files!ParentDenied(c)
  <2>0. leftovers' = leftovers
    BY <1>3 DEF Files!ParentDenied, Files!diskVars
  <2>1. FilesTypes'
    BY <1>0, <1>3, VersionAssumption
    DEF FilesTypes, Files!ParentDenied, Files!Ends, Files!Goes, Files!diskVars,
        Files!Failures
  <2>2. CallInv(c)'
    <3>1. HasOpen(c)'
      BY <1>0, <1>3, <2>0, LeftStays, NoneLeft
      DEF FilesTypes, CallInv, HasOpen, Files!ParentDenied, Files!Ends, Files!Goes,
          Files!diskVars, Files!Failures
    <3>2. Leaves(c)'
      BY <1>0, <1>3, <2>0, LeftStays, NoneLeft
      DEF FilesTypes, CallInv, Leaves, Files!ParentDenied, Files!Ends, Files!Goes,
          Files!diskVars, Files!Failures
    <3>3. Replaces(c)'
      BY <1>0, <1>3, <2>0, LeftStays, NoneLeft
      DEF FilesTypes, CallInv, Replaces, Files!ParentDenied, Files!Ends, Files!Goes,
          Files!diskVars, Files!Failures
    <3>4. Tells(c)'
      <4>1. fileAt'[c] = "done" /\ outcome'[c] \in Files!Failures
        BY <1>0, <1>3, <2>0, <2>1
        DEF FilesTypes, Files!ParentDenied, Files!Ends, Files!Goes, Files!diskVars,
            Files!Failures
      <4>2. ~replaced'[c]
        BY <1>0, <1>3 DEF CallInv, Replaces, Files!ParentDenied, Files!Ends, Files!Goes
      <4>3. ~HasLeft(c)'
        BY <1>0, <1>3, <2>0, LeftStays, NoneLeft
        DEF CallInv, Files!ParentDenied, Files!Ends, Files!Goes
      <4> QED
        BY <4>1, <4>2, <4>3 DEF Tells, Files!Failures
    <3> QED
      BY <3>1, <3>2, <3>3, <3>4 DEF CallInv
  <2>3. \A d \in FileCalls \ {c} : SameCall(d)
    BY <1>0, <1>3, <2>0
    DEF FilesTypes, SameCall, Files!ParentDenied, Files!Ends, Files!Goes,
        Files!diskVars, Files!Failures
  <2> QED
    BY <2>1, <2>2, <2>3, OneCallMoves
<1>4. CASE Files!Read(c)
  <2>0. leftovers' = leftovers
    BY <1>4 DEF Files!Read, Files!diskVars
  <2>1. FilesTypes'
    BY <1>0, <1>4, VersionAssumption
    DEF FilesTypes, CallInv, HasOpen, Files!Read, Files!Ends, Files!Goes, Files!Here,
        Files!Versions, Files!Cut, Files!diskVars, Files!Failures, Files!None
  <2>2. CallInv(c)'
    <3>1. HasOpen(c)'
      BY <1>0, <1>4, <2>0, LeftStays, NoneLeft
      DEF FilesTypes, CallInv, HasOpen, Files!Read, Files!Ends, Files!Goes, Files!Here,
          Files!Versions, Files!Cut, Files!diskVars, Files!Failures, Files!None
    <3>2. Leaves(c)'
      BY <1>0, <1>4, <2>0, LeftStays, NoneLeft
      DEF FilesTypes, CallInv, Leaves, Files!Read, Files!Ends, Files!Goes, Files!Here,
          Files!Versions, Files!Cut, Files!diskVars, Files!Failures, Files!None
    <3>3. Replaces(c)'
      BY <1>0, <1>4, <2>0, LeftStays, NoneLeft
      DEF FilesTypes, CallInv, Replaces, Files!Read, Files!Ends, Files!Goes, Files!Here,
          Files!Versions, Files!Cut, Files!diskVars, Files!Failures, Files!None
    <3>4. Tells(c)'
      <4>1. CASE tool[c] = "read"
        <5>1. outcome'[c] = "read" /\ fileAt'[c] = "done" /\ readText'[c] \in Files!Versions
          BY <1>0, <1>4, <4>1, VersionAssumption
          DEF FilesTypes, CallInv, HasOpen, Files!Read, Files!Ends, Files!Goes, Files!Here, Files!Versions, Files!Cut, Files!diskVars, Files!Failures, Files!None
        <5>2. ~replaced'[c] /\ ~HasLeft(c)'
          BY <1>0, <1>4, <2>0, LeftStays, NoneLeft
          DEF CallInv, Replaces, Files!Read, Files!Ends, Files!Goes, Files!Here, Files!Versions, Files!Cut, Files!diskVars, Files!Failures, Files!None
        <5> QED
          BY <5>1, <5>2 DEF Tells, Files!Failures
      <4>2. CASE tool[c] # "read"
        <5>1. outcome'[c] = "none"
          BY <1>0, <1>4, <4>2 DEF CallInv, Tells, Files!Read, Files!Goes
        <5> QED
          BY <5>1 DEF Tells, Files!Failures
      <4> QED
        BY <4>1, <4>2
    <3> QED
      BY <3>1, <3>2, <3>3, <3>4 DEF CallInv
  <2>3. \A d \in FileCalls \ {c} : SameCall(d)
    BY <1>0, <1>4, <2>0
    DEF FilesTypes, SameCall, Files!Read, Files!Ends, Files!Goes, Files!Here,
        Files!Versions, Files!Cut, Files!diskVars, Files!Failures, Files!None
  <2> QED
    BY <2>1, <2>2, <2>3, OneCallMoves
<1>5. CASE Files!LookDenied(c)
  <2>0. leftovers' = leftovers
    BY <1>5 DEF Files!LookDenied, Files!diskVars
  <2>1. FilesTypes'
    BY <1>0, <1>5, VersionAssumption
    DEF FilesTypes, Files!LookDenied, Files!Ends, Files!Goes, Files!diskVars,
        Files!Failures
  <2>2. CallInv(c)'
    <3>1. HasOpen(c)'
      BY <1>0, <1>5, <2>0, LeftStays, NoneLeft
      DEF FilesTypes, CallInv, HasOpen, Files!LookDenied, Files!Ends, Files!Goes,
          Files!diskVars, Files!Failures
    <3>2. Leaves(c)'
      BY <1>0, <1>5, <2>0, LeftStays, NoneLeft
      DEF FilesTypes, CallInv, Leaves, Files!LookDenied, Files!Ends, Files!Goes,
          Files!diskVars, Files!Failures
    <3>3. Replaces(c)'
      BY <1>0, <1>5, <2>0, LeftStays, NoneLeft
      DEF FilesTypes, CallInv, Replaces, Files!LookDenied, Files!Ends, Files!Goes,
          Files!diskVars, Files!Failures
    <3>4. Tells(c)'
      <4>1. fileAt'[c] = "done" /\ outcome'[c] \in Files!Failures
        BY <1>0, <1>5, <2>0, <2>1
        DEF FilesTypes, Files!LookDenied, Files!Ends, Files!Goes, Files!diskVars,
            Files!Failures
      <4>2. ~replaced'[c]
        BY <1>0, <1>5 DEF CallInv, Replaces, Files!LookDenied, Files!Ends, Files!Goes
      <4>3. ~HasLeft(c)'
        BY <1>0, <1>5, <2>0, LeftStays, NoneLeft
        DEF CallInv, Files!LookDenied, Files!Ends, Files!Goes
      <4> QED
        BY <4>1, <4>2, <4>3 DEF Tells, Files!Failures
    <3> QED
      BY <3>1, <3>2, <3>3, <3>4 DEF CallInv
  <2>3. \A d \in FileCalls \ {c} : SameCall(d)
    BY <1>0, <1>5, <2>0
    DEF FilesTypes, SameCall, Files!LookDenied, Files!Ends, Files!Goes, Files!diskVars,
        Files!Failures
  <2> QED
    BY <2>1, <2>2, <2>3, OneCallMoves
<1>6. CASE Files!LookFails(c)
  <2>0. leftovers' = leftovers
    BY <1>6 DEF Files!LookFails, Files!diskVars
  <2>1. FilesTypes'
    BY <1>0, <1>6, VersionAssumption
    DEF FilesTypes, Files!LookFails, Files!Ends, Files!Goes, Files!diskVars,
        Files!Failures
  <2>2. CallInv(c)'
    <3>1. HasOpen(c)'
      BY <1>0, <1>6, <2>0, LeftStays, NoneLeft
      DEF FilesTypes, CallInv, HasOpen, Files!LookFails, Files!Ends, Files!Goes,
          Files!diskVars, Files!Failures
    <3>2. Leaves(c)'
      BY <1>0, <1>6, <2>0, LeftStays, NoneLeft
      DEF FilesTypes, CallInv, Leaves, Files!LookFails, Files!Ends, Files!Goes,
          Files!diskVars, Files!Failures
    <3>3. Replaces(c)'
      BY <1>0, <1>6, <2>0, LeftStays, NoneLeft
      DEF FilesTypes, CallInv, Replaces, Files!LookFails, Files!Ends, Files!Goes,
          Files!diskVars, Files!Failures
    <3>4. Tells(c)'
      <4>1. fileAt'[c] = "done" /\ outcome'[c] \in Files!Failures
        BY <1>0, <1>6, <2>0, <2>1
        DEF FilesTypes, Files!LookFails, Files!Ends, Files!Goes, Files!diskVars,
            Files!Failures
      <4>2. ~replaced'[c]
        BY <1>0, <1>6 DEF CallInv, Replaces, Files!LookFails, Files!Ends, Files!Goes
      <4>3. ~HasLeft(c)'
        BY <1>0, <1>6, <2>0, LeftStays, NoneLeft
        DEF CallInv, Files!LookFails, Files!Ends, Files!Goes
      <4> QED
        BY <4>1, <4>2, <4>3 DEF Tells, Files!Failures
    <3> QED
      BY <3>1, <3>2, <3>3, <3>4 DEF CallInv
  <2>3. \A d \in FileCalls \ {c} : SameCall(d)
    BY <1>0, <1>6, <2>0
    DEF FilesTypes, SameCall, Files!LookFails, Files!Ends, Files!Goes, Files!diskVars,
        Files!Failures
  <2> QED
    BY <2>1, <2>2, <2>3, OneCallMoves
<1>7. CASE Files!NoMatch(c)
  <2>0. leftovers' = leftovers
    BY <1>7 DEF Files!NoMatch, Files!diskVars
  <2>1. FilesTypes'
    BY <1>0, <1>7, VersionAssumption
    DEF FilesTypes, Files!NoMatch, Files!Ends, Files!Goes, Files!diskVars,
        Files!Failures
  <2>2. CallInv(c)'
    <3>1. HasOpen(c)'
      BY <1>0, <1>7, <2>0, LeftStays, NoneLeft
      DEF FilesTypes, CallInv, HasOpen, Files!NoMatch, Files!Ends, Files!Goes,
          Files!diskVars, Files!Failures
    <3>2. Leaves(c)'
      BY <1>0, <1>7, <2>0, LeftStays, NoneLeft
      DEF FilesTypes, CallInv, Leaves, Files!NoMatch, Files!Ends, Files!Goes,
          Files!diskVars, Files!Failures
    <3>3. Replaces(c)'
      BY <1>0, <1>7, <2>0, LeftStays, NoneLeft
      DEF FilesTypes, CallInv, Replaces, Files!NoMatch, Files!Ends, Files!Goes,
          Files!diskVars, Files!Failures
    <3>4. Tells(c)'
      <4>1. fileAt'[c] = "done" /\ outcome'[c] \in Files!Failures
        BY <1>0, <1>7, <2>0, <2>1
        DEF FilesTypes, Files!NoMatch, Files!Ends, Files!Goes, Files!diskVars,
            Files!Failures
      <4>2. ~replaced'[c]
        BY <1>0, <1>7 DEF CallInv, Replaces, Files!NoMatch, Files!Ends, Files!Goes
      <4>3. ~HasLeft(c)'
        BY <1>0, <1>7, <2>0, LeftStays, NoneLeft
        DEF CallInv, Files!NoMatch, Files!Ends, Files!Goes
      <4> QED
        BY <4>1, <4>2, <4>3 DEF Tells, Files!Failures
    <3> QED
      BY <3>1, <3>2, <3>3, <3>4 DEF CallInv
  <2>3. \A d \in FileCalls \ {c} : SameCall(d)
    BY <1>0, <1>7, <2>0
    DEF FilesTypes, SameCall, Files!NoMatch, Files!Ends, Files!Goes, Files!diskVars,
        Files!Failures
  <2> QED
    BY <2>1, <2>2, <2>3, OneCallMoves
<1>8. CASE Files!Match(c)
  <2>0. leftovers' = leftovers
    BY <1>8 DEF Files!Match, Files!diskVars
  <2>1. FilesTypes'
    BY <1>0, <1>8, VersionAssumption
    DEF FilesTypes, Files!Match, Files!Goes, Files!diskVars
  <2>2. CallInv(c)'
    <3>1. HasOpen(c)'
      BY <1>0, <1>8, <2>0, LeftStays, NoneLeft
      DEF FilesTypes, CallInv, HasOpen, Files!Match, Files!Goes, Files!diskVars
    <3>2. Leaves(c)'
      BY <1>0, <1>8, <2>0, LeftStays, NoneLeft
      DEF FilesTypes, CallInv, Leaves, Files!Match, Files!Goes, Files!diskVars
    <3>3. Replaces(c)'
      BY <1>0, <1>8, <2>0, LeftStays, NoneLeft
      DEF FilesTypes, CallInv, Replaces, Files!Match, Files!Goes, Files!diskVars
    <3>4. Tells(c)'
      BY <1>0, <1>8, <2>0, LeftStays, NoneLeft
      DEF FilesTypes, CallInv, Tells, Files!Match, Files!Goes, Files!diskVars
    <3> QED
      BY <3>1, <3>2, <3>3, <3>4 DEF CallInv
  <2>3. \A d \in FileCalls \ {c} : SameCall(d)
    BY <1>0, <1>8, <2>0
    DEF FilesTypes, SameCall, Files!Match, Files!Goes, Files!diskVars
  <2> QED
    BY <2>1, <2>2, <2>3, OneCallMoves
<1>9. CASE Files!Unchanged(c)
  <2>0. leftovers' = leftovers
    BY <1>9 DEF Files!Unchanged, Files!diskVars
  <2>1. FilesTypes'
    BY <1>0, <1>9, VersionAssumption
    DEF FilesTypes, CallInv, HasOpen, Files!Unchanged, Files!Ends, Files!Goes,
        Files!Here, Files!diskVars, Files!Failures
  <2>2. CallInv(c)'
    <3>1. HasOpen(c)'
      BY <1>0, <1>9, <2>0, LeftStays, NoneLeft
      DEF FilesTypes, CallInv, HasOpen, Files!Unchanged, Files!Ends, Files!Goes,
          Files!Here, Files!diskVars, Files!Failures
    <3>2. Leaves(c)'
      BY <1>0, <1>9, <2>0, LeftStays, NoneLeft
      DEF FilesTypes, CallInv, Leaves, Files!Unchanged, Files!Ends, Files!Goes,
          Files!Here, Files!diskVars, Files!Failures
    <3>3. Replaces(c)'
      BY <1>0, <1>9, <2>0, LeftStays, NoneLeft
      DEF FilesTypes, CallInv, Replaces, Files!Unchanged, Files!Ends, Files!Goes,
          Files!Here, Files!diskVars, Files!Failures
    <3>4. Tells(c)'
      <4>1. fileAt'[c] = "done" /\ outcome'[c] = "unchanged"
        BY <1>0, <1>9, <2>0, <2>1
        DEF FilesTypes, Files!Unchanged, Files!Ends, Files!Goes, Files!Here,
            Files!diskVars, Files!Failures
      <4>2. ~replaced'[c]
        BY <1>0, <1>9 DEF CallInv, Replaces, Files!Unchanged, Files!Ends, Files!Goes
      <4>3. ~HasLeft(c)'
        BY <1>0, <1>9, <2>0, LeftStays, NoneLeft
        DEF CallInv, Files!Unchanged, Files!Ends, Files!Goes
      <4>4. found'[c] = payload'[c]
        BY <1>0, <1>9
        DEF FilesTypes, Files!Unchanged, Files!Ends, Files!Goes, Files!Here,
            Files!diskVars, Files!Failures
      <4> QED
        BY <4>1, <4>2, <4>3, <4>4 DEF Tells, Files!Failures
    <3> QED
      BY <3>1, <3>2, <3>3, <3>4 DEF CallInv
  <2>3. \A d \in FileCalls \ {c} : SameCall(d)
    BY <1>0, <1>9, <2>0
    DEF FilesTypes, SameCall, Files!Unchanged, Files!Ends, Files!Goes, Files!Here,
        Files!diskVars, Files!Failures
  <2> QED
    BY <2>1, <2>2, <2>3, OneCallMoves
<1>10. CASE Files!Differs(c)
  <2>0. leftovers' = leftovers
    BY <1>10 DEF Files!Differs, Files!diskVars
  <2>1. FilesTypes'
    BY <1>0, <1>10, VersionAssumption
    DEF FilesTypes, CallInv, HasOpen, Files!Differs, Files!Goes, Files!Here,
        Files!diskVars
  <2>2. CallInv(c)'
    <3>1. HasOpen(c)'
      BY <1>0, <1>10, <2>0, LeftStays, NoneLeft
      DEF FilesTypes, CallInv, HasOpen, Files!Differs, Files!Goes, Files!Here,
          Files!diskVars
    <3>2. Leaves(c)'
      BY <1>0, <1>10, <2>0, LeftStays, NoneLeft
      DEF FilesTypes, CallInv, Leaves, Files!Differs, Files!Goes, Files!Here,
          Files!diskVars
    <3>3. Replaces(c)'
      BY <1>0, <1>10, <2>0, LeftStays, NoneLeft
      DEF FilesTypes, CallInv, Replaces, Files!Differs, Files!Goes, Files!Here,
          Files!diskVars
    <3>4. Tells(c)'
      BY <1>0, <1>10, <2>0, LeftStays, NoneLeft
      DEF FilesTypes, CallInv, Tells, Files!Differs, Files!Goes, Files!Here,
          Files!diskVars
    <3> QED
      BY <3>1, <3>2, <3>3, <3>4 DEF CallInv
  <2>3. \A d \in FileCalls \ {c} : SameCall(d)
    BY <1>0, <1>10, <2>0
    DEF FilesTypes, SameCall, Files!Differs, Files!Goes, Files!Here, Files!diskVars
  <2> QED
    BY <2>1, <2>2, <2>3, OneCallMoves
<1>11. CASE Files!Settle(c)
  <2>0. leftovers' = leftovers
    BY <1>11 DEF Files!Settle, Files!diskVars
  <2>1. FilesTypes'
    BY <1>0, <1>11, VersionAssumption
    DEF FilesTypes, Files!Settle, Files!Ends, Files!Goes, Files!diskVars, Files!Failures
  <2>2. CallInv(c)'
    <3>1. HasOpen(c)'
      BY <1>0, <1>11, <2>0, LeftStays, NoneLeft
      DEF FilesTypes, CallInv, HasOpen, Files!Settle, Files!Ends, Files!Goes,
          Files!diskVars, Files!Failures
    <3>2. Leaves(c)'
      BY <1>0, <1>11, <2>0, LeftStays, NoneLeft
      DEF FilesTypes, CallInv, Leaves, Files!Settle, Files!Ends, Files!Goes,
          Files!diskVars, Files!Failures
    <3>3. Replaces(c)'
      BY <1>0, <1>11, <2>0, LeftStays, NoneLeft
      DEF FilesTypes, CallInv, Replaces, Files!Settle, Files!Ends, Files!Goes,
          Files!diskVars, Files!Failures
    <3>4. Tells(c)'
      <4>1. fileAt'[c] = "done" /\ outcome'[c] = "changed"
        BY <1>0, <1>11, <2>0, <2>1
        DEF FilesTypes, Files!Settle, Files!Ends, Files!Goes, Files!diskVars,
            Files!Failures
      <4>2. replaced'[c]
        BY <1>0, <1>11 DEF CallInv, Replaces, Files!Settle, Files!Ends, Files!Goes
      <4>3. ~HasLeft(c)'
        BY <1>0, <1>11, <2>0, LeftStays, NoneLeft
        DEF CallInv, Files!Settle, Files!Ends, Files!Goes
      <4> QED
        BY <4>1, <4>2, <4>3 DEF Tells, Files!Failures
    <3> QED
      BY <3>1, <3>2, <3>3, <3>4 DEF CallInv
  <2>3. \A d \in FileCalls \ {c} : SameCall(d)
    BY <1>0, <1>11, <2>0
    DEF FilesTypes, SameCall, Files!Settle, Files!Ends, Files!Goes, Files!diskVars,
        Files!Failures
  <2> QED
    BY <2>1, <2>2, <2>3, OneCallMoves
<1>12. CASE Files!SettleFails(c)
  <2>0. leftovers' = leftovers
    BY <1>12 DEF Files!SettleFails, Files!diskVars
  <2>1. FilesTypes'
    BY <1>0, <1>12, VersionAssumption
    DEF FilesTypes, Files!SettleFails, Files!Ends, Files!Goes, Files!diskVars,
        Files!Failures
  <2>2. CallInv(c)'
    <3>1. HasOpen(c)'
      BY <1>0, <1>12, <2>0, LeftStays, NoneLeft
      DEF FilesTypes, CallInv, HasOpen, Files!SettleFails, Files!Ends, Files!Goes,
          Files!diskVars, Files!Failures
    <3>2. Leaves(c)'
      BY <1>0, <1>12, <2>0, LeftStays, NoneLeft
      DEF FilesTypes, CallInv, Leaves, Files!SettleFails, Files!Ends, Files!Goes,
          Files!diskVars, Files!Failures
    <3>3. Replaces(c)'
      BY <1>0, <1>12, <2>0, LeftStays, NoneLeft
      DEF FilesTypes, CallInv, Replaces, Files!SettleFails, Files!Ends, Files!Goes,
          Files!diskVars, Files!Failures
    <3>4. Tells(c)'
      <4>1. fileAt'[c] = "done" /\ outcome'[c] = "partial"
        BY <1>0, <1>12, <2>0, <2>1
        DEF FilesTypes, Files!SettleFails, Files!Ends, Files!Goes, Files!diskVars,
            Files!Failures
      <4>2. replaced'[c]
        BY <1>0, <1>12 DEF CallInv, Replaces, Files!SettleFails, Files!Ends, Files!Goes
      <4>3. ~HasLeft(c)'
        BY <1>0, <1>12, <2>0, LeftStays, NoneLeft
        DEF CallInv, Files!SettleFails, Files!Ends, Files!Goes
      <4> QED
        BY <4>1, <4>2, <4>3 DEF Tells, Files!Failures
    <3> QED
      BY <3>1, <3>2, <3>3, <3>4 DEF CallInv
  <2>3. \A d \in FileCalls \ {c} : SameCall(d)
    BY <1>0, <1>12, <2>0
    DEF FilesTypes, SameCall, Files!SettleFails, Files!Ends, Files!Goes, Files!diskVars,
        Files!Failures
  <2> QED
    BY <2>1, <2>2, <2>3, OneCallMoves
<1>13. CASE Files!WriteFails(c)
  <2>0. leftovers' = leftovers
    BY <1>13 DEF Files!WriteFails, Files!diskVars
  <2>1. FilesTypes'
    BY <1>0, <1>13, VersionAssumption
    DEF FilesTypes, Files!WriteFails, Files!callVars, Files!diskVars
  <2>2. CallInv(c)'
    <3>1. HasOpen(c)'
      BY <1>0, <1>13, <2>0, LeftStays, NoneLeft
      DEF FilesTypes, CallInv, HasOpen, Files!WriteFails, Files!callVars, Files!diskVars
    <3>2. Leaves(c)'
      BY <1>0, <1>13, <2>0, LeftStays, NoneLeft
      DEF FilesTypes, CallInv, Leaves, Files!WriteFails, Files!callVars, Files!diskVars
    <3>3. Replaces(c)'
      BY <1>0, <1>13, <2>0, LeftStays, NoneLeft
      DEF FilesTypes, CallInv, Replaces, Files!WriteFails, Files!callVars,
          Files!diskVars
    <3>4. Tells(c)'
      BY <1>0, <1>13, <2>0, LeftStays, NoneLeft
      DEF FilesTypes, CallInv, Tells, Files!WriteFails, Files!callVars, Files!diskVars
    <3> QED
      BY <3>1, <3>2, <3>3, <3>4 DEF CallInv
  <2>3. \A d \in FileCalls \ {c} : SameCall(d)
    BY <1>0, <1>13, <2>0
    DEF FilesTypes, SameCall, Files!WriteFails, Files!callVars, Files!diskVars
  <2> QED
    BY <2>1, <2>2, <2>3, OneCallMoves
<1>14. CASE Files!CleanUpFails(c)
  <2>0. leftovers' = leftovers
    BY <1>14 DEF Files!CleanUpFails, Files!diskVars
  <2>1. FilesTypes'
    BY <1>0, <1>14, VersionAssumption
    DEF FilesTypes, Files!CleanUpFails, Files!Ends, Files!Goes, Files!diskVars,
        Files!Failures
  <2>2. CallInv(c)'
    <3>1. HasOpen(c)'
      BY <1>0, <1>14, <2>0, LeftStays, NoneLeft
      DEF FilesTypes, CallInv, HasOpen, Files!CleanUpFails, Files!Ends, Files!Goes,
          Files!diskVars, Files!Failures
    <3>2. Leaves(c)'
      BY <1>0, <1>14, <2>0, LeftStays, NoneLeft
      DEF FilesTypes, CallInv, Leaves, Files!CleanUpFails, Files!Ends, Files!Goes,
          Files!diskVars, Files!Failures
    <3>3. Replaces(c)'
      BY <1>0, <1>14, <2>0, LeftStays, NoneLeft
      DEF FilesTypes, CallInv, Replaces, Files!CleanUpFails, Files!Ends, Files!Goes,
          Files!diskVars, Files!Failures
    <3>4. Tells(c)'
      BY <1>0, <1>14, <2>0, LeftStays, NoneLeft
      DEF FilesTypes, CallInv, Tells, Files!HasLeft, HasLeft, LeftIn, HasOpen,
          Files!CleanUpFails, Files!Ends, Files!Goes, Files!diskVars, Files!Failures
    <3> QED
      BY <3>1, <3>2, <3>3, <3>4 DEF CallInv
  <2>3. \A d \in FileCalls \ {c} : SameCall(d)
    BY <1>0, <1>14, <2>0
    DEF FilesTypes, SameCall, Files!CleanUpFails, Files!Ends, Files!Goes,
        Files!diskVars, Files!Failures
  <2> QED
    BY <2>1, <2>2, <2>3, OneCallMoves
<1> QED
  BY <1>1, <1>2, <1>3, <1>4, <1>5, <1>6, <1>7, <1>8, <1>9, <1>10, <1>11, <1>12, <1>13, <1>14

-----------------------------------------------------------------------------
\* What a call does with its temporary file.
LEMMA TemporaryStep ==
    ASSUME FilesInv, NEW c \in FileCalls, NEW state \in {"part", "whole", "gone"},
           fileAt[c] \in {"creating", "writing", "renaming", "cleaning"},
           fileAt' = [fileAt EXCEPT ![c] = fileAt'[c]],
           fileAt'[c] \in {"writing", "renaming", "settling", "cleaning", "done"},
           Files!Temporary(c, state),
           UNCHANGED <<leads, tool, readText, payload, found, fileVersions>>,
           parentHeld' = [parentHeld EXCEPT ![c] = parentHeld'[c]],
           parentHeld'[c] \in {parentHeld[c], Files!NotOpen},
           replaced' = [replaced EXCEPT ![c] = replaced'[c]],
           replaced'[c] \in BOOLEAN,
           outcome' = [outcome EXCEPT ![c] = outcome'[c]],
           outcome'[c] \in Files!Outcomes,
           content' \in [Directories -> 0 .. MaxFileVersion + 1]
    PROVE  /\ FilesTypes'
           /\ \A d \in FileCalls \ {c} : SameCall(d)
           /\ state = "gone" => ~HasLeft(c)'
           /\ \A d \in Directories : LeftIn(c, d)' => d = parentHeld[c]
           /\ state # "gone" => <<c, state>> \in leftovers'[parentHeld[c]]
<1>0. FilesTypes /\ CallInv(c)
  BY DEF FilesInv
<1>1. parentHeld[c] \in Directories
  BY <1>0 DEF CallInv, HasOpen, Files!Open
<1>2. /\ leftovers' \in [Directories -> SUBSET (FileCalls \X {"part", "whole"})]
      /\ OthersLeave(c)
      /\ \A d \in Directories \ {parentHeld[c]} : LeftIn(c, d)' <=> LeftIn(c, d)
      /\ state = "gone" =>
            \A d \in Directories : d = parentHeld[c] => ~LeftIn(c, d)'
      /\ state # "gone" => <<c, state>> \in leftovers'[parentHeld[c]]
  BY <1>0, <1>1, TemporaryIsOwn
<1>3. \A d \in Directories : LeftIn(c, d) => d = parentHeld[c]
  BY <1>0 DEF CallInv, Leaves
<1>4. FilesTypes'
  BY <1>0, <1>1, <1>2 DEF FilesTypes, Files!Open, Files!NotOpen
<1>5. ASSUME NEW d \in FileCalls \ {c} PROVE SameCall(d)
  <2>1. /\ fileAt'[d] = fileAt[d] /\ parentHeld'[d] = parentHeld[d]
        /\ replaced'[d] = replaced[d] /\ outcome'[d] = outcome[d]
    BY <1>0 DEF FilesTypes
  <2> QED
    BY <1>2, <2>1 DEF SameCall, OthersLeave
<1>6. \A d \in Directories : LeftIn(c, d)' => d = parentHeld[c]
  BY <1>2, <1>3
<1>7. state = "gone" => ~HasLeft(c)'
  BY <1>2, <1>6 DEF HasLeft
<1> QED
  BY <1>2, <1>4, <1>5, <1>6, <1>7

LEMMA FileIsCreated ==
    ASSUME FilesInv, NEW c \in FileCalls, Files!Create(c)
    PROVE  FilesInv'
<1>0. FilesTypes /\ CallInv(c)
  BY DEF FilesInv
<1>1. /\ fileAt[c] = "creating" /\ fileAt'[c] = "writing"
      /\ fileAt' = [fileAt EXCEPT ![c] = fileAt'[c]]
      /\ Files!Temporary(c, "part")
      /\ UNCHANGED <<leads, content, tool, parentHeld, readText, payload, replaced,
                     outcome, found, fileVersions>>
  BY <1>0 DEF FilesTypes, Files!Create, Files!Goes, Files!callVars
<1>2. /\ FilesTypes'
      /\ \A d \in FileCalls \ {c} : SameCall(d)
      /\ \A d \in Directories : LeftIn(c, d)' => d = parentHeld[c]
  BY <1>0, <1>1, TemporaryStep DEF FilesTypes
<1>3. CallInv(c)'
  <2>1. HasOpen(c)' /\ Replaces(c)'
    BY <1>0, <1>1 DEF CallInv, HasOpen, Replaces, Files!Open
  <2>2. Leaves(c)'
    BY <1>1, <1>2 DEF Leaves
  <2>3. Tells(c)'
    BY <1>0, <1>1 DEF CallInv, Tells, Files!Failures
  <2> QED
    BY <2>1, <2>2, <2>3 DEF CallInv
<1> QED
  BY <1>2, <1>3, OneCallMoves

LEMMA FileIsWritten ==
    ASSUME FilesInv, NEW c \in FileCalls, Files!Write(c)
    PROVE  FilesInv'
<1>0. FilesTypes /\ CallInv(c)
  BY DEF FilesInv
<1>1. /\ fileAt[c] = "writing" /\ fileAt'[c] = "renaming"
      /\ fileAt' = [fileAt EXCEPT ![c] = fileAt'[c]]
      /\ Files!Temporary(c, "whole")
      /\ UNCHANGED <<leads, content, tool, parentHeld, readText, payload, replaced,
                     outcome, found, fileVersions>>
  BY <1>0 DEF FilesTypes, Files!Write, Files!Goes, Files!callVars
<1>2. /\ FilesTypes'
      /\ \A d \in FileCalls \ {c} : SameCall(d)
      /\ \A d \in Directories : LeftIn(c, d)' => d = parentHeld[c]
      /\ <<c, "whole">> \in leftovers'[parentHeld[c]]
  BY <1>0, <1>1, TemporaryStep DEF FilesTypes
<1>3. CallInv(c)'
  <2>1. HasOpen(c)' /\ Replaces(c)'
    BY <1>0, <1>1 DEF CallInv, HasOpen, Replaces, Files!Open
  <2>2. Leaves(c)'
    BY <1>1, <1>2 DEF Leaves
  <2>3. Tells(c)'
    BY <1>0, <1>1 DEF CallInv, Tells, Files!Failures
  <2> QED
    BY <2>1, <2>2, <2>3 DEF CallInv
<1> QED
  BY <1>2, <1>3, OneCallMoves

\* The rename puts the whole text in place, because the temporary file is whole.
LEMMA FileIsRenamed ==
    ASSUME FilesInv, NEW c \in FileCalls, Files!Rename(c) \/ Files!RenameOverOdd(c)
    PROVE  FilesInv'
<1>0. FilesTypes /\ CallInv(c) /\ fileAt[c] = "renaming"
  BY DEF FilesInv, Files!Rename, Files!RenameOverOdd, Files!Goes
<1>1. /\ parentHeld[c] \in Directories /\ payload[c] \in 0 .. MaxFileVersion
      /\ <<c, "whole">> \in leftovers[parentHeld[c]]
  BY <1>0 DEF FilesTypes, CallInv, HasOpen, Leaves, Files!Open
<1>2. UNCHANGED <<leads, tool, parentHeld, readText, payload, outcome, found,
                  fileVersions>>
  BY DEF Files!Rename, Files!RenameOverOdd
<1>3. CASE /\ Files!Temporary(c, "gone")
           /\ fileAt' = [fileAt EXCEPT ![c] = "settling"]
           /\ replaced' = [replaced EXCEPT ![c] = TRUE]
           /\ content' = [content EXCEPT ![parentHeld[c]] = payload[c]]
  <2>1. content' \in [Directories -> 0 .. MaxFileVersion + 1]
    BY <1>0, <1>1, <1>3, VersionAssumption DEF FilesTypes
  <2>2. fileAt'[c] = "settling" /\ replaced'[c] = TRUE
    BY <1>0, <1>3 DEF FilesTypes
  <2>3. /\ FilesTypes'
        /\ \A d \in FileCalls \ {c} : SameCall(d)
        /\ ~HasLeft(c)'
    <3>1. /\ fileAt' = [fileAt EXCEPT ![c] = fileAt'[c]]
          /\ replaced' = [replaced EXCEPT ![c] = replaced'[c]]
      BY <1>3, <2>2
    <3>2. /\ parentHeld' = [parentHeld EXCEPT ![c] = parentHeld'[c]]
          /\ outcome' = [outcome EXCEPT ![c] = outcome'[c]]
          /\ outcome'[c] \in Files!Outcomes
      BY <1>0, <1>2 DEF FilesTypes
    <3> QED
      BY <1>0, <1>2, <1>3, <2>1, <2>2, <3>1, <3>2, TemporaryStep
  <2>4. CallInv(c)'
    <3>1. HasOpen(c)' /\ Replaces(c)'
      BY <1>1, <1>2, <2>2 DEF HasOpen, Replaces
    <3>2. Leaves(c)'
      BY <2>2, <2>3 DEF Leaves, HasLeft
    <3>3. Tells(c)'
      BY <1>0, <1>2 DEF CallInv, Tells, Files!Failures
    <3> QED
      BY <3>1, <3>2, <3>3 DEF CallInv
  <2> QED
    BY <2>3, <2>4, OneCallMoves
<1>4. CASE /\ fileAt' = [fileAt EXCEPT ![c] = "cleaning"]
           /\ UNCHANGED <<content, leftovers, replaced>>
  <2>1. FilesTypes'
    BY <1>0, <1>2, <1>4 DEF FilesTypes, Files!Open
  <2>2. \A d \in FileCalls \ {c} : SameCall(d)
    BY <1>0, <1>2, <1>4 DEF FilesTypes, SameCall
  <2>3. CallInv(c)'
    <3>0. fileAt'[c] = "cleaning"
      BY <1>0, <1>4 DEF FilesTypes
    <3>1. HasOpen(c)' /\ Replaces(c)'
      BY <1>0, <1>1, <1>2, <1>4, <3>0 DEF CallInv, HasOpen, Replaces
    <3>2. Leaves(c)'
      BY <1>0, <1>2, <1>4, <3>0, LeftStays DEF CallInv, Leaves
    <3>3. Tells(c)'
      BY <1>0, <1>2 DEF CallInv, Tells, Files!Failures
    <3> QED
      BY <3>1, <3>2, <3>3 DEF CallInv
  <2> QED
    BY <2>1, <2>2, <2>3, OneCallMoves
<1>5. CASE Files!Rename(c)
  BY <1>1, <1>3, <1>5 DEF Files!Rename, Files!Goes
<1>6. CASE Files!RenameOverOdd(c)
  BY <1>3, <1>4, <1>6 DEF Files!RenameOverOdd, Files!Goes
<1> QED
  BY <1>5, <1>6

LEMMA FileIsRemoved ==
    ASSUME FilesInv, NEW c \in FileCalls, Files!CleanUp(c)
    PROVE  FilesInv'
<1>0. FilesTypes /\ CallInv(c)
  BY DEF FilesInv
<1>1. PICK ending \in Files!Failures : Files!Ends(c, "cleaning", ending)
  BY DEF Files!CleanUp
<1>2. /\ fileAt[c] = "cleaning" /\ fileAt'[c] = "done"
      /\ fileAt' = [fileAt EXCEPT ![c] = fileAt'[c]]
      /\ outcome'[c] \in Files!Failures
      /\ outcome' = [outcome EXCEPT ![c] = outcome'[c]]
      /\ parentHeld'[c] = Files!NotOpen
      /\ parentHeld' = [parentHeld EXCEPT ![c] = parentHeld'[c]]
      /\ Files!Temporary(c, "gone")
      /\ UNCHANGED <<leads, content, tool, readText, payload, replaced, found,
                     fileVersions>>
  BY <1>0, <1>1 DEF FilesTypes, Files!CleanUp, Files!Ends, Files!Goes
<1>3. /\ FilesTypes'
      /\ \A d \in FileCalls \ {c} : SameCall(d)
      /\ ~HasLeft(c)'
  BY <1>0, <1>2, TemporaryStep DEF FilesTypes, Files!Outcomes
<1>4. ~replaced'[c]
  BY <1>0, <1>2 DEF CallInv, Replaces
<1>5. CallInv(c)'
  <2>1. HasOpen(c)' /\ Replaces(c)' /\ Leaves(c)'
    BY <1>2 DEF HasOpen, Replaces, Leaves, Files!Open
  <2>2. Tells(c)'
    BY <1>2, <1>3, <1>4 DEF Tells, Files!Failures
  <2> QED
    BY <2>1, <2>2 DEF CallInv
<1> QED
  BY <1>3, <1>5, OneCallMoves

-----------------------------------------------------------------------------
\* The user changes the files, and no call.
LEMMA UserStep ==
    ASSUME FilesInv,
           Files!Relink \/ \E d \in Directories : Files!UserWrites(d)
    PROVE  FilesInv'
<1>0. FilesTypes
  BY DEF FilesInv
<1>1. UNCHANGED <<leftovers, fileAt, tool, parentHeld, readText, payload, replaced,
                  outcome, found>>
  BY DEF Files!Relink, Files!UserWrites, Files!callVars
<1>2. CASE Files!Relink
  <2>1. FilesTypes'
    BY <1>0, <1>1, <1>2 DEF FilesTypes, Files!Relink
  <2> QED
    BY <1>1, <2>1, SameCallKept DEF FilesInv, SameCall
<1>3. ASSUME NEW d \in Directories, Files!UserWrites(d)
      PROVE  FilesInv'
  <2>1. fileVersions' \in 0 .. MaxFileVersion
    BY <1>0, <1>3, VersionAssumption DEF FilesTypes, Files!UserWrites
  <2>2. content' \in [Directories -> 0 .. MaxFileVersion + 1]
    BY <1>0, <1>3, VersionAssumption
    DEF FilesTypes, Files!UserWrites, Files!Odd, Files!None
  <2>3. FilesTypes'
    BY <1>0, <1>1, <1>3, <2>1, <2>2 DEF FilesTypes, Files!UserWrites
  <2> QED
    BY <1>1, <2>3, SameCallKept DEF FilesInv, SameCall
<1> QED
  BY <1>2, <1>3

LEMMA FilesCrash ==
    ASSUME FilesInv, Files!Crash
    PROVE  FilesInv'
<1>0. FilesTypes
  BY DEF FilesInv
<1>1. /\ UNCHANGED <<leads, content, leftovers, tool, readText, payload, replaced,
                     outcome, found, fileVersions>>
      /\ fileAt' = [c \in FileCalls |-> IF fileAt[c] = "done" THEN "done" ELSE "dead"]
      /\ parentHeld' = [c \in FileCalls |-> Files!NotOpen]
  BY DEF Files!Crash, Files!diskVars
<1>2. FilesTypes'
  BY <1>0, <1>1 DEF FilesTypes
<1>3. ASSUME NEW c \in FileCalls PROVE CallInv(c)'
  <2>1. CallInv(c) /\ fileAt'[c] = IF fileAt[c] = "done" THEN "done" ELSE "dead"
    BY <1>1 DEF FilesInv
  <2>2. HasOpen(c)' /\ Leaves(c)' /\ Replaces(c)'
    BY <2>1 DEF HasOpen, Leaves, Replaces, Files!Open
  <2>3. HasLeft(c)' <=> HasLeft(c)
    BY <1>1, LeftStays
  <2>4. Tells(c)'
    BY <1>1, <2>1, <2>3 DEF CallInv, Tells
  <2> QED
    BY <2>2, <2>4 DEF CallInv
<1> QED
  BY <1>2, <1>3 DEF FilesInv

LEMMA FilesStep == FilesInv /\ [Files!Next]_(Files!vars) => FilesInv'
<1> SUFFICES ASSUME FilesInv, [Files!Next]_(Files!vars)
             PROVE  FilesInv'
  OBVIOUS
<1>1. CASE UNCHANGED Files!vars
  <2>1. UNCHANGED <<leads, content, leftovers, fileAt, tool, parentHeld, readText,
                    payload, replaced, outcome, found, fileVersions>>
    BY <1>1 DEF Files!vars
  <2>2. FilesTypes'
    BY <2>1 DEF FilesInv, FilesTypes
  <2> QED
    BY <2>1, <2>2, SameCallKept DEF FilesInv, SameCall
<1>2. ASSUME NEW c \in FileCalls,
             \/ Files!Create(c) \/ Files!Write(c) \/ Files!Rename(c)
             \/ Files!RenameOverOdd(c) \/ Files!CleanUp(c)
      PROVE  FilesInv'
  BY <1>2, FileIsCreated, FileIsWritten, FileIsRenamed, FileIsRemoved
<1>3. CASE Files!Relink \/ \E d \in Directories : Files!UserWrites(d)
  BY <1>3, UserStep
<1>4. CASE Files!Crash
  BY <1>4, FilesCrash
<1> QED
  BY <1>1, <1>2, <1>3, <1>4, CallStep DEF Files!Next

\* Nobody finds half a file, and a call tells what it did, for any number of calls,
\* directories and versions, whatever the user does and whatever fails meanwhile.
THEOREM ChangesAreTold == WorkSpec => []ChangesAreWholeAndTold
<1>1. WorkInit => FilesInv
  BY FilesBegin DEF WorkInit
<1>2. FilesInv /\ [WorkNext]_workVars => FilesInv'
  BY FilesStep, Moving
<1>3. FilesInv => ChangesAreWholeAndTold
  <2> SUFFICES ASSUME FilesInv PROVE ChangesAreWholeAndTold
    OBVIOUS
  <2>1. ASSUME NEW d \in Directories PROVE content[d] # Files!Cut
    <3>1. content[d] \in 0 .. MaxFileVersion + 1
      BY DEF FilesInv, FilesTypes
    <3> QED
      BY <3>1, VersionAssumption DEF Files!Cut
  <2>2. ASSUME NEW c \in FileCalls PROVE Tells(c)
    BY DEF FilesInv, CallInv
  <2> QED
    BY <2>1, <2>2
    DEF ChangesAreWholeAndTold, Files!ChangesAreWholeAndTold, Tells, HasLeft, LeftIn,
        Files!Failures
<1> QED
  BY <1>1, <1>2, <1>3, PTL DEF WorkSpec

-----------------------------------------------------------------------------
(* The walk of a glob.                                                     *)

In(s) == {s[i] : i \in 1 .. Len(s)}
Once(s) == \A i, j \in 1 .. Len(s) : s[i] = s[j] => i = j

\* What is left of the directories that are open, and that it is left once.
Listed(w) ==
    {n \in Nodes : \E i \in 1 .. Len(w) : \E a \in 1 .. Len(w[i]) : w[i][a] = n}
Apart(w) ==
    \A i, j \in 1 .. Len(w) : \A a \in 1 .. Len(w[i]), b \in 1 .. Len(w[j]) :
        w[i][a] = w[j][b] => i = j /\ a = b

GlobTypes ==
    /\ kind \in [Nodes -> Glob!Kinds] /\ steady \subseteq Nodes
    /\ shared \in BOOLEAN /\ finished \in BOOLEAN
    /\ pattern \subseteq Nodes /\ globLimit \in Nat
    /\ walk \in Seq(Seq(Nodes)) /\ traversed \in Nat
    /\ paths \in Seq(Nodes) /\ globMatches \in Seq(Nodes)
    /\ truncated \in BOOLEAN /\ globTruncated \in BOOLEAN

\* The directories above a node.
Above(n) == IF ParentOf[n] = 0 THEN {} ELSE Glob!Way[ParentOf[n]]

\* What is listed or taken is in the root, or in a directory that was taken and
\* opened before.
FamiliesFollow(taken) ==
    \A n \in Listed(walk) \cup taken :
        ParentOf[n] \in taken \cup {0} /\ Above(n) \cap Hidden = {}

\* Whether the walk must have come to it: its directory was opened, and both
\* stayed what they were.
Opened(d, taken) == d \in (taken \cap steady) \ Hidden /\ kind[d] = "directory"
Due(n, taken) ==
    /\ n \in steady /\ kind[n] # "none"
    /\ ParentOf[n] = 0 \/ Opened(ParentOf[n], taken)

\* Nothing is passed over.
NothingIsSkipped(taken) ==
    ((traversed # 0 \/ finished) /\ ~truncated /\ ~globTruncated) =>
        \A n \in Nodes : Due(n, taken) => n \in Listed(walk) \cup taken

\* Where the walk is, once it has taken these entries of its directories.
WalkHasTaken(taken) ==
    /\ Apart(walk) /\ Listed(walk) \cap taken = {}
    /\ FamiliesFollow(taken) /\ NothingIsSkipped(taken)
    /\ traversed = 0 => walk = <<>> /\ taken = {} /\ ~truncated
    /\ finished => walk = <<>>

\* What it has told of them.
PathsAreTold(taken) ==
    /\ Once(paths) /\ In(paths) \subseteq taken \ Hidden
    /\ \A n \in In(paths) : "file" \in been[n]
    /\ \A n \in (taken \cap steady) \ Hidden : kind[n] = "file" => n \in In(paths)

\* What the call has of that, which for a shared walk it gets at the end.
MatchesAreFound ==
    IF shared /\ ~finished THEN globMatches = <<>> /\ ~globTruncated
    ELSE /\ Once(globMatches) /\ In(globMatches) \subseteq In(paths) \cap pattern
         /\ Len(globMatches) <= globLimit
         /\ globTruncated => Len(globMatches) = globLimit
         /\ globTruncated => Cardinality(In(paths) \cap pattern) > globLimit
         /\ ~globTruncated => In(paths) \cap pattern \subseteq In(globMatches)

\* The past has the present in it, and of what stayed nothing else.
GlobPast ==
    /\ been \in [Nodes -> SUBSET Glob!Kinds]
    /\ \A n \in Nodes : kind[n] \in been[n]
    /\ \A n \in steady : been[n] = {kind[n]}

\* The walk has come to what it may reach, and has counted it.
WalkReaches(taken) ==
    /\ Listed(walk) \cup taken \subseteq Glob!MayReach
    /\ ~truncated /\ ~finished => traversed = Cardinality(Listed(walk) \cup taken)
    /\ truncated => Glob!TooMany

GlobInv ==
    /\ GlobTypes /\ GlobPast /\ MatchesAreFound
    /\ \E taken \in SUBSET Nodes :
          WalkHasTaken(taken) /\ WalkReaches(taken) /\ PathsAreTold(taken)

LEMMA GlobBegins == Glob!Init => GlobInv
<1> SUFFICES ASSUME Glob!Init PROVE GlobInv
  OBVIOUS
<1> USE TreeAssumption, WalkAssumption
<1>1. GlobTypes
  <2>1. kind \in [Nodes -> Glob!Kinds]
    BY DEF Glob!Init, Glob!Kinds
  <2>2. pattern \subseteq Nodes /\ globLimit \in Nat
    BY DEF Glob!Init
  <2>3. walk \in Seq(Seq(Nodes)) /\ paths \in Seq(Nodes) /\ globMatches \in Seq(Nodes)
    BY DEF Glob!Init
  <2> QED
    BY <2>1, <2>2, <2>3 DEF GlobTypes, Glob!Init
<1>2. GlobPast
  BY DEF Glob!Init, GlobPast, Glob!Kinds
<1>3. MatchesAreFound
  BY DEF MatchesAreFound, Glob!Init, Once, In
<1>5. WalkReaches({})
  <2>1. Listed(walk) = {} /\ traversed = 0 /\ truncated = FALSE
    BY DEF Glob!Init, Listed
  <2> QED
    BY <2>1, FS_EmptySet DEF WalkReaches
<1>4. WalkHasTaken({}) /\ PathsAreTold({})
  BY DEF WalkHasTaken, PathsAreTold, Glob!Init, Apart, Listed, FamiliesFollow,
         NothingIsSkipped, Once, In
<1> QED
  BY <1>1, <1>2, <1>3, <1>4, <1>5 DEF GlobInv

-----------------------------------------------------------------------------
(* Ways.                                                                   *)

LEMMA WayGoesUp ==
    \A n \in Nodes :
        Glob!Way[n] = {n} \cup Above(n)
<1> USE TreeAssumption
<1> DEFINE IsClosed(t) == \A n \in t : ParentOf[n] \in t \cup {0}
           Through(n) == {d \in Nodes : \A t \in SUBSET Nodes :
                              (IsClosed(t) /\ n \in t) => d \in t}
           up == [n \in Nodes |-> Through(n)]
<1>1. ASSUME NEW n \in Nodes
      PROVE  Through(n) = {n} \cup (IF ParentOf[n] = 0 THEN {} ELSE Through(ParentOf[n]))
  <2> DEFINE over == IF ParentOf[n] = 0 THEN {} ELSE Through(ParentOf[n])
  <2>0. ParentOf[n] \in Nodes \cup {0} /\ 0 \notin Nodes
    OBVIOUS
  <2>1. ASSUME NEW t \in SUBSET Nodes, IsClosed(t), n \in t PROVE {n} \cup over \subseteq t
    BY <2>0, <2>1
  <2>2. {n} \cup over \in SUBSET Nodes
    OBVIOUS
  <2>3. IsClosed({n} \cup over)
    <3> SUFFICES ASSUME NEW m \in {n} \cup over PROVE ParentOf[m] \in {n} \cup over \cup {0}
      OBVIOUS
    <3>1. CASE m = n
      <4>1. ParentOf[n] # 0 => ParentOf[n] \in Through(ParentOf[n])
        BY <2>0
      <4> QED
        BY <3>1, <4>1
    <3>2. CASE m # n
      <4>1. m \in Nodes /\ ParentOf[n] # 0 /\ m \in Through(ParentOf[n])
        BY <3>2
      <4>2. ParentOf[m] \in Nodes \cup {0}
        BY <4>1
      <4>3. ASSUME ParentOf[m] # 0 PROVE ParentOf[m] \in Through(ParentOf[n])
        <5>1. ASSUME NEW t \in SUBSET Nodes, IsClosed(t), ParentOf[n] \in t
              PROVE  ParentOf[m] \in t
          BY <4>1, <4>3, <5>1
        <5> QED
          BY <4>2, <4>3, <5>1
      <4> QED
        BY <4>1, <4>2, <4>3
    <3> QED
      BY <3>1, <3>2
  <2>4. Through(n) \subseteq {n} \cup over
    <3> HIDE DEF over
    <3> QED
      BY <2>2, <2>3
  <2>5. {n} \cup over \subseteq Through(n)
    BY <2>1, <2>2
  <2> QED
    BY <2>4, <2>5
<1>2. \A n \in Nodes : up[n] = {n} \cup (IF ParentOf[n] = 0 THEN {} ELSE up[ParentOf[n]])
  <2> SUFFICES ASSUME NEW n \in Nodes
               PROVE  up[n] = {n} \cup (IF ParentOf[n] = 0 THEN {} ELSE up[ParentOf[n]])
    OBVIOUS
  <2>1. ParentOf[n] # 0 => up[ParentOf[n]] = Through(ParentOf[n])
    <3> HIDE DEF Through
    <3> QED
      OBVIOUS
  <2> HIDE DEF Through
  <2> QED
    BY <1>1, <2>1
<1> HIDE DEF up
<1>3. up = [n \in Nodes |-> {n} \cup (IF ParentOf[n] = 0 THEN {} ELSE up[ParentOf[n]])]
  <2>1. up = [n \in Nodes |-> up[n]]
    BY DEF up
  <2> QED
    BY <1>2, <2>1
<1>4. Glob!Way = [n \in Nodes |-> {n} \cup (IF ParentOf[n] = 0 THEN {} ELSE Glob!Way[ParentOf[n]])]
  BY <1>3, Zenon DEF Glob!Way, Glob!Root
<1> QED
  BY <1>4 DEF Above

\* What is closed upwards has the whole way of what it has.
LEMMA WayStaysIn ==
    ASSUME NEW here \in SUBSET Nodes, \A n \in here : ParentOf[n] \in here \cup {0},
           NEW m \in here
    PROVE  Glob!Way[m] \subseteq here
<1> DEFINE astray == {n \in here : ~(Glob!Way[n] \subseteq here)}
<1> SUFFICES ASSUME m \in astray PROVE FALSE
  OBVIOUS
<1>1. PICK n \in astray : ParentOf[n] \notin astray
  <2>1. astray \in SUBSET Nodes /\ astray # {}
    OBVIOUS
  <2> HIDE DEF astray
  <2> QED
    BY <2>1, TreeAssumption
<1>2. n \in Nodes /\ ParentOf[n] \in here \cup {0}
  OBVIOUS
<1>3. Above(n) \subseteq here
  BY <1>1, <1>2 DEF Above
<1> QED
  BY <1>2, <1>3, WayGoesUp

LEMMA WayIsClosed ==
    ASSUME NEW n \in Nodes, NEW m \in Glob!Way[n]
    PROVE  m \in Nodes /\ ParentOf[m] \in Glob!Way[n] \cup {0}
<1> DEFINE astray == {k \in Nodes : \E l \in Glob!Way[k] :
                          ~(l \in Nodes /\ ParentOf[l] \in Glob!Way[k] \cup {0})}
<1> SUFFICES ASSUME n \in astray PROVE FALSE
  OBVIOUS
<1>1. PICK k \in astray : ParentOf[k] \notin astray
  <2>1. astray \in SUBSET Nodes /\ astray # {}
    OBVIOUS
  <2> HIDE DEF astray
  <2> QED
    BY <2>1, TreeAssumption
<1>2. k \in Nodes /\ ParentOf[k] \in Nodes \cup {0}
  BY TreeAssumption
<1>3. PICK l \in Glob!Way[k] : ~(l \in Nodes /\ ParentOf[l] \in Glob!Way[k] \cup {0})
  OBVIOUS
<1>4. Glob!Way[k] = {k} \cup Above(k)
  BY <1>2, WayGoesUp
<1>5. CASE l = k
  <2>1. ParentOf[k] # 0 => ParentOf[k] \in Above(k)
    BY <1>2, WayGoesUp DEF Above
  <2> QED
    BY <1>2, <1>3, <1>4, <1>5, <2>1
<1>6. CASE l # k
  <2>1. ParentOf[k] \in Nodes /\ Above(k) = Glob!Way[ParentOf[k]] /\ l \in Glob!Way[ParentOf[k]]
    BY <1>2, <1>4, <1>6 DEF Above
  <2>2. l \in Nodes /\ ParentOf[l] \in Glob!Way[ParentOf[k]] \cup {0}
    BY <1>1, <2>1
  <2> QED
    BY <1>3, <1>4, <2>1, <2>2
<1> QED
  BY <1>5, <1>6

\* Nothing is above itself.
LEMMA WayHasAnEnd ==
    \A n \in Nodes : n \notin Above(n)
<1> DEFINE astray == {k \in Nodes : k \in Above(k)}
<1> SUFFICES ASSUME astray # {} PROVE FALSE
  OBVIOUS
<1>1. PICK k \in astray : ParentOf[k] \notin astray
  <2>1. astray \in SUBSET Nodes
    OBVIOUS
  <2> HIDE DEF astray
  <2> QED
    BY <2>1, TreeAssumption
<1> DEFINE p == ParentOf[k]
<1>2. k \in Nodes /\ k \in Above(k) /\ p \in Nodes /\ p # 0 /\ k \in Glob!Way[p]
  BY TreeAssumption DEF Above
<1>3. p \notin Above(p)
  BY <1>1, <1>2
<1>4. Glob!Way[p] = {p} \cup Above(p)
  BY <1>2, WayGoesUp
<1>5. CASE k = p
  <2>1. {k} \in SUBSET Nodes /\ {k} # {} /\ \A n \in {k} : ParentOf[n] \in {k}
    BY <1>2, <1>5
  <2> QED
    BY <2>1, TreeAssumption
<1>6. CASE k # p
  <2>1. k \in Above(p) /\ ParentOf[p] \in Nodes /\ Above(p) = Glob!Way[ParentOf[p]]
    BY <1>2, <1>4, <1>6, TreeAssumption DEF Above
  <2>2. p \in Above(p) \cup {0}
    BY <2>1, WayIsClosed
  <2> QED
    BY <1>2, <1>3, <2>2
<1> QED
  BY <1>5, <1>6

\* Nor is it the directory of what is above it.
LEMMA WayHasNoRing ==
    ASSUME NEW n \in Nodes, NEW m \in Glob!Way[n]
    PROVE  ParentOf[m] # n
<1> SUFFICES ASSUME ParentOf[m] = n PROVE FALSE
  OBVIOUS
<1>1. n # 0 /\ Glob!Way[n] = {n} \cup Above(n) /\ n \notin Above(n)
  BY TreeAssumption, WayGoesUp, WayHasAnEnd
<1>2. CASE m = n
  <2>1. n \in Above(n)
    BY <1>1, <1>2, WayGoesUp DEF Above
  <2> QED
    BY <1>1, <2>1
<1>3. CASE m # n
  <2>1. m \in Above(n) /\ ParentOf[n] \in Nodes /\ Above(n) = Glob!Way[ParentOf[n]]
    BY <1>1, <1>3, TreeAssumption DEF Above
  <2>2. n \in Above(n) \cup {0}
    BY <2>1, WayIsClosed
  <2> QED
    BY <1>1, <2>2
<1> QED
  BY <1>2, <1>3

-----------------------------------------------------------------------------
(* Lists.                                                                  *)

\* All but the last of a sequence.
LEMMA FrontIsKept ==
    ASSUME NEW S, NEW w \in Seq(S), w # <<>>
    PROVE  /\ Len(w) \in Nat \ {0}
           /\ SubSeq(w, 1, Len(w) - 1) \in Seq(S)
           /\ Len(SubSeq(w, 1, Len(w) - 1)) = Len(w) - 1
           /\ \A i \in 1 .. Len(w) - 1 : SubSeq(w, 1, Len(w) - 1)[i] = w[i]
<1>1. Len(w) \in Nat \ {0}
  OBVIOUS
<1>2. \A i \in 1 .. Len(w) - 1 : w[i] \in S
  BY <1>1
<1> DEFINE n == Len(w) - 1
<1>3. n \in Int /\ 1 \in Int /\ n \in Nat
  BY <1>1
<1>4. \A i \in 1 .. n : w[i] \in S
  BY <1>2
<1> HIDE DEF n
<1>5. /\ SubSeq(w, 1, n) \in Seq(S)
      /\ Len(SubSeq(w, 1, n)) = IF 1 <= n THEN n - 1 + 1 ELSE 0
      /\ \A i \in 1 .. n - 1 + 1 : SubSeq(w, 1, n)[i] = w[1 + i - 1]
  BY <1>3, <1>4, SubSeqProperties
<1>6. n - 1 + 1 = n /\ \A i \in 1 .. n : 1 + i - 1 = i
  BY <1>3
<1>7. Len(SubSeq(w, 1, n)) = n /\ \A i \in 1 .. n : SubSeq(w, 1, n)[i] = w[i]
  BY <1>3, <1>5, <1>6
<1> QED
  BY <1>1, <1>5, <1>7 DEF n

LEMMA HeadIsTaken ==
    ASSUME NEW w \in Seq(Seq(Nodes)), w # <<>>, w[Len(w)] # <<>>, Apart(w),
           NEW v, v = Append(SubSeq(w, 1, Len(w) - 1), Tail(w[Len(w)]))
    PROVE  /\ v \in Seq(Seq(Nodes)) /\ Apart(v)
           /\ Head(w[Len(w)]) \in Listed(w)
           /\ Listed(v) = Listed(w) \ {Head(w[Len(w)])}
<1> DEFINE L == Len(w)
           s == w[L]
           At(i, a) == IF i = L THEN a + 1 ELSE a
<1>0. L \in Nat \ {0}
  BY FrontIsKept
<1>1. L \in Nat \ {0} /\ s \in Seq(Nodes) /\ Len(s) \in Nat \ {0}
  <2>1. s \in Seq(Nodes)
    BY <1>0, ElementOfSeq
  <2> QED
    BY <1>0, <2>1
<1>2. Tail(s) \in Seq(Nodes) /\ Len(Tail(s)) = Len(s) - 1
      /\ \A a \in 1 .. Len(s) - 1 : Tail(s)[a] = s[a + 1]
  BY <1>1
<1>3. SubSeq(w, 1, L - 1) \in Seq(Seq(Nodes)) /\ Len(SubSeq(w, 1, L - 1)) = L - 1
      /\ \A i \in 1 .. L - 1 : SubSeq(w, 1, L - 1)[i] = w[i]
  BY FrontIsKept
<1>4. v \in Seq(Seq(Nodes)) /\ Len(v) = L /\ v[L] = Tail(s)
      /\ \A i \in 1 .. L - 1 : v[i] = w[i]
  <2>1. PICK front \in Seq(Seq(Nodes)), last \in Seq(Nodes) :
           front = SubSeq(w, 1, L - 1) /\ last = Tail(s)
    BY <1>2, <1>3
  <2>2. Len(front) = L - 1 /\ \A i \in 1 .. L - 1 : front[i] = w[i]
    BY <1>3, <2>1
  <2>3. v = Append(front, last)
    BY <2>1
  <2> HIDE DEF L, s
  <2>4. v \in Seq(Seq(Nodes)) /\ Len(v) = Len(front) + 1 /\ v[Len(front) + 1] = last
        /\ \A i \in 1 .. Len(front) : v[i] = front[i]
    <3>1. Append(front, last) \in Seq(Seq(Nodes))
          /\ Len(Append(front, last)) = Len(front) + 1
          /\ Append(front, last)[Len(front) + 1] = last
          /\ \A i \in 1 .. Len(front) : Append(front, last)[i] = front[i]
      BY AppendProperties
    <3> QED
      BY <2>3, <3>1, Zenon
  <2> QED
    BY <1>0, <2>1, <2>2, <2>4
<1>a. (\A i \in 1 .. L : w[i] \in Seq(Nodes)) /\ (\A i \in 1 .. L : v[i] \in Seq(Nodes))
  BY <1>4, ElementOfSeq
<1> HIDE DEF s, L
<1>5. ASSUME NEW i \in 1 .. L, NEW a \in 1 .. Len(v[i])
      PROVE  /\ At(i, a) \in 1 .. Len(w[i]) /\ v[i][a] = w[i][At(i, a)]
             /\ (i = L => At(i, a) # 1)
  <2>1. CASE i = L
    BY <1>1, <1>2, <1>4, <2>1 DEF s
  <2>2. CASE i # L
    <3>1. v[i] = w[i]
      BY <1>1, <1>4, <2>2
    <3> QED
      BY <2>2, <3>1
  <2> QED
    BY <2>1, <2>2
<1>6. ASSUME NEW i \in 1 .. L, NEW a \in 1 .. Len(w[i]), ~(i = L /\ a = 1)
      PROVE  \E b \in 1 .. Len(v[i]) : v[i][b] = w[i][a]
  <2>1. CASE i = L
    <3>1. a - 1 \in 1 .. Len(Tail(s)) /\ Tail(s)[a - 1] = s[a]
      BY <1>1, <1>2, <1>6, <2>1 DEF s
    <3> QED
      BY <1>4, <2>1, <3>1 DEF s
  <2>2. CASE i # L
    <3>1. v[i] = w[i]
      BY <1>1, <1>4, <2>2
    <3> QED
      BY <3>1
  <2> QED
    BY <2>1, <2>2
<1>7. Head(s) = s[1] /\ s[1] \in Nodes
  BY <1>1
<1>8. Apart(v)
  <2> SUFFICES ASSUME NEW i \in 1 .. L, NEW j \in 1 .. L,
                      NEW a \in 1 .. Len(v[i]), NEW b \in 1 .. Len(v[j]), v[i][a] = v[j][b]
               PROVE  i = j /\ a = b
    BY <1>4 DEF Apart
  <2>1. i = j /\ At(i, a) = At(j, b)
    <3>1. w[i][At(i, a)] = w[j][At(j, b)]
      BY <1>5
    <3>2. At(i, a) \in 1 .. Len(w[i]) /\ At(j, b) \in 1 .. Len(w[j])
      BY <1>5
    <3>3. ASSUME NEW p \in 1 .. Len(w[i]), NEW q \in 1 .. Len(w[j]), w[i][p] = w[j][q]
          PROVE  i = j /\ p = q
      BY <3>3 DEF Apart, L
    <3> HIDE DEF At
    <3> QED
      BY <3>1, <3>2, <3>3
  <2>2. a \in Nat /\ b \in Nat
    BY <1>a
  <2> QED
    BY <2>1, <2>2
<1>9. Head(s) \in Listed(w)
  <2>1. L \in 1 .. Len(w) /\ 1 \in 1 .. Len(w[L]) /\ w[L][1] = s[1]
    BY <1>1 DEF s, L
  <2> QED
    BY <1>7, <2>1 DEF Listed
<1>10. ASSUME NEW n \in Listed(v) PROVE n \in Listed(w) /\ n # s[1]
  <2>1. PICK i \in 1 .. L : \E a \in 1 .. Len(v[i]) : v[i][a] = n
    BY <1>4 DEF Listed
  <2>2. PICK a \in 1 .. Len(v[i]) : v[i][a] = n
    BY <2>1
  <2>3. At(i, a) \in 1 .. Len(w[i]) /\ w[i][At(i, a)] = n /\ (i = L => At(i, a) # 1)
    BY <1>5, <2>2
  <2> HIDE DEF At
  <2>4. n \in Listed(w)
    BY <2>3 DEF Listed, L
  <2>5. n # s[1]
    <3>1. L \in 1 .. L /\ 1 \in 1 .. Len(w[L])
      BY <1>1 DEF s
    <3>2. w[i][At(i, a)] = w[L][1] => i = L /\ At(i, a) = 1
      BY <2>3, <3>1 DEF Apart, L
    <3> QED
      BY <2>3, <3>2 DEF s
  <2> QED
    BY <2>4, <2>5
<1>11. ASSUME NEW n \in Listed(w), n # s[1] PROVE n \in Listed(v)
  <2>1. PICK i \in 1 .. L : \E a \in 1 .. Len(w[i]) : w[i][a] = n
    BY DEF Listed, L
  <2>2. PICK a \in 1 .. Len(w[i]) : w[i][a] = n
    BY <2>1
  <2>3. ~(i = L /\ a = 1)
    BY <1>11, <2>2 DEF s
  <2> QED
    BY <1>4, <1>6, <2>2, <2>3 DEF Listed
<1> QED
  BY <1>4, <1>7, <1>8, <1>9, <1>10, <1>11 DEF s, L

LEMMA ListIsLeft ==
    ASSUME NEW w \in Seq(Seq(Nodes)), w # <<>>, w[Len(w)] = <<>>, Apart(w),
           NEW v, v = SubSeq(w, 1, Len(w) - 1)
    PROVE  v \in Seq(Seq(Nodes)) /\ Apart(v) /\ Listed(v) = Listed(w)
<1>1. Len(w) \in Nat \ {0}
  BY FrontIsKept
<1>2. v \in Seq(Seq(Nodes)) /\ Len(v) = Len(w) - 1 /\ \A i \in 1 .. Len(w) - 1 : v[i] = w[i]
  BY FrontIsKept
<1>a. \A i \in 1 .. Len(v) : i \in 1 .. Len(w) /\ v[i] = w[i]
  BY <1>1, <1>2
<1>b. \A i \in 1 .. Len(w) : i # Len(w) => i \in 1 .. Len(v) /\ v[i] = w[i]
  BY <1>1, <1>2
<1>3. Apart(v)
  <2> SUFFICES ASSUME NEW i \in 1 .. Len(v), NEW j \in 1 .. Len(v),
                      NEW a \in 1 .. Len(v[i]), NEW b \in 1 .. Len(v[j]), v[i][a] = v[j][b]
               PROVE  i = j /\ a = b
    BY DEF Apart
  <2>1. i \in 1 .. Len(w) /\ j \in 1 .. Len(w) /\ v[i] = w[i] /\ v[j] = w[j]
    BY <1>a
  <2> QED
    BY <2>1 DEF Apart
<1>4. ASSUME NEW n \in Listed(w) PROVE n \in Listed(v)
  <2>1. PICK i \in 1 .. Len(w) : \E a \in 1 .. Len(w[i]) : w[i][a] = n
    BY DEF Listed
  <2>2. i # Len(w)
    BY <2>1
  <2>3. i \in 1 .. Len(v) /\ v[i] = w[i]
    BY <1>b, <2>2
  <2> QED
    BY <2>1, <2>3 DEF Listed
<1>5. Listed(v) \subseteq Listed(w)
  <2> SUFFICES ASSUME NEW n \in Listed(v) PROVE n \in Listed(w)
    OBVIOUS
  <2>1. PICK i \in 1 .. Len(v) : \E a \in 1 .. Len(v[i]) : v[i][a] = n
    BY DEF Listed
  <2> QED
    BY <1>a, <2>1 DEF Listed
<1> QED
  BY <1>2, <1>3, <1>4, <1>5

LEMMA ListIsAdded ==
    ASSUME NEW w \in Seq(Seq(Nodes)), Apart(w),
           NEW s \in Seq(Nodes), Once(s), Listed(w) \cap In(s) = {},
           NEW v, v = Append(w, s)
    PROVE  v \in Seq(Seq(Nodes)) /\ Apart(v) /\ Listed(v) = Listed(w) \cup In(s)
<1> DEFINE L == Len(w) + 1
<1>1. Len(w) \in Nat
  OBVIOUS
<1>2. v \in Seq(Seq(Nodes)) /\ Len(v) = L /\ v[L] = s /\ \A i \in 1 .. Len(w) : v[i] = w[i]
  BY AppendProperties
<1>3. ASSUME NEW i \in 1 .. L, i # L, NEW a \in 1 .. Len(v[i])
      PROVE  i \in 1 .. Len(w) /\ v[i] = w[i] /\ v[i][a] \in Listed(w)
  <2>1. i \in 1 .. Len(w) /\ v[i] = w[i]
    BY <1>1, <1>2, <1>3
  <2>2. w[i] \in Seq(Nodes)
    BY <2>1
  <2> QED
    BY <2>1, <2>2 DEF Listed
<1>4. ASSUME NEW a \in 1 .. Len(s) PROVE s[a] \in In(s)
  BY DEF In
<1>5. Apart(v)
  <2> SUFFICES ASSUME NEW i \in 1 .. L, NEW j \in 1 .. L,
                      NEW a \in 1 .. Len(v[i]), NEW b \in 1 .. Len(v[j]), v[i][a] = v[j][b]
               PROVE  i = j /\ a = b
    BY <1>2 DEF Apart
  <2>1. CASE i = L /\ j = L
    BY <1>2, <2>1 DEF Once
  <2>2. CASE i # L /\ j # L
    BY <1>3, <2>2 DEF Apart
  <2>3. CASE i = L /\ j # L
    BY <1>2, <1>3, <1>4, <2>3
  <2>4. CASE i # L /\ j = L
    BY <1>2, <1>3, <1>4, <2>4
  <2> QED
    BY <2>1, <2>2, <2>3, <2>4
<1>6. ASSUME NEW n \in Listed(v) PROVE n \in Listed(w) \cup In(s)
  BY <1>2, <1>3, <1>4 DEF Listed
<1>7. Listed(w) \subseteq Listed(v)
  BY <1>1, <1>2 DEF Listed
<1>8. In(s) \subseteq Listed(v)
  <2> SUFFICES ASSUME NEW a \in 1 .. Len(s) PROVE s[a] \in Listed(v)
    BY DEF In
  <2>1. L \in 1 .. Len(v) /\ a \in 1 .. Len(v[L]) /\ v[L][a] = s[a] /\ s[a] \in Nodes
    BY <1>1, <1>2
  <2> QED
    BY <2>1 DEF Listed
<1> QED
  BY <1>2, <1>5, <1>6, <1>7, <1>8

LEMMA SameCardinality == \A S : Glob!Cardinality(S) = Cardinality(S)
BY DEF Glob!Cardinality, Cardinality

\* A list has every number of its set, once.
LEMMA ListingLists ==
    ASSUME NEW set \in SUBSET Nat, IsFiniteSet(set), NEW s \in Glob!Listing(set)
    PROVE  s \in Seq(set) /\ Once(s) /\ In(s) = set /\ Len(s) = Cardinality(set)
<1>1. Cardinality(set) \in Nat
  BY FS_CardinalityType
<1>2. s \in [1 .. Cardinality(set) -> set]
      /\ (\A i, j \in DOMAIN s : i < j => s[i] < s[j])
      /\ (\A n \in set : \E i \in DOMAIN s : s[i] = n)
  BY SameCardinality, Zenon DEF Glob!Listing
<1>3. s \in Seq(set) /\ Len(s) = Cardinality(set) /\ DOMAIN s = 1 .. Len(s)
  BY <1>1, <1>2
<1>4. Once(s)
  <2> SUFFICES ASSUME NEW i \in 1 .. Len(s), NEW j \in 1 .. Len(s), s[i] = s[j], i # j
               PROVE  FALSE
    BY DEF Once
  <2>1. s[i] \in set /\ s[j] \in set /\ set \subseteq Nat
    BY <1>3, ElementOfSeq
  <2>2. i < j \/ j < i
    BY <1>3
  <2>3. s[i] < s[j] \/ s[j] < s[i]
    BY <1>2, <1>3, <2>2
  <2>4. s[i] \in Nat /\ s[j] = s[i]
    BY <2>1
  <2>5. ~(s[i] < s[i])
    BY <2>4
  <2> QED
    BY <2>3, <2>4, <2>5, Zenon
<1>5. In(s) = set
  BY <1>2, <1>3 DEF In
<1> QED
  BY <1>3, <1>4, <1>5

LEMMA SeqOfMore ==
    ASSUME NEW S, NEW T, S \subseteq T, NEW s \in Seq(S)
    PROVE  s \in Seq(T)
<1>1. Len(s) \in Nat /\ s \in [1 .. Len(s) -> S]
  OBVIOUS
<1>2. s \in [1 .. Len(s) -> T]
  BY <1>1
<1> QED
  BY <1>1, <1>2

LEMMA SeqOfItsOwn ==
    ASSUME NEW S, NEW s \in Seq(S), NEW T, In(s) \subseteq T
    PROVE  s \in Seq(T)
<1>1. Len(s) \in Nat /\ s \in [1 .. Len(s) -> S]
  OBVIOUS
<1>2. s \in [1 .. Len(s) -> T]
  BY <1>1 DEF In
<1> QED
  BY <1>1, <1>2

LEMMA LongerByOne ==
    ASSUME NEW s \in Seq(Nodes), NEW n \in Nodes
    PROVE  /\ Append(s, n) \in Seq(Nodes) /\ Len(Append(s, n)) = Len(s) + 1
           /\ In(Append(s, n)) = In(s) \cup {n}
           /\ (Once(s) /\ n \notin In(s)) => Once(Append(s, n))
<1> DEFINE t == Append(s, n)
           L == Len(s) + 1
<1>1. t \in Seq(Nodes) /\ Len(t) = L /\ t[L] = n /\ \A i \in 1 .. Len(s) : t[i] = s[i]
  BY AppendProperties
<1>2. Len(s) \in Nat
  OBVIOUS
<1> HIDE DEF t
<1>3. In(t) = In(s) \cup {n}
  BY <1>1, <1>2 DEF In
<1>4. ASSUME Once(s), n \notin In(s) PROVE Once(t)
  BY <1>1, <1>2, <1>4 DEF In, Once
<1> QED
  BY <1>1, <1>3, <1>4 DEF t

-----------------------------------------------------------------------------
(* Its steps.                                                              *)

LEMMA EntriesAreFew ==
    ASSUME NEW d
    PROVE  /\ Glob!Entries(d) \in SUBSET Nodes /\ Glob!Entries(d) \in SUBSET Nat
           /\ IsFiniteSet(Glob!Entries(d))
           /\ Glob!Cardinality(Glob!Entries(d)) = Cardinality(Glob!Entries(d))
           /\ Cardinality(Glob!Entries(d)) \in Nat
           /\ Glob!Entries(d) # {} => Cardinality(Glob!Entries(d)) # 0
<1> DEFINE here == Glob!Entries(d)
<1>1. here \in SUBSET Nodes /\ here \in SUBSET Nat
  BY TreeAssumption DEF Glob!Entries
<1> HIDE DEF here
<1>2. IsFiniteSet(here)
  BY <1>1, TreeAssumption, FS_Subset
<1>3. Cardinality(here) \in Nat /\ (Cardinality(here) = 0 <=> here = {})
  BY <1>2, FS_CardinalityType, FS_EmptySet
<1> QED
  BY <1>1, <1>2, <1>3, SameCardinality DEF here

\* As long as a list that has nothing twice, a set is.
LEMMA OnceIsMany ==
    ASSUME NEW T, IsFiniteSet(T), NEW s \in Seq(T), Once(s)
    PROVE  Cardinality(T) \in Nat /\ Len(s) <= Cardinality(T)
<1>1. Len(s) \in Nat /\ s \in [1 .. Len(s) -> T]
  OBVIOUS
<1>2. IsFiniteSet(1 .. Len(s)) /\ Cardinality(1 .. Len(s)) = Len(s)
  BY <1>1, FS_Interval
<1>3. Cardinality(T) \in Nat
  BY FS_CardinalityType
<1>4. ASSUME Cardinality(T) < Cardinality(1 .. Len(s)) PROVE FALSE
  <2>1. \E i, j \in 1 .. Len(s) : i # j /\ s[i] = s[j]
    BY <1>1, <1>2, <1>4, FS_PigeonHole
  <2> QED
    BY <2>1 DEF Once
<1> QED
  BY <1>1, <1>2, <1>3, <1>4

LEMMA NodesAreFew ==
    ASSUME NEW T \in SUBSET Nodes
    PROVE  /\ IsFiniteSet(T) /\ Cardinality(T) \in Nat
           /\ \A S \in SUBSET T : Cardinality(S) \in Nat /\ Cardinality(S) <= Cardinality(T)
<1>1. IsFiniteSet(T)
  BY TreeAssumption, FS_Subset
<1>2. ASSUME NEW S \in SUBSET T
      PROVE  Cardinality(S) \in Nat /\ Cardinality(S) <= Cardinality(T)
  BY <1>1, FS_Subset, FS_CardinalityType
<1> QED
  BY <1>1, <1>2, FS_CardinalityType

LEMMA TooManyThen ==
    Glob!TooMany <=>
        \/ Cardinality(Glob!MayReach) > MaxTotal
        \/ \E d \in Nodes \cup {0} :
              Cardinality({n \in Glob!MayReach : ParentOf[n] = d}) > MaxDirectory
  BY SameCardinality, Zenon DEF Glob!TooMany, Glob!Root

LEMMA TooManyThere ==
    Glob!TooMany' <=>
        \/ Cardinality(Glob!MayReach') > MaxTotal
        \/ \E d \in Nodes \cup {0} :
              Cardinality({n \in Glob!MayReach' : ParentOf[n] = d}) > MaxDirectory
  BY SameCardinality, Zenon DEF Glob!TooMany, Glob!Root

\* What is in a directory may be reached if the directory may.
LEMMA EntriesMayBeReached ==
    ASSUME GlobTypes, GlobPast,
           NEW d, \/ d = 0
                  \/ d \in Glob!MayReach \ Hidden /\ kind[d] = "directory"
    PROVE  Glob!Entries(d) \subseteq Glob!MayReach
<1> SUFFICES ASSUME NEW n \in Glob!Entries(d) PROVE n \in Glob!MayReach
  OBVIOUS
<1>1. n \in Nodes /\ ParentOf[n] = d /\ kind[n] # "none" /\ kind[n] \in been[n]
  BY DEF Glob!Entries, GlobPast
<1>2. been[n] # {"none"}
  BY <1>1
<1>3. ASSUME NEW m \in Glob!Way[n] \ {n} PROVE m \notin Hidden /\ "directory" \in been[m]
  <2>1. m \in Above(n)
    BY <1>1, WayGoesUp
  <2>2. d # 0 /\ m \in Glob!Way[d]
    BY <1>1, <2>1 DEF Above
  <2>3. d \in Nodes /\ kind[d] \in been[d]
    BY <2>2 DEF Glob!MayReach, GlobPast
  <2> QED
    BY <2>2, <2>3 DEF Glob!MayReach
<1> QED
  BY <1>1, <1>2, <1>3 DEF Glob!MayReach

\* A directory that is opened adds its entries, all of them or none.
LEMMA DirectoryIsOpened ==
    ASSUME GlobTypes, NEW d, NEW rest \in Seq(Seq(Nodes)), Apart(rest),
           Listed(rest) \cap Glob!Entries(d) = {}, Glob!Open(d, rest)
    PROVE  /\ walk' \in Seq(Seq(Nodes)) /\ Apart(walk')
           /\ traversed' \in Nat /\ truncated' \in BOOLEAN
           /\ (traversed # 0 \/ Glob!Entries(d) # {}) => traversed' # 0
           /\ \E new \in SUBSET Glob!Entries(d) :
                 /\ Listed(walk') = Listed(rest) \cup new
                 /\ ~truncated' => ~truncated /\ new = Glob!Entries(d)
           /\ ~truncated' => traversed' = traversed + Cardinality(Glob!Entries(d))
           /\ truncated' /\ ~truncated =>
                 \/ traversed + Cardinality(Glob!Entries(d)) > MaxTotal
                 \/ Cardinality(Glob!Entries(d)) > MaxDirectory
<1> DEFINE here == Glob!Entries(d)
           size == Cardinality(here)
           total == MaxTotal < traversed + size
           many == size > MaxDirectory
<1>1. here \in SUBSET Nodes /\ here \in SUBSET Nat /\ IsFiniteSet(here)
      /\ Glob!Cardinality(here) = size /\ size \in Nat /\ (here # {} => size # 0)
  BY EntriesAreFew
<1>2. /\ traversed' = IF total THEN MaxTotal + 1 ELSE traversed + size
      /\ truncated' = (truncated \/ total \/ many)
      /\ IF total \/ many THEN walk' = rest
         ELSE \E names \in Glob!Listing(here) : walk' = Append(rest, names)
  BY <1>1 DEF Glob!Open
<1>3. traversed \in Nat /\ truncated \in BOOLEAN /\ MaxTotal \in Nat /\ MaxDirectory \in Nat
  BY WalkAssumption DEF GlobTypes
<1> HIDE DEF here, size
<1>7. /\ ~truncated' => traversed' = traversed + size
      /\ truncated' /\ ~truncated => traversed + size > MaxTotal \/ size > MaxDirectory
  BY <1>1, <1>2, <1>3
<1>4. traversed' \in Nat /\ ((traversed # 0 \/ here # {}) => traversed' # 0)
  BY <1>1, <1>2, <1>3
<1>5. CASE total \/ many
  <2>1. truncated' = TRUE /\ walk' = rest
    BY <1>2, <1>5, Zenon
  <2>2. Listed(walk') = Listed(rest) \cup {}
    BY <2>1
  <2> QED
    BY <1>4, <1>7, <2>1, <2>2 DEF here, size
<1>6. CASE ~(total \/ many)
  <2>1. PICK names \in Glob!Listing(here) : walk' = Append(rest, names)
    BY <1>2, <1>6
  <2>2. names \in Seq(here) /\ Once(names) /\ In(names) = here
    BY <1>1, ListingLists
  <2>3. names \in Seq(Nodes)
    BY <1>1, <2>2, SeqOfMore
  <2>4. walk' \in Seq(Seq(Nodes)) /\ Apart(walk') /\ Listed(walk') = Listed(rest) \cup In(names)
    BY <2>1, <2>2, <2>3, ListIsAdded DEF here
  <2>5. truncated' = truncated
    BY <1>2, <1>3, <1>6
  <2> QED
    BY <1>3, <1>4, <1>7, <2>2, <2>4, <2>5 DEF here, size
<1> QED
  BY <1>5, <1>6

\* The walk goes on behind an entry, which has added some of its own.
LEMMA WalkGoesOn ==
    ASSUME NEW taken \in SUBSET Nodes, WalkHasTaken(taken), GlobTypes,
           NEW n \in Listed(walk), NEW new \in SUBSET Glob!Entries(n),
           Apart(walk'), Listed(walk') = (Listed(walk) \ {n}) \cup new,
           new # {} => n \notin Hidden,
           ~truncated' => ~truncated,
           (~truncated' /\ n \in steady' \ Hidden /\ kind[n] = "directory")
               => new = Glob!Entries(n),
           ~globTruncated, traversed' # 0, steady' \subseteq steady, kind' = kind,
           ~finished, ~finished'
    PROVE  WalkHasTaken(taken \cup {n})'
<1> DEFINE after == taken \cup {n}
<1>0. n \in Nodes /\ n # 0 /\ n \notin taken
      /\ ParentOf[n] \in taken \cup {0} /\ Above(n) \cap Hidden = {}
      /\ walk # <<>> /\ traversed # 0
  <2>1. n \in Nodes /\ walk # <<>>
    BY DEF Listed
  <2> QED
    BY <2>1, TreeAssumption DEF WalkHasTaken, FamiliesFollow
<1>1. ASSUME NEW m \in new
      PROVE  /\ m \in Nodes /\ ParentOf[m] = n /\ m \notin Listed(walk) /\ m \notin after
             /\ Above(m) \cap Hidden = {}
  <2>1. m \in Nodes /\ ParentOf[m] = n
    BY DEF Glob!Entries
  <2>2. m \notin Listed(walk) /\ m \notin taken
    BY <1>0, <2>1 DEF WalkHasTaken, FamiliesFollow
  <2>3. m # n
    BY <1>0, <2>1
  <2>4. Above(m) = {n} \cup Above(n)
    BY <1>0, <2>1, WayGoesUp DEF Above
  <2> QED
    BY <1>0, <2>1, <2>2, <2>3, <2>4
<1>2. Listed(walk') \cap after = {}
  BY <1>1 DEF WalkHasTaken
<1>3. ASSUME NEW m \in Listed(walk') \cup after
      PROVE  ParentOf[m] \in after \cup {0} /\ Above(m) \cap Hidden = {}
  <2>1. CASE m \in new
    BY <1>1, <2>1
  <2>2. CASE m \notin new
    BY <2>2 DEF WalkHasTaken, FamiliesFollow
  <2> QED
    BY <2>1, <2>2
<1>4. ASSUME NEW m \in Nodes, ~truncated', m \in steady', kind'[m] # "none",
             \/ ParentOf[m] = 0
             \/ /\ ParentOf[m] \in (after \cap steady') \ Hidden
                /\ kind'[ParentOf[m]] = "directory"
      PROVE  m \in Listed(walk') \cup after
  <2>1. CASE ParentOf[m] = n
    <3>1. m \in Glob!Entries(n) /\ n \in steady' \ Hidden /\ kind[n] = "directory"
      BY <1>0, <1>4, <2>1 DEF Glob!Entries
    <3> QED
      BY <1>4, <3>1
  <2>2. CASE ParentOf[m] # n
    <3>1. Due(m, taken)
      BY <1>4, <2>2 DEF Due, Opened
    <3>2. m \in Listed(walk) \cup taken
      BY <1>0, <1>4, <3>1 DEF WalkHasTaken, NothingIsSkipped
    <3> QED
      BY <3>2
  <2> QED
    BY <2>1, <2>2
<1>5. NothingIsSkipped(after)'
  BY <1>4 DEF NothingIsSkipped, Due, Opened
<1>6. FamiliesFollow(after)'
  BY <1>3 DEF FamiliesFollow
<1> QED
  BY <1>2, <1>5, <1>6 DEF WalkHasTaken

LEMMA NoneAdded ==
    ASSUME NEW taken \in SUBSET Nodes, WalkHasTaken(taken), GlobTypes,
           NEW n \in Listed(walk),
           Apart(walk'), Listed(walk') = Listed(walk) \ {n},
           n \in Hidden \/ n \notin steady' \/ kind[n] # "directory",
           ~globTruncated, traversed # 0, steady' \subseteq steady, ~finished,
           UNCHANGED <<kind, truncated, traversed, finished>>
    PROVE  WalkHasTaken(taken \cup {n})'
<1>1. PICK new \in SUBSET Glob!Entries(n) : new = {}
  OBVIOUS
<1>2. Listed(walk') = (Listed(walk) \ {n}) \cup new
  BY <1>1
<1> QED
  BY <1>1, <1>2, WalkGoesOn

\* The walk reaches what it is listed by opening n, and all of it is counted.
LEMMA ReachGoesOn ==
    ASSUME NEW taken \in SUBSET Nodes, WalkHasTaken(taken), WalkReaches(taken),
           GlobTypes, GlobPast, ~truncated, ~finished, ~finished',
           NEW n, \/ n = 0 /\ taken = {} /\ walk = <<>>
                  \/ n \in Listed(walk) \ Hidden /\ kind[n] = "directory",
           NEW after, after = IF n = 0 THEN taken ELSE taken \cup {n},
           NEW new \in SUBSET Glob!Entries(n),
           Listed(walk') = (Listed(walk) \ {n}) \cup new,
           ~truncated' => /\ new = Glob!Entries(n)
                          /\ traversed' = traversed + Cardinality(Glob!Entries(n)),
           truncated' => \/ traversed + Cardinality(Glob!Entries(n)) > MaxTotal
                         \/ Cardinality(Glob!Entries(n)) > MaxDirectory,
           been' = been
    PROVE  WalkReaches(after)'
<1> DEFINE here == Glob!Entries(n)
           all == Listed(walk) \cup taken
<1>1. all \subseteq Glob!MayReach /\ traversed = Cardinality(all) /\ all \subseteq Nodes
  BY DEF WalkReaches, Listed
<1>2. here \subseteq Glob!MayReach
  BY <1>1, EntriesMayBeReached
<1>3. here \cap all = {}
  <2> SUFFICES ASSUME NEW m \in here, m \in all PROVE FALSE
    OBVIOUS
  <2>1. ParentOf[m] = n /\ ParentOf[m] \in taken \cup {0}
    BY DEF Glob!Entries, WalkHasTaken, FamiliesFollow
  <2>2. CASE n = 0
    <3>1. Listed(walk) = {} /\ taken = {}
      BY <2>2, TreeAssumption DEF Listed
    <3> QED
      BY <3>1
  <2>3. CASE n # 0
    <3>1. n \in Listed(walk) /\ n \in taken
      BY <2>1, <2>3
    <3> QED
      BY <3>1 DEF WalkHasTaken
  <2> QED
    BY <2>2, <2>3
<1>4. Glob!MayReach \in SUBSET Nodes /\ Glob!MayReach' = Glob!MayReach
  BY DEF Glob!MayReach
<1>5. Listed(walk') \cup after = all \cup new
  <2>1. CASE n = 0
    <3>1. Listed(walk) = {} /\ taken = {}
      BY <2>1, TreeAssumption DEF Listed
    <3> QED
      BY <2>1, <3>1
  <2>2. CASE n # 0
    BY <2>2
  <2> QED
    BY <2>1, <2>2
<1> HIDE DEF here, all
<1>6. /\ Cardinality(all) \in Nat /\ Cardinality(here) \in Nat
      /\ Cardinality(all \cup here) = Cardinality(all) + Cardinality(here)
      /\ Cardinality(all \cup here) <= Cardinality(Glob!MayReach)
      /\ Cardinality(Glob!MayReach) \in Nat
  <2>1. IsFiniteSet(all) /\ IsFiniteSet(here) /\ all \cup here \in SUBSET Glob!MayReach
    BY <1>1, <1>2, <1>4, NodesAreFew
  <2>2. Cardinality(all \cup here) = Cardinality(all) + Cardinality(here) - Cardinality(all \cap here)
    BY <2>1, FS_Union
  <2>3. Cardinality(all \cap here) = 0
    BY <1>3, FS_EmptySet
  <2>4. Cardinality(all) \in Nat /\ Cardinality(here) \in Nat
    BY <2>1, FS_CardinalityType
  <2> QED
    BY <1>4, <2>1, <2>2, <2>3, <2>4, NodesAreFew
<1>7. ASSUME truncated' PROVE Glob!TooMany'
  <2>0. MaxTotal \in Nat /\ MaxDirectory \in Nat
    BY WalkAssumption
  <2>1. CASE traversed + Cardinality(here) > MaxTotal
    <3>1. Cardinality(Glob!MayReach) > MaxTotal
      BY <1>1, <1>6, <2>0, <2>1
    <3> QED
      BY <1>4, <3>1, TooManyThen DEF Glob!TooMany
  <2>2. CASE Cardinality(here) > MaxDirectory
    <3> DEFINE there == {m \in Glob!MayReach : ParentOf[m] = n}
    <3>1. here \subseteq there /\ there \in SUBSET Nodes /\ n \in Nodes \cup {0}
      BY <1>2, <1>4 DEF here, Glob!Entries, Listed
    <3> HIDE DEF there
    <3>2. Cardinality(there) > MaxDirectory
      BY <1>6, <2>0, <2>2, <3>1, NodesAreFew
    <3>3. Glob!TooMany
      BY <3>1, <3>2, TooManyThen DEF there
    <3> QED
      BY <1>4, <3>3 DEF Glob!TooMany
  <2> QED
    BY <1>7, <2>1, <2>2 DEF here
<1>8. ASSUME ~truncated' PROVE traversed' = Cardinality(Listed(walk') \cup after)
  BY <1>1, <1>5, <1>6, <1>8 DEF here
<1>9. Listed(walk') \cup after \subseteq Glob!MayReach'
  BY <1>1, <1>2, <1>4, <1>5 DEF here
<1> QED
  BY <1>7, <1>8, <1>9 DEF WalkReaches

\* It reaches no more when nothing is added.
LEMMA ReachStays ==
    ASSUME NEW taken \in SUBSET Nodes, WalkReaches(taken), NEW after,
           \/ Listed(walk') \cup after = Listed(walk) \cup taken
           \/ finished' /\ Listed(walk') \cup after \subseteq Listed(walk) \cup taken,
           UNCHANGED <<been, truncated, traversed>>, finished' \/ ~finished
    PROVE  WalkReaches(after)'
<1>1. Glob!MayReach' = Glob!MayReach /\ (Glob!TooMany' <=> Glob!TooMany)
  BY DEF Glob!MayReach, Glob!TooMany
<1> QED
  BY <1>1 DEF WalkReaches

LEMMA PastStays ==
    ASSUME GlobPast, kind' = kind, been' = been, steady' \subseteq steady
    PROVE  GlobPast'
  BY DEF GlobPast

\* An entry that is no file to be told adds nothing to what is told.
LEMMA NothingIsTold ==
    ASSUME NEW taken \in SUBSET Nodes, PathsAreTold(taken), NEW n,
           n \in steady' \ Hidden => kind[n] # "file",
           kind' = kind, been' = been, steady' \subseteq steady, paths' = paths
    PROVE  PathsAreTold(taken \cup {n})'
BY DEF PathsAreTold

LEMMA MatchesStay ==
    ASSUME MatchesAreFound,
           UNCHANGED <<shared, finished, pattern, globLimit, paths, globMatches, globTruncated>>
    PROVE  MatchesAreFound'
BY DEF MatchesAreFound

LEMMA WalkStarts == GlobInv /\ Glob!Start => GlobInv'
<1> SUFFICES ASSUME GlobInv, Glob!Start PROVE GlobInv'
  OBVIOUS
<1> USE DEF Glob!given
<1>0. GlobTypes /\ GlobPast /\ MatchesAreFound
  BY DEF GlobInv
<1>1. PICK taken \in SUBSET Nodes :
         WalkHasTaken(taken) /\ WalkReaches(taken) /\ PathsAreTold(taken)
  BY DEF GlobInv
<1>2. taken = {} /\ walk = <<>> /\ ~finished /\ Glob!Entries(0) # {} /\ Glob!Open(0, <<>>)
      /\ UNCHANGED <<kind, shared, pattern, globLimit, paths, globMatches, globTruncated,
                      finished, steady, been>>
  BY <1>1 DEF Glob!Start, Glob!Root, WalkHasTaken
<1>a. traversed = 0 /\ ~truncated
  BY <1>1 DEF Glob!Start, WalkHasTaken
<1>3. <<>> \in Seq(Seq(Nodes)) /\ Apart(<<>>) /\ Listed(<<>>) = {}
  BY DEF Apart, Listed
<1>4. PICK new \in SUBSET Glob!Entries(0) :
         /\ walk' \in Seq(Seq(Nodes)) /\ Apart(walk') /\ traversed' \in Nat
         /\ truncated' \in BOOLEAN /\ traversed' # 0 /\ Listed(walk') = new
         /\ ~truncated' => ~truncated /\ new = Glob!Entries(0)
         /\ ~truncated' => traversed' = traversed + Cardinality(Glob!Entries(0))
         /\ truncated' /\ ~truncated =>
               \/ traversed + Cardinality(Glob!Entries(0)) > MaxTotal
               \/ Cardinality(Glob!Entries(0)) > MaxDirectory
  <2>1. PICK zero, none : zero = 0 /\ none = <<>>
    OBVIOUS
  <2>2. none \in Seq(Seq(Nodes)) /\ Apart(none) /\ Listed(none) = {} /\ Glob!Open(zero, none)
        /\ Glob!Entries(zero) # {}
    BY <1>2, <1>3, <2>1
  <2>3. /\ walk' \in Seq(Seq(Nodes)) /\ Apart(walk')
        /\ traversed' \in Nat /\ truncated' \in BOOLEAN /\ traversed' # 0
        /\ \E new \in SUBSET Glob!Entries(zero) :
              /\ Listed(walk') = {} \cup new
              /\ ~truncated' => ~truncated /\ new = Glob!Entries(zero)
        /\ ~truncated' => traversed' = traversed + Cardinality(Glob!Entries(zero))
        /\ truncated' /\ ~truncated =>
              \/ traversed + Cardinality(Glob!Entries(zero)) > MaxTotal
              \/ Cardinality(Glob!Entries(zero)) > MaxDirectory
    BY <1>0, <2>2, DirectoryIsOpened
  <2> QED
    BY <2>1, <2>3
<1>5. GlobTypes'
  BY <1>0, <1>2, <1>4 DEF GlobTypes
<1>6. GlobPast'
  BY <1>0, <1>2, PastStays
<1>7. \A n \in new : ParentOf[n] = 0 /\ Above(n) = {}
  BY DEF Glob!Entries, Above
<1>8. WalkHasTaken({})'
  <2>1. FamiliesFollow({})'
    BY <1>4, <1>7 DEF FamiliesFollow
  <2>2. ASSUME NEW n \in Nodes, ~truncated', kind[n] # "none", ParentOf[n] = 0
        PROVE  n \in Listed(walk')
    BY <1>4, <2>2 DEF Glob!Entries
  <2>3. NothingIsSkipped({})'
    BY <1>2, <2>2 DEF NothingIsSkipped, Due, Opened
  <2> QED
    BY <1>2, <1>4, <2>1, <2>3 DEF WalkHasTaken
<1>9. PathsAreTold({})'
  BY <1>1, <1>2 DEF PathsAreTold
<1>10. MatchesAreFound'
  BY <1>0, <1>2, MatchesStay
<1>11. WalkReaches({})'
  <2>1. PICK zero : zero = 0
    OBVIOUS
  <2>2. WalkReaches(taken) /\ WalkHasTaken(taken) /\ taken = {} /\ walk = <<>>
        /\ ~finished' /\ new \in SUBSET Glob!Entries(zero)
        /\ Listed(walk') = (Listed(walk) \ {zero}) \cup new
    BY <1>1, <1>2, <1>3, <1>4, <2>1
  <2>3. {} = IF zero = 0 THEN taken ELSE taken \cup {zero}
    BY <1>2, <2>1
  <2>4. WalkReaches(taken)'
    BY <1>0, <1>2, <1>4, <1>a, <2>1, <2>2, ReachGoesOn
  <2> QED
    BY <1>2, <2>4
<1> QED
  BY <1>5, <1>6, <1>8, <1>9, <1>10, <1>11 DEF GlobInv

LEMMA WalkVisits == GlobInv /\ Glob!Visit => GlobInv'
<1> SUFFICES ASSUME GlobInv, Glob!Visit PROVE GlobInv'
  OBVIOUS
<1> USE DEF Glob!given
<1>n. PICK n : n = Head(Glob!Deepest)
  OBVIOUS
<1>0. GlobTypes /\ GlobPast /\ MatchesAreFound
  BY DEF GlobInv
<1>1. PICK taken \in SUBSET Nodes :
         WalkHasTaken(taken) /\ WalkReaches(taken) /\ PathsAreTold(taken)
  BY DEF GlobInv
<1>2. /\ walk \in Seq(Seq(Nodes)) /\ walk # <<>> /\ walk[Len(walk)] # <<>>
      /\ ~truncated /\ ~globTruncated /\ Apart(walk) /\ traversed # 0 /\ ~finished
      /\ UNCHANGED <<kind, shared, pattern, globLimit, finished, steady, been>>
  BY <1>0, <1>1 DEF Glob!Visit, Glob!Walking, Glob!Deepest, GlobTypes, WalkHasTaken
<1>3. /\ Glob!Taken \in Seq(Seq(Nodes)) /\ Apart(Glob!Taken)
      /\ n \in Listed(walk) /\ Listed(Glob!Taken) = Listed(walk) \ {n}
  BY <1>n, <1>2, HeadIsTaken DEF Glob!Taken, Glob!Deepest
<1>4. n \in Nodes /\ n \notin taken /\ kind[n] \in Glob!Kinds
  <2>1. n \in Nodes /\ n \notin taken
    BY <1>1, <1>3 DEF Listed, WalkHasTaken
  <2> QED
    BY <1>0, <2>1 DEF GlobTypes
<1>5. /\ \/ /\ n \in Hidden \/ kind[n] \in {"none", "link"}
            /\ walk' = Glob!Taken
            /\ UNCHANGED <<paths, globMatches, globTruncated, truncated, traversed>>
         \/ /\ n \notin Hidden /\ kind[n] = "file"
            /\ walk' = Glob!Taken /\ Glob!Tell(n)
            /\ UNCHANGED <<truncated, traversed>>
         \/ /\ n \notin Hidden /\ kind[n] = "directory"
            /\ Glob!Open(n, Glob!Taken)
            /\ UNCHANGED <<paths, globMatches, globTruncated>>
  BY <1>n, <1>4 DEF Glob!Visit, Glob!PassedOver, Glob!Kinds
<1>6. GlobPast'
  BY <1>0, <1>2, PastStays
<1>7. ASSUME walk' = Glob!Taken, UNCHANGED <<truncated, traversed>>,
             n \in Hidden \/ kind[n] # "directory"
      PROVE  WalkHasTaken(taken \cup {n})' /\ WalkReaches(taken \cup {n})'
  <2>1. Listed(walk') = Listed(walk) \ {n} /\ Apart(walk')
    BY <1>3, <1>7
  <2>2. WalkHasTaken(taken \cup {n})'
    BY <1>0, <1>1, <1>2, <1>3, <1>7, <2>1, NoneAdded
  <2>3. Listed(walk') \cup (taken \cup {n}) = Listed(walk) \cup taken
    BY <1>3, <2>1
  <2>4. WalkReaches(taken \cup {n})'
    BY <1>1, <1>2, <1>7, <2>3, ReachStays
  <2> QED
    BY <2>2, <2>4
<1>8. CASE /\ n \in Hidden \/ kind[n] \in {"none", "link"}
           /\ walk' = Glob!Taken
           /\ UNCHANGED <<paths, globMatches, globTruncated, truncated, traversed>>
  <2>1. GlobTypes'
    BY <1>0, <1>2, <1>3, <1>8 DEF GlobTypes
  <2>2. WalkHasTaken(taken \cup {n})' /\ WalkReaches(taken \cup {n})'
    BY <1>7, <1>8
  <2>3. PathsAreTold(taken \cup {n})'
    BY <1>1, <1>2, <1>8, NothingIsTold
  <2>4. MatchesAreFound'
    BY <1>0, <1>2, <1>8, MatchesStay
  <2> QED
    BY <1>4, <1>6, <2>1, <2>2, <2>3, <2>4 DEF GlobInv
<1>9. CASE /\ n \notin Hidden /\ kind[n] = "file"
           /\ walk' = Glob!Taken /\ Glob!Tell(n)
           /\ UNCHANGED <<truncated, traversed>>
  <2>1. /\ paths' \in Seq(Nodes) /\ In(paths') = In(paths) \cup {n} /\ Once(paths')
    <3>1. paths \in Seq(Nodes) /\ Once(paths) /\ n \notin In(paths) /\ paths' = Append(paths, n)
      BY <1>0, <1>1, <1>4, <1>9 DEF GlobTypes, PathsAreTold, Glob!Tell
    <3> QED
      BY <1>4, <3>1, LongerByOne
  <2>2. ASSUME shared \/ n \notin pattern
       PROVE  GlobTypes' /\ MatchesAreFound'
    <3>1. UNCHANGED <<globMatches, globTruncated>>
      BY <1>9, <2>2 DEF Glob!Tell
    <3>2. GlobTypes'
      BY <1>0, <1>2, <1>3, <1>9, <2>1, <3>1 DEF GlobTypes
    <3>3. MatchesAreFound'
      BY <1>0, <1>2, <2>1, <2>2, <3>1 DEF MatchesAreFound
    <3> QED
      BY <3>2, <3>3
  <2>3. ASSUME ~shared /\ n \in pattern /\ Len(globMatches) = globLimit
       PROVE  GlobTypes' /\ MatchesAreFound'
    <3>1. globTruncated' = TRUE /\ globMatches' = globMatches
      BY <1>9, <2>3 DEF Glob!Tell
    <3>2. GlobTypes'
      BY <1>0, <1>2, <1>3, <1>9, <2>1, <3>1 DEF GlobTypes
    <3>3. Cardinality(In(paths') \cap pattern) > globLimit
      <4> DEFINE all == In(paths') \cap pattern
      <4>1. /\ globMatches \in Seq(Nodes) /\ globLimit \in Nat /\ Once(globMatches)
            /\ n \notin In(globMatches) /\ In(globMatches) \subseteq In(paths) \cap pattern
        BY <1>0, <1>1, <1>4, <2>3 DEF GlobTypes, MatchesAreFound, PathsAreTold
      <4>2. /\ Append(globMatches, n) \in Seq(Nodes) /\ Once(Append(globMatches, n))
            /\ Len(Append(globMatches, n)) = globLimit + 1
            /\ In(Append(globMatches, n)) = In(globMatches) \cup {n}
        BY <1>4, <2>3, <4>1, LongerByOne
      <4>3. In(Append(globMatches, n)) \subseteq all /\ all \in SUBSET Nodes
        BY <1>0, <2>1, <2>3, <4>1, <4>2 DEF GlobTypes
      <4> HIDE DEF all
      <4>4. IsFiniteSet(all) /\ Cardinality(all) \in Nat
        BY <4>3, NodesAreFew
      <4>5. PICK s : s = Append(globMatches, n)
        OBVIOUS
      <4>6. s \in Seq(all)
        BY <4>2, <4>3, <4>5, SeqOfItsOwn
      <4>7. globLimit + 1 <= Cardinality(all)
        BY <4>2, <4>4, <4>5, <4>6, OnceIsMany
      <4> QED
        BY <4>1, <4>4, <4>7 DEF all
    <3>4. MatchesAreFound'
      BY <1>0, <1>2, <2>1, <2>3, <3>1, <3>3 DEF MatchesAreFound
    <3> QED
      BY <3>2, <3>4
  <2>4. ASSUME ~shared /\ n \in pattern /\ Len(globMatches) # globLimit
       PROVE  GlobTypes' /\ MatchesAreFound'
    <3>1. globTruncated' = globTruncated /\ globMatches' = Append(globMatches, n)
      BY <1>9, <2>4 DEF Glob!Tell
    <3>2. /\ globMatches \in Seq(Nodes) /\ globLimit \in Nat /\ Len(globMatches) <= globLimit
          /\ Once(globMatches) /\ n \notin In(globMatches)
      BY <1>0, <1>1, <1>4, <2>4 DEF GlobTypes, MatchesAreFound, PathsAreTold
    <3>3. /\ globMatches' \in Seq(Nodes) /\ Len(globMatches') = Len(globMatches) + 1
          /\ In(globMatches') = In(globMatches) \cup {n} /\ Once(globMatches')
      BY <1>4, <3>1, <3>2, LongerByOne
    <3>4. GlobTypes'
      BY <1>0, <1>2, <1>3, <1>9, <2>1, <3>1, <3>3 DEF GlobTypes
    <3>5. Len(globMatches') <= globLimit
      <4>1. Len(globMatches) \in Nat
        BY <3>2
      <4> QED
        BY <2>4, <3>2, <3>3, <4>1
    <3>6. MatchesAreFound'
      BY <1>0, <1>2, <2>1, <2>4, <3>1, <3>3, <3>5 DEF MatchesAreFound
    <3> QED
      BY <3>4, <3>6
  <2>5. GlobTypes' /\ MatchesAreFound'
    BY <2>2, <2>3, <2>4
  <2>6. WalkHasTaken(taken \cup {n})' /\ WalkReaches(taken \cup {n})'
    BY <1>7, <1>9
  <2>7. PathsAreTold(taken \cup {n})'
    <3>1. "file" \in been[n]
      BY <1>0, <1>4, <1>9 DEF GlobPast
    <3> QED
      BY <1>1, <1>2, <1>9, <2>1, <3>1 DEF PathsAreTold
  <2> QED
    BY <1>4, <1>6, <2>5, <2>6, <2>7 DEF GlobInv
<1>10. CASE /\ n \notin Hidden /\ kind[n] = "directory"
            /\ Glob!Open(n, Glob!Taken)
            /\ UNCHANGED <<paths, globMatches, globTruncated>>
  <2>1. Listed(Glob!Taken) \cap Glob!Entries(n) = {}
    <3>1. ASSUME NEW m \in Glob!Entries(n) PROVE m \notin Listed(walk)
      <4>1. ParentOf[m] = n /\ n # 0
        BY <1>4, TreeAssumption DEF Glob!Entries
      <4> QED
        BY <1>1, <1>4, <4>1 DEF WalkHasTaken, FamiliesFollow
    <3> QED
      BY <1>3, <3>1
  <2>2. PICK new \in SUBSET Glob!Entries(n) :
           /\ walk' \in Seq(Seq(Nodes)) /\ Apart(walk')
           /\ traversed' \in Nat /\ truncated' \in BOOLEAN /\ traversed' # 0
           /\ Listed(walk') = (Listed(walk) \ {n}) \cup new
           /\ ~truncated' => ~truncated /\ new = Glob!Entries(n)
           /\ ~truncated' => traversed' = traversed + Cardinality(Glob!Entries(n))
           /\ truncated' /\ ~truncated =>
                 \/ traversed + Cardinality(Glob!Entries(n)) > MaxTotal
                 \/ Cardinality(Glob!Entries(n)) > MaxDirectory
    BY <1>0, <1>2, <1>3, <1>10, <2>1, DirectoryIsOpened
  <2>3. GlobTypes'
    BY <1>0, <1>2, <1>10, <2>2 DEF GlobTypes
  <2>4. WalkHasTaken(taken \cup {n})'
    BY <1>0, <1>1, <1>2, <1>3, <1>10, <2>2, WalkGoesOn
  <2>5. PathsAreTold(taken \cup {n})'
    BY <1>1, <1>2, <1>10, NothingIsTold
  <2>6. MatchesAreFound'
    BY <1>0, <1>2, <1>10, MatchesStay
  <2>7. WalkReaches(taken \cup {n})'
    <3>1. PICK after : after = taken \cup {n}
      OBVIOUS
    <3>2. n # 0 /\ after = IF n = 0 THEN taken ELSE taken \cup {n}
      BY <1>4, <3>1, TreeAssumption
    <3>3. WalkReaches(after)'
      BY <1>0, <1>1, <1>2, <1>3, <1>10, <2>2, <3>2, ReachGoesOn
    <3> QED
      BY <3>1, <3>3
  <2> QED
    BY <1>4, <1>6, <2>3, <2>4, <2>5, <2>6, <2>7 DEF GlobInv
<1> QED
  BY <1>5, <1>8, <1>9, <1>10

LEMMA EntryIsPassedOver == GlobInv /\ Glob!VisitFails => GlobInv'
<1> SUFFICES ASSUME GlobInv, Glob!VisitFails PROVE GlobInv'
  OBVIOUS
<1> USE DEF Glob!given
<1>n. PICK n : n = Head(Glob!Deepest)
  OBVIOUS
<1>0. GlobTypes /\ GlobPast /\ MatchesAreFound
  BY DEF GlobInv
<1>1. PICK taken \in SUBSET Nodes :
         WalkHasTaken(taken) /\ WalkReaches(taken) /\ PathsAreTold(taken)
  BY DEF GlobInv
<1>2. /\ walk \in Seq(Seq(Nodes)) /\ walk # <<>> /\ walk[Len(walk)] # <<>>
      /\ ~truncated /\ ~globTruncated /\ Apart(walk) /\ traversed # 0 /\ ~finished
      /\ walk' = Glob!Taken /\ steady' = steady \ {n}
      /\ UNCHANGED <<kind, shared, pattern, globLimit, finished, paths, globMatches,
                      globTruncated, truncated, traversed, been>>
  BY <1>n, <1>0, <1>1 DEF Glob!VisitFails, Glob!Walking, Glob!Deepest, GlobTypes, WalkHasTaken
<1>3. /\ Glob!Taken \in Seq(Seq(Nodes)) /\ Apart(Glob!Taken)
      /\ n \in Listed(walk) /\ Listed(Glob!Taken) = Listed(walk) \ {n}
  BY <1>n, <1>2, HeadIsTaken DEF Glob!Taken, Glob!Deepest
<1>4. GlobTypes'
  BY <1>0, <1>2, <1>3 DEF GlobTypes
<1>5. GlobPast'
  BY <1>0, <1>2, PastStays
<1>6. WalkHasTaken(taken \cup {n})'
  <2>1. Listed(walk') = Listed(walk) \ {n} /\ Apart(walk')
    BY <1>2, <1>3
  <2> QED
    BY <1>0, <1>1, <1>2, <1>3, <2>1, NoneAdded
<1>7. PathsAreTold(taken \cup {n})'
  BY <1>1, <1>2, NothingIsTold
<1>8. MatchesAreFound'
  BY <1>0, <1>2, MatchesStay
<1>9. n \in Nodes
  BY <1>3 DEF Listed
<1>10. WalkReaches(taken \cup {n})'
  <2>1. Listed(walk') \cup (taken \cup {n}) = Listed(walk) \cup taken
    BY <1>2, <1>3
  <2> QED
    BY <1>1, <1>2, <2>1, ReachStays
<1> QED
  BY <1>4, <1>5, <1>6, <1>7, <1>8, <1>9, <1>10 DEF GlobInv

LEMMA DirectoryIsLeft == GlobInv /\ Glob!Leave => GlobInv'
<1> SUFFICES ASSUME GlobInv, Glob!Leave PROVE GlobInv'
  OBVIOUS
<1> USE DEF Glob!given
<1>0. GlobTypes /\ GlobPast /\ MatchesAreFound
  BY DEF GlobInv
<1>1. PICK taken \in SUBSET Nodes :
         WalkHasTaken(taken) /\ WalkReaches(taken) /\ PathsAreTold(taken)
  BY DEF GlobInv
<1>2. /\ walk \in Seq(Seq(Nodes)) /\ walk # <<>> /\ walk[Len(walk)] = <<>> /\ Apart(walk)
      /\ walk' = SubSeq(walk, 1, Len(walk) - 1)
      /\ UNCHANGED <<kind, shared, pattern, globLimit, paths, globMatches, globTruncated,
                      truncated, traversed, finished, steady, been>>
  BY <1>0, <1>1 DEF Glob!Leave, Glob!Walking, Glob!Deepest, GlobTypes, WalkHasTaken
<1>3. walk' \in Seq(Seq(Nodes)) /\ Apart(walk') /\ Listed(walk') = Listed(walk)
  BY <1>2, ListIsLeft
<1>4. GlobTypes'
  BY <1>0, <1>2, <1>3 DEF GlobTypes
<1>5. GlobPast'
  BY <1>0, <1>2, PastStays
<1>6. WalkHasTaken(taken)'
  <2>1. FamiliesFollow(taken)'
    BY <1>1, <1>3 DEF WalkHasTaken, FamiliesFollow
  <2>2. NothingIsSkipped(taken)'
    BY <1>1, <1>2, <1>3 DEF WalkHasTaken, NothingIsSkipped, Due, Opened
  <2> QED
    BY <1>1, <1>2, <1>3, <2>1, <2>2 DEF WalkHasTaken
<1>7. PathsAreTold(taken)'
  BY <1>1, <1>2 DEF PathsAreTold
<1>8. MatchesAreFound'
  BY <1>0, <1>2, MatchesStay
<1>9. WalkReaches(taken)'
  BY <1>1, <1>2, <1>3, ReachStays
<1> QED
  BY <1>4, <1>5, <1>6, <1>7, <1>8, <1>9 DEF GlobInv

\* The matches of a walk that is the round's, picked from all it has told.
LEMMA MatchesArePicked ==
    ASSUME GlobTypes, Once(paths),
           NEW order \in Glob!Listing({i \in 1 .. Len(paths) : paths[i] \in pattern}),
           NEW picked,
           picked = [k \in 1 .. (IF Len(order) > globLimit THEN globLimit ELSE Len(order)) |->
                        paths[order[k]]]
    PROVE  /\ picked \in Seq(Nodes) /\ Once(picked)
           /\ In(picked) \subseteq In(paths) \cap pattern
           /\ Len(picked) <= globLimit
           /\ Len(order) > globLimit => Len(picked) = globLimit
           /\ Len(order) > globLimit => Cardinality(In(paths) \cap pattern) > globLimit
           /\ ~(Len(order) > globLimit) => In(paths) \cap pattern \subseteq In(picked)
<1> DEFINE places == {i \in 1 .. Len(paths) : paths[i] \in pattern}
           told == IF Len(order) > globLimit THEN globLimit ELSE Len(order)
<1>1. paths \in Seq(Nodes) /\ Len(paths) \in Nat /\ globLimit \in Nat
  BY DEF GlobTypes
<1>2. places \in SUBSET Nat /\ places \subseteq 1 .. Len(paths)
  BY <1>1
<1>3. IsFiniteSet(places)
  <2>1. IsFiniteSet(1 .. Len(paths))
    BY <1>1, FS_Interval
  <2> QED
    BY <1>2, <2>1, FS_Subset
<1>4. /\ order \in Seq(places) /\ Once(order) /\ In(order) = places
  <2> HIDE DEF places
  <2>1. order \in Glob!Listing(places)
    BY DEF places
  <2> QED
    BY <1>2, <1>3, <2>1, ListingLists
<1>5. Len(order) \in Nat /\ \A k \in 1 .. Len(order) :
          order[k] \in 1 .. Len(paths) /\ paths[order[k]] \in pattern
  <2>1. \A k \in 1 .. Len(order) : order[k] \in places
    BY <1>4
  <2> QED
    BY <1>4, <2>1
<1>6. told \in 0 .. Len(order) /\ told <= globLimit
      /\ (Len(order) > globLimit => told = globLimit)
      /\ (~(Len(order) > globLimit) => told = Len(order))
  BY <1>1, <1>5
<1>a. picked = [k \in 1 .. told |-> paths[order[k]]]
  OBVIOUS
<1> HIDE DEF places, told
<1>7. picked \in Seq(Nodes) /\ Len(picked) = told /\ \A k \in 1 .. told : picked[k] = paths[order[k]]
  <2>1. \A k \in 1 .. told : k \in 1 .. Len(order)
    BY <1>5, <1>6
  <2>2. \A k \in 1 .. told : paths[order[k]] \in Nodes
    BY <1>1, <1>5, <2>1
  <2> QED
    BY <1>6, <1>a, <2>2
<1>8. Once(picked)
  <2> SUFFICES ASSUME NEW i \in 1 .. Len(picked), NEW j \in 1 .. Len(picked),
                      picked[i] = picked[j]
               PROVE  i = j
    BY DEF Once
  <2>0. i \in 1 .. told /\ j \in 1 .. told /\ paths[order[i]] = paths[order[j]]
    BY <1>7
  <2>1. i \in 1 .. Len(order) /\ j \in 1 .. Len(order)
    BY <1>5, <1>6, <2>0
  <2>2. order[i] = order[j]
    BY <1>5, <2>0, <2>1 DEF Once
  <2> QED
    BY <1>4, <2>1, <2>2 DEF Once
<1>9. In(picked) \subseteq In(paths) \cap pattern
  <2> SUFFICES ASSUME NEW i \in 1 .. Len(picked) PROVE picked[i] \in In(paths) \cap pattern
    BY DEF In
  <2>0. i \in 1 .. told /\ picked[i] = paths[order[i]]
    BY <1>7
  <2>1. i \in 1 .. Len(order)
    BY <1>5, <1>6, <2>0
  <2> QED
    BY <1>5, <2>0, <2>1 DEF In
<1>10. ASSUME ~(Len(order) > globLimit) PROVE In(paths) \cap pattern \subseteq In(picked)
  <2> SUFFICES ASSUME NEW i \in 1 .. Len(paths), paths[i] \in pattern PROVE paths[i] \in In(picked)
    BY DEF In
  <2>1. i \in In(order)
    BY <1>4 DEF places
  <2>2. PICK k \in 1 .. Len(order) : order[k] = i
    BY <2>1 DEF In
  <2>3. k \in 1 .. told /\ picked[k] = paths[i]
    BY <1>6, <1>7, <1>10, <2>2
  <2> QED
    BY <1>7, <2>3 DEF In
<1>11. ASSUME Len(order) > globLimit PROVE Cardinality(In(paths) \cap pattern) > globLimit
  <2> DEFINE every == [k \in 1 .. Len(order) |-> paths[order[k]]]
             all == In(paths) \cap pattern
  <2>1. every \in Seq(all) /\ Len(every) = Len(order)
    <3>1. \A k \in 1 .. Len(order) : paths[order[k]] \in all
      BY <1>5 DEF In
    <3> HIDE DEF all
    <3> QED
      BY <1>5, <3>1
  <2>2. Once(every)
    <3> SUFFICES ASSUME NEW i \in 1 .. Len(order), NEW j \in 1 .. Len(order),
                        paths[order[i]] = paths[order[j]]
                 PROVE  i = j
      BY <2>1 DEF Once
    <3>1. order[i] = order[j]
      BY <1>5 DEF Once
    <3> QED
      BY <1>4, <3>1 DEF Once
  <2>3. all \in SUBSET Nodes
    BY <1>1 DEF GlobTypes, In
  <2> HIDE DEF every, all
  <2>4. IsFiniteSet(all) /\ Cardinality(all) \in Nat
    BY <2>3, NodesAreFew
  <2>5. Len(order) <= Cardinality(all)
    BY <2>1, <2>2, <2>4, OnceIsMany
  <2> QED
    BY <1>1, <1>5, <1>11, <2>4, <2>5 DEF all
<1> QED
  BY <1>6, <1>7, <1>8, <1>9, <1>10, <1>11

LEMMA WalkFinishes == GlobInv /\ Glob!Finish => GlobInv'
<1> SUFFICES ASSUME GlobInv, Glob!Finish PROVE GlobInv'
  OBVIOUS
<1> USE DEF Glob!given
<1>0. GlobTypes /\ GlobPast /\ MatchesAreFound
  BY DEF GlobInv
<1>1. PICK taken \in SUBSET Nodes :
         WalkHasTaken(taken) /\ WalkReaches(taken) /\ PathsAreTold(taken)
  BY DEF GlobInv
<1>2. /\ ~finished /\ finished' = TRUE /\ walk' = <<>>
      /\ walk = <<>> \/ truncated \/ globTruncated
      /\ traversed = 0 => Glob!Entries(0) = {}
      /\ UNCHANGED <<kind, shared, pattern, globLimit, paths, truncated, traversed, steady,
                      been>>
  BY <1>0 DEF Glob!Finish, Glob!Walking, Glob!Root, GlobTypes
<1>3. globMatches' \in Seq(Nodes) /\ globTruncated' \in BOOLEAN
      /\ (~globTruncated' => ~globTruncated) /\ MatchesAreFound'
  <2>1. CASE ~shared
    <3>1. globMatches' = globMatches /\ globTruncated' = globTruncated
      BY <2>1 DEF Glob!Finish
    <3> QED
      BY <1>0, <1>2, <2>1, <3>1 DEF GlobTypes, MatchesAreFound
  <2>2. CASE shared
    <3>1. PICK order \in Glob!Listing({i \in 1 .. Len(paths) : paths[i] \in pattern}) :
             /\ globMatches' =
                  [k \in 1 .. (IF Len(order) > globLimit THEN globLimit ELSE Len(order)) |->
                      paths[order[k]]]
             /\ globTruncated' = (Len(order) > globLimit)
      BY <2>2 DEF Glob!Finish
    <3>2. Once(paths)
      BY <1>1 DEF PathsAreTold
    <3>3. /\ globMatches' \in Seq(Nodes) /\ Once(globMatches')
          /\ In(globMatches') \subseteq In(paths) \cap pattern
          /\ Len(globMatches') <= globLimit
          /\ Len(order) > globLimit => Len(globMatches') = globLimit
          /\ Len(order) > globLimit => Cardinality(In(paths) \cap pattern) > globLimit
          /\ ~(Len(order) > globLimit) => In(paths) \cap pattern \subseteq In(globMatches')
      BY <1>0, <3>1, <3>2, MatchesArePicked
    <3>4. globTruncated' \in BOOLEAN
      BY <3>1
    <3>5. ~globTruncated
      BY <1>0, <1>2, <2>2 DEF MatchesAreFound
    <3> QED
      BY <1>2, <3>1, <3>3, <3>4, <3>5 DEF MatchesAreFound
  <2> QED
    BY <1>0, <2>1, <2>2 DEF GlobTypes
<1>4. GlobTypes'
  <2>1. walk' \in Seq(Seq(Nodes))
    BY <1>2
  <2> QED
    BY <1>0, <1>2, <1>3, <2>1 DEF GlobTypes
<1>5. GlobPast'
  BY <1>0, <1>2, PastStays
<1>6. WalkHasTaken(taken)'
  <2>1. Listed(walk') = {} /\ Apart(walk')
    BY <1>2 DEF Listed, Apart
  <2>2. FamiliesFollow(taken)'
    BY <1>1, <2>1 DEF WalkHasTaken, FamiliesFollow
  <2>3. ASSUME NEW n \in Nodes, ~truncated, ~globTruncated', Due(n, taken) PROVE n \in taken
    <3>1. walk = <<>> /\ ~globTruncated
      BY <1>2, <1>3, <2>3
    <3>2. Listed(walk) = {}
      BY <3>1 DEF Listed
    <3>3. CASE traversed = 0
      <4>1. n \in Glob!Entries(0)
        BY <1>1, <2>3, <3>3 DEF WalkHasTaken, Due, Opened, Glob!Entries
      <4> QED
        BY <1>2, <3>3, <4>1
    <3>4. CASE traversed # 0
      BY <1>1, <2>3, <3>1, <3>2, <3>4 DEF WalkHasTaken, NothingIsSkipped
    <3> QED
      BY <3>3, <3>4
  <2>4. NothingIsSkipped(taken)'
    BY <1>2, <2>3 DEF NothingIsSkipped, Due, Opened
  <2> QED
    BY <1>1, <1>2, <2>1, <2>2, <2>4 DEF WalkHasTaken
<1>7. PathsAreTold(taken)'
  BY <1>1, <1>2 DEF PathsAreTold
<1>8. WalkReaches(taken)'
  <2>1. Listed(walk') \cup taken \subseteq Listed(walk) \cup taken
    BY <1>2 DEF Listed
  <2> QED
    BY <1>1, <1>2, <2>1, ReachStays
<1> QED
  BY <1>3, <1>4, <1>5, <1>6, <1>7, <1>8 DEF GlobInv

LEMMA TreeIsChanged == GlobInv /\ (\E n \in Nodes : Glob!UserChanges(n)) => GlobInv'
<1> SUFFICES ASSUME GlobInv, NEW n \in Nodes, Glob!UserChanges(n) PROVE GlobInv'
  OBVIOUS
<1> USE DEF Glob!given
<1>0. GlobTypes /\ GlobPast /\ MatchesAreFound
  BY DEF GlobInv
<1>1. PICK taken \in SUBSET Nodes :
         WalkHasTaken(taken) /\ WalkReaches(taken) /\ PathsAreTold(taken)
  BY DEF GlobInv
<1>2. PICK k \in Glob!Kinds :
         kind' = [m \in Nodes |-> IF m = n THEN k
                                 ELSE IF n \in Glob!Way[m] THEN "none" ELSE kind[m]]
  BY DEF Glob!UserChanges
<1>3. /\ ~finished
      /\ steady' = {m \in steady : n \notin Glob!Way[m]}
      /\ UNCHANGED <<shared, pattern, globLimit, walk, paths, globMatches, globTruncated,
                      truncated, traversed, finished>>
  BY DEF Glob!UserChanges
<1>4. GlobTypes'
  <2>1. kind' \in [Nodes -> Glob!Kinds]
    BY <1>0, <1>2 DEF GlobTypes, Glob!Kinds
  <2> QED
    BY <1>0, <1>3, <2>1 DEF GlobTypes
<1>5. steady' \subseteq steady /\ \A m \in steady' : m \in Nodes /\ kind'[m] = kind[m]
  <2>1. ASSUME NEW m \in steady' PROVE m \in Nodes /\ kind'[m] = kind[m]
    <3>1. m \in Nodes /\ n \notin Glob!Way[m]
      BY <1>0, <1>3 DEF GlobTypes
    <3>2. m # n
      BY <3>1, WayGoesUp
    <3> QED
      BY <1>2, <3>1, <3>2
  <2> QED
    BY <1>3, <2>1
<1>9. been' = [m \in Nodes |-> been[m] \cup {kind'[m]}]
  BY DEF Glob!UserChanges
<1>10. GlobPast'
  <2>1. been' \in [Nodes -> SUBSET Glob!Kinds]
    BY <1>0, <1>4, <1>9 DEF GlobPast, GlobTypes
  <2>2. \A m \in Nodes : kind'[m] \in been'[m]
    BY <1>9
  <2>3. \A m \in steady' : been'[m] = {kind'[m]}
    BY <1>0, <1>5, <1>9 DEF GlobPast
  <2> QED
    BY <2>1, <2>2, <2>3 DEF GlobPast
<1>11. \A m \in Nodes : been[m] \subseteq been'[m] /\ been[m] # {}
  BY <1>0, <1>9 DEF GlobPast
<1>12. WalkReaches(taken)'
  <2>1. Glob!MayReach \subseteq Glob!MayReach'
    <3> SUFFICES ASSUME NEW m \in Glob!MayReach PROVE m \in Glob!MayReach'
      OBVIOUS
    <3>1. m \in Nodes /\ been[m] # {"none"} /\ Glob!Way[m] \subseteq Nodes
      BY WayIsClosed DEF Glob!MayReach
    <3>2. been'[m] # {"none"}
      BY <1>11, <3>1
    <3>3. \A p \in Glob!Way[m] \ {m} : p \notin Hidden /\ "directory" \in been'[p]
      BY <1>11, <3>1 DEF Glob!MayReach
    <3> QED
      BY <3>1, <3>2, <3>3 DEF Glob!MayReach
  <2>2. Glob!MayReach \in SUBSET Nodes /\ Glob!MayReach' \in SUBSET Nodes
    BY DEF Glob!MayReach
  <2>3. ASSUME Glob!TooMany PROVE Glob!TooMany'
    <3> DEFINE before == Glob!MayReach
               after == Glob!MayReach'
               Below(set, d) == {m \in set : ParentOf[m] = d}
    <3> HIDE DEF before, after
    <3>0. before \in SUBSET Nodes /\ after \in SUBSET Nodes /\ before \subseteq after
          /\ MaxTotal \in Nat /\ MaxDirectory \in Nat
      BY <2>1, <2>2, WalkAssumption DEF before, after
    <3>1. CASE Cardinality(before) > MaxTotal
      <4>1. Cardinality(after) > MaxTotal
        BY <3>0, <3>1, NodesAreFew
      <4> QED
        BY <4>1, TooManyThere DEF after
    <3>2. ASSUME NEW d \in Nodes \cup {0}, Cardinality(Below(before, d)) > MaxDirectory
          PROVE  Glob!TooMany'
      <4>1. Below(before, d) \subseteq Below(after, d) /\ Below(after, d) \in SUBSET Nodes
        BY <3>0
      <4>2. Cardinality(Below(after, d)) > MaxDirectory
        <5> HIDE DEF Below
        <5> QED
          BY <3>0, <3>2, <4>1, NodesAreFew
      <4> QED
        BY <4>2, TooManyThere DEF after
    <3> QED
      BY <2>3, <3>1, <3>2, TooManyThen DEF before
  <2> QED
    BY <1>1, <1>3, <2>1, <2>3 DEF WalkReaches
<1>6. WalkHasTaken(taken)'
  <2>1. FamiliesFollow(taken)'
    BY <1>1, <1>3 DEF WalkHasTaken, FamiliesFollow
  <2>2. NothingIsSkipped(taken)'
    BY <1>1, <1>3, <1>5 DEF WalkHasTaken, NothingIsSkipped, Due, Opened
  <2> QED
    BY <1>1, <1>3, <2>1, <2>2 DEF WalkHasTaken
<1>7. PathsAreTold(taken)'
  <2>1. In(paths) \subseteq Nodes
    BY <1>0 DEF GlobTypes, In
  <2> QED
    BY <1>1, <1>3, <1>5, <1>11, <2>1 DEF PathsAreTold
<1>8. MatchesAreFound'
  BY <1>0, <1>3, MatchesStay
<1> QED
  BY <1>4, <1>6, <1>7, <1>8, <1>10, <1>12 DEF GlobInv

LEMMA GlobStep == GlobInv /\ [Glob!Next]_(Glob!vars) => GlobInv'
<1> SUFFICES ASSUME GlobInv, [Glob!Next]_(Glob!vars) PROVE GlobInv'
  OBVIOUS
<1>1. CASE UNCHANGED Glob!vars
  <2>1. PICK taken \in SUBSET Nodes :
           WalkHasTaken(taken) /\ WalkReaches(taken) /\ PathsAreTold(taken)
    BY DEF GlobInv
  <2>2. UNCHANGED <<kind, shared, pattern, globLimit, walk, paths, globMatches, globTruncated,
                    truncated, traversed, finished, steady, been>>
    BY <1>1 DEF Glob!vars
  <2>3. GlobTypes' /\ GlobPast' /\ MatchesAreFound'
    BY <2>2, MatchesStay, PastStays DEF GlobInv, GlobTypes
  <2>4. WalkHasTaken(taken)'
    BY <2>1, <2>2 DEF WalkHasTaken, FamiliesFollow, NothingIsSkipped, Due, Opened
  <2>5. PathsAreTold(taken)'
    BY <2>1, <2>2 DEF PathsAreTold
  <2>6. WalkReaches(taken)'
    BY <2>1, <2>2, ReachStays
  <2> QED
    BY <2>3, <2>4, <2>5, <2>6 DEF GlobInv
<1> QED
  BY <1>1, WalkStarts, WalkVisits, EntryIsPassedOver, DirectoryIsLeft, WalkFinishes, TreeIsChanged
  DEF Glob!Next

\* What is there from the beginning to the end, and so is its way, has been taken.
LEMMA WhatStaysIsTaken ==
    ASSUME GlobTypes, GlobPast, NEW taken \in SUBSET Nodes, WalkHasTaken(taken),
           finished, ~truncated, ~globTruncated,
           NEW n \in Glob!MayTell, Glob!Way[n] \subseteq steady
    PROVE  n \in taken /\ n \in steady \ Hidden /\ kind[n] = "file"
<1> DEFINE missed == {m \in Glob!Way[n] : m \notin taken}
<1>1. Listed(walk) = {}
  BY DEF WalkHasTaken, Listed
<1>2. n \in Nodes /\ n \notin Hidden /\ "file" \in been[n] /\ n \in Glob!Way[n]
      /\ \A m \in Glob!Way[n] \ {n} : m \notin Hidden /\ "directory" \in been[m]
  BY WayGoesUp DEF Glob!MayTell, Glob!MayReach
<1>3. ASSUME NEW m \in Glob!Way[n]
      PROVE  /\ m \in Nodes /\ m \in steady /\ ParentOf[m] \in Glob!Way[n] \cup {0}
             /\ ParentOf[m] # n /\ been[m] = {kind[m]}
  BY <1>2, WayIsClosed, WayHasNoRing DEF GlobPast
<1>4. kind[n] = "file" /\ \A m \in Glob!Way[n] \ {n} : kind[m] = "directory"
  BY <1>2, <1>3
<1>5. ASSUME NEW m \in missed PROVE ParentOf[m] \in missed
  <2>1. m \in Nodes /\ m \in steady /\ kind[m] # "none" /\ m \notin taken
    BY <1>3, <1>4
  <2>2. ~Due(m, taken)
    BY <1>1, <2>1 DEF WalkHasTaken, NothingIsSkipped
  <2>3. ParentOf[m] # 0 /\ ~Opened(ParentOf[m], taken)
    BY <2>1, <2>2 DEF Due
  <2>4. ParentOf[m] \in Glob!Way[n] \ {n}
    BY <1>3, <2>3
  <2>5. ParentOf[m] \notin Hidden /\ ParentOf[m] \in steady /\ kind[ParentOf[m]] = "directory"
    BY <1>2, <1>4, <2>4
  <2> QED
    BY <2>3, <2>4, <2>5 DEF Opened
<1>6. missed = {}
  <2>1. missed \in SUBSET Nodes
    BY <1>3
  <2> HIDE DEF missed
  <2> QED
    BY <1>5, <2>1, TreeAssumption
<1> QED
  BY <1>2, <1>4, <1>6

\* What a glob reports matches, has been a file, is not hidden, was not come to
\* through a link, and comes once; all that stayed as it was with the directories
\* that lead to it is reported, unless the call says that it was cut short; and it
\* says so only if there was too much: for any tree, any limits and whatever is
\* changed meanwhile.
THEOREM GlobsAreComplete == WorkSpec => []NothingIsMissedUnsaid
<1>1. WorkInit => GlobInv
  BY GlobBegins DEF WorkInit
<1>2. GlobInv /\ [WorkNext]_workVars => GlobInv'
  BY GlobStep, Moving
<1>3. GlobInv => NothingIsMissedUnsaid
  <2> SUFFICES ASSUME GlobInv, finished PROVE NothingIsMissedUnsaid
    BY DEF NothingIsMissedUnsaid, Glob!NothingIsMissedUnsaid
  <2>0. GlobTypes /\ GlobPast /\ MatchesAreFound
    BY DEF GlobInv
  <2>1. PICK taken \in SUBSET Nodes :
           WalkHasTaken(taken) /\ WalkReaches(taken) /\ PathsAreTold(taken)
    BY DEF GlobInv
  <2>2. /\ In(globMatches) \subseteq pattern /\ In(globMatches) \subseteq In(paths)
        /\ Once(globMatches) /\ (globTruncated => Len(globMatches) = globLimit)
        /\ globTruncated => Cardinality(In(paths) \cap pattern) > globLimit
        /\ ~globTruncated => In(paths) \cap pattern \subseteq In(globMatches)
    BY <2>0 DEF MatchesAreFound
  <2>3. In(paths) \subseteq Glob!MayTell
    BY <2>1 DEF PathsAreTold, WalkReaches, Glob!MayTell
  <2>4. ASSUME globTruncated PROVE Glob!Cardinality(pattern \cap Glob!MayTell) > globLimit
    <3> DEFINE some == In(paths) \cap pattern
               all == pattern \cap Glob!MayTell
    <3>1. some \subseteq all /\ all \in SUBSET Nodes /\ globLimit \in Nat
      BY <2>0, <2>3 DEF GlobTypes
    <3>2. Cardinality(some) > globLimit
      BY <2>2, <2>4
    <3> HIDE DEF some, all
    <3>3. Cardinality(all) > globLimit
      BY <3>1, <3>2, NodesAreFew
    <3> QED
      BY <3>3, SameCardinality DEF all
  <2>5. ASSUME ~truncated, ~globTruncated, NEW n \in pattern \cap Glob!MayTell,
               Glob!Way[n] \subseteq steady
        PROVE  n \in In(globMatches)
    <3>1. n \in taken /\ n \in steady \ Hidden /\ kind[n] = "file"
      BY <2>0, <2>1, <2>5, WhatStaysIsTaken
    <3> QED
      BY <2>1, <2>2, <2>5, <3>1 DEF PathsAreTold
  <2>6. truncated => Glob!TooMany
    BY <2>1 DEF WalkReaches
  <2> QED
    BY <2>2, <2>3, <2>4, <2>5, <2>6
    DEF NothingIsMissedUnsaid, Glob!NothingIsMissedUnsaid, In, Once
<1> QED
  BY <1>1, <1>2, <1>3, PTL DEF WorkSpec
=============================================================================
