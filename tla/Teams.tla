------------------------------- MODULE Teams -------------------------------
(***************************************************************************)
(* TeamManager (src/litecoder/tasks/teams.py) and the tools over it        *)
(* (src/litecoder/tools/builtin/team.py): the lead creates teammates, each *)
(* with a runtime, perhaps a durable task, and a worker task that runs its *)
(* objective and then one turn per delivery of its mailbox.  The end of    *)
(* the lead's turn, and the runtime's close, shut the team down.           *)
(*                                                                         *)
(* A tool called in the foreground is over before the turn ends; one that  *)
(* background_start runs is not, so its steps may fall anywhere in a       *)
(* shutdown or in the next turn.                                           *)
(***************************************************************************)
EXTENDS MessageBus, Naturals, FiniteSets

CONSTANTS
    Members,       \* agent ids of teammates, each created at most once
    Background,    \* the members a background job creates
    Delegated,     \* the members created for a durable task
    Lead,          \* the inbox "lead"
    MaxWork        \* bound: turns of the lead and messages sent

ASSUME TeamsAssumption ==
    /\ Lead \notin Members
    /\ Agents = Members \cup {Lead}
    /\ Background \subseteq Members
    /\ Delegated \subseteq Members
    /\ MaxWork \in Nat

VARIABLES
    turn,        \* how many turns of the lead have begun
    inTurn,      \* whether one is going on (its end included)
    creation,    \* by member: where its create_teammate call is
    runtime,     \* by member: its child runtime
    task,        \* by member: its delegated durable task
    roster,      \* the members of the current roster
    tracked,     \* the members whose worker task is in _workers
    worker,      \* by member: where its worker is
    cancelSent,  \* the workers a cancellation is under way to
    held,        \* by member: messages its worker has taken and not read yet
    message,     \* by message: where it is, and to whom
    shutdown,    \* where _shutdown is
    closing,     \* _closing
    closed,      \* _closed
    toClose,     \* the members whose runtime the shutdown has yet to close
    toDrain      \* the mailboxes it has yet to drain

teamVars == <<creation, runtime, task, roster, tracked, worker>>
shutdownVars == <<shutdown, closing, closed, toClose, toDrain>>
vars == <<inbox, turn, inTurn, teamVars, cancelSent, held, message, shutdownVars>>

\* A message is sent in a turn: the first bit of work is a turn.
Messages == 1..(MaxWork - 1)

InTurn == {"objective", "resumed"}
Waiting == {"loop", "waiting", "draining"}
Live == InTurn \cup Waiting \cup {"failing"}
Creating == {"making", "assigning", "assigned"}
ShutdownPhases == {"no", "gathering", "closing", "draining"}

TypeOK ==
    /\ inbox \in [Agents -> Seq(Messages)]
    /\ turn \in 0..MaxWork
    /\ inTurn \in BOOLEAN
    /\ creation \in [Members -> {"none", "joined", "denied", "cancelled"} \cup Creating]
    /\ runtime \in [Members -> {"none", "open", "closed"}]
    /\ task \in [Members -> {"none", "pending", "in_progress", "completed", "failed"}]
    /\ roster \subseteq Members
    /\ tracked \subseteq Members
    /\ worker \in [Members -> {"none", "over"} \cup Live]
    /\ cancelSent \subseteq Members
    /\ held \in [Members -> Seq(Messages)]
    /\ message \in [Messages ->
          [at : {"unsent", "sending", "mailbox", "held", "gone"}, to : Agents]]
    /\ shutdown \in ShutdownPhases
    /\ closing \in BOOLEAN
    /\ closed \in BOOLEAN
    /\ toClose \subseteq Members
    /\ toDrain \subseteq Agents

Init ==
    /\ BusInit
    /\ turn = 0
    /\ inTurn = FALSE
    /\ creation = [m \in Members |-> "none"]
    /\ runtime = [m \in Members |-> "none"]
    /\ task = [m \in Members |-> IF m \in Delegated THEN "pending" ELSE "none"]
    /\ roster = {}
    /\ tracked = {}
    /\ worker = [m \in Members |-> "none"]
    /\ cancelSent = {}
    /\ held = [m \in Members |-> <<>>]
    /\ message = [k \in Messages |-> [at |-> "unsent", to |-> Lead]]
    /\ shutdown = "no"
    /\ closing = FALSE
    /\ closed = FALSE
    /\ toClose = {}
    /\ toDrain = {}

Places(sequence, place) ==
    [k \in Messages |->
        IF \E i \in DOMAIN sequence : sequence[i] = k
        THEN [message[k] EXCEPT !.at = place] ELSE message[k]]

-----------------------------------------------------------------------------
(* The lead's turns.                                                       *)

MoreWork ==
    turn + Cardinality({k \in Messages : message[k].at # "unsent"}) < MaxWork

TurnBegins ==
    /\ ~inTurn
    /\ ~closed
    /\ MoreWork
    /\ turn' = turn + 1
    /\ inTurn' = TRUE
    /\ UNCHANGED <<inbox, teamVars, cancelSent, held, message, shutdownVars>>

\* The lead's tools run only before the shutdown at the end of its turn.
Acting == inTurn /\ shutdown = "no"

-----------------------------------------------------------------------------
(* create_teammate                                                         *)

CreateBegins(m) ==
    /\ creation[m] = "none"
    /\ Acting
    /\ ~closing
    /\ ~closed
    /\ creation' = [creation EXCEPT ![m] = "making"]
    /\ UNCHANGED <<inbox, turn, inTurn, runtime, task, roster, tracked, worker,
                   cancelSent, held, message, shutdownVars>>

\* roster.add and _start_worker, after the last await.
Joins(m) ==
    /\ creation' = [creation EXCEPT ![m] = "joined"]
    /\ roster' = roster \cup {m}
    /\ tracked' = tracked \cup {m}
    /\ worker' = [worker EXCEPT ![m] = "objective"]

\* factory.create_child
Made(m) ==
    /\ creation[m] = "making"
    /\ runtime' = [runtime EXCEPT ![m] = "open"]
    /\ IF task[m] = "none"
       THEN Joins(m)
       ELSE /\ creation' = [creation EXCEPT ![m] = "assigning"]
            /\ UNCHANGED <<roster, tracked, worker>>
    /\ UNCHANGED <<inbox, turn, inTurn, task, cancelSent, held, message, shutdownVars>>

MakeFails(m) ==
    /\ creation[m] = "making"
    /\ creation' = [creation EXCEPT ![m] = "denied"]
    /\ UNCHANGED <<inbox, turn, inTurn, runtime, task, roster, tracked, worker,
                   cancelSent, held, message, shutdownVars>>

\* assign_and_start: the record is written, then the board's locks are given back.
Assigned(m) ==
    /\ creation[m] = "assigning"
    /\ creation' = [creation EXCEPT ![m] = "assigned"]
    /\ task' = [task EXCEPT ![m] = "in_progress"]
    /\ UNCHANGED <<inbox, turn, inTurn, runtime, roster, tracked, worker,
                   cancelSent, held, message, shutdownVars>>

AssignFails(m) ==
    /\ creation[m] = "assigning"
    /\ creation' = [creation EXCEPT ![m] = "denied"]
    /\ runtime' = [runtime EXCEPT ![m] = "closed"]
    /\ UNCHANGED <<inbox, turn, inTurn, task, roster, tracked, worker,
                   cancelSent, held, message, shutdownVars>>

CreateEnds(m) ==
    /\ creation[m] = "assigned"
    /\ Joins(m)
    /\ UNCHANGED <<inbox, turn, inTurn, runtime, task, cancelSent, held, message,
                   shutdownVars>>

\* The tool call is cancelled in one of the awaits: nothing is undone.
CreateIsCancelled(m) ==
    /\ creation[m] \in Creating
    /\ creation' = [creation EXCEPT ![m] = "cancelled"]
    /\ \/ UNCHANGED runtime
       \/ /\ creation[m] = "making"
          /\ runtime' = [runtime EXCEPT ![m] = "open"]
    /\ UNCHANGED <<inbox, turn, inTurn, task, roster, tracked, worker,
                   cancelSent, held, message, shutdownVars>>

-----------------------------------------------------------------------------
(* Messages: team_send, team_receive.                                      *)

\* The route is resolved in the roster before the bus is awaited.
SendBegins(k, to) ==
    /\ message[k].at = "unsent"
    /\ \A i \in Messages : i < k => message[i].at # "unsent"
    /\ MoreWork
    /\ to \in roster \cup {Lead}
    /\ Acting \/ \E m \in roster : worker[m] \in InTurn
    /\ message' = [message EXCEPT ![k] = [at |-> "sending", to |-> to]]
    /\ UNCHANGED <<inbox, turn, inTurn, teamVars, cancelSent, held, shutdownVars>>

SendEnds(k) ==
    /\ message[k].at = "sending"
    /\ Post(message[k].to, k)
    /\ message' = [message EXCEPT ![k].at = "mailbox"]
    /\ UNCHANGED <<turn, inTurn, teamVars, cancelSent, held, shutdownVars>>

SendFails(k) ==
    /\ message[k].at = "sending"
    /\ message' = [message EXCEPT ![k].at = "gone"]
    /\ UNCHANGED <<inbox, turn, inTurn, teamVars, cancelSent, held, shutdownVars>>

LeadReceives ==
    /\ Acting
    /\ HasMail(Lead)
    /\ TakeAll(Lead)
    /\ message' = Places(inbox[Lead], "gone")
    /\ UNCHANGED <<turn, inTurn, teamVars, cancelSent, held, shutdownVars>>

-----------------------------------------------------------------------------
(* The worker: _supervise_worker and _worker_finished.                     *)

workerRest == <<turn, inTurn, creation, runtime, roster, shutdownVars>>

Goes(m, place) == worker' = [worker EXCEPT ![m] = place]

\* The worker task is over: _worker_finished forgets it.
Ends(m) ==
    /\ Goes(m, "over")
    /\ tracked' = tracked \ {m}
    /\ cancelSent' = cancelSent \ {m}

\* The member's own tool calls in a turn: task_complete or task_fail ...
SettlesItsTask(m) ==
    /\ worker[m] \in InTurn
    /\ task[m] = "in_progress"
    /\ \E result \in {"completed", "failed"} : task' = [task EXCEPT ![m] = result]
    /\ UNCHANGED <<inbox, turn, inTurn, creation, runtime, roster, tracked, worker, cancelSent, held, message, shutdownVars>>

\* ... and team_receive.
ReceivesInTurn(m) ==
    /\ worker[m] \in InTurn
    /\ m \in roster
    /\ HasMail(m)
    /\ TakeAll(m)
    /\ message' = Places(inbox[m], "gone")
    /\ UNCHANGED <<turn, inTurn, teamVars, cancelSent, held, shutdownVars>>

\* The turn is over and was completed.
TurnCompletes(m) ==
    /\ worker[m] \in InTurn
    /\ Goes(m, "loop")
    /\ UNCHANGED <<inbox, workerRest, task, tracked, cancelSent, held, message>>

\* It raised, or ended in any other way.
TurnFails(m) ==
    /\ worker[m] \in InTurn
    /\ Goes(m, "failing")
    /\ UNCHANGED <<inbox, workerRest, task, tracked, cancelSent, held, message>>

LoopEndsOnMail(m) ==
    /\ worker[m] = "waiting"
    /\ closing
    /\ HasMail(m)
    /\ Ends(m)
    /\ UNCHANGED <<inbox, workerRest, task, held, message>>

\* while not self._closing
LoopEnds(m) ==
    /\ worker[m] \in {"loop", "waiting"}
    /\ closing
    /\ worker[m] = "waiting" => HasMail(m)
    /\ Ends(m)
    /\ UNCHANGED <<inbox, workerRest, task, held, message>>

\* wait_for_messages looks, and waits for the event or the poll.
Waits(m) ==
    /\ worker[m] = "loop"
    /\ ~closing
    /\ ~HasMail(m)
    /\ Goes(m, "waiting")
    /\ UNCHANGED <<inbox, workerRest, task, tracked, cancelSent, held, message>>

WakesUp(m) ==
    /\ worker[m] \in {"loop", "waiting"}
    /\ ~closing
    /\ HasMail(m)
    /\ Goes(m, "draining")
    /\ UNCHANGED <<inbox, workerRest, task, tracked, cancelSent, held, message>>

\* drain_inbox: a member that is not in the roster any more has no mailbox.
DrainRefused(m) ==
    /\ worker[m] = "draining"
    /\ held[m] = <<>>
    /\ m \notin roster
    /\ Goes(m, "failing")
    /\ UNCHANGED <<inbox, workerRest, task, tracked, cancelSent, held, message>>

Drains(m) ==
    /\ worker[m] = "draining"
    /\ held[m] = <<>>
    /\ m \in roster
    /\ TakeAll(m)
    /\ held' = [held EXCEPT ![m] = inbox[m]]
    /\ message' = Places(inbox[m], "held")
    /\ IF HasMail(m) THEN UNCHANGED worker ELSE Goes(m, "loop")
    /\ UNCHANGED <<workerRest, task, tracked, cancelSent>>

\* runtime.resume with the messages in the prompt.
Resumes(m) ==
    /\ worker[m] = "draining"
    /\ held[m] # <<>>
    /\ Goes(m, "resumed")
    /\ held' = [held EXCEPT ![m] = <<>>]
    /\ message' = Places(held[m], "gone")
    /\ UNCHANGED <<inbox, workerRest, task, tracked, cancelSent>>

\* _fail_member_tasks, whose errors are swallowed; then the worker has failed.
WorkerFails(m) ==
    /\ worker[m] = "failing"
    /\ task' \in {task, [task EXCEPT ![m] = IF @ = "in_progress" THEN "failed" ELSE @]}
    /\ Ends(m)
    /\ UNCHANGED <<inbox, workerRest, held, message>>

\* The cancellation arrives in an await: tasks are left alone, messages it holds
\* are gone.
WorkerIsCancelled(m) ==
    /\ m \in cancelSent
    /\ worker[m] \in Live
    /\ Ends(m)
    /\ held' = [held EXCEPT ![m] = <<>>]
    /\ message' = Places(held[m], "gone")
    /\ UNCHANGED <<inbox, workerRest, task>>

\* It arrives while the session store commits, which clears it: the turn goes on.
CancellationIsCleared(m) ==
    /\ m \in cancelSent
    /\ worker[m] \in InTurn
    /\ cancelSent' = cancelSent \ {m}
    /\ UNCHANGED <<inbox, workerRest, task, tracked, worker, held, message>>

-----------------------------------------------------------------------------
(* _shutdown                                                               *)

\* end_turn, once the lead's tools are over; or close, between turns.
ShutdownBegins ==
    /\ shutdown = "no"
    /\ ~closed
    /\ inTurn => \A m \in Members \ Background : creation[m] \notin Creating
    /\ shutdown' = "gathering"
    /\ closing' = TRUE
    /\ cancelSent' = cancelSent \cup tracked
    /\ toClose' = tracked
    /\ UNCHANGED <<inbox, turn, inTurn, teamVars, held, message, closed, toDrain>>

GatheredTooSoon ==
    /\ shutdown = "gathering"
    /\ shutdown' = "closing"
    /\ tracked' = {}
    /\ toClose' = roster
    /\ toDrain' = roster \cup {Lead}
    /\ UNCHANGED <<inbox, turn, inTurn, creation, runtime, task, roster, worker,
                   cancelSent, held, message, closing, closed>>

\* gather has all its workers; _workers is cleared and the members are listed.
Gathered ==
    /\ shutdown = "gathering"
    /\ \A m \in toClose : worker[m] \notin Live
    /\ shutdown' = "closing"
    /\ tracked' = {}
    /\ toClose' = roster
    /\ toDrain' = roster \cup {Lead}
    /\ UNCHANGED <<inbox, turn, inTurn, creation, runtime, task, roster, worker,
                   cancelSent, held, message, closing, closed>>

\* Child runtimes close when their turns are over; an error is kept for the end.
ClosesRuntime(m) ==
    /\ shutdown = "closing"
    /\ m \in toClose
    /\ worker[m] \notin InTurn
    /\ toClose' = toClose \ {m}
    /\ runtime' = [runtime EXCEPT ![m] = "closed"]
    /\ UNCHANGED <<inbox, turn, inTurn, creation, task, roster, tracked, worker,
                   cancelSent, held, message, shutdown, closing, closed, toDrain>>

StartsDraining ==
    /\ shutdown = "closing"
    /\ toClose = {}
    /\ shutdown' = "draining"
    /\ UNCHANGED <<inbox, turn, inTurn, teamVars, cancelSent, held, message, closing,
                   closed, toClose, toDrain>>

\* What is left in the mailboxes is read and thrown away.
DrainsMailbox(a) ==
    /\ shutdown = "draining"
    /\ a \in toDrain
    /\ toDrain' = toDrain \ {a}
    /\ TakeAll(a)
    /\ message' = Places(inbox[a], "gone")
    /\ UNCHANGED <<turn, inTurn, teamVars, cancelSent, held, shutdown, closing, closed,
                   toClose>>

\* A new roster; after a close the manager stays closed.
ShutdownEnds ==
    /\ shutdown = "draining"
    /\ toDrain = {}
    /\ shutdown' = "no"
    /\ roster' = {}
    /\ closed' = ~inTurn
    /\ closing' = ~inTurn
    /\ inTurn' = FALSE
    /\ UNCHANGED <<inbox, turn, creation, runtime, task, tracked, worker,
                   cancelSent, held, message, toClose, toDrain>>

\* The turn's end is cancelled in an await of the first or the last part; the
\* turn is over all the same, and the manager stays closing until the next one's.
ShutdownIsCancelled ==
    /\ shutdown \in {"gathering", "draining"}
    /\ shutdown' = "no"
    /\ inTurn' = FALSE
    /\ toClose' = {}
    /\ toDrain' = {}
    /\ UNCHANGED <<inbox, turn, teamVars, cancelSent, held, message, closing, closed>>

-----------------------------------------------------------------------------
WorkerStep(m) ==
    \/ TurnCompletes(m)
    \/ TurnFails(m)
    \/ LoopEnds(m)
    \/ Waits(m)
    \/ WakesUp(m)
    \/ DrainRefused(m)
    \/ Drains(m)
    \/ Resumes(m)
    \/ WorkerFails(m)
    \/ WorkerIsCancelled(m)

CreateStep(m) ==
    \/ CreateBegins(m)
    \/ Made(m)
    \/ MakeFails(m)
    \/ Assigned(m)
    \/ AssignFails(m)
    \/ CreateEnds(m)
    \/ CreateIsCancelled(m)

ShutdownStep ==
    \/ Gathered
    \/ \E m \in Members : ClosesRuntime(m)
    \/ StartsDraining
    \/ \E a \in Agents : DrainsMailbox(a)
    \/ ShutdownEnds

Next ==
    \/ TurnBegins
    \/ \E m \in Members :
          \/ CreateStep(m)
          \/ WorkerStep(m)
          \/ SettlesItsTask(m)
          \/ ReceivesInTurn(m)
          \/ CancellationIsCleared(m)
    \/ \E k \in Messages :
          \/ \E to \in Agents : SendBegins(k, to)
          \/ SendEnds(k)
          \/ SendFails(k)
    \/ LeadReceives
    \/ ShutdownBegins
    \/ ShutdownStep
    \/ ShutdownIsCancelled

\* Turns end (rounds, tool calls and providers are limited), awaits resume.
Fairness ==
    /\ WF_vars(ShutdownStep)
    /\ \A m \in Members : WF_vars(WorkerStep(m))

Spec == Init /\ [][Next]_vars /\ Fairness

-----------------------------------------------------------------------------
(* What the team promises.                                                 *)

Foreground == Members \ Background

\* Nothing of a teammate the lead created outlives the team: its worker and its
\* open runtime belong to a member of the roster, a member has a worker that a
\* shutdown finds, and a runtime is left open only by a creation that was
\* cancelled half way (_shutdown, create_teammate).
NothingOutlivesTheTeam ==
    \A m \in Foreground :
        /\ worker[m] \in Live => m \in roster
        /\ worker[m] \in Live /\ shutdown \notin {"closing", "draining"} => m \in tracked
        /\ worker[m] \in Live => shutdown \notin {"closing", "draining"}
        /\ runtime[m] = "open" =>
              m \in roster \/ creation[m] \in {"assigning", "assigned", "cancelled"}

\* A message is in one place only: a mailbox that was read is empty, a worker holds
\* what it took until it has told its runtime, and no message is given twice or to
\* two members although the worker, its own tools and a shutdown all read the same
\* mailbox (team_receive, drain_inbox, _shutdown).
MessagesReadOnce ==
    \A m \in Members :
        LET line == held[m] \o inbox[m] IN
        /\ \A i, j \in DOMAIN line : i < j => line[i] # line[j]
        /\ \A i \in DOMAIN line :
              message[line[i]] =
                 [at |-> IF i <= Len(held[m]) THEN "held" ELSE "mailbox", to |-> m]
        /\ \A k \in Messages :
              (message[k].to = m /\ message[k].at \in {"held", "mailbox"}) =>
                 \E i \in DOMAIN line : line[i] = k

\* A shutdown comes to its end although workers may miss their cancellation: they
\* finish the turn they are in and find the team closing.
ShutdownFinishes == (shutdown # "no") ~> (shutdown = "no")
=============================================================================
