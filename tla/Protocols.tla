----------------------------- MODULE Protocols -----------------------------
(***************************************************************************)
(* ProtocolManager (src/litecoder/tasks/protocols.py): plan approvals and  *)
(* shutdowns asked of a teammate and answered at most once.  The request   *)
(* and the answer are each announced through the message bus, which takes  *)
(* time, may fail, and may be cancelled before or after the message is in  *)
(* the mailbox; the request's timer is armed after its announcement and    *)
(* stands still while an answer is being announced.                        *)
(*                                                                         *)
(* TeamManager's shutdown empties the manager and, after it has drained    *)
(* the mailboxes, replaces it; requests and answers may run in between.    *)
(***************************************************************************)
EXTENDS Naturals, FiniteSets

CONSTANTS
    Requests,       \* request ids, each issued once
    Answers,        \* calls of respond_*
    MaxShutdowns    \* bound: shutdowns explored

VARIABLES
    asking,       \* by request: where its _request call is
    outcome,      \* by request: PendingRequest.future
    pending,      \* the ids in pending_requests
    manager,      \* the manager in use: how many were replaced before it
    issuer,       \* by request: the manager that issued it
    limited,      \* the requests that have a timeout
    timers,       \* by request: call_later handles that are alive
    armed,        \* the requests whose _timeout is set
    responding,   \* the requests whose _responding is set
    answer,       \* by answer: the respond call
    mailbox,      \* the messages that were ever put into a mailbox
    shutdown      \* "no", or "draining" between the two halves of a shutdown

vars == <<asking, outcome, pending, manager, issuer, limited, timers, armed,
          responding, answer, mailbox, shutdown>>

Verdicts == {"approved", "rejected"}
Outcomes == Verdicts \cup {"timed out", "cancelled"}
InFlight == {"announcing", "announced"}

\* What an answer that was not given yet is about: nothing.
AnyRequest == CHOOSE r \in Requests : TRUE

AnswerStates ==
    [at : {"new", "accepted", "too late", "failed", "cancelled"} \cup InFlight,
     to : Requests \cup {AnyRequest}, verdict : Verdicts, paused : BOOLEAN]

TypeOK ==
    /\ asking \in [Requests -> {"new", "returned", "raised"} \cup InFlight]
    /\ outcome \in [Requests -> {"none", "pending"} \cup Outcomes]
    /\ pending \subseteq Requests
    /\ manager \in 0..MaxShutdowns
    /\ issuer \in [Requests -> 0..MaxShutdowns]
    /\ limited \subseteq Requests
    /\ timers \in [Requests -> Nat]
    /\ armed \subseteq Requests
    /\ responding \subseteq Requests
    /\ answer \in [Answers -> AnswerStates]
    /\ mailbox \subseteq (Requests \X ({"request"} \cup Verdicts))
    /\ shutdown \in {"no", "draining"}

Init ==
    /\ asking = [r \in Requests |-> "new"]
    /\ outcome = [r \in Requests |-> "none"]
    /\ pending = {}
    /\ manager = 0
    /\ issuer = [r \in Requests |-> 0]
    /\ limited = {}
    /\ timers = [r \in Requests |-> 0]
    /\ armed = {}
    /\ responding = {}
    /\ answer = [a \in Answers |->
                    [at |-> "new", to |-> AnyRequest, verdict |-> "approved",
                     paused |-> FALSE]]
    /\ mailbox = {}
    /\ shutdown = "no"

bookkeeping == <<outcome, pending, timers, armed>>
lifetime == <<manager, issuer, limited, shutdown>>

-----------------------------------------------------------------------------
(* The book of pending requests.                                           *)

\* _remove, and the future's outcome: the timer that _timeout names is cancelled.
Settle(r, end) ==
    /\ outcome' = [outcome EXCEPT ![r] = end]
    /\ pending' = pending \ {r}
    /\ timers' = [timers EXCEPT ![r] = IF r \in armed THEN @ - 1 ELSE @]
    /\ armed' = armed \ {r}

\* _arm_timeout
Arm(r) ==
    /\ IF r \in pending
       THEN /\ timers' = [timers EXCEPT ![r] = @ + 1]
            /\ armed' = armed \cup {r}
       ELSE UNCHANGED <<timers, armed>>
    /\ UNCHANGED <<outcome, pending>>

-----------------------------------------------------------------------------
(* _request                                                                *)

Ask(r) ==
    /\ asking[r] = "new"
    /\ asking' = [asking EXCEPT ![r] = "announcing"]
    /\ outcome' = [outcome EXCEPT ![r] = "pending"]
    /\ pending' = pending \cup {r}
    /\ issuer' = [issuer EXCEPT ![r] = manager]
    /\ limited' \in {limited, limited \cup {r}}
    /\ UNCHANGED <<manager, timers, armed, responding, answer, mailbox, shutdown>>

RequestPosted(r) ==
    /\ asking[r] = "announcing"
    /\ asking' = [asking EXCEPT ![r] = "announced"]
    /\ mailbox' = mailbox \cup {<<r, "request">>}
    /\ UNCHANGED <<bookkeeping, lifetime, responding, answer>>

\* The bus fails, or the call is cancelled, before or after the message is posted.
AskFails(r) ==
    /\ asking[r] \in InFlight
    /\ asking' = [asking EXCEPT ![r] = "raised"]
    /\ IF r \in pending THEN Settle(r, "cancelled") ELSE UNCHANGED bookkeeping
    /\ UNCHANGED <<lifetime, responding, answer, mailbox>>

\* The timer starts now, unless the request is settled already.
Asked(r) ==
    /\ asking[r] = "announced"
    /\ asking' = [asking EXCEPT ![r] = "returned"]
    /\ IF r \in limited THEN Arm(r) ELSE UNCHANGED bookkeeping
    /\ UNCHANGED <<lifetime, responding, answer, mailbox>>

-----------------------------------------------------------------------------
(* _respond                                                                *)

\* The manager in use knows the request; one that an earlier manager still holds
\* is unknown to it.
Known(r) == r \in pending /\ issuer[r] = manager

AnswerBegins(a, r, verdict) ==
    /\ answer' = [answer EXCEPT ![a] = [at |-> "announcing", to |-> r,
                    verdict |-> verdict, paused |-> r \in armed]]
    /\ responding' = responding \cup {r}
    /\ timers' = [timers EXCEPT ![r] = IF r \in armed THEN @ - 1 ELSE @]
    /\ armed' = armed \ {r}
    /\ UNCHANGED <<asking, outcome, pending, lifetime, mailbox>>

\* Who answers has read the request in its mailbox.
RespondTwice(a, r, verdict) ==
    /\ answer[a].at = "new"
    /\ <<r, "request">> \in mailbox
    /\ Known(r)
    /\ AnswerBegins(a, r, verdict)

Respond(a, r, verdict) ==
    /\ answer[a].at = "new"
    /\ <<r, "request">> \in mailbox
    /\ Known(r)
    /\ r \notin responding
    /\ AnswerBegins(a, r, verdict)

AnswerPosted(a) ==
    /\ answer[a].at = "announcing"
    /\ answer' = [answer EXCEPT ![a].at = "announced"]
    /\ mailbox' = mailbox \cup {<<answer[a].to, answer[a].verdict>>}
    /\ UNCHANGED <<asking, bookkeeping, lifetime, responding>>

\* The bus fails, or the call is cancelled, before or after the message is posted:
\* the timer goes on with what was left of it.
AnswerLost(a) ==
    LET r == answer[a].to IN
    /\ answer[a].at \in InFlight
    /\ answer' = [answer EXCEPT ![a].at = "failed"]
    /\ responding' = responding \ {r}
    /\ UNCHANGED <<asking, bookkeeping, lifetime, mailbox>>

AnswerFails(a) ==
    LET r == answer[a].to IN
    /\ answer[a].at \in InFlight
    /\ answer' = [answer EXCEPT ![a].at = "failed"]
    /\ responding' = responding \ {r}
    /\ IF answer[a].paused THEN Arm(r) ELSE UNCHANGED bookkeeping
    /\ UNCHANGED <<asking, lifetime, mailbox>>

AnswerAccepted(a) ==
    LET r == answer[a].to IN
    /\ answer[a].at = "announced"
    /\ r \in pending
    /\ answer' = [answer EXCEPT ![a].at = "accepted"]
    /\ responding' = responding \ {r}
    /\ Settle(r, answer[a].verdict)
    /\ UNCHANGED <<asking, lifetime, mailbox>>

\* "protocol request completed during response": its message is in the mailbox.
AnswerTooLate(a) ==
    /\ answer[a].at = "announced"
    /\ answer[a].to \notin pending
    /\ answer' = [answer EXCEPT ![a].at = "too late"]
    /\ responding' = responding \ {answer[a].to}
    /\ UNCHANGED <<asking, bookkeeping, lifetime, mailbox>>

-----------------------------------------------------------------------------
\* call_later fires; _expire finds the request settled, or settles it.
Expire(r) ==
    /\ timers[r] > 0
    /\ IF r \in pending
       THEN /\ outcome' = [outcome EXCEPT ![r] = "timed out"]
            /\ pending' = pending \ {r}
            /\ armed' = armed \ {r}
       ELSE UNCHANGED <<outcome, pending, armed>>
    /\ timers' = [timers EXCEPT ![r] = @ - 1]
    /\ UNCHANGED <<asking, lifetime, responding, answer, mailbox>>

\* TeamManager._shutdown: what the manager holds is cancelled and forgotten ...
ShutdownClears ==
    LET held == {r \in pending : issuer[r] = manager} IN
    /\ shutdown = "no"
    /\ manager < MaxShutdowns
    /\ shutdown' = "draining"
    /\ timers' = [r \in Requests |-> IF r \in held \cap armed THEN timers[r] - 1
                                     ELSE timers[r]]
    /\ armed' = armed \ held
    /\ outcome' = [r \in Requests |-> IF r \in held THEN "cancelled" ELSE outcome[r]]
    /\ pending' = pending \ held
    /\ UNCHANGED <<asking, manager, issuer, limited, responding, answer, mailbox>>

\* ... and once the mailboxes are drained there is a new one,
ShutdownReplaces ==
    /\ shutdown = "draining"
    /\ shutdown' = "no"
    /\ manager' = manager + 1
    /\ UNCHANGED <<asking, bookkeeping, issuer, limited, responding, answer, mailbox>>

\* unless the turn's end is cancelled meanwhile.
ShutdownIsCancelled ==
    /\ shutdown = "draining"
    /\ shutdown' = "no"
    /\ UNCHANGED <<asking, bookkeeping, manager, issuer, limited, responding, answer,
                   mailbox>>

Next ==
    \/ \E r \in Requests :
          \/ Ask(r)
          \/ RequestPosted(r)
          \/ AskFails(r)
          \/ Asked(r)
          \/ Expire(r)
    \/ \E a \in Answers :
          \/ \E r \in Requests, verdict \in Verdicts : Respond(a, r, verdict)
          \/ AnswerPosted(a)
          \/ AnswerFails(a)
          \/ AnswerAccepted(a)
          \/ AnswerTooLate(a)
    \/ ShutdownClears
    \/ ShutdownReplaces
    \/ ShutdownIsCancelled

\* The bus answers (its lock has a timeout), calls run on, timers fire.
Fairness ==
    /\ \A r \in Requests : WF_vars(Expire(r))
    /\ \A a \in Answers :
          /\ WF_vars(AnswerPosted(a))
          /\ WF_vars(AnswerAccepted(a))
          /\ WF_vars(AnswerTooLate(a))

Spec == Init /\ [][Next]_vars /\ Fairness

-----------------------------------------------------------------------------
(* What the protocols promise.                                             *)

\* The book, the futures and the timers agree whatever overlaps: a request is
\* pending until it has its one outcome, a timer that is alive is the one that
\* _timeout names, and belongs to a pending request nobody has settled.
BookAgrees ==
    \A r \in Requests :
        /\ r \in pending <=> outcome[r] = "pending"
        /\ timers[r] = IF r \in armed THEN 1 ELSE 0
        /\ r \in armed => r \in pending

\* An answer that was accepted is the request's outcome and lies in the requester's
\* mailbox, no second one was accepted, and two are never announced at a time; one
\* that came after a timeout, a shutdown or another answer was refused.
AnswersCount ==
    /\ \A a \in Answers :
          answer[a].at = "accepted" =>
             /\ outcome[answer[a].to] = answer[a].verdict
             /\ <<answer[a].to, answer[a].verdict>> \in mailbox
    /\ \A r \in Requests :
          outcome[r] \in Verdicts =>
             \E a \in Answers : answer[a].at = "accepted" /\ answer[a].to = r
    /\ \A a, b \in Answers :
          /\ answer[a].to = answer[b].to
          /\ answer[a].at \in InFlight \cup {"accepted"}
          /\ answer[b].at \in InFlight \cup {"accepted"}
          => a = b

\* A request with a timeout is settled in the end, although answers that fail stop
\* its timer and set it going again.
TimedRequestsSettle ==
    \A r \in Requests :
        (asking[r] = "returned" /\ r \in limited) ~> (outcome[r] \in Outcomes)
=============================================================================
