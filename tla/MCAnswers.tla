----------------------------- MODULE MCAnswers ------------------------------
(* Who waits gets an answer: from the workspace lock, from a closing manager *)
(* of background jobs or from the protocols, one of them in a behaviour.     *)
EXTENDS RWLock

CONSTANTS
    Jobs, Sessions,                     \* background jobs, and who starts them
    Requests, Answers, MaxShutdowns     \* of the protocols

VARIABLES
    service,    \* the one that moves
    jobFuture, states, owner, notifications, delivered, cancelling, closing,
    asking, outcome, pending, manager, issuer, limited, timers, armed,
    responding, answer, mailbox, shutdown

Background == INSTANCE BackgroundJobs
Protocol == INSTANCE Protocols

AnswersInit ==
    /\ service \in {"lock", "background", "protocol"}
    /\ Init
    /\ Background!Init
    /\ Protocol!Init

backgroundVars ==
    <<jobFuture, states, owner, notifications, delivered, cancelling, closing>>
protocolVars ==
    <<asking, outcome, pending, manager, issuer, limited, timers, armed,
      responding, answer, mailbox, shutdown>>
answersVars == <<service, vars, backgroundVars, protocolVars>>

AnswersNext ==
    /\ UNCHANGED service
    /\ \/ /\ service = "lock" /\ Next
          /\ UNCHANGED <<backgroundVars, protocolVars>>
       \/ /\ service = "background" /\ Background!Next
          /\ UNCHANGED <<vars, protocolVars>>
       \/ /\ service = "protocol" /\ Protocol!Next
          /\ UNCHANGED <<vars, backgroundVars>>

AnswersSpec ==
    /\ AnswersInit /\ [][AnswersNext]_answersVars
    /\ Fairness /\ Background!Fairness /\ Protocol!Fairness

-----------------------------------------------------------------------------
(* What each of them promises, in its own module.                          *)

ClosedJobsAreReported == Background!ClosedJobsAreReported
TimedRequestsSettle == Protocol!TimedRequestsSettle
=============================================================================
