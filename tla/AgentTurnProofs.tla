-------------------------- MODULE AgentTurnProofs --------------------------
(***************************************************************************)
(* Theorems about the turns of an agent, for budgets of any size, any      *)
(* answers and any number of turns and notices, about the permissions that *)
(* its calls ask for, for any number of calls, risks and sessions, and     *)
(* about the terminal that shows the turns, for any number of prompts.     *)
(***************************************************************************)
EXTENDS MCAgentTurns, NaturalsInduction, WellFoundedInduction, SequenceTheorems, TLAPS

Running == LoopPhases \cup {"prompt"}

\* What is spent of the budgets when the loop looks at them.
Bounds ==
    /\ phase \in Running \cup {"rest"} => round <= MaxRounds
    /\ phase # "remind" => sinceTodo < ReminderRounds

TypeInv == TypeOK /\ Bounds

-----------------------------------------------------------------------------
(* The type.                                                               *)

USE DEF Sources, Goto, Stop

LEMMA MessageType ==
    /\ \A k \in {"prompt", "results", "continue", "reminder", "summary", "compaction"} :
          /\ Message(k) \in Messages
          /\ Message(k).kind = k /\ Message(k).stop = "none"
          /\ Message(k).notices = {}
    /\ \A a \in Answers :
          /\ AnswerMessage(a) \in Messages
          /\ AnswerMessage(a).kind = "answer" /\ AnswerMessage(a).stop = a.stop
          /\ AnswerMessage(a).notices = {}
    /\ \A h \in SUBSET Notices :
          /\ NoticeMessage(h) \in Messages
          /\ NoticeMessage(h).kind = "notices" /\ NoticeMessage(h).stop = "none"
          /\ NoticeMessage(h).notices = h
<1>1. \A k \in {"prompt", "results", "continue", "reminder", "summary", "compaction"} :
          /\ Message(k) \in Messages
          /\ Message(k).kind = k /\ Message(k).stop = "none"
          /\ Message(k).notices = {}
  BY DEF Message, Messages
<1>2. \A a \in Answers :
          /\ AnswerMessage(a) \in Messages
          /\ AnswerMessage(a).kind = "answer" /\ AnswerMessage(a).stop = a.stop
          /\ AnswerMessage(a).notices = {}
  BY DEF AnswerMessage, Messages, Answers
<1>3. \A h \in SUBSET Notices :
          /\ NoticeMessage(h) \in Messages
          /\ NoticeMessage(h).kind = "notices" /\ NoticeMessage(h).stop = "none"
          /\ NoticeMessage(h).notices = h
  BY DEF NoticeMessage, Messages
<1> QED
  BY <1>1, <1>2, <1>3

\* A step of a running turn does one of these to the log.
Logs(l, l2) ==
    \/ l2 = l
    \/ \E m \in Messages : l2 = Append(l, m)
    \/ \E a \in Answers : l2 = Append(Append(l, AnswerMessage(a)), Message("continue"))

LEMMA LogType ==
    ASSUME NEW l \in Seq(Messages), NEW l2, Logs(l, l2)
    PROVE  l2 \in Seq(Messages)
<1>1. CASE \E a \in Answers : l2 = Append(Append(l, AnswerMessage(a)), Message("continue"))
  <2>1. PICK a \in Answers : l2 = Append(Append(l, AnswerMessage(a)), Message("continue"))
    BY <1>1
  <2> QED
    BY <2>1, MessageType
<1>2. CASE \E m \in Messages : l2 = Append(l, m)
  BY <1>2
<1> QED
  BY <1>1, <1>2 DEF Logs

LEMMA SummarizeLogs ==
    ASSUME MaySummarize
    PROVE  Logs(log, log') /\ (log' = log \/ log' = Append(log, Message("summary")))
  BY MessageType DEF MaySummarize, Logs

LEMMA CompactionLogs ==
    ASSUME CompactSession
    PROVE  Logs(log, log') /\ log' = Append(log, Message("compaction"))
  BY MessageType DEF CompactSession, Logs

\* TypeOK and Bounds, by what the steps change together.
Control ==
    /\ phase \in Phases /\ turns \in 0..MaxTurns
    /\ status \in {"idle", "active", "incomplete", "failed", "cancelled"}
    /\ outcome \in Outcomes \cup {"none"}
Flags == expanded \in BOOLEAN /\ compacted \in BOOLEAN /\ reconciled \in BOOLEAN
Budgets ==
    /\ round \in 1..MaxRounds + 1 /\ continuations \in 0..MaxContinuations
    /\ retries \in [RetryKinds -> 0..MaxRetries]
    /\ repairs \in [RepairKinds -> 0..RepairsPerKind]
    /\ repaired \in 0..MaxRepairs /\ sinceTodo \in 0..ReminderRounds
Recovery ==
    /\ pending \in {"none", "retry", "retry_with_feedback", "compact_then_retry"}
    /\ feedback \in BOOLEAN /\ heard \in {"nothing", "answer", "failure"}
    /\ over \in BOOLEAN
Session == log \in Seq(Messages) /\ openTodos \in BOOLEAN
Mail ==
    /\ queue \in [Sources -> SUBSET Notices]
    /\ hand \subseteq Notices /\ lost \subseteq Notices /\ arrived \subseteq Notices

LEMMA TypeParts == TypeInv <=> Control /\ Budgets /\ Flags /\ Recovery /\ Session /\ Mail /\ Bounds
  BY DEF TypeInv, TypeOK, Control, Budgets, Flags, Recovery, Session, Mail

LEMMA TypeParts2 ==
    TypeInv' <=> Control' /\ Budgets' /\ Flags' /\ Recovery' /\ Session' /\ Mail' /\ Bounds'
  BY DEF TypeInv, TypeOK, Control, Budgets, Flags, Recovery, Session, Mail

LEMMA Same ==
    /\ Budgets /\ UNCHANGED budgets => Budgets'
    /\ Flags /\ UNCHANGED budgets => Flags'
    /\ Recovery /\ UNCHANGED <<recovery, over>> => Recovery'
    /\ Session /\ UNCHANGED session => Session'
    /\ Mail /\ UNCHANGED mail => Mail'
  BY DEF Budgets, Flags, Recovery, Session, Mail, budgets, recovery, session, mail

LEMMA FreshTypes ==
    Fresh => Budgets' /\ Flags' /\ Recovery' /\ round' <= MaxRounds /\ sinceTodo' = 0
<1> SUFFICES ASSUME Fresh
             PROVE  Budgets' /\ Flags' /\ Recovery' /\ round' <= MaxRounds /\ sinceTodo' = 0
  OBVIOUS
<1>1. /\ retries' \in [RetryKinds -> 0..MaxRetries]
      /\ repairs' \in [RepairKinds -> 0..RepairsPerKind]
  BY BudgetAssumptions DEF Fresh
<1>2. round' = 1 /\ continuations' = 0 /\ repaired' = 0 /\ sinceTodo' = 0
  BY DEF Fresh
<1>3. Budgets' /\ round' <= MaxRounds
  BY <1>1, <1>2, BudgetAssumptions DEF Budgets
<1>4. Flags' /\ Recovery'
  BY Zenon DEF Fresh, Flags, Recovery
<1> QED
  BY <1>2, <1>3, <1>4

LEMMA TypeInit == Init => TypeInv
<1> SUFFICES ASSUME Init
             PROVE  TypeInv
  OBVIOUS
<1> USE BudgetAssumptions
<1>1. Control /\ Bounds
  BY DEF Init, Control, Bounds, Phases, Outcomes, Running, LoopPhases, Drains
<1>2. Flags /\ Recovery
  BY Zenon DEF Init, Flags, Recovery
<1>3. /\ retries \in [RetryKinds -> 0..MaxRetries]
      /\ repairs \in [RepairKinds -> 0..RepairsPerKind]
  BY DEF Init
<1>4. round = 1 /\ continuations = 0 /\ repaired = 0 /\ sinceTodo = 0
  BY DEF Init
<1>5. Budgets
  BY <1>3, <1>4 DEF Budgets
<1>6. openTodos \in BOOLEAN
  BY Zenon DEF Init
<1>7. Session
  BY <1>6 DEF Init, Session
<1>8. Mail
  BY DEF Init, Mail
<1> QED
  BY <1>1, <1>2, <1>5, <1>7, <1>8, TypeParts

LEMMA TypeStep == TypeInv /\ [Next]_vars => TypeInv'
<1> SUFFICES ASSUME TypeInv, [Next]_vars
             PROVE  TypeInv'
  OBVIOUS
<1> USE BudgetAssumptions DEF Phases, Outcomes, Running, LoopPhases, Drains
<1>0. Control /\ Budgets /\ Flags /\ Recovery /\ Session /\ Mail /\ Bounds
  BY TypeParts
<1>1. CASE Start
  <2>1. Control' /\ Bounds'
    BY <1>0, <1>1 DEF Start, Control, Bounds, budgets
  <2> QED
    BY <1>0, <1>1, <2>1, Same, TypeParts2 DEF Start
<1>2. CASE SubmitPrompt
  <2>1. Control' /\ Bounds'
    BY <1>0, <1>2 DEF SubmitPrompt, Control, Bounds, budgets
  <2>3. Logs(log, log')
    BY <1>2, MessageType DEF SubmitPrompt, Logs
  <2>2. Session'
    BY <1>0, <1>2, <2>3, LogType DEF SubmitPrompt, Session
  <2> QED
    BY <1>0, <1>2, <2>1, <2>2, Same, TypeParts2 DEF SubmitPrompt
<1>3. ASSUME NEW s \in Sources, Drain(s)
      PROVE  TypeInv'
  <2>1. Control' /\ Bounds'
    BY <1>0, <1>3 DEF Drain, AfterDrain, InHand, Control, Bounds, budgets
  <2>2. Mail'
    BY <1>0, <1>3 DEF Drain, Take, Mail
  <2> QED
    BY <1>0, <1>3, <2>1, <2>2, Same, TypeParts2 DEF Drain
<1>4. ASSUME NEW s \in Sources, Inject(s)
      PROVE  TypeInv'
  <2>1. Control' /\ Bounds'
    BY <1>0, <1>4 DEF Inject, AfterDrain, InHand, Control, Bounds, budgets
  <2>2. Mail'
    BY <1>0, <1>4 DEF Inject, Mail
  <2>3. Logs(log, log')
    BY <1>0, <1>4, MessageType DEF Inject, Logs, Mail
  <2>4. Session'
    BY <1>0, <1>4, <2>3, LogType DEF Inject, Session
  <2> QED
    BY <1>0, <1>4, <2>1, <2>2, <2>4, Same, TypeParts2 DEF Inject
<1>5. CASE Build
  <2>1. Control' /\ Bounds'
    BY <1>0, <1>5 DEF Build, Control, Bounds, budgets
  <2>2. Session'
    BY <1>0, <1>5, SummarizeLogs, LogType DEF Build, Session
  <2> QED
    BY <1>0, <1>5, <2>1, <2>2, Same, TypeParts2 DEF Build
<1>6. ASSUME NEW a \in Answers, Truncated(a)
      PROVE  TypeInv'
  <2>1. Control' /\ Bounds'
    BY <1>0, <1>6 DEF Truncated, Control, Bounds, budgets
  <2>2. Budgets'
    <3>1. CASE UNCHANGED budgets
      BY <1>0, <3>1, Same
    <3>2. CASE MayContinue /\ continuations' = continuations + 1
               /\ UNCHANGED <<round, compacted, retries, repairs, repaired, reconciled,
                              sinceTodo>>
      BY <1>0, <3>2 DEF MayContinue, Budgets
    <3> QED
      BY <1>6, <3>1, <3>2 DEF Truncated
  <2>6. Flags'
    BY <1>0, <1>6, Zenon DEF Truncated, Flags, budgets
  <2>3. Recovery'
    BY <1>0, <1>6 DEF Truncated, Spend, Settle, Recovery
  <2>4. Logs(log, log')
    BY <1>6, MessageType DEF Truncated, Logs
  <2>5. Session'
    BY <1>0, <1>6, <2>4, LogType DEF Truncated, Session
  <2> QED
    BY <1>0, <1>6, <2>1, <2>2, <2>3, <2>5, <2>6, Same, TypeParts2 DEF Truncated
<1>7. ASSUME NEW a \in Answers, Answered(a)
      PROVE  TypeInv'
  <2>1. Control' /\ Bounds'
    BY <1>0, <1>7 DEF Answered, Control, Bounds, budgets
  <2>3. Recovery'
    BY <1>0, <1>7 DEF Answered, Spend, Settle, Recovery
  <2>5. Session'
    BY <1>0, <1>7, MessageType DEF Answered, Session
  <2> QED
    BY <1>0, <1>7, <2>1, <2>3, <2>5, Same, TypeParts2 DEF Answered
<1>8. ASSUME NEW code \in RepairKinds, AnswerInvalid(code)
      PROVE  TypeInv'
  <2>1. Control' /\ Bounds'
    BY <1>0, <1>8 DEF AnswerInvalid, Failing, Repair, Control, Bounds
  <2>2. Budgets'
    BY <1>0, <1>8 DEF AnswerInvalid, Repair, Budgets
  <2>3. Recovery'
    BY <1>0, <1>8 DEF AnswerInvalid, Failing, Repair, Spend, Recovery
  <2>4. Flags'
    BY <1>0, <1>8, Zenon DEF AnswerInvalid, Flags
  <2> QED
    BY <1>0, <1>8, <2>1, <2>2, <2>3, <2>4, Same, TypeParts2 DEF AnswerInvalid
<1>9. ASSUME NEW code \in TransportFailures, ProviderFails(code)
      PROVE  TypeInv'
  <2>1. Control' /\ Bounds'
    BY <1>0, <1>9 DEF ProviderFails, Failing, Retry, Control, Bounds
  <2>2. Budgets'
    BY <1>0, <1>9 DEF ProviderFails, Retry, Budgets, RetryKinds
  <2>3. Recovery'
    BY <1>0, <1>9 DEF ProviderFails, Failing, Retry, Spend, Recovery
  <2>4. Flags'
    BY <1>0, <1>9, Zenon DEF ProviderFails, Flags
  <2> QED
    BY <1>0, <1>9, <2>1, <2>2, <2>3, <2>4, Same, TypeParts2 DEF ProviderFails
<1>10. CASE ContextOverflows
  <2>1. Control' /\ Bounds'
    BY <1>0, <1>10 DEF ContextOverflows, Failing, Overflow, Control, Bounds
  <2>2. Budgets'
    BY <1>0, <1>10 DEF ContextOverflows, Overflow, Budgets, RetryKinds
  <2>3. Recovery'
    BY <1>0, <1>10 DEF ContextOverflows, Failing, Overflow, Spend, Recovery
  <2>4. Flags'
    BY <1>0, <1>10, Zenon DEF ContextOverflows, Overflow, Flags
  <2> QED
    BY <1>0, <1>10, <2>1, <2>2, <2>3, <2>4, Same, TypeParts2 DEF ContextOverflows
<1>11. CASE ProviderRefuses
  <2>1. Control' /\ Bounds'
    BY <1>0, <1>11 DEF ProviderRefuses, Failing, Control, Bounds, budgets
  <2>2. Recovery'
    BY <1>0, <1>11 DEF ProviderRefuses, Failing, Spend, Recovery
  <2> QED
    BY <1>0, <1>11, <2>1, <2>2, Same, TypeParts2 DEF ProviderRefuses
<1>12. CASE Recover
  <2>1. Control' /\ Bounds'
    BY <1>0, <1>12 DEF Recover, Control, Bounds, budgets
  <2>2. Session'
    BY <1>0, <1>12, SummarizeLogs, LogType DEF Recover, Session, Logs
  <2> QED
    BY <1>0, <1>12, <2>1, <2>2, Same, TypeParts2 DEF Recover
<1>13. CASE Reconcile
  <2>1. Control' /\ Bounds'
    BY <1>0, <1>13 DEF Reconcile, CountRound, MaySendBack, Control, Bounds, Budgets
  <2>2. Budgets'
    BY <1>0, <1>13 DEF Reconcile, CountRound, MaySendBack, Budgets
  <2>5. Logs(log, log')
    BY <1>13, MessageType DEF Reconcile, Logs
  <2>3. Session'
    BY <1>0, <1>13, <2>5, LogType DEF Reconcile, Session
  <2>4. Flags'
    BY <1>0, <1>13, Zenon DEF Reconcile, Flags
  <2> QED
    BY <1>0, <1>13, <2>1, <2>2, <2>3, <2>4, Same, TypeParts2 DEF Reconcile
<1>14. CASE RunTools
  <2>1. Control' /\ Bounds'
    BY <1>0, <1>14 DEF RunTools, Control, Bounds
  <2>2. Budgets'
    BY <1>0, <1>14 DEF RunTools, Budgets, Bounds
  <2>3. Session'
    <3>2. log' \in Seq(Messages)
      BY <1>0, <1>14, MessageType DEF RunTools, AppendResults, Session
    <3>3. openTodos' \in BOOLEAN
      BY <1>0, <1>14 DEF RunTools, Session
    <3> QED
      BY <3>2, <3>3 DEF Session
  <2>4. Flags'
    BY <1>0, <1>14, Zenon DEF RunTools, Flags
  <2> QED
    BY <1>0, <1>14, <2>1, <2>2, <2>3, <2>4, Same, TypeParts2 DEF RunTools
<1>15. CASE Remind
  <2>1. Control' /\ Bounds'
    BY <1>0, <1>15 DEF Remind, CountRound, Control, Bounds, Budgets
  <2>2. Budgets'
    BY <1>0, <1>15 DEF Remind, CountRound, Budgets, Bounds
  <2>5. Logs(log, log')
    BY <1>15, MessageType DEF Remind, Logs
  <2>3. Session'
    BY <1>0, <1>15, <2>5, LogType DEF Remind, Session
  <2>4. Flags'
    BY <1>0, <1>15, Zenon DEF Remind, Flags
  <2> QED
    BY <1>0, <1>15, <2>1, <2>2, <2>3, <2>4, Same, TypeParts2 DEF Remind
<1>16. CASE Finish
  <2>1. Control' /\ Bounds'
    BY <1>0, <1>16 DEF Finish, SessionStatus, Control, Bounds, budgets
  <2> QED
    BY <1>0, <1>16, <2>1, Same, TypeParts2 DEF Finish
<1>17. CASE Return
  <2>1. Control' /\ Bounds'
    BY <1>0, <1>17, FreshTypes DEF Return, Control, Bounds
  <2> QED
    BY <1>0, <1>17, <2>1, FreshTypes, Same, TypeParts2 DEF Return
<1>18. ASSUME NEW o \in {"cancelled", "failed"}, Abort(o)
       PROVE  TypeInv'
  <2>1. Control' /\ Bounds'
    BY <1>0, <1>18, FreshTypes DEF Abort, SessionStatus, Control, Bounds
  <2>2. Mail'
    BY <1>0, <1>18 DEF Abort, Mail
  <2> QED
    BY <1>0, <1>18, <2>1, <2>2, FreshTypes, Same, TypeParts2 DEF Abort
<1>19. ASSUME NEW s \in Sources, NEW n \in Notices, Arrive(s, n)
       PROVE  TypeInv'
  <2>1. Control' /\ Bounds'
    BY <1>0, <1>19 DEF Arrive, Control, Bounds, budgets
  <2>2. Mail'
    BY <1>0, <1>19 DEF Arrive, Mail
  <2> QED
    BY <1>0, <1>19, <2>1, <2>2, Same, TypeParts2 DEF Arrive
<1>20. CASE UNCHANGED vars
  <2>1. Control' /\ Bounds'
    BY <1>0, <1>20 DEF vars, Control, Bounds, budgets
  <2> QED
    BY <1>0, <1>20, <2>1, Same, TypeParts2 DEF vars
<1>21. \A a \in Answers : FailureCode(a) \in RepairKinds
  BY DEF FailureCode, RepairKinds
<1>22. StreamFailures \subseteq RepairKinds
  BY DEF RepairKinds
<1>23. CASE Respond
  BY <1>6, <1>7, <1>8, <1>9, <1>10, <1>11, <1>21, <1>22, <1>23 DEF Respond
<1>24. CASE CompactSession
  <2>1. Control' /\ Bounds'
    BY <1>0, <1>24 DEF CompactSession, Control, Bounds, budgets
  <2>2. Session'
    BY <1>0, <1>24, CompactionLogs, LogType DEF CompactSession, Session
  <2> QED
    BY <1>0, <1>24, <2>1, <2>2, Same, TypeParts2 DEF CompactSession
<1> QED
  BY <1>1, <1>2, <1>3, <1>4, <1>5, <1>12, <1>13, <1>14, <1>15, <1>16, <1>17, <1>18,
     <1>19, <1>20, <1>23, <1>24 DEF Next

\* Every variable stays in its range: no counter passes its budget, whatever
\* the provider answers (TypeOK).
THEOREM TypeCorrect == Spec => []TypeOK
<1>1. TypeInv => TypeOK
  BY DEF TypeInv
<1> QED
  BY TypeInit, TypeStep, <1>1, PTL DEF Spec

-----------------------------------------------------------------------------
(* The end of a turn.                                                      *)

LEMMA RoundsFacts ==
    ASSUME NEW r \in Nat, r <= MaxRounds
    PROVE  /\ RoundsAfter(r) \in Nat
           /\ r < MaxRounds => RoundsAfter(r + 1) = RoundsAfter(r) - (MaxContinuations + 1)
<1>1. \A a, m \in Nat : a * m \in Nat
  OBVIOUS
<1>2. \A a, m \in Int : (a - 1) * m = a * m - m
  OBVIOUS
<1>3. MaxRounds - r \in Nat /\ MaxContinuations + 1 \in Nat
  BY BudgetAssumptions
<1>4. RoundsAfter(r) \in Nat
  BY <1>1, <1>3 DEF RoundsAfter
<1>5. MaxRounds - (r + 1) = (MaxRounds - r) - 1
  BY BudgetAssumptions
<1>6. RoundsAfter(r + 1) = RoundsAfter(r) - (MaxContinuations + 1)
  BY <1>2, <1>3, <1>5 DEF RoundsAfter
<1> QED
  BY <1>4, <1>6

LEMMA RankFacts ==
    /\ Rank["prompt"] = 11 /\ Rank["recover"] = 11 /\ Rank["jobs"] = 10
    /\ Rank["jobs_in_hand"] = 9 /\ Rank["team"] = 8 /\ Rank["team_in_hand"] = 7
    /\ Rank["build"] = 6 /\ Rank["model"] = 5 /\ Rank["reconcile"] = 4
    /\ Rank["tools"] = 4 /\ Rank["remind"] = 3
    /\ Rank["finish"] = 2 /\ Rank["closing"] = 1 /\ Rank["rest"] = 0
  BY DEF Rank, Phases, LoopPhases, Drains

LEMMA RankRange ==
    /\ \A p \in Phases : Rank[p] \in 0..11
    /\ \A p \in Running : Rank[p] >= 3
  BY RankFacts DEF Phases, Running, LoopPhases, Drains

LEMMA FuelIsNat == TypeInv /\ phase \in Running => Fuel \in Nat
<1> SUFFICES ASSUME TypeInv, phase \in Running
             PROVE  Fuel \in Nat
  OBVIOUS
<1>1. Budgets /\ Bounds
  BY TypeParts
<1>2. RoundsAfter(round) \in Nat
  BY <1>1, RoundsFacts DEF Bounds, Budgets
<1>3. /\ MaxContinuations - continuations \in Nat /\ MaxRepairs - repaired \in Nat
      /\ MaxRetries - retries["provider_transient"] \in Nat
      /\ MaxRetries - retries["provider_rate_limit"] \in Nat
  BY <1>1, BudgetAssumptions DEF Budgets, RetryKinds
<1>4. (IF compacted THEN 0 ELSE 1) \in Nat
  OBVIOUS
<1> QED
  BY <1>2, <1>3, <1>4 DEF Fuel

LEMMA VariantIsNat == TypeInv => Variant \in Nat
<1> SUFFICES ASSUME TypeInv
             PROVE  Variant \in Nat
  OBVIOUS
<1>1. Rank[phase] \in Nat
  BY TypeParts, RankRange DEF Control
<1> QED
  BY <1>1, FuelIsNat DEF Variant, Running

LEMMA FuelNextIsNat == TypeInv' /\ phase' \in Running => Fuel' \in Nat
<1> SUFFICES ASSUME TypeInv', phase' \in Running
             PROVE  Fuel' \in Nat
  OBVIOUS
<1>1. Budgets' /\ Bounds'
  BY TypeParts2
<1>2. RoundsAfter(round') \in Nat
  BY <1>1, RoundsFacts DEF Bounds, Budgets
<1>3. MaxContinuations - continuations' \in Nat /\ MaxRepairs - repaired' \in Nat
  <2>1. continuations' \in 0..MaxContinuations /\ repaired' \in 0..MaxRepairs
    BY <1>1, Zenon DEF Budgets
  <2>2. MaxContinuations \in Nat /\ MaxRepairs \in Nat
    BY BudgetAssumptions
  <2>3. \A m \in Nat : \A x \in 0..m : m - x \in Nat
    OBVIOUS
  <2> QED
    BY <2>1, <2>2, <2>3, Zenon
<1>5. \A k \in RetryKinds : retries'[k] \in 0..MaxRetries
  BY <1>1 DEF Budgets
<1>6. /\ MaxRetries - retries'["provider_transient"] \in Nat
      /\ MaxRetries - retries'["provider_rate_limit"] \in Nat
  BY <1>5, BudgetAssumptions DEF RetryKinds
<1>4. (IF compacted' THEN 0 ELSE 1) \in Nat
  OBVIOUS
<1> QED
  BY <1>2, <1>3, <1>4, <1>6 DEF Fuel

LEMMA VariantNextIsNat == TypeInv' => Variant' \in Nat
<1> SUFFICES ASSUME TypeInv'
             PROVE  Variant' \in Nat
  OBVIOUS
<1>1. Rank[phase'] \in Nat
  BY TypeParts2, RankRange DEF Control
<1> QED
  BY <1>1, FuelNextIsNat DEF Variant, Running

\* Continuing takes one, counting a round all that the round had.
LEMMA FuelAfter ==
    ASSUME TypeInv, TypeInv', phase \in Running, phase' \in Running,
           UNCHANGED <<compacted, retries, repaired>>
    PROVE  /\ round' = round /\ continuations' = continuations + 1 => Fuel' = Fuel - 1
           /\ round' = round + 1 /\ round < MaxRounds =>
                 Fuel' = Fuel - (MaxContinuations + 1) + (continuations - continuations')
<1>1. /\ round \in Nat /\ round' \in Nat /\ round <= MaxRounds
      /\ continuations \in Nat /\ continuations' \in Nat
  BY TypeParts, TypeParts2 DEF Budgets, Bounds
<1>2. RoundsAfter(round) \in Nat
  BY <1>1, RoundsFacts
<1>3. round' = round => RoundsAfter(round') = RoundsAfter(round)
  OBVIOUS
<1>4. round' = round + 1 /\ round < MaxRounds =>
         RoundsAfter(round') = RoundsAfter(round) - (MaxContinuations + 1)
  BY <1>1, RoundsFacts
<1> DEFINE rest == (MaxRetries - retries["provider_transient"])
                   + (MaxRetries - retries["provider_rate_limit"])
                   + (MaxRepairs - repaired) + (IF compacted THEN 0 ELSE 1)
<1>5. rest' = rest /\ rest \in Int
  <2>1. /\ MaxRepairs - repaired \in Int
        /\ MaxRetries - retries["provider_transient"] \in Int
        /\ MaxRetries - retries["provider_rate_limit"] \in Int
    BY TypeParts, BudgetAssumptions DEF Budgets, RetryKinds
  <2> QED
    BY <2>1
<1>6. /\ Fuel = RoundsAfter(round) + (MaxContinuations - continuations) + rest
      /\ Fuel' = RoundsAfter(round') + (MaxContinuations - continuations') + rest'
  <2>1. /\ MaxRepairs - repaired \in Int
        /\ MaxRetries - retries["provider_transient"] \in Int
        /\ MaxRetries - retries["provider_rate_limit"] \in Int
        /\ (IF compacted THEN 0 ELSE 1) \in Int
    BY TypeParts, BudgetAssumptions DEF Budgets, RetryKinds
  <2>2. RoundsAfter(round') \in Nat
    BY TypeParts2, <1>1, RoundsFacts DEF Bounds
  <2> QED
    BY <1>1, <1>2, <2>1, <2>2, BudgetAssumptions DEF Fuel
<1> HIDE DEF rest
<1> QED
  BY <1>1, <1>2, <1>3, <1>4, <1>5, <1>6, BudgetAssumptions

\* The three ways in which a step of the loop counts down.
LEMMA Descend ==
    ASSUME TypeInv, TypeInv', phase \in Running, UNCHANGED budgets,
           Rank[phase'] < Rank[phase]
    PROVE  Variant' < Variant
<1>1. Fuel' = Fuel
  BY DEF Fuel, budgets
<1>2. Rank[phase] \in Nat /\ Rank[phase'] \in Nat
  BY TypeParts, TypeParts2, RankRange DEF Control
<1> QED
  BY <1>1, <1>2, FuelIsNat DEF Variant, Running

LEMMA LeaveLoop ==
    ASSUME TypeInv, TypeInv', phase \in Running, phase' \in {"finish", "rest"}
    PROVE  Variant' < Variant
<1>1. Rank[phase] \in Nat /\ Rank[phase] >= 3
  BY TypeParts, RankRange DEF Control
<1>2. Variant' <= 2
  BY RankFacts DEF Variant, LoopPhases, Drains
<1>3. Variant >= 3
  BY <1>1, FuelIsNat DEF Variant, Running
<1> QED
  BY <1>2, <1>3, VariantIsNat, VariantNextIsNat

LEMMA Pay ==
    ASSUME TypeInv, TypeInv', phase \in Running, phase' \in Running, Fuel' < Fuel
    PROVE  Variant' < Variant
<1>1. Rank[phase] \in 0..11 /\ Rank[phase'] \in 0..11
  BY TypeParts, TypeParts2, RankRange DEF Control
<1> QED
  BY <1>1, FuelIsNat, FuelNextIsNat DEF Variant, Running

LEMMA StepCountsDown ==
    ASSUME TypeInv, TypeInv', [Next]_vars
    PROVE  [Length!Next]_(Length!vars)
<1> USE DEF Running, LoopPhases, Drains
<1>0. Control /\ Budgets /\ Bounds /\ Variant \in Nat /\ Variant' \in Nat
  BY TypeParts, VariantIsNat, VariantNextIsNat
<1>a. ASSUME phase # "rest", Variant' < Variant
      PROVE  Length!Step
  BY <1>0, <1>a DEF Length!Step
<1>1. CASE Start
  BY <1>0, <1>1 DEF Start, Length!Next, Length!Begin
<1>2. CASE SubmitPrompt
  BY <1>2, <1>a, Descend, LeaveLoop, RankFacts DEF SubmitPrompt, Length!Next
<1>3. ASSUME NEW s \in Sources, Drain(s)
      PROVE  Length!Next
  BY <1>3, <1>a, Descend, RankFacts DEF Drain, AfterDrain, InHand, Length!Next
<1>4. ASSUME NEW s \in Sources, Inject(s)
      PROVE  Length!Next
  BY <1>4, <1>a, Descend, RankFacts DEF Inject, AfterDrain, InHand, Length!Next
<1>5. CASE Build
  BY <1>5, <1>a, Descend, LeaveLoop, RankFacts DEF Build, Length!Next
<1>6. ASSUME NEW a \in Answers, Truncated(a)
      PROVE  Length!Next
  <2>1. CASE phase' = "finish"
    BY <1>6, <1>a, <2>1, LeaveLoop DEF Truncated, Length!Next
  <2>2. CASE /\ phase' = "jobs" /\ continuations' = continuations + 1
             /\ UNCHANGED <<round, compacted, retries, repaired>>
    <3>1. Fuel' = Fuel - 1
      BY <1>6, <2>2, FuelAfter DEF Truncated
    <3> QED
      BY <1>6, <1>a, <2>2, <3>1, Pay, FuelIsNat DEF Truncated, Length!Next
  <2> QED
    BY <1>6, <2>1, <2>2 DEF Truncated
<1>7. ASSUME NEW a \in Answers, Answered(a)
      PROVE  Length!Next
  BY <1>7, <1>a, Descend, LeaveLoop, RankFacts DEF Answered, Length!Next
<1>8. ASSUME NEW code \in RepairKinds, AnswerInvalid(code)
      PROVE  Length!Next
  <2>1. CASE phase' = "finish"
    BY <1>8, <1>a, <2>1, LeaveLoop DEF AnswerInvalid, Failing, Length!Next
  <2>2. CASE /\ phase' = "jobs" /\ repaired' = repaired + 1
             /\ UNCHANGED <<round, continuations, compacted, retries>>
    <3>1. Fuel' = Fuel - 1
      BY <1>0, <1>8, <2>2, BudgetAssumptions, RoundsFacts
         DEF AnswerInvalid, Failing, Fuel, Budgets, Bounds, RetryKinds
    <3> QED
      BY <1>8, <1>a, <2>2, <3>1, Pay, FuelIsNat DEF AnswerInvalid, Failing, Length!Next
  <2> QED
    BY <1>8, <2>1, <2>2 DEF AnswerInvalid, Repair
<1>9. ASSUME NEW code \in TransportFailures, ProviderFails(code)
      PROVE  Length!Next
  <2>1. CASE phase' = "finish"
    BY <1>9, <1>a, <2>1, LeaveLoop DEF ProviderFails, Failing, Length!Next
  <2>2. CASE /\ phase' = "recover" /\ retries' = [retries EXCEPT ![code] = @ + 1]
             /\ UNCHANGED <<round, continuations, compacted, repaired>>
    <3>1. code = "provider_transient" \/ code = "provider_rate_limit"
      BY BudgetAssumptions
    <3>2. Fuel' = Fuel - 1
      BY <1>0, <1>9, <2>2, <3>1, BudgetAssumptions, RoundsFacts
         DEF ProviderFails, Failing, Fuel, Budgets, Bounds, RetryKinds
    <3> QED
      BY <1>9, <1>a, <2>2, <3>2, Pay, FuelIsNat DEF ProviderFails, Failing, Length!Next
  <2> QED
    BY <1>9, <2>1, <2>2 DEF ProviderFails, Retry
<1>10. CASE ContextOverflows
  <2>1. CASE phase' = "finish"
    BY <1>10, <1>a, <2>1, LeaveLoop DEF ContextOverflows, Failing, Length!Next
  <2>2. CASE /\ phase' = "recover" /\ ~compacted /\ compacted'
             /\ retries' = [retries EXCEPT !["context_overflow"] = @ + 1]
             /\ UNCHANGED <<round, continuations, repaired>>
    <3>1. Fuel' = Fuel - 1
      BY <1>0, <1>10, <2>2, BudgetAssumptions, RoundsFacts
         DEF ContextOverflows, Failing, Fuel, Budgets, Bounds, RetryKinds
    <3> QED
      BY <1>10, <1>a, <2>2, <3>1, Pay, FuelIsNat DEF ContextOverflows, Failing, Length!Next
  <2> QED
    BY <1>10, <2>1, <2>2 DEF ContextOverflows, Overflow
<1>11. CASE ProviderRefuses
  BY <1>11, <1>a, LeaveLoop DEF ProviderRefuses, Failing, Length!Next
<1>12. CASE Recover
  BY <1>12, <1>a, Descend, LeaveLoop, RankFacts DEF Recover, Length!Next
<1>13. CASE Reconcile
  <2>1. CASE phase' = "finish"
    BY <1>13, <1>a, <2>1, LeaveLoop DEF Reconcile, Length!Next
  <2>2. CASE /\ phase' = "jobs" /\ round < MaxRounds /\ round' = round + 1
             /\ UNCHANGED <<continuations, compacted, retries, repaired>>
    <3>1. Fuel' = Fuel - (MaxContinuations + 1)
      BY <1>0, <1>13, <2>2, FuelAfter, FuelIsNat, BudgetAssumptions DEF Reconcile, Budgets
    <3> QED
      BY <1>13, <1>a, <2>2, <3>1, Pay, FuelIsNat, BudgetAssumptions DEF Reconcile, Length!Next
  <2> QED
    BY <1>13, <2>1, <2>2 DEF Reconcile, MaySendBack, CountRound
<1>14. CASE RunTools
  <2>1. Fuel' = Fuel
    BY <1>14 DEF RunTools, Fuel
  <2>2. Variant = 4 + 12 * Fuel /\ Variant' = 3 + 12 * Fuel
    BY <1>14, <2>1, RankFacts DEF RunTools, Variant
  <2> QED
    BY <1>14, <1>a, <2>2, FuelIsNat DEF RunTools, Length!Next
<1>15. CASE Remind
  <2>1. CASE phase' = "finish"
    BY <1>15, <1>a, <2>1, LeaveLoop DEF Remind, Length!Next
  <2>2. CASE /\ phase' = "jobs" /\ round < MaxRounds /\ round' = round + 1
             /\ continuations' = 0 /\ UNCHANGED <<compacted, retries, repaired>>
    <3>1. Fuel' = Fuel - (MaxContinuations + 1) + (continuations - continuations')
      BY <1>15, <2>2, FuelAfter DEF Remind
    <3>2. Fuel' < Fuel
      BY <1>0, <1>15, <2>2, <3>1, FuelIsNat, BudgetAssumptions DEF Remind, Budgets
    <3> QED
      BY <1>15, <1>a, <2>2, <3>2, Pay DEF Remind, Length!Next
  <2> QED
    BY <1>15, <2>1, <2>2 DEF Remind, CountRound
<1>16. CASE Finish
  BY <1>16, <1>a, RankFacts DEF Finish, Variant, Length!Next
<1>17. CASE Return
  BY <1>17, <1>a, RankFacts DEF Return, Variant, Length!Next
<1>18. ASSUME NEW o \in {"cancelled", "failed"}, Abort(o)
       PROVE  Length!Next
  <2>1. CASE phase \in Running
    BY <1>18, <1>a, <2>1, LeaveLoop DEF Abort, Length!Next
  <2>2. CASE phase \in {"finish", "closing"}
    BY <1>18, <1>a, <2>2, RankFacts DEF Abort, Variant, Length!Next
  <2> QED
    BY <1>0, <1>18, <2>1, <2>2 DEF Abort, Control, Phases
<1>19. ASSUME UNCHANGED <<phase, budgets>>
       PROVE  UNCHANGED Length!vars
  BY <1>19 DEF Length!vars, Variant, Fuel, budgets
<1>20. ASSUME NEW s \in Sources, NEW n \in Notices, Arrive(s, n)
       PROVE  UNCHANGED Length!vars
  BY <1>19, <1>20 DEF Arrive
<1>21. CASE UNCHANGED vars
  BY <1>19, <1>21 DEF vars
<1>22. \A a \in Answers : FailureCode(a) \in RepairKinds
  BY DEF FailureCode, RepairKinds
<1>23. StreamFailures \subseteq RepairKinds
  BY DEF RepairKinds
<1>24. CASE Respond
  BY <1>6, <1>7, <1>8, <1>9, <1>10, <1>11, <1>22, <1>23, <1>24 DEF Respond
<1>25. CASE CompactSession
  BY <1>19, <1>25 DEF CompactSession
<1> QED
  BY <1>1, <1>2, <1>3, <1>4, <1>5, <1>12, <1>13, <1>14, <1>15, <1>16, <1>17, <1>18,
     <1>20, <1>21, <1>24, <1>25 DEF Next, Length!Next

\* A turn cannot go on for ever: each of its steps takes something from a
\* natural number, for budgets of any size and whatever the provider answers
\* (TurnCountsDown: the budgets of _run_turn, RetryBudget and RepairBudget).
THEOREM Termination == Spec => TurnCountsDown
<1>1. Init => Length!Init
  BY TypeInit, VariantIsNat DEF Init, Length!Init
<1>2. TypeInv /\ TypeInv' /\ [Next]_vars => [Length!Next]_(Length!vars)
  BY StepCountsDown
<1> QED
  BY TypeInit, TypeStep, <1>1, <1>2, PTL DEF Spec, TurnCountsDown, Length!Spec

-----------------------------------------------------------------------------
(* The log.                                                                *)

\* The named parts of the properties, of any log: the last message that /compact
\* did not leave, and what it says of the calls.
AtEnd(l, i) == i \in DOMAIN l /\ Adjoin(l, i, Len(l) + 1)
Asking(l) == \E i \in DOMAIN l : AtEnd(l, i) /\ Asks(l[i])
CallsAtEnd(l) == \E i \in DOMAIN l : AtEnd(l, i) /\ Asks(l[i]) /\ l[i].calls
EndsTheTurn(l) == \E i \in DOMAIN l : AtEnd(l, i) /\ l[i].stop = "end_turn"
ResultsAnswer(l) ==
    \A i \in DOMAIN l :
        l[i].kind = "results" =>
            \E j \in DOMAIN l : Adjoin(l, j, i) /\ Asks(l[j]) /\ l[j].calls
CallsAnswered(l) ==
    \A i, j \in DOMAIN l :
        Asks(l[i]) /\ Adjoin(l, i, j) => l[j].kind \in {"results", "prompt", "compaction"}
CutIn(l) ==
    \E i \in DOMAIN l :
        /\ l[i].stop = "max_tokens"
        /\ \A j \in i + 1 .. Len(l) : l[j].kind \notin {"prompt", "results"}
NoticesIn(l) == UNION {l[i].notices : i \in DOMAIN l}
Apart(l) == \A i, j \in DOMAIN l : i # j => l[i].notices \cap l[j].notices = {}

LEMMA Appended ==
    ASSUME NEW l \in Seq(Messages), NEW m \in Messages
    PROVE  /\ Append(l, m) \in Seq(Messages) /\ Append(l, m) # <<>>
           /\ Len(Append(l, m)) = Len(l) + 1
           /\ DOMAIN Append(l, m) = 1 .. Len(l) + 1 /\ DOMAIN l = 1 .. Len(l)
           /\ \A i \in 1 .. Len(l) : Append(l, m)[i] = l[i]
           /\ Append(l, m)[Len(l) + 1] = m
           /\ Len(l) \in Nat
  OBVIOUS

LEMMA AppendedEnd ==
    ASSUME NEW l \in Seq(Messages), NEW m \in Messages, NEW k, k = Append(l, m)
    PROVE  /\ \A i, j \in DOMAIN l : Adjoin(k, i, j) <=> Adjoin(l, i, j)
           /\ \A i \in DOMAIN l : Adjoin(k, i, Len(l) + 1) <=> AtEnd(l, i)
           /\ \A i \in DOMAIN k : AtEnd(k, i) <=>
                 i = Len(l) + 1 \/ (m.kind = "compaction" /\ AtEnd(l, i))
<1>0. /\ DOMAIN k = 1 .. Len(l) + 1 /\ DOMAIN l = 1 .. Len(l) /\ Len(k) = Len(l) + 1
      /\ \A i \in 1 .. Len(l) : k[i] = l[i]
      /\ k[Len(l) + 1] = m /\ Len(l) \in Nat
  BY Appended
<1>1. ASSUME NEW i \in DOMAIN l, NEW j \in DOMAIN l
      PROVE  Adjoin(k, i, j) <=> Adjoin(l, i, j)
  BY <1>0 DEF Adjoin
<1>2. ASSUME NEW i \in DOMAIN l
      PROVE  Adjoin(k, i, Len(l) + 1) <=> AtEnd(l, i)
  BY <1>0 DEF Adjoin, AtEnd
<1>3. ASSUME NEW i \in DOMAIN k
      PROVE  AtEnd(k, i) <=> i = Len(l) + 1 \/ (m.kind = "compaction" /\ AtEnd(l, i))
  <2>1. CASE i = Len(l) + 1
    BY <1>0, <2>1 DEF AtEnd, Adjoin
  <2>2. CASE i \in 1 .. Len(l)
    <3>1. ASSUME AtEnd(k, i)
          PROVE  m.kind = "compaction" /\ AtEnd(l, i)
      <4>1. \A n \in i + 1 .. Len(l) + 1 : k[n].kind = "compaction"
        BY <1>0, <2>2, <3>1 DEF AtEnd, Adjoin
      <4>2. Len(l) + 1 \in i + 1 .. Len(l) + 1
        BY <1>0, <2>2
      <4>3. \A n \in i + 1 .. Len(l) : l[n].kind = "compaction"
        BY <1>0, <2>2, <4>1
      <4> QED
        BY <1>0, <2>2, <4>1, <4>2, <4>3 DEF AtEnd, Adjoin
    <3>2. ASSUME m.kind = "compaction", AtEnd(l, i)
          PROVE  AtEnd(k, i)
      <4>1. \A n \in i + 1 .. Len(l) : l[n].kind = "compaction"
        BY <1>0, <2>2, <3>2 DEF AtEnd, Adjoin
      <4>2. \A n \in i + 1 .. Len(l) + 1 : k[n].kind = "compaction"
        <5> TAKE n \in i + 1 .. Len(l) + 1
        <5> QED
          BY <1>0, <2>2, <3>2, <4>1
      <4> QED
        BY <1>0, <2>2, <4>2 DEF AtEnd, Adjoin
    <3> QED
      BY <1>0, <2>2, <3>1, <3>2
  <2> QED
    BY <1>0, <2>1, <2>2
<1> QED
  BY <1>1, <1>2, <1>3

LEMMA AppendedAnswers ==
    ASSUME NEW l \in Seq(Messages), NEW m \in Messages
    PROVE  /\ m.kind # "compaction" =>
                 /\ Asking(Append(l, m)) <=> Asks(m)
                 /\ CallsAtEnd(Append(l, m)) <=> Asks(m) /\ m.calls
                 /\ EndsTheTurn(Append(l, m)) <=> m.stop = "end_turn"
           /\ m.kind = "compaction" /\ m.stop = "none" =>
                 /\ Asking(Append(l, m)) <=> Asking(l)
                 /\ CallsAtEnd(Append(l, m)) <=> CallsAtEnd(l)
                 /\ EndsTheTurn(Append(l, m)) <=> EndsTheTurn(l)
           /\ ResultsAnswer(l) /\ (m.kind = "results" => CallsAtEnd(l))
                 => ResultsAnswer(Append(l, m))
           /\ CallsAnswered(l) /\ (Asking(l) => m.kind \in {"results", "prompt", "compaction"})
                 => CallsAnswered(Append(l, m))
<1> DEFINE k == Append(l, m)
<1>0. /\ DOMAIN k = 1 .. Len(l) + 1 /\ DOMAIN l = 1 .. Len(l)
      /\ \A i \in 1 .. Len(l) : k[i] = l[i]
      /\ k[Len(l) + 1] = m /\ Len(l) \in Nat
  BY Appended
<1>1. /\ \A i, j \in DOMAIN l : Adjoin(k, i, j) <=> Adjoin(l, i, j)
      /\ \A i \in DOMAIN l : Adjoin(k, i, Len(l) + 1) <=> AtEnd(l, i)
      /\ \A i \in DOMAIN k : AtEnd(k, i) <=>
            i = Len(l) + 1 \/ (m.kind = "compaction" /\ AtEnd(l, i))
  BY AppendedEnd
<1> HIDE DEF k
<1>2. ASSUME m.kind # "compaction"
      PROVE  /\ Asking(k) <=> Asks(m)
             /\ CallsAtEnd(k) <=> Asks(m) /\ m.calls
             /\ EndsTheTurn(k) <=> m.stop = "end_turn"
  <2>1. Len(l) + 1 \in DOMAIN k /\ \A i \in DOMAIN k : AtEnd(k, i) <=> i = Len(l) + 1
    BY <1>0, <1>1, <1>2
  <2> QED
    BY <1>0, <2>1 DEF Asking, CallsAtEnd, EndsTheTurn
<1>3. ASSUME m.kind = "compaction", m.stop = "none"
      PROVE  /\ Asking(k) <=> Asking(l)
             /\ CallsAtEnd(k) <=> CallsAtEnd(l)
             /\ EndsTheTurn(k) <=> EndsTheTurn(l)
  <2>1. ~Asks(m) /\ m.stop # "end_turn"
    BY <1>3 DEF Asks
  <2>2. \A i \in DOMAIN l : i \in DOMAIN k /\ k[i] = l[i] /\ (AtEnd(k, i) <=> AtEnd(l, i))
    BY <1>0, <1>1, <1>3
  <2>3. \A i \in DOMAIN k : i \in DOMAIN l \/ k[i] = m
    BY <1>0
  <2> QED
    BY <2>1, <2>2, <2>3 DEF Asking, CallsAtEnd, EndsTheTurn
<1>4. ASSUME ResultsAnswer(l), m.kind = "results" => CallsAtEnd(l)
      PROVE  ResultsAnswer(k)
  <2> SUFFICES ASSUME NEW i \in DOMAIN k, k[i].kind = "results"
               PROVE  \E j \in DOMAIN k : Adjoin(k, j, i) /\ Asks(k[j]) /\ k[j].calls
    BY DEF ResultsAnswer
  <2>1. CASE i \in 1 .. Len(l)
    <3>1. PICK j \in DOMAIN l : Adjoin(l, j, i) /\ Asks(l[j]) /\ l[j].calls
      BY <1>0, <1>4, <2>1 DEF ResultsAnswer
    <3> QED
      BY <1>0, <1>1, <2>1, <3>1
  <2>2. CASE i = Len(l) + 1
    <3>1. PICK j \in DOMAIN l : AtEnd(l, j) /\ Asks(l[j]) /\ l[j].calls
      BY <1>0, <1>4, <2>2 DEF CallsAtEnd
    <3> QED
      BY <1>0, <1>1, <2>2, <3>1
  <2> QED
    BY <1>0, <2>1, <2>2
<1>5. ASSUME CallsAnswered(l), Asking(l) => m.kind \in {"results", "prompt", "compaction"}
      PROVE  CallsAnswered(k)
  <2> SUFFICES ASSUME NEW i \in DOMAIN k, NEW j \in DOMAIN k, Asks(k[i]), Adjoin(k, i, j)
               PROVE  k[j].kind \in {"results", "prompt", "compaction"}
    BY DEF CallsAnswered
  <2>0. i < j
    BY DEF Adjoin
  <2>1. CASE j \in 1 .. Len(l)
    <3>1. i \in DOMAIN l /\ j \in DOMAIN l
      BY <1>0, <2>0, <2>1
    <3> QED
      BY <1>0, <1>1, <1>5, <3>1 DEF CallsAnswered
  <2>2. CASE j = Len(l) + 1
    <3>1. i \in DOMAIN l /\ AtEnd(l, i) /\ Asks(l[i])
      BY <1>0, <1>1, <2>0, <2>2
    <3>2. Asking(l)
      BY <3>1 DEF Asking
    <3> QED
      BY <1>0, <1>5, <2>2, <3>2
  <2> QED
    BY <1>0, <2>1, <2>2
<1> QED
  BY <1>2, <1>3, <1>4, <1>5 DEF k

LEMMA AppendedCut ==
    ASSUME NEW l \in Seq(Messages), NEW m \in Messages
    PROVE  CutIn(Append(l, m)) <=>
              m.stop = "max_tokens" \/ (CutIn(l) /\ m.kind \notin {"prompt", "results"})
<1> DEFINE k == Append(l, m)
<1>0. /\ DOMAIN k = 1 .. Len(l) + 1 /\ DOMAIN l = 1 .. Len(l) /\ Len(k) = Len(l) + 1
      /\ \A i \in 1 .. Len(l) : k[i] = l[i]
      /\ k[Len(l) + 1] = m /\ Len(l) \in Nat
  BY Appended
<1> HIDE DEF k
<1>1. ASSUME m.stop = "max_tokens"
      PROVE  CutIn(k)
  BY <1>0, <1>1 DEF CutIn
<1>2. ASSUME CutIn(l), m.kind \notin {"prompt", "results"}
      PROVE  CutIn(k)
  <2>1. PICK i \in DOMAIN l :
            /\ l[i].stop = "max_tokens"
            /\ \A j \in i + 1 .. Len(l) : l[j].kind \notin {"prompt", "results"}
    BY <1>2 DEF CutIn
  <2>2. \A j \in i + 1 .. Len(k) : k[j].kind \notin {"prompt", "results"}
    <3> TAKE j \in i + 1 .. Len(k)
    <3>1. CASE j = Len(l) + 1
      BY <1>0, <1>2, <3>1
    <3>2. CASE j \in i + 1 .. Len(l)
      BY <1>0, <2>1, <3>2
    <3> QED
      BY <1>0, <3>1, <3>2
  <2>3. i \in DOMAIN k /\ k[i].stop = "max_tokens"
    BY <1>0, <2>1
  <2> QED
    BY <2>2, <2>3 DEF CutIn
<1>3. ASSUME CutIn(k), m.stop # "max_tokens"
      PROVE  CutIn(l) /\ m.kind \notin {"prompt", "results"}
  <2>1. PICK i \in DOMAIN k :
            /\ k[i].stop = "max_tokens"
            /\ \A j \in i + 1 .. Len(k) : k[j].kind \notin {"prompt", "results"}
    BY <1>3 DEF CutIn
  <2>2. i \in 1 .. Len(l)
    BY <1>0, <1>3, <2>1
  <2>3. m.kind \notin {"prompt", "results"}
    BY <1>0, <2>1, <2>2
  <2>4. \A j \in i + 1 .. Len(l) : l[j].kind \notin {"prompt", "results"}
    <3> TAKE j \in i + 1 .. Len(l)
    <3>1. k[j] = l[j] /\ j \in i + 1 .. Len(k)
      BY <1>0, <2>2
    <3> QED
      BY <2>1, <3>1
  <2> QED
    BY <1>0, <2>1, <2>2, <2>3, <2>4 DEF CutIn
<1> QED
  BY <1>1, <1>2, <1>3 DEF k

LEMMA AppendedNotices ==
    ASSUME NEW l \in Seq(Messages), NEW m \in Messages
    PROVE  /\ NoticesIn(Append(l, m)) = NoticesIn(l) \cup m.notices
           /\ Apart(l) /\ m.notices \cap NoticesIn(l) = {} => Apart(Append(l, m))
<1> DEFINE k == Append(l, m)
<1>0. /\ DOMAIN k = 1 .. Len(l) + 1 /\ DOMAIN l = 1 .. Len(l)
      /\ \A i \in 1 .. Len(l) : k[i] = l[i]
      /\ k[Len(l) + 1] = m /\ Len(l) \in Nat
  BY Appended
<1> HIDE DEF k
<1>1. ASSUME NEW x
      PROVE  x \in NoticesIn(k) <=> x \in NoticesIn(l) \/ x \in m.notices
  <2>1. x \in NoticesIn(k) <=> \E i \in DOMAIN k : x \in k[i].notices
    BY DEF NoticesIn
  <2>2. x \in NoticesIn(l) <=> \E i \in DOMAIN l : x \in l[i].notices
    BY DEF NoticesIn
  <2>3. \A i \in 1 .. Len(l) + 1 : i \in 1 .. Len(l) \/ i = Len(l) + 1
    BY <1>0
  <2>4. Len(l) + 1 \in DOMAIN k /\ \A i \in DOMAIN l : i \in DOMAIN k
    BY <1>0
  <2> QED
    BY <1>0, <2>1, <2>2, <2>3, <2>4
<1>2. ASSUME Apart(l), m.notices \cap NoticesIn(l) = {}
      PROVE  Apart(k)
  <2> SUFFICES ASSUME NEW i \in DOMAIN k, NEW j \in DOMAIN k, i # j
               PROVE  k[i].notices \cap k[j].notices = {}
    BY DEF Apart
  <2>1. \A n \in DOMAIN l : l[n].notices \subseteq NoticesIn(l)
    BY DEF NoticesIn
  <2>2. i \in DOMAIN l \/ i = Len(l) + 1
    BY <1>0
  <2>3. j \in DOMAIN l \/ j = Len(l) + 1
    BY <1>0
  <2> QED
    BY <1>0, <1>2, <2>1, <2>2, <2>3 DEF Apart
<1> QED
  BY <1>1, <1>2 DEF k

-----------------------------------------------------------------------------
(* Notices.                                                                *)

\* Notices are in hand only between the taking and the injecting.
HandIsHeld == hand # {} => phase \in {"jobs_in_hand", "team_in_hand"}
NoticeInv == TypeInv /\ HandIsHeld /\ NoticesOnce

\* What a step adds to the log that brings no notice.
Silent(l, l2) == NoticesIn(l2) = NoticesIn(l) /\ (Apart(l) => Apart(l2))

LEMMA SilentAppend ==
    ASSUME NEW l \in Seq(Messages), NEW m \in Messages, m.notices = {}
    PROVE  Silent(l, Append(l, m))
  BY AppendedNotices DEF Silent

LEMMA SilentSummary == Session /\ MaySummarize => Silent(log, log')
<1> SUFFICES ASSUME Session, MaySummarize
             PROVE  Silent(log, log')
  OBVIOUS
<1>1. CASE log' = log
  BY <1>1 DEF Silent
<1>2. CASE log' = Append(log, Message("summary"))
  BY <1>2, SilentAppend, MessageType DEF Session
<1> QED
  BY <1>1, <1>2 DEF MaySummarize

LEMMA SilentAnswer ==
    ASSUME NEW a \in Answers, Session
    PROVE  /\ Silent(log, Append(log, AnswerMessage(a)))
           /\ Silent(log, Append(Append(log, AnswerMessage(a)), Message("continue")))
<1>1. AnswerMessage(a) \in Messages /\ AnswerMessage(a).notices = {}
  BY MessageType
<1>2. Message("continue") \in Messages /\ Message("continue").notices = {}
  BY MessageType
<1>3. Append(log, AnswerMessage(a)) \in Seq(Messages)
  BY <1>1 DEF Session
<1>4. /\ Silent(log, Append(log, AnswerMessage(a)))
      /\ Silent(Append(log, AnswerMessage(a)),
                Append(Append(log, AnswerMessage(a)), Message("continue")))
  BY <1>1, <1>2, <1>3, SilentAppend DEF Session
<1> QED
  BY <1>4 DEF Silent

LEMMA OneOf ==
    NoticesOnce <=>
        /\ arrived = Waiting \cup hand \cup lost \cup NoticesIn(log)
        /\ queue["jobs"] \cap queue["team"] = {}
        /\ Waiting \cap (hand \cup lost \cup NoticesIn(log)) = {}
        /\ hand \cap (lost \cup NoticesIn(log)) = {}
        /\ lost \cap NoticesIn(log) = {}
        /\ Apart(log)
  BY DEF NoticesOnce, InLog, NoticesIn, Apart

LEMMA OneOf2 ==
    NoticesOnce' <=>
        /\ arrived' = queue'["jobs"] \cup queue'["team"] \cup hand' \cup lost' \cup NoticesIn(log')
        /\ queue'["jobs"] \cap queue'["team"] = {}
        /\ (queue'["jobs"] \cup queue'["team"]) \cap (hand' \cup lost' \cup NoticesIn(log')) = {}
        /\ hand' \cap (lost' \cup NoticesIn(log')) = {}
        /\ lost' \cap NoticesIn(log') = {}
        /\ Apart(log')
  BY DEF NoticesOnce, InLog, NoticesIn, Apart, Waiting

LEMMA Unheard ==
    ASSUME NoticeInv, UNCHANGED mail, Silent(log, log'), hand = {}
    PROVE  HandIsHeld' /\ NoticesOnce'
  BY OneOf, OneOf2 DEF NoticeInv, HandIsHeld, Silent, mail, Waiting

LEMMA NoticeInit == Init => NoticeInv
<1> SUFFICES ASSUME Init
             PROVE  NoticeInv
  OBVIOUS
<1>1. NoticesOnce /\ HandIsHeld
  BY DEF Init, NoticesOnce, HandIsHeld, Waiting, InLog
<1> QED
  BY <1>1, TypeInit DEF NoticeInv

LEMMA NoticeStep == NoticeInv /\ [Next]_vars => NoticeInv'
<1> SUFFICES ASSUME NoticeInv, [Next]_vars
             PROVE  HandIsHeld' /\ NoticesOnce'
  BY TypeStep DEF NoticeInv
<1>0. Control /\ Session /\ Mail /\ HandIsHeld /\ NoticesOnce
  BY TypeParts DEF NoticeInv
<1>a. phase \notin {"jobs_in_hand", "team_in_hand"} => hand = {}
  BY <1>0 DEF HandIsHeld
<1>b. log' = log => Silent(log, log')
  BY DEF Silent
<1>c. \A k \in {"prompt", "results", "continue", "reminder", "summary", "compaction"} :
          log' = Append(log, Message(k)) => Silent(log, log')
  BY <1>0, SilentAppend, MessageType DEF Session
<1>1. CASE Start
  BY <1>1, <1>a, <1>b, Unheard DEF Start, session
<1>2. CASE SubmitPrompt
  BY <1>2, <1>a, <1>b, <1>c, Unheard DEF SubmitPrompt
<1>3. ASSUME NEW s \in Sources, Drain(s)
      PROVE  HandIsHeld' /\ NoticesOnce'
  <2>1. /\ hand = {} /\ hand' = queue[s] /\ log' = log /\ lost' = lost /\ arrived' = arrived
        /\ queue'["jobs"] = (IF s = "jobs" THEN {} ELSE queue["jobs"])
        /\ queue'["team"] = (IF s = "team" THEN {} ELSE queue["team"])
    BY <1>0, <1>3, <1>a DEF Drain, Take, Mail, session
  <2>2. HandIsHeld'
    BY <1>3, <2>1 DEF Drain, InHand, HandIsHeld
  <2>3. NoticesOnce'
    <3>1. CASE s = "jobs"
      BY <1>0, <2>1, <3>1, OneOf, OneOf2 DEF Waiting
    <3>2. CASE s = "team"
      BY <1>0, <2>1, <3>2, OneOf, OneOf2 DEF Waiting
    <3> QED
      BY <3>1, <3>2
  <2> QED
    BY <2>2, <2>3
<1>4. ASSUME NEW s \in Sources, Inject(s)
      PROVE  HandIsHeld' /\ NoticesOnce'
  <2>1. /\ log' = Append(log, NoticeMessage(hand)) /\ hand' = {} /\ queue' = queue
        /\ lost' = lost /\ arrived' = arrived
    BY <1>4 DEF Inject
  <2>2. NoticeMessage(hand) \in Messages /\ NoticeMessage(hand).notices = hand
    BY <1>0, MessageType DEF Mail
  <2>3. /\ NoticesIn(log') = NoticesIn(log) \cup hand
        /\ Apart(log) /\ hand \cap NoticesIn(log) = {} => Apart(log')
    BY <1>0, <2>1, <2>2, AppendedNotices DEF Session
  <2>4. HandIsHeld'
    BY <2>1 DEF HandIsHeld
  <2>5. NoticesOnce'
    BY <1>0, <2>1, <2>3, OneOf, OneOf2 DEF Waiting
  <2> QED
    BY <2>4, <2>5
<1>5. CASE Build
  BY <1>0, <1>5, <1>a, SilentSummary, Unheard DEF Build
<1>6. ASSUME NEW a \in Answers, Truncated(a)
      PROVE  HandIsHeld' /\ NoticesOnce'
  BY <1>0, <1>6, <1>a, SilentAnswer, Unheard DEF Truncated
<1>7. ASSUME NEW a \in Answers, Answered(a)
      PROVE  HandIsHeld' /\ NoticesOnce'
  BY <1>0, <1>7, <1>a, SilentAnswer, Unheard DEF Answered
<1>8. ASSUME NEW code, AnswerInvalid(code)
      PROVE  HandIsHeld' /\ NoticesOnce'
  BY <1>8, <1>a, <1>b, Unheard DEF AnswerInvalid, Failing, session
<1>9. ASSUME NEW code, ProviderFails(code)
      PROVE  HandIsHeld' /\ NoticesOnce'
  BY <1>9, <1>a, <1>b, Unheard DEF ProviderFails, Failing, session
<1>10. CASE ContextOverflows
  BY <1>10, <1>a, <1>b, Unheard DEF ContextOverflows, Failing, session
<1>11. CASE ProviderRefuses
  BY <1>11, <1>a, <1>b, Unheard DEF ProviderRefuses, Failing, session
<1>12. CASE Recover
  BY <1>0, <1>12, <1>a, <1>b, SilentSummary, Unheard DEF Recover
<1>13. CASE Reconcile
  BY <1>13, <1>a, <1>b, <1>c, Unheard DEF Reconcile
<1>14. CASE RunTools
  BY <1>14, <1>a, <1>c, Unheard DEF RunTools, AppendResults
<1>15. CASE Remind
  BY <1>15, <1>a, <1>b, <1>c, Unheard DEF Remind
<1>16. CASE Finish
  BY <1>16, <1>a, <1>b, Unheard DEF Finish, session
<1>17. CASE Return
  BY <1>17, <1>a, <1>b, Unheard DEF Return, session
<1>18. ASSUME NEW o \in {"cancelled", "failed"}, Abort(o)
       PROVE  HandIsHeld' /\ NoticesOnce'
  <2>1. /\ hand' = {} /\ lost' = lost \cup hand /\ log' = log /\ queue' = queue
        /\ arrived' = arrived
    BY <1>18 DEF Abort, session
  <2> QED
    BY <1>0, <2>1, OneOf, OneOf2 DEF Waiting, HandIsHeld
<1>19. ASSUME NEW s \in Sources, NEW n \in Notices, Arrive(s, n)
       PROVE  HandIsHeld' /\ NoticesOnce'
  <2>1. /\ n \notin arrived /\ arrived' = arrived \cup {n} /\ hand' = hand
        /\ lost' = lost /\ log' = log /\ phase' = phase
        /\ queue'["jobs"] = queue["jobs"] \cup (IF s = "jobs" THEN {n} ELSE {})
        /\ queue'["team"] = queue["team"] \cup (IF s = "team" THEN {n} ELSE {})
    BY <1>0, <1>19 DEF Arrive, Mail, session
  <2>2. NoticesOnce'
    <3>1. CASE s = "jobs"
      BY <1>0, <2>1, <3>1, OneOf, OneOf2 DEF Waiting
    <3>2. CASE s = "team"
      BY <1>0, <2>1, <3>2, OneOf, OneOf2 DEF Waiting
    <3> QED
      BY <3>1, <3>2
  <2> QED
    BY <1>0, <2>1, <2>2 DEF HandIsHeld
<1>20. CASE UNCHANGED vars
  <2>1. log' = log /\ phase' = phase /\ UNCHANGED mail /\ hand' = hand
    BY <1>20 DEF vars, session, mail
  <2> QED
    BY <1>0, <2>1, OneOf, OneOf2 DEF Waiting, HandIsHeld, mail
<1>21. CASE Respond
  BY <1>6, <1>7, <1>8, <1>9, <1>10, <1>11, <1>21 DEF Respond
<1>22. CASE CompactSession
  <2>1. /\ NoticesIn(log') = NoticesIn(log) /\ (Apart(log) => Apart(log'))
        /\ phase' = phase /\ UNCHANGED mail
    BY <1>22, <1>c, CompactionLogs DEF CompactSession, Silent
  <2> QED
    BY <1>0, <2>1, OneOf, OneOf2 DEF Waiting, HandIsHeld, mail
<1> QED
  BY <1>1, <1>2, <1>3, <1>4, <1>5, <1>12, <1>13, <1>14, <1>15, <1>16, <1>17, <1>18,
     <1>19, <1>20, <1>21, <1>22 DEF Next

\* What a background job or a teammate reports is never told twice and is lost
\* only with a turn that was cut short with it in hand (NoticesOnce:
\* _inject_background_notifications, _inject_team_messages).
THEOREM NoticesAreInOnePlace == Spec => []NoticesOnce
<1>1. NoticeInv => NoticesOnce
  BY DEF NoticeInv
<1> QED
  BY NoticeInit, NoticeStep, <1>1, PTL DEF Spec

-----------------------------------------------------------------------------
(* Calls and their results.                                                *)

\* While the tools run, the answer that called them is the turn's last message.
CallsAtHand == phase = "tools" => CallsAtEnd(log)
NoCallsOpen == phase \in LoopPhases \ {"tools"} => ~Asking(log)
CallInv ==
    TypeInv /\ ResultsAnswer(log) /\ CallsAnswered(log) /\ CallsAtHand /\ NoCallsOpen

LEMMA CallsSuffice == CallInv => AnsweredBeforeNext
<1> SUFFICES ASSUME CallInv
             PROVE  AnsweredBeforeNext
  OBVIOUS
<1>1. ResultsAnswer(log) /\ CallsAnswered(log) /\ NoCallsOpen
  BY DEF CallInv
<1>2. ASSUME NEW i \in DOMAIN log, Asks(log[i])
      PROVE  /\ \A j \in DOMAIN log :
                   Adjoin(log, i, j) => log[j].kind \in {"results", "prompt", "compaction"}
             /\ Adjoin(log, i, Len(log) + 1) => phase \notin LoopPhases \ {"tools"}
  <2>1. Adjoin(log, i, Len(log) + 1) => Asking(log)
    BY <1>2 DEF AtEnd, Asking
  <2> QED
    BY <1>1, <1>2, <2>1 DEF CallsAnswered, NoCallsOpen
<1> QED
  BY <1>1, <1>2 DEF AnsweredBeforeNext, ResultsAnswer

\* A message that is neither an answer nor the results of one.
LEMMA Aside ==
    ASSUME NEW k \in {"prompt", "continue", "reminder", "summary", "notices"},
           NEW m \in Messages, m.kind = k, m.stop = "none", Session,
           ResultsAnswer(log), CallsAnswered(log), k = "prompt" \/ ~Asking(log),
           log' = Append(log, m)
    PROVE  ResultsAnswer(log') /\ CallsAnswered(log') /\ ~Asking(log')
  BY AppendedAnswers DEF Session, Asks

LEMMA Answering ==
    ASSUME NEW a \in Answers, NEW l, l = Append(log, AnswerMessage(a)), Session,
           ResultsAnswer(log), CallsAnswered(log), ~Asking(log)
    PROVE  /\ ResultsAnswer(l) /\ CallsAnswered(l) /\ l \in Seq(Messages)
           /\ Asking(l) <=> a.stop = "tool_use"
           /\ CallsAtEnd(l) <=> a.stop = "tool_use" /\ a.blocks = "calls"
           /\ EndsTheTurn(l) <=> a.stop = "end_turn"
<1>1. AnswerMessage(a) \in Messages /\ AnswerMessage(a).kind = "answer" /\ AnswerMessage(a).stop = a.stop
  BY MessageType
<1>2. AnswerMessage(a).calls = (a.blocks = "calls")
  BY DEF AnswerMessage
<1> QED
  BY <1>1, <1>2, Appended, AppendedAnswers DEF Session, Asks

LEMMA CallInit == Init => CallInv
<1> SUFFICES ASSUME Init
             PROVE  CallInv
  OBVIOUS
<1>1. log = <<>> /\ phase = "rest"
  BY DEF Init
<1>2. ResultsAnswer(log) /\ CallsAnswered(log) /\ CallsAtHand /\ NoCallsOpen
  BY <1>1 DEF ResultsAnswer, CallsAnswered, CallsAtHand, NoCallsOpen, LoopPhases, Drains
<1> QED
  BY <1>2, TypeInit DEF CallInv

LEMMA CallStep == CallInv /\ [Next]_vars => CallInv'
<1> SUFFICES ASSUME CallInv, [Next]_vars
             PROVE  ResultsAnswer(log') /\ CallsAnswered(log') /\ CallsAtHand' /\ NoCallsOpen'
  BY TypeStep DEF CallInv
<1> DEFINE Goal == ResultsAnswer(log') /\ CallsAnswered(log') /\ CallsAtHand' /\ NoCallsOpen'
<1> USE DEF LoopPhases, Drains
<1>0. /\ Control /\ Session /\ Mail /\ ResultsAnswer(log) /\ CallsAnswered(log)
      /\ CallsAtHand /\ NoCallsOpen
  BY TypeParts DEF CallInv
<1>a. phase \in LoopPhases \ {"tools"} => ~Asking(log)
  BY <1>0 DEF NoCallsOpen
\* The three ways in which a step leaves the calls alone.
<1>b. ASSUME log' = log, phase \in LoopPhases \ {"tools"}, phase' # "tools"
      PROVE  Goal
  BY <1>0, <1>a, <1>b DEF CallsAtHand, NoCallsOpen
<1>c. ASSUME log' = log, phase' \notin LoopPhases
      PROVE  Goal
  BY <1>0, <1>c DEF CallsAtHand, NoCallsOpen
<1>d. ASSUME ResultsAnswer(log'), CallsAnswered(log'), ~Asking(log'), phase' # "tools"
      PROVE  Goal
  BY <1>d DEF CallsAtHand, NoCallsOpen
<1>e. ASSUME NEW k \in {"continue", "reminder", "summary"}, log' = Append(log, Message(k)),
             phase \in LoopPhases \ {"tools"}, phase' # "tools"
      PROVE  Goal
  <2>1. Message(k) \in Messages /\ Message(k).kind = k /\ Message(k).stop = "none"
    BY MessageType
  <2> QED
    BY <1>0, <1>a, <1>d, <1>e, <2>1, Aside
<1>1. CASE Start
  BY <1>1, <1>c DEF Start, session
<1>2. CASE SubmitPrompt
  <2>1. CASE log' = log /\ phase' = "finish"
    BY <1>c, <2>1
  <2>2. CASE log' = Append(log, Message("prompt")) /\ phase' = "jobs"
    <3>1. Message("prompt") \in Messages /\ Message("prompt").kind = "prompt" /\ Message("prompt").stop = "none"
      BY MessageType
    <3> QED
      BY <1>0, <1>d, <2>2, <3>1, Aside
  <2> QED
    BY <1>2, <2>1, <2>2 DEF SubmitPrompt
<1>3. ASSUME NEW s \in Sources, Drain(s)
      PROVE  Goal
  BY <1>3, <1>b DEF Drain, session, AfterDrain, InHand
<1>4. ASSUME NEW s \in Sources, Inject(s)
      PROVE  Goal
  <2>1. NoticeMessage(hand) \in Messages /\ NoticeMessage(hand).kind = "notices" /\ NoticeMessage(hand).stop = "none"
    BY <1>0, MessageType DEF Mail
  <2>2. phase \in LoopPhases \ {"tools"} /\ phase' # "tools" /\ log' = Append(log, NoticeMessage(hand))
    BY <1>4 DEF Inject, InHand, AfterDrain
  <2> QED
    BY <1>0, <1>a, <1>d, <2>1, <2>2, Aside
<1>5. CASE Build
  BY <1>5, <1>b, <1>e DEF Build, MaySummarize
<1>6. ASSUME NEW a \in Answers, Truncated(a)
      PROVE  Goal
  <2> DEFINE l == Append(log, AnswerMessage(a))
  <2>1. ResultsAnswer(l) /\ CallsAnswered(l) /\ l \in Seq(Messages) /\ ~Asking(l)
    BY <1>0, <1>6, <1>a, Answering DEF Truncated
  <2>2. CASE log' = l /\ phase' = "finish"
    BY <1>d, <2>1, <2>2
  <2>3. CASE log' = Append(l, Message("continue")) /\ phase' = "jobs"
    <3>1. Message("continue") \in Messages /\ Message("continue").kind = "continue" /\ Message("continue").stop = "none"
      BY MessageType
    <3>2. ResultsAnswer(log') /\ CallsAnswered(log') /\ ~Asking(log')
      BY <2>1, <2>3, <3>1, AppendedAnswers DEF Asks
    <3> QED
      BY <1>d, <2>3, <3>2
  <2> QED
    BY <1>6, <2>2, <2>3 DEF Truncated
<1>7. ASSUME NEW a \in Answers, Answered(a)
      PROVE  Goal
  <2>1. /\ ResultsAnswer(log') /\ CallsAnswered(log')
        /\ Asking(log') <=> a.stop = "tool_use"
        /\ CallsAtEnd(log') <=> a.stop = "tool_use" /\ a.blocks = "calls"
    BY <1>0, <1>7, <1>a, Answering DEF Answered
  <2>2. CASE phase' = "tools" /\ a.stop = "tool_use"
    <3>1. a.blocks = "calls"
      BY <1>7, <2>2 DEF Answered, Invalid
    <3> QED
      BY <2>1, <2>2, <3>1 DEF CallsAtHand, NoCallsOpen
  <2>3. CASE phase' = "finish"
    BY <2>1, <2>3 DEF CallsAtHand, NoCallsOpen
  <2>4. CASE phase' = "reconcile" /\ a.stop = "end_turn"
    BY <1>d, <2>1, <2>4
  <2> QED
    BY <1>7, <2>2, <2>3, <2>4 DEF Answered
<1>8. ASSUME NEW code, AnswerInvalid(code)
      PROVE  Goal
  BY <1>8, <1>b DEF AnswerInvalid, Failing, Repair, session
<1>9. ASSUME NEW code, ProviderFails(code)
      PROVE  Goal
  BY <1>9, <1>b DEF ProviderFails, Failing, Retry, session
<1>10. CASE ContextOverflows
  BY <1>10, <1>b DEF ContextOverflows, Failing, Overflow, session
<1>11. CASE ProviderRefuses
  BY <1>11, <1>b DEF ProviderRefuses, Failing, session
<1>12. CASE Recover
  BY <1>12, <1>b, <1>e DEF Recover, MaySummarize
<1>13. CASE Reconcile
  BY <1>13, <1>b, <1>e DEF Reconcile
<1>14. CASE RunTools
  <2>1. Message("results") \in Messages /\ Message("results").kind = "results" /\ Message("results").stop = "none"
    BY MessageType
  <2>2. CallsAtEnd(log) /\ log' = Append(log, Message("results")) /\ phase' = "remind"
    BY <1>0, <1>14 DEF CallsAtHand, RunTools, AppendResults
  <2>3. ResultsAnswer(log') /\ CallsAnswered(log') /\ ~Asking(log')
    BY <1>0, <2>1, <2>2, AppendedAnswers DEF Session, Asks
  <2> QED
    BY <1>d, <2>2, <2>3
<1>15. CASE Remind
  BY <1>15, <1>b, <1>e DEF Remind
<1>16. CASE Finish
  BY <1>16, <1>c DEF Finish, session
<1>17. CASE Return
  BY <1>17, <1>c DEF Return, session
<1>18. ASSUME NEW o \in {"cancelled", "failed"}, Abort(o)
       PROVE  Goal
  BY <1>18, <1>c DEF Abort, session
<1>19. ASSUME log' = log, phase' = phase
       PROVE  Goal
  BY <1>0, <1>19 DEF CallsAtHand, NoCallsOpen
<1>20. ASSUME NEW s \in Sources, NEW n \in Notices, Arrive(s, n)
       PROVE  Goal
  BY <1>19, <1>20 DEF Arrive, session
<1>21. CASE UNCHANGED vars
  BY <1>19, <1>21 DEF vars, session
<1>22. CASE Respond
  BY <1>6, <1>7, <1>8, <1>9, <1>10, <1>11, <1>22 DEF Respond
<1>23. CASE CompactSession
  <2>1. /\ Message("compaction") \in Messages /\ Message("compaction").kind = "compaction"
        /\ Message("compaction").stop = "none"
    BY MessageType
  <2>2. log' = Append(log, Message("compaction")) /\ phase' = phase
    BY <1>23, CompactionLogs DEF CompactSession
  <2>3. /\ ResultsAnswer(log') /\ CallsAnswered(log')
        /\ Asking(log') <=> Asking(log)
        /\ CallsAtEnd(log') <=> CallsAtEnd(log)
    BY <1>0, <2>1, <2>2, AppendedAnswers DEF Session
  <2> QED
    BY <1>0, <2>2, <2>3 DEF CallsAtHand, NoCallsOpen
<1> QED
  BY <1>1, <1>2, <1>3, <1>4, <1>5, <1>12, <1>13, <1>14, <1>15, <1>16, <1>17, <1>18,
     <1>20, <1>21, <1>22, <1>23 DEF Next

\* Whatever the provider answers, whatever arrives and whoever compacts the
\* session meanwhile, the results of the calls follow the calls, but for the
\* summaries that /compact left, and the model is not asked again before them
\* (AnsweredBeforeNext: _run_turn and what _valid_groups keeps of it).
THEOREM CallsAreAnswered == Spec => []AnsweredBeforeNext
  BY CallInit, CallStep, CallsSuffice, PTL DEF Spec

-----------------------------------------------------------------------------
(* The outcome.                                                            *)

\* The turn's last message is the model's own end of turn.
EndedByModel == EndsTheTurn(log) /\ ~over
EndIsTheModels == phase = "reconcile" => EndedByModel
ClosingIsStored == phase = "closing" => status = SessionStatus(outcome)
OutcomeInv == TypeInv /\ EndIsTheModels /\ ClosingIsStored /\ OutcomeIsHonest

LEMMA OutcomeInit == Init => OutcomeInv
<1> SUFFICES ASSUME Init
             PROVE  OutcomeInv
  OBVIOUS
<1>1. EndIsTheModels /\ ClosingIsStored /\ OutcomeIsHonest
  BY DEF Init, EndIsTheModels, ClosingIsStored, OutcomeIsHonest, CompletedMeansDone, StatusTellsOutcome
<1> QED
  BY <1>1, TypeInit DEF OutcomeInv

LEMMA OutcomeStep == OutcomeInv /\ [Next]_vars => OutcomeInv'
<1> SUFFICES ASSUME OutcomeInv, [Next]_vars
             PROVE  EndIsTheModels' /\ ClosingIsStored' /\ CompletedMeansDone' /\ StatusTellsOutcome'
  BY TypeStep DEF OutcomeInv, OutcomeIsHonest
<1> DEFINE Goal == EndIsTheModels' /\ ClosingIsStored' /\ CompletedMeansDone' /\ StatusTellsOutcome'
<1>0. /\ Control /\ Session /\ Budgets /\ Bounds /\ EndIsTheModels /\ ClosingIsStored
      /\ CompletedMeansDone /\ StatusTellsOutcome
  BY TypeParts DEF OutcomeInv, OutcomeIsHonest
<1> USE DEF EndIsTheModels, ClosingIsStored, CompletedMeansDone, StatusTellsOutcome, LoopPhases, Drains
\* Steps that neither reach the end of the turn nor claim its completion.
<1>a. ASSUME phase' \in Running \ {"reconcile"}
      PROVE  Goal
  BY <1>a DEF Running
<1>b. ASSUME phase' \in {"finish", "rest"}, outcome' \in {"incomplete", "refused", "failed", "cancelled"},
             phase' = "rest" => outcome' \in {"failed", "cancelled"}
      PROVE  Goal
  BY <1>b
<1> USE DEF Running
<1>1. CASE Start
  BY <1>1, <1>a DEF Start
<1>2. CASE SubmitPrompt
  BY <1>2, <1>a, <1>b DEF SubmitPrompt
<1>3. ASSUME NEW s \in Sources, Drain(s)
      PROVE  Goal
  BY <1>3, <1>a DEF Drain, AfterDrain, InHand
<1>4. ASSUME NEW s \in Sources, Inject(s)
      PROVE  Goal
  BY <1>4, <1>a DEF Inject, AfterDrain
<1>5. CASE Build
  BY <1>5, <1>a, <1>b DEF Build
<1>6. ASSUME NEW a \in Answers, Truncated(a)
      PROVE  Goal
  BY <1>6, <1>a, <1>b DEF Truncated
<1>7. ASSUME NEW a \in Answers, Answered(a)
      PROVE  Goal
  <2>1. CASE phase' = "reconcile" /\ a.stop = "end_turn" /\ ~over'
    <3>1. /\ log' = Append(log, AnswerMessage(a)) /\ AnswerMessage(a) \in Messages
          /\ AnswerMessage(a).stop = a.stop /\ AnswerMessage(a).kind = "answer"
      BY <1>7, MessageType DEF Answered
    <3>2. EndsTheTurn(log')
      BY <1>0, <2>1, <3>1, AppendedAnswers DEF Session
    <3> QED
      BY <2>1, <3>2 DEF EndedByModel
  <2> QED
    BY <1>7, <1>a, <1>b, <2>1 DEF Answered
<1>8. ASSUME NEW code, AnswerInvalid(code)
      PROVE  Goal
  BY <1>8, <1>a, <1>b DEF AnswerInvalid, Repair
<1>9. ASSUME NEW code, ProviderFails(code)
      PROVE  Goal
  BY <1>9, <1>a, <1>b DEF ProviderFails, Retry
<1>10. CASE ContextOverflows
  BY <1>10, <1>a, <1>b DEF ContextOverflows, Overflow
<1>11. CASE ProviderRefuses
  BY <1>11, <1>b DEF ProviderRefuses
<1>12. CASE Recover
  BY <1>12, <1>a, <1>b DEF Recover
<1>13. CASE Reconcile
  <2>1. CASE phase' = "jobs"
    BY <1>a, <2>1
  <2>2. CASE /\ phase' = "finish" /\ outcome' = "completed" /\ ~(MaySendBack /\ openTodos)
             /\ UNCHANGED <<reconciled, log, round>>
    <3>1. UNCHANGED <<over, openTodos>> /\ EndedByModel
      BY <1>0, <1>13 DEF Reconcile, recovery
    <3>2. round \in Nat /\ round <= MaxRounds
      BY <1>0, <1>13 DEF Reconcile, Bounds, Budgets
    <3>3. openTodos => reconciled \/ round = MaxRounds
      BY <2>2, <3>2, BudgetAssumptions DEF MaySendBack
    <3> QED
      BY <2>2, <3>1, <3>3 DEF EndedByModel, EndsTheTurn, AtEnd
  <2> QED
    BY <1>13, <2>1, <2>2 DEF Reconcile
<1>14. CASE RunTools
  BY <1>14, <1>a DEF RunTools
<1>15. CASE Remind
  BY <1>15, <1>a, <1>b DEF Remind
<1>16. CASE Finish
  BY <1>0, <1>16 DEF Finish, session, budgets
<1>17. CASE Return
  BY <1>0, <1>17 DEF Return
<1>18. ASSUME NEW o \in {"cancelled", "failed"}, Abort(o)
       PROVE  Goal
  BY <1>18, <1>b DEF Abort
<1>19. ASSUME UNCHANGED <<phase, outcome, status, log, over, openTodos, reconciled, round>>
       PROVE  Goal
  BY <1>0, <1>19 DEF EndedByModel
<1>20. ASSUME NEW s \in Sources, NEW n \in Notices, Arrive(s, n)
       PROVE  Goal
  BY <1>19, <1>20 DEF Arrive, session, budgets
<1>21. CASE UNCHANGED vars
  BY <1>19, <1>21 DEF vars, session, budgets
<1>22. CASE Respond
  BY <1>6, <1>7, <1>8, <1>9, <1>10, <1>11, <1>22 DEF Respond
<1>23. CASE CompactSession
  <2>1. /\ Message("compaction") \in Messages /\ Message("compaction").kind = "compaction"
        /\ Message("compaction").stop = "none"
    BY MessageType
  <2>2. /\ log' = Append(log, Message("compaction"))
        /\ UNCHANGED <<phase, outcome, status, over, openTodos, reconciled, round>>
    BY <1>23, CompactionLogs DEF CompactSession, budgets
  <2>3. EndsTheTurn(log') <=> EndsTheTurn(log)
    BY <1>0, <2>1, <2>2, AppendedAnswers DEF Session
  <2> QED
    BY <1>0, <2>2, <2>3 DEF EndedByModel, EndsTheTurn, AtEnd
<1> QED
  BY <1>1, <1>2, <1>3, <1>4, <1>5, <1>12, <1>13, <1>14, <1>15, <1>16, <1>17, <1>18,
     <1>20, <1>21, <1>22, <1>23 DEF Next

\* A turn is told to be complete only when the model ended it, within its
\* budgets, and the store says the same (OutcomeIsHonest: _run_turn, _finish).
THEOREM OutcomesAreHonest == Spec => []OutcomeIsHonest
<1>1. OutcomeInv => OutcomeIsHonest
  BY DEF OutcomeInv
<1> QED
  BY OutcomeInit, OutcomeStep, <1>1, PTL DEF Spec

-----------------------------------------------------------------------------
(* Requests.                                                               *)

\* What the loop starts with, what feedback waits for, and what ends a cut.
StartsAnew == phase \in {"rest", "prompt"} => ~over /\ ~feedback /\ ~expanded
FeedbackIsPending == phase \in LoopPhases => (feedback => pending # "none")
ResultsEndACut == phase = "remind" => ~CutIn(log)
Fits ==
    phase \in LoopPhases =>
        /\ OverBudgetOnlyToRecover /\ FeedbackIsCurrent
        /\ phase # "remind" => (expanded <=> CutIn(log))
RequestInv == TypeInv /\ StartsAnew /\ FeedbackIsPending /\ ResultsEndACut /\ Fits

LEMMA RequestInit == Init => RequestInv
<1> SUFFICES ASSUME Init
             PROVE  RequestInv
  OBVIOUS
<1>1. StartsAnew /\ FeedbackIsPending /\ ResultsEndACut /\ Fits
  BY DEF Init, StartsAnew, FeedbackIsPending, ResultsEndACut, Fits, LoopPhases, Drains
<1> QED
  BY <1>1, TypeInit DEF RequestInv

LEMMA RequestStep == RequestInv /\ [Next]_vars => RequestInv'
<1> SUFFICES ASSUME RequestInv, [Next]_vars
             PROVE  StartsAnew' /\ FeedbackIsPending' /\ ResultsEndACut' /\ Fits'
  BY TypeStep DEF RequestInv
<1> DEFINE Goal == StartsAnew' /\ FeedbackIsPending' /\ ResultsEndACut' /\ Fits'
<1>0. /\ Control /\ Session /\ Mail /\ Flags /\ Recovery /\ StartsAnew /\ FeedbackIsPending
      /\ ResultsEndACut /\ Fits
  BY TypeParts DEF RequestInv
<1>f. over \in BOOLEAN /\ feedback \in BOOLEAN /\ expanded \in BOOLEAN
  BY <1>0, Zenon DEF Recovery, Flags
<1> USE DEF LoopPhases, Drains
\* Leaving the loop, and a step of it that is none of the provider's.
<1>a. ASSUME phase' \in {"finish", "closing"}
      PROVE  Goal
  BY <1>a DEF StartsAnew, FeedbackIsPending, ResultsEndACut, Fits
<1>b. ASSUME phase \in LoopPhases \ {"remind"}, phase' \in LoopPhases \ {"remind"},
             UNCHANGED <<over, feedback, pending, heard, expanded>>,
             CutIn(log') <=> CutIn(log)
      PROVE  Goal
  BY <1>0, <1>b DEF StartsAnew, FeedbackIsPending, ResultsEndACut, Fits,
     OverBudgetOnlyToRecover, FeedbackIsCurrent
<1>c. ASSUME NEW m \in Messages, m.kind \notin {"prompt", "results"}, m.stop # "max_tokens",
             log' = Append(log, m)
      PROVE  CutIn(log') <=> CutIn(log)
  BY <1>0, <1>c, AppendedCut DEF Session
<1>d. ASSUME NEW k \in {"continue", "reminder", "summary", "compaction"},
             log' = Append(log, Message(k))
      PROVE  CutIn(log') <=> CutIn(log)
  <2>1. Message(k) \in Messages /\ Message(k).kind = k /\ Message(k).stop = "none"
    BY MessageType
  <2> QED
    BY <1>c, <1>d, <2>1
<1>e. Session /\ MaySummarize => (CutIn(log') <=> CutIn(log))
  BY <1>d DEF MaySummarize
\* A response that failed and is to be recovered from.
<1>g. ASSUME phase = "model", phase' \in LoopPhases \ {"remind"}, heard' = "failure",
             UNCHANGED <<log, expanded>>, feedback' = feedback \/ pending' # "none",
             pending' = pending \/ pending' # "none"
      PROVE  Goal
  BY <1>0, <1>g DEF StartsAnew, FeedbackIsPending, ResultsEndACut, Fits,
     OverBudgetOnlyToRecover, FeedbackIsCurrent
<1>1. CASE Start
  BY <1>0, <1>1 DEF Start, StartsAnew, FeedbackIsPending, ResultsEndACut, Fits, recovery, budgets
<1>2. CASE SubmitPrompt
  <2>1. CASE phase' = "jobs" /\ log' = Append(log, Message("prompt"))
    <3>1. Message("prompt") \in Messages /\ Message("prompt").kind = "prompt" /\ Message("prompt").stop = "none"
      BY MessageType
    <3>2. ~CutIn(log')
      BY <1>0, <2>1, <3>1, AppendedCut DEF Session
    <3>3. ~over' /\ ~feedback' /\ ~expanded'
      BY <1>0, <1>2 DEF SubmitPrompt, StartsAnew, recovery, budgets
    <3> QED
      BY <2>1, <3>2, <3>3 DEF StartsAnew, FeedbackIsPending, ResultsEndACut, Fits,
         OverBudgetOnlyToRecover, FeedbackIsCurrent
  <2> QED
    BY <1>2, <1>a, <2>1 DEF SubmitPrompt
<1>3. ASSUME NEW s \in Sources, Drain(s)
      PROVE  Goal
  BY <1>3, <1>b DEF Drain, AfterDrain, InHand, recovery, budgets, session
<1>4. ASSUME NEW s \in Sources, Inject(s)
      PROVE  Goal
  <2>1. NoticeMessage(hand) \in Messages /\ NoticeMessage(hand).kind = "notices" /\ NoticeMessage(hand).stop = "none"
    BY <1>0, MessageType DEF Mail
  <2>2. CutIn(log') <=> CutIn(log)
    BY <1>4, <1>c, <2>1 DEF Inject
  <2> QED
    BY <1>4, <1>b, <2>2 DEF Inject, AfterDrain, InHand, recovery, budgets
<1>5. CASE Build
  BY <1>0, <1>5, <1>a, <1>b, <1>e DEF Build, recovery, budgets
<1>h. Settle /\ phase = "model" => heard' = "answer" /\ pending' = "none" /\ ~feedback'
  BY <1>0, <1>f DEF Settle, FeedbackIsPending
<1>6. ASSUME NEW a \in Answers, Truncated(a)
      PROVE  Goal
  <2> DEFINE l == Append(log, AnswerMessage(a))
  <2>1. CASE ~over' /\ phase' = "jobs" /\ expanded' = TRUE /\ log' = Append(l, Message("continue"))
    <3>1. /\ AnswerMessage(a) \in Messages /\ AnswerMessage(a).stop = "max_tokens"
          /\ Message("continue") \in Messages /\ Message("continue").kind = "continue"
      BY <1>6, MessageType DEF Truncated
    <3>2. l \in Seq(Messages) /\ CutIn(l)
      BY <1>0, <3>1, AppendedCut DEF Session
    <3>3. CutIn(log')
      BY <2>1, <3>1, <3>2, AppendedCut
    <3>4. ~feedback'
      BY <1>6, <1>h DEF Truncated
    <3> QED
      BY <2>1, <3>3, <3>4 DEF StartsAnew, FeedbackIsPending, ResultsEndACut, Fits,
         OverBudgetOnlyToRecover, FeedbackIsCurrent
  <2> QED
    BY <1>6, <1>a, <2>1 DEF Truncated
<1>7. ASSUME NEW a \in Answers, Answered(a)
      PROVE  Goal
  <2>1. CASE ~over' /\ phase' \in {"reconcile", "tools"}
    <3>1. /\ AnswerMessage(a) \in Messages /\ AnswerMessage(a).stop # "max_tokens"
          /\ AnswerMessage(a).kind = "answer"
      BY <1>7, MessageType DEF Answered
    <3>2. CutIn(log') <=> CutIn(log)
      BY <1>7, <1>c, <3>1 DEF Answered
    <3>3. ~feedback' /\ expanded' = expanded /\ phase = "model"
      BY <1>7, <1>h DEF Answered, budgets
    <3> QED
      BY <1>0, <2>1, <3>2, <3>3 DEF StartsAnew, FeedbackIsPending, ResultsEndACut, Fits,
         OverBudgetOnlyToRecover, FeedbackIsCurrent
  <2> QED
    BY <1>7, <1>a, <2>1 DEF Answered
<1>8. ASSUME NEW code, AnswerInvalid(code)
      PROVE  Goal
  BY <1>8, <1>a, <1>g DEF AnswerInvalid, Failing, Repair, session
<1>9. ASSUME NEW code, ProviderFails(code)
      PROVE  Goal
  BY <1>9, <1>a, <1>g DEF ProviderFails, Failing, Retry, session
<1>10. CASE ContextOverflows
  BY <1>10, <1>a, <1>g DEF ContextOverflows, Failing, Overflow, session
<1>11. CASE ProviderRefuses
  BY <1>11, <1>a DEF ProviderRefuses
<1>12. CASE Recover
  BY <1>0, <1>12, <1>a, <1>b, <1>e DEF Recover, recovery, budgets
<1>13. CASE Reconcile
  BY <1>13, <1>a, <1>b, <1>d DEF Reconcile, recovery
<1>14. CASE RunTools
  <2>1. Message("results") \in Messages /\ Message("results").kind = "results" /\ Message("results").stop = "none"
    BY MessageType
  <2>2. ~CutIn(log')
    BY <1>0, <1>14, <2>1, AppendedCut DEF RunTools, AppendResults, Session
  <2>3. phase' = "remind" /\ UNCHANGED <<over, feedback, pending, heard>> /\ phase = "tools"
    BY <1>14 DEF RunTools, recovery
  <2> QED
    BY <1>0, <2>2, <2>3 DEF StartsAnew, FeedbackIsPending, ResultsEndACut, Fits,
       OverBudgetOnlyToRecover, FeedbackIsCurrent
<1>15. CASE Remind
  <2>1. CASE phase' = "jobs"
    <3>1. CutIn(log') <=> CutIn(log)
      BY <1>15, <1>d DEF Remind
    <3>2. expanded' = FALSE /\ UNCHANGED <<over, feedback, pending, heard>> /\ phase = "remind"
      BY <1>15 DEF Remind, recovery
    <3> QED
      BY <1>0, <2>1, <3>1, <3>2 DEF StartsAnew, FeedbackIsPending, ResultsEndACut, Fits,
         OverBudgetOnlyToRecover, FeedbackIsCurrent
  <2> QED
    BY <1>15, <1>a, <2>1 DEF Remind
<1>16. CASE Finish
  BY <1>16, <1>a DEF Finish
<1>17. CASE Return
  BY <1>17 DEF Return, Fresh, StartsAnew, FeedbackIsPending, ResultsEndACut, Fits
<1>18. ASSUME NEW o \in {"cancelled", "failed"}, Abort(o)
       PROVE  Goal
  BY <1>18 DEF Abort, Fresh, StartsAnew, FeedbackIsPending, ResultsEndACut, Fits
<1>19. ASSUME UNCHANGED <<phase, over, feedback, pending, heard, expanded, log>>
       PROVE  Goal
  BY <1>0, <1>19 DEF StartsAnew, FeedbackIsPending, ResultsEndACut, Fits,
     OverBudgetOnlyToRecover, FeedbackIsCurrent
<1>20. ASSUME NEW s \in Sources, NEW n \in Notices, Arrive(s, n)
       PROVE  Goal
  BY <1>19, <1>20 DEF Arrive, session, budgets, recovery
<1>21. CASE UNCHANGED vars
  BY <1>19, <1>21 DEF vars, session, budgets, recovery
<1>22. CASE Respond
  BY <1>6, <1>7, <1>8, <1>9, <1>10, <1>11, <1>22 DEF Respond
<1>23. CASE CompactSession
  <2>1. CutIn(log') <=> CutIn(log)
    BY <1>23, <1>d, CompactionLogs
  <2>2. UNCHANGED <<phase, over, feedback, pending, heard, expanded>>
    BY <1>23 DEF CompactSession, budgets, recovery
  <2> QED
    BY <1>0, <2>1, <2>2 DEF StartsAnew, FeedbackIsPending, ResultsEndACut, Fits,
       OverBudgetOnlyToRecover, FeedbackIsCurrent
<1> QED
  BY <1>1, <1>2, <1>3, <1>4, <1>5, <1>12, <1>13, <1>14, <1>15, <1>16, <1>17, <1>18,
     <1>20, <1>21, <1>22, <1>23 DEF Next

\* The recovery that a request carries is the one of the last response: over the
\* token budget, with feedback or with the higher limit only for its reason
\* (RequestsFit: the resets of _run_turn).
THEOREM RequestsAreFit == Spec => []RequestsFit
<1>1. RequestInv => RequestsFit
  BY DEF RequestInv, Fits, RequestsFit, LimitFollowsTruncation, CutOff, CutIn
<1> QED
  BY RequestInit, RequestStep, <1>1, PTL DEF Spec

-----------------------------------------------------------------------------
(* Whom the calls ask.                                                     *)

\* A call is in the queue.
InLine(line, c) == \E i \in 1 .. Len(line) : line[i] = c

AskTypes ==
    /\ callAt \in [ToolCalls -> {"idle", "showing", "waiting", "handing", "done"}]
    /\ action \in [ToolCalls -> {"none", "allow", "deny", "prompt"}]
    /\ future \in [ToolCalls -> Permission!Choices \cup {"pending", "cancelled"}]
    /\ result \in [ToolCalls -> {"none", "allow", "deny", "cancelled"}]
    /\ byApproval \in [ToolCalls -> BOOLEAN]
    /\ asked \in Seq(ToolCalls)
    /\ active \in ToolCalls \cup {Nobody}
    /\ activating \in [ToolCalls -> ToolCalls \cup {Nobody}]
    /\ timer \in ToolCalls \cup {Nobody}
    /\ keys \in Seq(Permission!Keys)

\* A call that was not decided has no request; an open request is the active one or
\* in the queue, and a task that hands the pane over has its own answer.
Requested(c) ==
    /\ callAt[c] = "idle" => future[c] = "pending" /\ active # c /\ ~InLine(asked, c)
    /\ callAt[c] \in {"showing", "waiting"} /\ future[c] = "pending" =>
           active = c \/ InLine(asked, c)
    /\ callAt[c] = "handing" => future[c] # "pending"
    /\ activating[c] # Nobody => callAt[c] \in {"showing", "handing"}

\* What is allowed was chosen, for this call or with an approval that covers it.
Allowed(c) ==
    /\ callAt[c] \in {"showing", "waiting", "handing"} => ~byApproval[c]
    /\ byApproval[c] => RiskOf[c] # "confirm" /\ Permission!Key(c) \in approvals
    /\ result[c] = "allow" => callAt[c] = "done"
    /\ result[c] = "allow" /\ action[c] = "prompt" /\ ~byApproval[c] =>
           future[c] \in Permission!Allowing

\* An approval is what the user chose for a call that is over.
Remembered ==
    \A k \in approvals :
        \E d \in ToolCalls : /\ callAt[d] = "done" /\ future[d] = "session"
                             /\ Permission!Key(d) = k

AskInv ==
    /\ AskTypes
    /\ \A c \in ToolCalls : Requested(c) /\ Allowed(c)
    /\ Remembered

\* Whose prompt a key was pressed in: its call is the active one or settled.
IsFor(c) == c \in ToolCalls /\ (active = c \/ future[c] # "pending")

\* The same goes for what the pane shows, and a key that has decided a call was
\* pressed in its prompt or is a stray.
PromptInv ==
    /\ pressedFor \in [ToolCalls -> ToolCalls \cup {Nobody}]
    /\ shown # Nobody => IsFor(shown)
    /\ \A i \in 1 .. Len(keys) : IsFor(keys[i].prompt)
    /\ \A c \in ToolCalls :
          future[c] \in Permission!Allowing =>
              /\ pressedFor[c] \in ToolCalls
              /\ pressedFor[c] = c \/ Permission!IsStray(c)

\* A step of the session is a step of its permissions, or leaves them alone.
LEMMA PermissionMoves ==
    [SessionNext]_sessionVars => [Permission!Next]_(Permission!vars)
  BY DEF SessionNext, Moves, sessionVars, permissionVars, Permission!vars

LEMMA AskingBegins == Permission!Init => AskInv
<1> SUFFICES ASSUME Permission!Init PROVE AskInv
  OBVIOUS
<1>1. AskTypes
  BY DEF Permission!Init, AskTypes
<1>2. \A c \in ToolCalls : ~InLine(asked, c)
  BY DEF Permission!Init, InLine
<1>3. ASSUME NEW c \in ToolCalls PROVE Requested(c) /\ Allowed(c)
  BY <1>2, NobodyAssumption DEF Permission!Init, Requested, Allowed
<1>4. Remembered
  BY DEF Permission!Init, Remembered
<1> QED
  BY <1>1, <1>3, <1>4 DEF AskInv

\* Every nonempty set of positions of a queue has a first one.
LEMMA FirstInLine ==
    ASSUME NEW T, T \subseteq Nat, T # {}
    PROVE  \E i \in T : \A j \in T : i <= j
<1>1. PICK i \in T : \A j \in T : ~(<<j, i>> \in OpToRel(<, Nat))
  BY NatLessThanWellFounded, WFMin, Zenon
<1>2. \A j \in T : ~(j < i)
  BY <1>1, Zenon DEF OpToRel
<1> QED
  BY <1>2

\* While a request in line is open, there is a first open one.
LEMMA SomeFirstOpen ==
    ASSUME NEW line \in Seq(ToolCalls), NEW c, InLine(line, c), future[c] = "pending"
    PROVE  Permission!FirstOpen(line) # {}
<1> DEFINE T == {i \in 1 .. Len(line) : future[line[i]] = "pending"}
<1>1. T \subseteq Nat /\ T # {}
  BY DEF InLine
<1> HIDE DEF T
<1>2. PICK i \in T : \A j \in T : i <= j
  BY <1>1, FirstInLine
<1>3. i \in 1 .. Len(line) /\ future[line[i]] = "pending"
  BY <1>2 DEF T
<1>4. ASSUME NEW j \in 1 .. i - 1 PROVE future[line[j]] # "pending"
  <2>1. j \in 1 .. Len(line) /\ ~(i <= j)
    BY <1>3
  <2> QED
    BY <1>2, <2>1 DEF T
<1>5. i \in Permission!FirstOpen(line)
  BY <1>3, <1>4 DEF Permission!FirstOpen
<1> QED
  BY <1>5

\* A pane keeps every open request: it is the active one or in line.
Keeps(line) ==
    \A d \in ToolCalls :
        /\ InLine(line, d) /\ future[d] = "pending" => active' = d \/ InLine(asked', d)
        /\ InLine(asked', d) => InLine(line, d)
        /\ active' = d => InLine(line, d)

LEMMA ActivationKeeps ==
    ASSUME AskTypes, NEW c \in ToolCalls, NEW line \in Seq(ToolCalls),
           Permission!Activates(c, line)
    PROVE  /\ Keeps(line)
           /\ asked' \in Seq(ToolCalls) /\ active' \in ToolCalls \cup {Nobody}
           /\ activating' \in [ToolCalls -> ToolCalls \cup {Nobody}]
           /\ \A d \in ToolCalls \ {c} : activating'[d] = activating[d]
           /\ Permission!FirstOpen(line) = {} => activating'[c] = Nobody
<1>1. CASE Permission!FirstOpen(line) = {}
  <2>1. /\ active' = Nobody /\ asked' = <<>>
        /\ activating' = [activating EXCEPT ![c] = Nobody]
    BY <1>1 DEF Permission!Activates
  <2>2. \A d \in ToolCalls : InLine(line, d) => future[d] # "pending"
    BY <1>1, SomeFirstOpen
  <2>3. Keeps(line)
    BY <2>1, <2>2, NobodyAssumption DEF Keeps, InLine
  <2> QED
    BY <2>1, <2>3 DEF AskTypes
<1>2. ASSUME NEW i \in Permission!FirstOpen(line),
             /\ active' = line[i]
             /\ asked' = SubSeq(line, i + 1, Len(line))
             /\ activating' = [activating EXCEPT ![c] = line[i]]
      PROVE  /\ Keeps(line)
             /\ asked' \in Seq(ToolCalls) /\ active' \in ToolCalls \cup {Nobody}
             /\ activating' \in [ToolCalls -> ToolCalls \cup {Nobody}]
             /\ \A d \in ToolCalls \ {c} : activating'[d] = activating[d]
  <2>1. /\ i \in 1 .. Len(line) /\ line[i] \in ToolCalls
        /\ \A j \in 1 .. i - 1 : future[line[j]] # "pending"
    BY DEF Permission!FirstOpen
  <2>2. /\ asked' \in Seq(ToolCalls) /\ Len(asked') = Len(line) - i
        /\ \A k \in 1 .. Len(line) - i : asked'[k] = line[i + k]
    BY <1>2, <2>1
  <2>3. ASSUME NEW d \in ToolCalls, InLine(line, d), future[d] = "pending"
        PROVE  active' = d \/ InLine(asked', d)
    <3>1. PICK j \in 1 .. Len(line) : line[j] = d
      BY <2>3 DEF InLine
    <3>2. ~(j \in 1 .. i - 1)
      BY <2>1, <2>3, <3>1
    <3>3. CASE j = i
      BY <1>2, <3>1, <3>3
    <3>4. CASE j > i
      <4>1. j - i \in 1 .. Len(line) - i /\ i + (j - i) = j
        BY <2>1, <3>4
      <4>2. asked'[j - i] = d /\ j - i \in 1 .. Len(asked')
        BY <2>2, <3>1, <4>1
      <4> QED
        BY <4>2 DEF InLine
    <3> QED
      BY <2>1, <3>2, <3>3, <3>4
  <2>4. ASSUME NEW d \in ToolCalls, InLine(asked', d)
        PROVE  InLine(line, d)
    <3>1. PICK k \in 1 .. Len(asked') : asked'[k] = d
      BY <2>4 DEF InLine
    <3>2. i + k \in 1 .. Len(line) /\ line[i + k] = d
      BY <2>1, <2>2, <3>1
    <3> QED
      BY <3>2 DEF InLine
  <2>5. Keeps(line)
    BY <1>2, <2>1, <2>3, <2>4 DEF Keeps, InLine
  <2> QED
    BY <1>2, <2>1, <2>2, <2>5 DEF AskTypes
<1> QED
  BY <1>1, <1>2 DEF Permission!Activates

LEMMA WithdrawalKeeps ==
    ASSUME AskTypes, NEW c \in ToolCalls, Permission!Withdraws(c)
    PROVE  /\ asked' \in Seq(ToolCalls)
           /\ \A d \in ToolCalls : InLine(asked', d) => InLine(asked, d)
           /\ \A d \in ToolCalls \ {c} : InLine(asked, d) => InLine(asked', d)
<1>1. CASE asked' = asked
  BY <1>1 DEF AskTypes
<1>2. ASSUME NEW i \in 1 .. Len(asked), asked[i] = c,
             asked' = SubSeq(asked, 1, i - 1) \o SubSeq(asked, i + 1, Len(asked))
      PROVE  /\ asked' \in Seq(ToolCalls)
             /\ \A d \in ToolCalls : InLine(asked', d) => InLine(asked, d)
             /\ \A d \in ToolCalls \ {c} : InLine(asked, d) => InLine(asked', d)
  <2>1. asked \in Seq(ToolCalls)
    BY DEF AskTypes
  <2> DEFINE front == SubSeq(asked, 1, i - 1)
             rest == SubSeq(asked, i + 1, Len(asked))
  <2>2. /\ front \in Seq(ToolCalls) /\ Len(front) = i - 1
        /\ \A j \in 1 .. i - 1 : front[j] = asked[j]
    BY <2>1
  <2>3. /\ rest \in Seq(ToolCalls) /\ Len(rest) = Len(asked) - i
        /\ \A j \in 1 .. Len(asked) - i : rest[j] = asked[i + j]
    BY <2>1
  <2>4. asked' = front \o rest
    BY <1>2
  <2> HIDE DEF front, rest
  <2>5. /\ asked' \in Seq(ToolCalls) /\ Len(asked') = Len(asked) - 1
        /\ \A j \in 1 .. Len(asked) - 1 :
              asked'[j] = IF j < i THEN asked[j] ELSE asked[j + 1]
    <3>1. asked' \in Seq(ToolCalls) /\ Len(asked') = Len(front) + Len(rest)
      BY <2>2, <2>3, <2>4
    <3>2. ASSUME NEW j \in 1 .. Len(asked) - 1
          PROVE  asked'[j] = IF j < i THEN asked[j] ELSE asked[j + 1]
      <4>1. CASE j < i
        BY <2>1, <2>2, <2>3, <2>4, <4>1
      <4>2. CASE ~(j < i)
        <5>1. /\ j - (i - 1) \in 1 .. Len(asked) - i
              /\ i + (j - (i - 1)) = j + 1
          BY <2>1, <4>2
        <5>2. asked'[j] = rest[j - (i - 1)]
          BY <2>1, <2>2, <2>3, <2>4, <4>2
        <5> QED
          BY <2>3, <4>2, <5>1, <5>2
      <4> QED
        BY <4>1, <4>2
    <3> QED
      BY <2>1, <2>2, <2>3, <3>1, <3>2
  <2>6. ASSUME NEW d \in ToolCalls, InLine(asked', d)
        PROVE  InLine(asked, d)
    <3>1. PICK j \in 1 .. Len(asked) - 1 : asked'[j] = d
      BY <2>5, <2>6 DEF InLine
    <3>2. asked[j] = d \/ asked[j + 1] = d
      BY <2>5, <3>1
    <3>3. j \in 1 .. Len(asked) /\ j + 1 \in 1 .. Len(asked)
      BY <2>1
    <3> QED
      BY <3>2, <3>3 DEF InLine
  <2>7. ASSUME NEW d \in ToolCalls \ {c}, InLine(asked, d)
        PROVE  InLine(asked', d)
    <3>1. PICK j \in 1 .. Len(asked) : asked[j] = d
      BY <2>7 DEF InLine
    <3>2. j # i
      BY <1>2, <3>1
    <3>3. CASE j < i
      <4>1. j \in 1 .. Len(asked) - 1
        BY <2>1, <3>3
      <4> QED
        BY <2>5, <3>1, <3>3, <4>1 DEF InLine
    <3>4. CASE j > i
      <4>1. j - 1 \in 1 .. Len(asked) - 1 /\ ~(j - 1 < i) /\ (j - 1) + 1 = j
        BY <2>1, <3>4
      <4>2. asked'[j - 1] = d
        BY <2>5, <3>1, <4>1
      <4> QED
        BY <2>5, <4>1, <4>2 DEF InLine
    <3> QED
      BY <2>1, <3>2, <3>3, <3>4
  <2> QED
    BY <2>5, <2>6, <2>7
<1> QED
  BY <1>1, <1>2 DEF Permission!Withdraws

-----------------------------------------------------------------------------
\* The calls that a step of one call's task has nothing to do with: what is decided
\* of them stays, and so does an open request of theirs.
OthersAsk(c) ==
    \A d \in ToolCalls \ {c} :
        /\ callAt'[d] = callAt[d] /\ action'[d] = action[d] /\ future'[d] = future[d]
        /\ result'[d] = result[d] /\ (byApproval'[d] <=> byApproval[d])
        /\ activating'[d] = activating[d]
        /\ future[d] = "pending" /\ (active = d \/ InLine(asked, d)) =>
               active' = d \/ InLine(asked', d)
        /\ active' = d \/ InLine(asked', d) => active = d \/ InLine(asked, d)

\* What is remembered after it.
RemembersAtMost(c) ==
    \/ approvals' = approvals
    \/ /\ approvals' = approvals \cup {Permission!Key(c)}
       /\ callAt'[c] = "done" /\ future'[c] = "session"

LEMMA TaskStep ==
    ASSUME AskInv, NEW c \in ToolCalls, callAt[c] # "done", AskTypes', OthersAsk(c),
           RemembersAtMost(c), Requested(c)', Allowed(c)'
    PROVE  AskInv'
<1>1. ASSUME NEW d \in ToolCalls \ {c} PROVE Requested(d)' /\ Allowed(d)'
  <2>1. Requested(d) /\ Allowed(d)
    BY DEF AskInv
  <2>2. Requested(d)'
    BY <2>1 DEF Requested, OthersAsk
  <2>3. approvals \subseteq approvals'
    BY DEF RemembersAtMost
  <2>4. Allowed(d)'
    BY <2>1, <2>3 DEF Allowed, OthersAsk, Permission!Key
  <2> QED
    BY <2>2, <2>4
<1>2. Remembered'
  <2> SUFFICES ASSUME NEW k \in approvals'
               PROVE  \E d \in ToolCalls : /\ callAt'[d] = "done"
                                           /\ future'[d] = "session"
                                           /\ Permission!Key(d) = k
    BY DEF Remembered, Permission!Key
  <2>1. CASE k \in approvals
    <3>1. PICK d \in ToolCalls : /\ callAt[d] = "done" /\ future[d] = "session"
                                 /\ Permission!Key(d) = k
      BY <2>1 DEF AskInv, Remembered
    <3> QED
      BY <3>1 DEF OthersAsk
  <2>2. CASE k \notin approvals
    BY <2>2 DEF RemembersAtMost
  <2> QED
    BY <2>1, <2>2
<1> QED
  BY <1>1, <1>2 DEF AskInv

\* A choice decides a call.
LEMMA ChoiceDecides ==
    ASSUME AskTypes, NEW c \in ToolCalls, Permission!Decides(c), ~byApproval[c],
           future' \in [ToolCalls -> Permission!Choices \cup {"pending", "cancelled"}],
           activating'[c] = Nobody, byApproval' = byApproval
    PROVE  /\ callAt' \in [ToolCalls -> {"idle", "showing", "waiting", "handing", "done"}]
           /\ result' \in [ToolCalls -> {"none", "allow", "deny", "cancelled"}]
           /\ \A d \in ToolCalls \ {c} : callAt'[d] = callAt[d] /\ result'[d] = result[d]
           /\ RemembersAtMost(c) /\ Requested(c)' /\ Allowed(c)'
<1>1. callAt' = [callAt EXCEPT ![c] = "done"] /\ callAt'[c] = "done"
  BY DEF AskTypes, Permission!Decides
<1>2. PICK r \in {"allow", "cancelled", "deny"} :
          /\ result' = [result EXCEPT ![c] = r]
          /\ r = "allow" => future'[c] \in Permission!Allowing
  BY DEF Permission!Decides, Permission!Allowing
<1>3. RemembersAtMost(c)
  BY <1>1 DEF RemembersAtMost, Permission!Decides
<1>4. Requested(c)'
  BY <1>1 DEF Requested
<1>5. Allowed(c)'
  <2>1. ~byApproval'[c]
    OBVIOUS
  <2>2. result'[c] = r
    BY <1>2 DEF AskTypes
  <2> QED
    BY <1>1, <1>2, <2>1, <2>2 DEF Allowed
<1> QED
  BY <1>1, <1>2, <1>3, <1>4, <1>5 DEF AskTypes

-----------------------------------------------------------------------------
\* A call is decided without a prompt, or its request joins the queue.
LEMMA DecideAsks ==
    ASSUME AskInv, NEW c \in ToolCalls, Permission!Decide(c)
    PROVE  AskInv'
<1> DEFINE what == Permission!Classify(mode, RiskOf[c])
           approved == /\ what = "prompt" /\ RiskOf[c] # "confirm"
                       /\ Permission!Key(c) \in approvals
           asks == what = "prompt" /\ ~approved /\ running
<1>0. AskTypes /\ Requested(c) /\ Allowed(c) /\ callAt[c] = "idle"
  BY DEF AskInv, Permission!Decide
<1>1. /\ action' = [action EXCEPT ![c] = what]
      /\ byApproval' = [byApproval EXCEPT ![c] = approved]
      /\ UNCHANGED <<future, timer, keys, approvals>>
  BY DEF Permission!Decide
<1>2. CASE asks
  <2>1. /\ future[c] = "pending" /\ active # c /\ ~InLine(asked, c)
        /\ activating[c] = Nobody
    BY <1>0 DEF Requested
  <2>2. /\ Append(asked, c) \in Seq(ToolCalls) /\ InLine(Append(asked, c), c)
        /\ \A d \in ToolCalls \ {c} : InLine(Append(asked, c), d) <=> InLine(asked, d)
    <3>1. /\ asked \in Seq(ToolCalls) /\ Len(Append(asked, c)) = Len(asked) + 1
          /\ \A i \in 1 .. Len(asked) : Append(asked, c)[i] = asked[i]
          /\ Append(asked, c)[Len(asked) + 1] = c
      BY <1>0 DEF AskTypes
    <3>2. Len(asked) + 1 \in 1 .. Len(asked) + 1
      BY <3>1
    <3> QED
      BY <3>1, <3>2 DEF InLine
  <2>3. /\ result' = result
        /\ IF active = Nobody
           THEN /\ Permission!Activates(c, Append(asked, c))
                /\ callAt' = [callAt EXCEPT ![c] = "showing"]
           ELSE /\ asked' = Append(asked, c)
                /\ callAt' = [callAt EXCEPT ![c] = "waiting"]
                /\ UNCHANGED <<active, activating>>
    BY <1>2 DEF Permission!Decide
  <2>4. ~byApproval'[c] /\ action'[c] = "prompt"
    BY <1>0, <1>1, <1>2 DEF AskTypes
  <2>5. /\ action' \in [ToolCalls -> {"none", "allow", "deny", "prompt"}]
        /\ byApproval' \in [ToolCalls -> BOOLEAN]
        /\ \A d \in ToolCalls \ {c} :
              action'[d] = action[d] /\ (byApproval'[d] <=> byApproval[d])
    BY <1>0, <1>1, <1>2 DEF AskTypes
  <2>6. CASE active = Nobody
    <3>1. /\ Keeps(Append(asked, c))
          /\ asked' \in Seq(ToolCalls) /\ active' \in ToolCalls \cup {Nobody}
          /\ activating' \in [ToolCalls -> ToolCalls \cup {Nobody}]
          /\ \A d \in ToolCalls \ {c} : activating'[d] = activating[d]
      BY <1>0, <2>2, <2>3, <2>6, ActivationKeeps
    <3>2. AskTypes' /\ callAt'[c] = "showing"
      BY <1>0, <1>1, <2>3, <2>5, <2>6, <3>1 DEF AskTypes
    <3>3. OthersAsk(c)
      BY <1>0, <1>1, <2>2, <2>3, <2>5, <2>6, <3>1, NobodyAssumption
      DEF OthersAsk, AskTypes, Keeps
    <3>4. Requested(c)'
      BY <1>1, <2>1, <2>2, <3>1, <3>2 DEF Requested, Keeps
    <3>5. Allowed(c)'
      BY <1>0, <1>1, <2>3, <2>4, <3>2 DEF Allowed
    <3> QED
      BY <1>0, <1>1, <3>2, <3>3, <3>4, <3>5, TaskStep DEF RemembersAtMost
  <2>7. CASE active # Nobody
    <3>0. /\ result' = result /\ asked' = Append(asked, c)
          /\ callAt' = [callAt EXCEPT ![c] = "waiting"]
          /\ UNCHANGED <<active, activating>>
      BY <2>3, <2>7
    <3>1. AskTypes' /\ callAt'[c] = "waiting"
      <4>1. asked' \in Seq(ToolCalls)
        BY <2>2, <3>0
      <4> QED
        BY <1>0, <1>1, <2>5, <3>0, <4>1 DEF AskTypes
    <3>2. OthersAsk(c)
      <4> SUFFICES ASSUME NEW d \in ToolCalls \ {c}
                   PROVE  /\ callAt'[d] = callAt[d]
                          /\ InLine(asked', d) <=> InLine(asked, d)
        BY <1>1, <2>5, <3>0 DEF OthersAsk
      <4> QED
        BY <1>0, <2>2, <3>0 DEF AskTypes
    <3>3. Requested(c)'
      BY <1>1, <2>1, <2>2, <2>3, <2>7, <3>1 DEF Requested
    <3>4. Allowed(c)'
      BY <1>0, <1>1, <2>3, <2>4, <3>1 DEF Allowed
    <3> QED
      BY <1>0, <1>1, <3>1, <3>2, <3>3, <3>4, TaskStep DEF RemembersAtMost
  <2> QED
    BY <2>6, <2>7
<1>3. CASE ~asks
  <2>1. PICK r \in {"allow", "deny"} :
            /\ result' = [result EXCEPT ![c] = r]
            /\ r = "allow" => approved \/ what = "allow"
    BY <1>3 DEF Permission!Decide
  <2>2. /\ callAt' = [callAt EXCEPT ![c] = "done"]
        /\ UNCHANGED <<asked, active, activating>>
    BY <1>3 DEF Permission!Decide
  <2>3. what \in {"allow", "deny", "prompt"}
    BY DEF Permission!Classify
  <2>4. AskTypes'
    <3>1. byApproval' \in [ToolCalls -> BOOLEAN]
      BY <1>0, <1>1 DEF AskTypes
    <3>2. action' \in [ToolCalls -> {"none", "allow", "deny", "prompt"}]
      BY <1>0, <1>1, <2>3 DEF AskTypes
    <3> QED
      BY <1>0, <1>1, <2>1, <2>2, <3>1, <3>2 DEF AskTypes
  <2>5. OthersAsk(c)
    <3> SUFFICES ASSUME NEW d \in ToolCalls \ {c}
                 PROVE  /\ callAt'[d] = callAt[d] /\ action'[d] = action[d]
                        /\ result'[d] = result[d] /\ (byApproval'[d] <=> byApproval[d])
      BY <1>1, <2>2 DEF OthersAsk
    <3>1. callAt'[d] = callAt[d] /\ action'[d] = action[d] /\ result'[d] = result[d]
      BY <1>0, <1>1, <2>1, <2>2 DEF AskTypes
    <3>2. byApproval'[d] = byApproval[d]
      BY <1>0, <1>1 DEF AskTypes
    <3> QED
      BY <3>1, <3>2
  <2>6. callAt'[c] = "done" /\ action'[c] = what /\ result'[c] = r
    BY <1>0, <1>1, <2>1, <2>2 DEF AskTypes
  <2>7. byApproval'[c] <=> approved
    BY <1>0, <1>1 DEF AskTypes
  <2>8. activating[c] = Nobody
    BY <1>0 DEF Requested
  <2>9. Requested(c)' /\ Allowed(c)'
    <3>1. Requested(c)'
      BY <2>2, <2>6, <2>8 DEF Requested
    <3>2. Allowed(c)'
      BY <1>1, <2>1, <2>6, <2>7 DEF Allowed, Permission!Key
    <3> QED
      BY <3>1, <3>2
  <2> QED
    BY <1>0, <1>1, <2>4, <2>5, <2>9, TaskStep DEF RemembersAtMost
<1> QED
  BY <1>2, <1>3

LEMMA GuardDenies ==
    ASSUME AskInv, NEW c \in ToolCalls, Permission!Guarded(c)
    PROVE  AskInv'
<1>0. AskTypes /\ Requested(c) /\ Allowed(c)
  BY DEF AskInv
<1>1. /\ callAt' = [callAt EXCEPT ![c] = "done"] /\ callAt[c] = "idle"
      /\ result' = [result EXCEPT ![c] = "deny"]
      /\ UNCHANGED <<action, future, byApproval, asked, active, timer, activating, keys,
                     approvals>>
  BY DEF Permission!Guarded, Permission!paneVars
<1>2. AskTypes' /\ callAt'[c] = "done" /\ result'[c] = "deny"
  BY <1>0, <1>1 DEF AskTypes
<1>3. OthersAsk(c)
  BY <1>0, <1>1 DEF AskTypes, OthersAsk
<1>4. Requested(c)' /\ Allowed(c)'
  BY <1>0, <1>1, <1>2 DEF Requested, Allowed, Permission!Key
<1> QED
  BY <1>1, <1>2, <1>3, <1>4, TaskStep DEF RemembersAtMost

\* The end of a wait, with an answer or a cancellation: in the place of future'[c].
LEMMA HandingOver ==
    ASSUME AskInv, NEW c \in ToolCalls, callAt[c] \in {"showing", "waiting"},
           Permission!HandsOver(c), UNCHANGED <<action, byApproval, keys>>,
           future' \in [ToolCalls -> Permission!Choices \cup {"pending", "cancelled"}],
           \A d \in ToolCalls \ {c} : future'[d] = future[d],
           future'[c] # "pending"
    PROVE  AskInv'
<1>0. AskTypes /\ Requested(c) /\ Allowed(c)
  BY DEF AskInv
<1>1. ~byApproval[c] /\ result[c] # "allow"
  BY <1>0 DEF Allowed
<1>2. CASE active = c
  <2>1. /\ timer' = Nobody
        /\ Permission!Activates(c, asked)
        /\ IF Permission!FirstOpen(asked) = {} THEN Permission!Decides(c)
           ELSE /\ callAt' = [callAt EXCEPT ![c] = "handing"]
                /\ UNCHANGED <<result, approvals>>
    BY <1>2 DEF Permission!HandsOver
  <2>2. /\ Keeps(asked)
        /\ asked' \in Seq(ToolCalls) /\ active' \in ToolCalls \cup {Nobody}
        /\ activating' \in [ToolCalls -> ToolCalls \cup {Nobody}]
        /\ \A d \in ToolCalls \ {c} : activating'[d] = activating[d]
        /\ Permission!FirstOpen(asked) = {} => activating'[c] = Nobody
    <3>1. asked \in Seq(ToolCalls)
      BY <1>0 DEF AskTypes
    <3> QED
      BY <1>0, <2>1, <3>1, ActivationKeeps
  <2>3. CASE Permission!FirstOpen(asked) = {}
    <3>1. Permission!Decides(c) /\ activating'[c] = Nobody
      BY <2>1, <2>2, <2>3
    <3>2. /\ callAt' \in [ToolCalls ->
                            {"idle", "showing", "waiting", "handing", "done"}]
          /\ result' \in [ToolCalls -> {"none", "allow", "deny", "cancelled"}]
          /\ \A d \in ToolCalls \ {c} :
                callAt'[d] = callAt[d] /\ result'[d] = result[d]
          /\ RemembersAtMost(c) /\ Requested(c)' /\ Allowed(c)'
      BY <1>0, <1>1, <3>1, ChoiceDecides
    <3>3. AskTypes'
      BY <1>0, <2>1, <2>2, <3>2 DEF AskTypes
    <3>4. OthersAsk(c)
      BY <1>2, <2>2, <3>2 DEF OthersAsk, Keeps
    <3> QED
      BY <3>2, <3>3, <3>4, TaskStep
  <2>4. CASE Permission!FirstOpen(asked) # {}
    <3>1. AskTypes' /\ callAt'[c] = "handing"
      BY <1>0, <2>1, <2>2, <2>4 DEF AskTypes
    <3>2. OthersAsk(c)
      BY <1>0, <1>2, <2>1, <2>2, <2>4 DEF OthersAsk, Keeps, AskTypes
    <3>3. Requested(c)'
      BY <3>1 DEF Requested
    <3>4. Allowed(c)'
      BY <1>1, <2>1, <2>4 DEF Allowed
    <3> QED
      BY <2>1, <2>4, <3>1, <3>2, <3>3, <3>4, TaskStep DEF RemembersAtMost
  <2> QED
    BY <2>3, <2>4
<1>3. CASE active # c
  <2>1. /\ Permission!Withdraws(c) /\ Permission!Decides(c)
        /\ activating' = [activating EXCEPT ![c] = Nobody]
        /\ UNCHANGED <<active, timer>>
    BY <1>3 DEF Permission!HandsOver
  <2>2. /\ activating' \in [ToolCalls -> ToolCalls \cup {Nobody}]
        /\ activating'[c] = Nobody
        /\ \A d \in ToolCalls \ {c} : activating'[d] = activating[d]
    BY <1>0, <2>1 DEF AskTypes
  <2>3. /\ callAt' \in [ToolCalls -> {"idle", "showing", "waiting", "handing", "done"}]
        /\ result' \in [ToolCalls -> {"none", "allow", "deny", "cancelled"}]
        /\ \A d \in ToolCalls \ {c} : callAt'[d] = callAt[d] /\ result'[d] = result[d]
        /\ RemembersAtMost(c) /\ Requested(c)' /\ Allowed(c)'
    BY <1>0, <1>1, <2>1, <2>2, ChoiceDecides
  <2>4. /\ asked' \in Seq(ToolCalls)
        /\ \A d \in ToolCalls : InLine(asked', d) => InLine(asked, d)
        /\ \A d \in ToolCalls \ {c} : InLine(asked, d) => InLine(asked', d)
    BY <1>0, <2>1, WithdrawalKeeps
  <2>5. AskTypes'
    BY <1>0, <2>1, <2>2, <2>3, <2>4 DEF AskTypes
  <2>6. OthersAsk(c)
    BY <2>1, <2>2, <2>3, <2>4 DEF OthersAsk
  <2> QED
    BY <2>3, <2>5, <2>6, TaskStep
<1> QED
  BY <1>2, <1>3

LEMMA CancelledHandingOver ==
    ASSUME AskInv, NEW c \in ToolCalls, Permission!CancelHandingOver(c)
    PROVE  AskInv'
<1>0. AskTypes /\ Requested(c) /\ Allowed(c) /\ callAt[c] = "handing"
  BY DEF AskInv, Permission!CancelHandingOver
<1>1. /\ future' = [future EXCEPT ![c] = "cancelled"]
      /\ activating' = [activating EXCEPT ![c] = Nobody]
      /\ Permission!Decides(c)
      /\ UNCHANGED <<action, byApproval, asked, active, timer, keys>>
  BY DEF Permission!CancelHandingOver, Permission!paneVars
<1>2. /\ future' \in [ToolCalls -> Permission!Choices \cup {"pending", "cancelled"}]
      /\ activating' \in [ToolCalls -> ToolCalls \cup {Nobody}]
      /\ activating'[c] = Nobody
      /\ \A d \in ToolCalls \ {c} :
            activating'[d] = activating[d] /\ future'[d] = future[d]
  BY <1>0, <1>1 DEF AskTypes
<1>3. /\ callAt' \in [ToolCalls -> {"idle", "showing", "waiting", "handing", "done"}]
      /\ result' \in [ToolCalls -> {"none", "allow", "deny", "cancelled"}]
      /\ \A d \in ToolCalls \ {c} : callAt'[d] = callAt[d] /\ result'[d] = result[d]
      /\ RemembersAtMost(c) /\ Requested(c)' /\ Allowed(c)'
  <2>1. ~byApproval[c]
    BY <1>0 DEF Allowed
  <2> QED
    BY <1>0, <1>1, <1>2, <2>1, ChoiceDecides
<1>4. AskTypes'
  BY <1>0, <1>1, <1>2, <1>3 DEF AskTypes
<1>5. OthersAsk(c)
  BY <1>1, <1>2, <1>3 DEF OthersAsk
<1> QED
  BY <1>0, <1>3, <1>4, <1>5, TaskStep

\* The task that activated a request goes on.
LEMMA ShowStep ==
    ASSUME AskInv, NEW c \in ToolCalls, Permission!Show(c)
    PROVE  AskInv'
<1> DEFINE r == activating[c]
<1>0. AskTypes /\ Requested(c) /\ Allowed(c)
  BY DEF AskInv
<1>1. /\ r \in ToolCalls /\ callAt[c] \in {"showing", "handing"}
      /\ UNCHANGED <<action, future, byApproval, keys>>
  BY <1>0 DEF Permission!Show, Requested, AskTypes
<1>2. ~byApproval[c] /\ result[c] # "allow"
  BY <1>0, <1>1 DEF Allowed
<1>3. \* it goes on with its own answer, or to wait for it
      ASSUME Permission!Continues(c), activating'[c] = Nobody,
             activating' \in [ToolCalls -> ToolCalls \cup {Nobody}],
             \A d \in ToolCalls \ {c} : activating'[d] = activating[d],
             asked' \in Seq(ToolCalls), active' \in ToolCalls \cup {Nobody},
             timer' \in ToolCalls \cup {Nobody},
             \A d \in ToolCalls :
                 /\ future[d] = "pending" /\ (active = d \/ InLine(asked, d)) =>
                        active' = d \/ InLine(asked', d)
                 /\ active' = d \/ InLine(asked', d) => active = d \/ InLine(asked, d)
      PROVE  AskInv'
  <2>1. CASE callAt[c] = "handing"
    <3>1. /\ callAt' \in [ToolCalls ->
                            {"idle", "showing", "waiting", "handing", "done"}]
          /\ result' \in [ToolCalls -> {"none", "allow", "deny", "cancelled"}]
          /\ \A d \in ToolCalls \ {c} :
                callAt'[d] = callAt[d] /\ result'[d] = result[d]
          /\ RemembersAtMost(c) /\ Requested(c)' /\ Allowed(c)'
      <4>1. future' \in [ToolCalls -> Permission!Choices \cup {"pending", "cancelled"}]
        BY <1>0, <1>1 DEF AskTypes
      <4> QED
        BY <1>0, <1>1, <1>2, <1>3, <2>1, <4>1, ChoiceDecides DEF Permission!Continues
    <3>2. AskTypes'
      BY <1>0, <1>1, <1>3, <3>1 DEF AskTypes
    <3>3. OthersAsk(c)
      BY <1>1, <1>3, <3>1 DEF OthersAsk
    <3> QED
      BY <2>1, <3>1, <3>2, <3>3, TaskStep
  <2>2. CASE callAt[c] = "showing"
    <3>1. /\ callAt' = [callAt EXCEPT ![c] = "waiting"]
          /\ UNCHANGED <<result, approvals>>
      BY <1>3, <2>2 DEF Permission!Continues
    <3>2. AskTypes' /\ callAt'[c] = "waiting"
      BY <1>0, <1>1, <1>3, <3>1 DEF AskTypes
    <3>3. OthersAsk(c)
      BY <1>0, <1>1, <1>3, <3>1 DEF OthersAsk, AskTypes
    <3>4. Requested(c)'
      BY <1>0, <1>1, <1>3, <2>2, <3>2 DEF Requested
    <3>5. Allowed(c)'
      BY <1>1, <1>2, <3>1, <3>2 DEF Allowed
    <3> QED
      BY <2>2, <3>1, <3>2, <3>3, <3>4, <3>5, TaskStep DEF RemembersAtMost
  <2> QED
    BY <1>1, <2>1, <2>2
<1>4. CASE active = r /\ future[r] # "pending"
  <2>1. /\ Permission!Activates(c, asked) /\ timer' = timer
        /\ IF Permission!FirstOpen(asked) = {} THEN Permission!Continues(c)
           ELSE UNCHANGED <<callAt, result, approvals>>
    BY <1>4 DEF Permission!Show
  <2>2. /\ Keeps(asked)
        /\ asked' \in Seq(ToolCalls) /\ active' \in ToolCalls \cup {Nobody}
        /\ activating' \in [ToolCalls -> ToolCalls \cup {Nobody}]
        /\ \A d \in ToolCalls \ {c} : activating'[d] = activating[d]
        /\ Permission!FirstOpen(asked) = {} => activating'[c] = Nobody
    <3>1. asked \in Seq(ToolCalls)
      BY <1>0 DEF AskTypes
    <3> QED
      BY <1>0, <2>1, <3>1, ActivationKeeps
  <2>3. \A d \in ToolCalls :
            /\ future[d] = "pending" /\ (active = d \/ InLine(asked, d)) =>
                   active' = d \/ InLine(asked', d)
            /\ active' = d \/ InLine(asked', d) => active = d \/ InLine(asked, d)
    BY <1>4, <2>2 DEF Keeps
  <2>4. CASE Permission!FirstOpen(asked) = {}
    <3>1. timer' \in ToolCalls \cup {Nobody}
      BY <1>0, <2>1 DEF AskTypes
    <3> QED
      BY <1>3, <2>1, <2>2, <2>3, <2>4, <3>1
  <2>5. CASE Permission!FirstOpen(asked) # {}
    <3>1. AskTypes'
      BY <1>0, <1>1, <2>1, <2>2, <2>5 DEF AskTypes
    <3>2. OthersAsk(c)
      BY <1>1, <2>1, <2>2, <2>3, <2>5 DEF OthersAsk
    <3>3. Requested(c)'
      BY <1>0, <1>1, <2>1, <2>3, <2>5 DEF Requested
    <3>4. Allowed(c)'
      BY <1>0, <1>1, <2>1, <2>5 DEF Allowed, Permission!Key
    <3> QED
      BY <1>1, <2>1, <2>5, <3>1, <3>2, <3>3, <3>4, TaskStep DEF RemembersAtMost
  <2> QED
    BY <2>4, <2>5
<1>5. CASE ~(active = r /\ future[r] # "pending")
  <2>1. /\ activating' = [activating EXCEPT ![c] = Nobody]
        /\ Permission!Continues(c)
        /\ UNCHANGED <<active, asked>>
        /\ timer' = r \/ timer' = timer
    BY <1>5 DEF Permission!Show
  <2>2. /\ activating' \in [ToolCalls -> ToolCalls \cup {Nobody}]
        /\ activating'[c] = Nobody
        /\ \A d \in ToolCalls \ {c} : activating'[d] = activating[d]
        /\ asked' \in Seq(ToolCalls) /\ active' \in ToolCalls \cup {Nobody}
        /\ timer' \in ToolCalls \cup {Nobody}
    BY <1>0, <1>1, <2>1 DEF AskTypes
  <2> QED
    BY <1>3, <2>1, <2>2
<1> QED
  BY <1>4, <1>5

-----------------------------------------------------------------------------
\* A step that answers open requests, and no call's task takes.
LEMMA AnswerStep ==
    ASSUME AskInv, AskTypes',
           UNCHANGED <<callAt, action, result, byApproval, active, activating, approvals>>,
           \A d \in ToolCalls :
               /\ \/ future'[d] = future[d]
                  \/ /\ future[d] = "pending" /\ future'[d] # "pending"
                     /\ active = d \/ InLine(asked, d)
               /\ InLine(asked', d) => InLine(asked, d)
               /\ InLine(asked, d) /\ future'[d] = "pending" => InLine(asked', d)
    PROVE  AskInv'
<1>1. ASSUME NEW c \in ToolCalls PROVE Requested(c)' /\ Allowed(c)'
  <2>1. Requested(c) /\ Allowed(c)
    BY DEF AskInv
  <2>2. Requested(c)'
    BY <2>1 DEF Requested
  <2>3. Allowed(c)'
    BY <2>1 DEF Allowed, Permission!Key, Permission!Allowing
  <2> QED
    BY <2>2, <2>3
<1>2. Remembered'
  BY DEF AskInv, Remembered, Permission!Key
<1> QED
  BY <1>1, <1>2 DEF AskInv

LEMMA AllAreResolved ==
    ASSUME AskInv, Permission!ResolvesAll,
           UNCHANGED <<callAt, action, result, byApproval, active, activating, keys,
                       approvals>>
    PROVE  AskInv'
<1>1. /\ timer' = Nobody /\ asked' = <<>>
      /\ future' = [c \in ToolCalls |->
                      IF (c = active \/ InLine(asked, c)) /\ future[c] = "pending"
                      THEN "deny" ELSE future[c]]
  BY DEF Permission!ResolvesAll, InLine
<1>2. AskTypes'
  BY <1>1 DEF AskInv, AskTypes, Permission!Choices
<1>3. \A d \in ToolCalls : ~InLine(asked', d)
  BY <1>1 DEF InLine
<1> QED
  BY <1>1, <1>2, <1>3, AnswerStep

LEMMA PermissionStep ==
    AskInv /\ PromptInv /\ [Permission!Next]_(Permission!vars) => AskInv'
<1> SUFFICES ASSUME AskInv, PromptInv, [Permission!Next]_(Permission!vars)
             PROVE  AskInv'
  OBVIOUS
<1>0. AskTypes
  BY DEF AskInv
<1>1. CASE UNCHANGED <<callAt, action, result, byApproval, active, activating, approvals,
                       future, asked, timer>> /\ keys' \in Seq(Permission!Keys)
  <2>1. AskTypes'
    BY <1>0, <1>1 DEF AskTypes
  <2> QED
    BY <1>1, <2>1, AnswerStep
<1>2. CASE Permission!Press
  <2>1. keys' \in Seq(Permission!Keys)
    <3>1. PICK choice \in Permission!Choices :
              /\ shown # Nobody
              /\ keys' = Append(keys, [choice |-> choice, prompt |-> shown])
      BY <1>2 DEF Permission!Press
    <3>2. shown \in ToolCalls
      BY <3>1 DEF PromptInv, IsFor
    <3>3. [choice |-> choice, prompt |-> shown] \in Permission!Keys
      BY <3>2 DEF Permission!Keys
    <3> QED
      BY <1>0, <3>1, <3>3 DEF AskTypes
  <2> QED
    BY <1>1, <1>2, <2>1 DEF Permission!Press, Permission!paneVars
<1>3. CASE Permission!CycleMode \/ UNCHANGED Permission!vars
  BY <1>0, <1>1, <1>3
  DEF AskTypes, Permission!CycleMode, Permission!paneVars, Permission!vars
<1>4. CASE Permission!Resolved
  <2>1. /\ keys \in Seq(Permission!Keys) /\ keys # <<>> /\ keys' = Tail(keys)
        /\ UNCHANGED <<callAt, action, result, byApproval, active, activating, approvals,
                       asked, timer>>
        /\ \/ future' = future
           \/ /\ active # Nobody /\ future[active] = "pending"
              /\ future' = [future EXCEPT ![active] = Head(keys).choice]
    BY <1>0, <1>4 DEF AskTypes, Permission!Resolved, Permission!paneVars
  <2>2. Head(keys).choice \in Permission!Choices /\ keys' \in Seq(Permission!Keys)
    <3>1. Head(keys) \in Permission!Keys /\ Tail(keys) \in Seq(Permission!Keys)
      BY <2>1
    <3> QED
      BY <2>1, <3>1 DEF Permission!Keys
  <2>3. AskTypes'
    BY <1>0, <2>1, <2>2 DEF AskTypes
  <2>4. \A d \in ToolCalls :
            \/ future'[d] = future[d]
            \/ future[d] = "pending" /\ future'[d] # "pending" /\ active = d
    BY <1>0, <2>1, <2>2 DEF AskTypes, Permission!Choices
  <2> QED
    BY <2>1, <2>3, <2>4, AnswerStep
<1>5. CASE Permission!Timeout
  <2>1. /\ UNCHANGED <<callAt, action, result, byApproval, active, activating, approvals,
                       asked, keys>>
        /\ timer' = Nobody
        /\ \/ future' = future
           \/ /\ active = timer /\ timer # Nobody /\ future[timer] = "pending"
              /\ future' = [future EXCEPT ![timer] = "deny"]
    BY <1>5 DEF Permission!Timeout
  <2>2. AskTypes'
    BY <1>0, <2>1 DEF AskTypes, Permission!Choices
  <2>3. \A d \in ToolCalls :
            \/ future'[d] = future[d]
            \/ future[d] = "pending" /\ future'[d] # "pending" /\ active = d
    BY <1>0, <2>1 DEF AskTypes
  <2> QED
    BY <2>1, <2>2, <2>3, AnswerStep
<1>6. CASE Permission!CancelTurn \/ Permission!Unmount
  BY <1>6, AllAreResolved DEF Permission!CancelTurn, Permission!Unmount
<1>7. ASSUME NEW c \in ToolCalls, Permission!Answered(c)
      PROVE  AskInv'
  BY <1>0, <1>7, HandingOver DEF Permission!Answered, AskTypes
<1>8. ASSUME NEW c \in ToolCalls, Permission!Cancel(c)
      PROVE  AskInv'
  <2>1. /\ future' = [future EXCEPT ![c] = "cancelled"]
        /\ callAt[c] \in {"showing", "waiting"} /\ Permission!HandsOver(c)
        /\ UNCHANGED <<action, byApproval, keys>>
    BY <1>8 DEF Permission!Cancel
  <2>2. /\ future' \in [ToolCalls -> Permission!Choices \cup {"pending", "cancelled"}]
        /\ \A d \in ToolCalls \ {c} : future'[d] = future[d]
        /\ future'[c] # "pending"
    BY <1>0, <2>1 DEF AskTypes
  <2> QED
    BY <2>1, <2>2, HandingOver
<1> QED
  BY <1>2, <1>3, <1>4, <1>5, <1>6, <1>7, <1>8, DecideAsks, GuardDenies, ShowStep,
     CancelledHandingOver
  DEF Permission!Next

-----------------------------------------------------------------------------
\* Who is settled stays so, and the active request gives way only once it is.
SettlesFirst ==
    \A c \in ToolCalls :
        /\ future[c] # "pending" => future'[c] # "pending"
        /\ active = c /\ active' # c => future'[c] # "pending"

LEMMA ForOneStep ==
    ASSUME SettlesFirst, NEW c, IsFor(c)
    PROVE  c \in ToolCalls /\ (active' = c \/ future'[c] # "pending")
  BY DEF SettlesFirst, IsFor

\* A step that decides no call with a key.
LEMMA NoKeyDecides ==
    ASSUME PromptInv, SettlesFirst, UNCHANGED pressedFor,
           \A c \in ToolCalls : future'[c] \in Permission!Allowing => future'[c] = future[c],
           shown' # Nobody => shown' = shown \/ IsFor(shown'),
           \A i \in 1 .. Len(keys') :
               \/ i \in 1 .. Len(keys) /\ keys'[i].prompt = keys[i].prompt
               \/ keys'[i].prompt = shown /\ shown # Nobody
    PROVE  PromptInv'
<1>1. shown' # Nobody => IsFor(shown)'
  <2>1. shown' # Nobody => IsFor(shown')
    BY DEF PromptInv
  <2> QED
    BY <2>1, ForOneStep DEF IsFor
<1>2. ASSUME NEW i \in 1 .. Len(keys') PROVE IsFor(keys[i].prompt)'
  <2>1. IsFor(keys'[i].prompt)
    BY DEF PromptInv
  <2> QED
    BY <2>1, ForOneStep DEF IsFor
<1>3. ASSUME NEW c \in ToolCalls, future'[c] \in Permission!Allowing
      PROVE  /\ pressedFor'[c] \in ToolCalls
             /\ pressedFor'[c] = c \/ Permission!IsStray(c)'
  <2>1. /\ pressedFor[c] \in ToolCalls
        /\ pressedFor[c] = c \/ Permission!IsStray(c)
    BY <1>3 DEF PromptInv
  <2> QED
    BY <2>1 DEF Permission!IsStray, SettlesFirst
<1> QED
  BY <1>1, <1>2, <1>3 DEF PromptInv

LEMMA PromptBegins == Permission!Init => PromptInv
<1> SUFFICES ASSUME Permission!Init PROVE PromptInv
  OBVIOUS
<1>1. Len(keys) = 0 /\ shown = Nobody
  BY DEF Permission!Init
<1> QED
  BY <1>1 DEF Permission!Init, PromptInv, Permission!Allowing

\* The active request gives way to one of the queue, or to none.
LEMMA PromptStep == AskInv /\ PromptInv /\ [Permission!Next]_(Permission!vars) => PromptInv'
<1> SUFFICES ASSUME AskInv, PromptInv, [Permission!Next]_(Permission!vars)
             PROVE  PromptInv'
  OBVIOUS
<1>0. AskTypes
  BY DEF AskInv
<1>1. CASE UNCHANGED <<future, keys, pressedFor>> /\ SettlesFirst
              /\ (shown' # Nobody => shown' = shown \/ IsFor(shown'))
  BY <1>1, NoKeyDecides
<1>2. CASE UNCHANGED <<future, keys, pressedFor, active, shown>>
  BY <1>1, <1>2 DEF SettlesFirst
<1>3. CASE Permission!CycleMode \/ UNCHANGED Permission!vars
  BY <1>2, <1>3 DEF Permission!CycleMode, Permission!paneVars, Permission!vars
<1>4. ASSUME NEW c \in ToolCalls, Permission!Decide(c)
      PROVE  PromptInv'
  <2>1. /\ UNCHANGED <<future, shown, keys, pressedFor>>
        /\ active # Nobody => active' = active
    <3>1. /\ UNCHANGED <<future, shown, keys, pressedFor>>
          /\ \/ active = Nobody
             \/ UNCHANGED active
      BY <1>4, Zenon DEF Permission!Decide
    <3> QED
      BY <3>1
  <2>2. SettlesFirst
    BY <2>1, NobodyAssumption DEF SettlesFirst
  <2> QED
    BY <1>1, <2>1, <2>2
<1>5. ASSUME NEW c \in ToolCalls, Permission!Guarded(c)
      PROVE  PromptInv'
  BY <1>2, <1>5 DEF Permission!Guarded, Permission!paneVars
<1>6. ASSUME NEW c \in ToolCalls, Permission!Show(c)
      PROVE  PromptInv'
  <2>1. /\ UNCHANGED <<future, keys, pressedFor>>
        /\ activating[c] \in ToolCalls
    BY <1>0, <1>6 DEF Permission!Show, AskTypes
  <2>2. \/ active = activating[c] /\ future[active] # "pending" /\ shown' = shown
        \/ active' = active /\ (shown' = shown \/ shown' = active)
    BY <1>6 DEF Permission!Show
  <2>3. SettlesFirst /\ (shown' # Nobody => shown' = shown \/ IsFor(shown'))
    BY <1>0, <2>1, <2>2 DEF SettlesFirst, IsFor, AskTypes
  <2> QED
    BY <1>1, <2>1, <2>3
<1>7. \* the wait of a call ends: the pane is handed over by the active one only
      ASSUME NEW c \in ToolCalls, Permission!HandsOver(c), UNCHANGED <<keys, pressedFor>>,
             future' = future \/ future' = [future EXCEPT ![c] = "cancelled"],
             future'[c] # "pending"
      PROVE  PromptInv'
  <2>1. /\ active # c => active' = active
        /\ shown' = shown \/ shown' = Nobody
    BY <1>7 DEF Permission!HandsOver
  <2>2. /\ \A d \in ToolCalls \ {c} : future'[d] = future[d]
        /\ future'[c] \in Permission!Allowing => future'[c] = future[c]
    BY <1>0, <1>7 DEF AskTypes, Permission!Allowing
  <2>3. SettlesFirst
    BY <1>7, <2>1, <2>2 DEF SettlesFirst
  <2> QED
    BY <1>7, <2>1, <2>2, <2>3, NoKeyDecides
<1>8. ASSUME NEW c \in ToolCalls, Permission!Answered(c)
      PROVE  PromptInv'
  BY <1>7, <1>8 DEF Permission!Answered
<1>9. ASSUME NEW c \in ToolCalls, Permission!Cancel(c)
      PROVE  PromptInv'
  <2>1. /\ Permission!HandsOver(c) /\ UNCHANGED <<keys, pressedFor>>
        /\ future' = [future EXCEPT ![c] = "cancelled"]
    BY <1>9 DEF Permission!Cancel
  <2>2. future'[c] # "pending"
    BY <1>0, <2>1 DEF AskTypes
  <2> QED
    BY <1>7, <2>1, <2>2
<1>10. ASSUME NEW c \in ToolCalls, Permission!CancelHandingOver(c)
       PROVE  PromptInv'
  <2>1. /\ UNCHANGED <<keys, pressedFor, active, shown>>
        /\ future' = [future EXCEPT ![c] = "cancelled"]
    BY <1>10 DEF Permission!CancelHandingOver, Permission!paneVars
  <2>2. \A d \in ToolCalls :
            /\ future[d] # "pending" => future'[d] # "pending"
            /\ future'[d] \in Permission!Allowing => future'[d] = future[d]
    BY <1>0, <2>1 DEF AskTypes, Permission!Allowing
  <2>3. SettlesFirst
    BY <2>1, <2>2 DEF SettlesFirst
  <2> QED
    BY <2>1, <2>2, <2>3, NoKeyDecides
<1>11. CASE Permission!Press
  <2>1. PICK choice \in Permission!Choices :
            /\ shown # Nobody
            /\ keys' = Append(keys, [choice |-> choice, prompt |-> shown])
            /\ UNCHANGED <<future, pressedFor, active, shown>>
    BY <1>11 DEF Permission!Press, Permission!paneVars
  <2> DEFINE key == [choice |-> choice, prompt |-> shown]
  <2>2. /\ keys \in Seq(Permission!Keys) /\ key \in Permission!Keys /\ key.prompt = shown
    BY <1>0, <2>1 DEF AskTypes, PromptInv, IsFor, Permission!Keys
  <2>3. keys' = Append(keys, key)
    BY <2>1
  <2> HIDE DEF key
  <2>4. \A i \in 1 .. Len(keys') :
            \/ i \in 1 .. Len(keys) /\ keys'[i] = keys[i]
            \/ keys'[i] = key
    BY <2>2, <2>3
  <2>5. \A i \in 1 .. Len(keys') :
            \/ i \in 1 .. Len(keys) /\ keys'[i].prompt = keys[i].prompt
            \/ keys'[i].prompt = shown /\ shown # Nobody
    BY <2>1, <2>2, <2>4
  <2>6. SettlesFirst
    BY <2>1 DEF SettlesFirst
  <2> QED
    BY <2>1, <2>5, <2>6, NoKeyDecides
<1>12. CASE Permission!Resolved
  <2>1. /\ keys \in Seq(Permission!Keys) /\ keys # <<>> /\ keys' = Tail(keys)
        /\ UNCHANGED <<active, shown>>
    BY <1>0, <1>12 DEF AskTypes, Permission!Resolved, Permission!paneVars
  <2>2. /\ Head(keys) = keys[1] /\ Head(keys) \in Permission!Keys
        /\ Head(keys).choice \in Permission!Choices /\ Head(keys).prompt \in ToolCalls
    <3>1. Head(keys) = keys[1] /\ Head(keys) \in Permission!Keys
      BY <2>1
    <3> QED
      BY <3>1 DEF Permission!Keys
  <2>3. \A i \in 1 .. Len(keys') : i + 1 \in 1 .. Len(keys) /\ keys'[i] = keys[i + 1]
    BY <2>1
  <2>4. \/ UNCHANGED <<future, pressedFor>>
        \/ /\ active \in ToolCalls /\ future[active] = "pending"
           /\ future' = [future EXCEPT ![active] = Head(keys).choice]
           /\ pressedFor' = [pressedFor EXCEPT ![active] = Head(keys).prompt]
    BY <1>0, <1>12 DEF AskTypes, Permission!Resolved
  <2>5. SettlesFirst
    BY <1>0, <2>1, <2>2, <2>4 DEF SettlesFirst, AskTypes, Permission!Choices
  <2>6. IsFor(Head(keys).prompt)
    <3>1. 1 \in 1 .. Len(keys)
      BY <2>1
    <3> QED
      BY <2>2, <3>1 DEF PromptInv
  <2>7. ASSUME NEW i \in 1 .. Len(keys') PROVE IsFor(keys[i].prompt)'
    <3>1. IsFor(keys'[i].prompt)
      BY <2>3 DEF PromptInv
    <3> QED
      BY <2>5, <3>1, ForOneStep DEF IsFor
  <2>8. shown' # Nobody => IsFor(shown)'
    <3>1. shown # Nobody => IsFor(shown)
      BY DEF PromptInv
    <3> QED
      BY <2>1, <2>5, <3>1, ForOneStep DEF IsFor
  <2>9. ASSUME NEW c \in ToolCalls, future'[c] \in Permission!Allowing
        PROVE  /\ pressedFor'[c] \in ToolCalls
               /\ pressedFor'[c] = c \/ Permission!IsStray(c)'
    <3>1. CASE future'[c] = future[c] /\ pressedFor'[c] = pressedFor[c]
      <4>1. /\ pressedFor[c] \in ToolCalls
            /\ pressedFor[c] = c \/ Permission!IsStray(c)
        BY <2>9, <3>1 DEF PromptInv
      <4> QED
        BY <2>5, <3>1, <4>1 DEF Permission!IsStray, SettlesFirst
    <3>2. CASE active = c /\ pressedFor'[c] = Head(keys).prompt
      <4>1. Head(keys).prompt = c \/ future'[Head(keys).prompt] # "pending"
        BY <2>1, <2>5, <2>6, <3>2, ForOneStep
      <4> QED
        BY <2>2, <3>2, <4>1 DEF Permission!IsStray
    <3>3. \/ future'[c] = future[c] /\ pressedFor'[c] = pressedFor[c]
          \/ active = c /\ pressedFor'[c] = Head(keys).prompt
      BY <1>0, <2>4 DEF AskTypes, PromptInv
    <3> QED
      BY <3>1, <3>2, <3>3
  <2>10. pressedFor' \in [ToolCalls -> ToolCalls \cup {Nobody}]
    BY <2>2, <2>4 DEF PromptInv
  <2> QED
    BY <2>7, <2>8, <2>9, <2>10 DEF PromptInv
<1>13. CASE Permission!Timeout
  <2>1. /\ UNCHANGED <<keys, pressedFor, active, shown>>
        /\ \/ future' = future
           \/ future' = [future EXCEPT ![timer] = "deny"]
    BY <1>13 DEF Permission!Timeout
  <2>2. \A d \in ToolCalls :
            /\ future[d] # "pending" => future'[d] # "pending"
            /\ future'[d] \in Permission!Allowing => future'[d] = future[d]
    BY <1>0, <2>1 DEF AskTypes, Permission!Allowing
  <2>3. SettlesFirst
    BY <2>1, <2>2 DEF SettlesFirst
  <2> QED
    BY <2>1, <2>2, <2>3, NoKeyDecides
<1>14. CASE Permission!CancelTurn \/ Permission!Unmount
  <2>1. /\ UNCHANGED <<keys, pressedFor, active>> /\ shown' = Nobody
        /\ \A d \in ToolCalls : future'[d] = future[d] \/ future'[d] = "deny"
    BY <1>14 DEF Permission!CancelTurn, Permission!Unmount, Permission!ResolvesAll
  <2>2. SettlesFirst
    BY <2>1 DEF SettlesFirst
  <2>3. \A d \in ToolCalls :
            future'[d] \in Permission!Allowing => future'[d] = future[d]
    BY <2>1 DEF Permission!Allowing
  <2> QED
    BY <2>1, <2>2, <2>3, NoKeyDecides
<1> QED
  BY <1>3, <1>4, <1>5, <1>6, <1>8, <1>9, <1>10, <1>11, <1>12, <1>13, <1>14
  DEF Permission!Next

\* Whatever key is pressed when, what is allowed is what the user allowed: in the
\* call's own prompt, for the session, or with a key whose own prompt was settled when
\* it was handled; and every open request is the active one or in the queue, for any
\* number of calls, keys and root sessions and any risks (AllowedByTheUser: the
\* permission service and the prompt pane).
THEOREM OnlyTheUserAllows == SessionSpec => []AllowedByTheUser
<1>1. SessionInit => AskInv /\ PromptInv
  BY AskingBegins, PromptBegins DEF SessionInit
<1>2. AskInv /\ PromptInv /\ [SessionNext]_sessionVars => (AskInv /\ PromptInv)'
  BY PermissionStep, PromptStep, PermissionMoves
<1>3. AskInv /\ PromptInv => AllowedByTheUser
  <2> SUFFICES ASSUME AskInv, PromptInv, NEW c \in ToolCalls
               PROVE  /\ future[c] \in Permission!Allowing =>
                             /\ pressedFor[c] # Nobody
                             /\ pressedFor[c] = c \/ Permission!IsStray(c)
                      /\ (result[c] = "allow" /\ action[c] = "prompt" /\ byApproval[c]) =>
                             /\ RiskOf[c] # "confirm"
                             /\ \E d \in ToolCalls :
                                   /\ future[d] \in Permission!Allowing
                                   /\ future[d] = "session"
                                   /\ RootOf[d] = RootOf[c] /\ ToolOf[d] = ToolOf[c]
                      /\ (result[c] = "allow" /\ action[c] = "prompt" /\ ~byApproval[c]) =>
                             future[c] \in Permission!Allowing
                      /\ (callAt[c] = "waiting" /\ future[c] = "pending") =>
                             (active = c \/ \E i \in 1 .. Len(asked) : asked[i] = c)
    BY DEF AllowedByTheUser, Permission!AllowedByTheUser
  <2>1. Requested(c) /\ Allowed(c) /\ Remembered
    BY DEF AskInv
  <2>2. ASSUME byApproval[c]
        PROVE  /\ RiskOf[c] # "confirm"
               /\ \E d \in ToolCalls :
                     /\ future[d] \in Permission!Allowing
                     /\ future[d] = "session"
                     /\ RootOf[d] = RootOf[c] /\ ToolOf[d] = ToolOf[c]
    <3>1. RiskOf[c] # "confirm" /\ Permission!Key(c) \in approvals
      BY <2>1, <2>2 DEF Allowed
    <3>2. PICK d \in ToolCalls : /\ future[d] = "session"
                                 /\ Permission!Key(d) = Permission!Key(c)
      BY <2>1, <3>1 DEF Remembered
    <3> QED
      BY <3>1, <3>2 DEF Permission!Key, Permission!Allowing
  <2>3. future[c] \in Permission!Allowing =>
            pressedFor[c] # Nobody /\ (pressedFor[c] = c \/ Permission!IsStray(c))
    BY NobodyAssumption DEF PromptInv
  <2> QED
    BY <2>1, <2>2, <2>3 DEF Requested, Allowed, InLine
<1> QED
  BY <1>1, <1>2, <1>3, PTL DEF SessionSpec

-----------------------------------------------------------------------------
(* What the terminal shows.                                                *)

Prompts == Screen!Prompts
Events == [type : Screen!Types, of : 0 .. MaxPrompts, text : Screen!Texts]
Blocks == [kind : Screen!Kinds, of : 0 .. MaxPrompts, text : Screen!Texts]
Views == [live : [text : Screen!Texts, error : BOOLEAN], blocks : Seq(Blocks)]

\* The events that leave blocks, and the last of a turn.
Shows == {"completed", "finished", "failed"}
Ends == {"finished", "failed"}

\* The blocks there were are still there, and there may be more.
Extends(more, some) ==
    Len(some) <= Len(more) /\ \A i \in 1 .. Len(some) : more[i] = some[i]

\* The blocks that the first n events add: by block, the event it comes from, and
\* by event, its last block.
RenderedBy(some, events, n, more, source, last) ==
    /\ \A i, j \in Len(some) + 1 .. Len(more) : i < j => source[i] <= source[j]
    /\ \A i \in Len(some) + 1 .. Len(more) :
          /\ more[i].of = events[source[i]].of /\ more[i].kind # "user"
          /\ events[source[i]].type \in Shows
          /\ i <= last[source[i]]
          /\ more[i].kind = "summary" =>
                i = last[source[i]] /\ events[source[i]].type \in Ends
    /\ \A e \in 1 .. n : events[e].type \in Shows =>
          /\ last[e] \in Len(some) + 1 .. Len(more) /\ source[last[e]] = e
          /\ IF events[e].type = "completed"
             THEN more[last[e]] =
                      Screen!Block("assistant", events[e].of, events[e].text)
             ELSE more[last[e]].kind = "summary"
Rendered(some, events, n, more) ==
    \E source \in [Len(some) + 1 .. Len(more) -> 1 .. n], last \in [1 .. n -> Nat] :
        RenderedBy(some, events, n, more, source, last)

\* What holds of 0, and of the next number with each, holds of all.
LEMMA CountUp ==
    ASSUME NEW N \in Nat, NEW S, 0 \in S, \A n \in 0 .. N - 1 : n \in S => n + 1 \in S
    PROVE  0 .. N \subseteq S
<1> DEFINE missed == {n \in 0 .. N : n \notin S}
<1> SUFFICES ASSUME missed # {} PROVE FALSE
  OBVIOUS
<1>1. missed \subseteq Nat
  OBVIOUS
<1> HIDE DEF missed
<1>2. PICK n \in missed : \A m \in missed : ~(<<m, n>> \in OpToRel(<, Nat))
  BY <1>1, NatLessThanWellFounded, WFMin
<1>3. \A m \in missed : ~(m < n)
  BY <1>1, <1>2 DEF OpToRel
<1>4. n \in 0 .. N /\ n \notin S
  BY DEF missed
<1>5. n # 0 /\ n - 1 \in 0 .. N - 1
  BY <1>4
<1>6. n - 1 \in S
  BY <1>3, <1>4, <1>5 DEF missed
<1> QED
  BY <1>4, <1>5, <1>6

\* The blocks an event adds.
AddedBy(e, add) ==
    /\ \A i \in 1 .. Len(add) :
          /\ add[i].of = e.of /\ add[i].kind # "user"
          /\ add[i].kind = "summary" => i = Len(add) /\ e.type \in Ends
    /\ Len(add) > 0 <=> e.type \in Shows
    /\ e.type = "completed" =>
          add[Len(add)] = Screen!Block("assistant", e.of, e.text)
    /\ e.type \in Ends => add[Len(add)].kind = "summary"

LEMMA InInterval ==
    ASSUME NEW n \in Nat, NEW i \in 1 .. n PROVE i \in Int
  OBVIOUS

\* One event, on a view.
LEMMA AppliesWell ==
    ASSUME NEW view \in Views, NEW e \in Events
    PROVE  /\ Screen!Apply(view, e) \in Views
           /\ \E add \in Seq(Blocks) :
                 Screen!Apply(view, e).blocks = view.blocks \o add /\ AddedBy(e, add)
<1> DEFINE next == Screen!Apply(view, e)
<1>1. /\ view.live \in [text : Screen!Texts, error : BOOLEAN]
      /\ view.blocks \in Seq(Blocks) /\ view = [live |-> view.live, blocks |-> view.blocks]
  BY DEF Views
<1>2. /\ e.type \in Screen!Types /\ e.of \in 0 .. MaxPrompts /\ e.text \in Screen!Texts
      /\ Screen!Quiet \in [text : Screen!Texts, error : BOOLEAN]
  BY DEF Events, Screen!Quiet, Screen!Texts
<1>3. CASE e.type \notin Shows
  <2>1. next.blocks = view.blocks /\ next \in Views
    <3>1. e.type \in {"start", "delta", "error", "notice"}
      BY <1>2, <1>3 DEF Screen!Types, Shows
    <3>2. CASE e.type = "start"
      BY <1>1, <1>2, <3>2 DEF Screen!Apply, Views
    <3>3. CASE e.type = "delta"
      <4>1. next = [view EXCEPT !.live = [text |-> view.live.text \o e.text, error |-> FALSE]]
        BY <3>3 DEF Screen!Apply
      <4>2. view.live.text \o e.text \in Screen!Texts
        BY <1>1, <1>2 DEF Screen!Texts
      <4>3. next = [live |-> [text |-> view.live.text \o e.text, error |-> FALSE],
                    blocks |-> view.blocks]
        BY <1>1, <4>1
      <4> HIDE DEF next
      <4> QED
        BY <1>1, <4>2, <4>3 DEF Views
    <3>4. CASE e.type = "error"
      <4>1. next = [view EXCEPT !.live.error = TRUE]
        BY <3>4 DEF Screen!Apply
      <4>2. next = [live |-> [text |-> view.live.text, error |-> TRUE],
                    blocks |-> view.blocks]
        BY <1>1, <4>1
      <4> HIDE DEF next
      <4> QED
        BY <1>1, <4>2 DEF Views
    <3>5. CASE e.type = "notice"
      BY <1>1, <3>5 DEF Screen!Apply
    <3> QED
      BY <3>1, <3>2, <3>3, <3>4, <3>5
  <2> HIDE DEF next
  <2>2. next.blocks = view.blocks \o <<>>
    BY <1>1, <2>1
  <2>3. <<>> \in Seq(Blocks) /\ AddedBy(e, <<>>)
    BY <1>3 DEF AddedBy, Shows, Ends
  <2> QED
    BY <2>1, <2>2, <2>3 DEF next
<1>4. CASE e.type = "completed"
  <2> DEFINE add == <<Screen!Block("assistant", e.of, e.text)>>
  <2>1. next = [live |-> Screen!Quiet, blocks |-> Append(view.blocks, Screen!Block("assistant", e.of, e.text))]
    BY <1>4 DEF Screen!Apply
  <2>2. Screen!Block("assistant", e.of, e.text) \in Blocks
    BY <1>2 DEF Blocks, Screen!Block, Screen!Kinds
  <2>3. next \in Views /\ next.blocks = view.blocks \o add
    BY <1>1, <1>2, <2>1, <2>2 DEF Views
  <2>4. add \in Seq(Blocks) /\ Len(add) = 1 /\ add[1] = Screen!Block("assistant", e.of, e.text)
    BY <2>2
  <2>5. add[1].of = e.of /\ add[1].kind = "assistant"
    BY <2>4 DEF Screen!Block
  <2> HIDE DEF add, next
  <2>6. AddedBy(e, add)
    BY <1>4, <2>4, <2>5 DEF AddedBy, Shows, Ends
  <2> QED
    BY <2>3, <2>4, <2>6 DEF next
<1>5. CASE e.type \in Ends
  <2> DEFINE text == IF view.live.text = <<>> THEN <<>>
                     ELSE <<Screen!Block("assistant", e.of, view.live.text)>>
             error == IF view.live.error /\ e.type = "failed"
                      THEN <<Screen!Block("error", e.of, <<>>)>> ELSE <<>>
             summary == <<Screen!Block("summary", e.of, <<>>)>>
             front == text \o error
             add == front \o summary
  <2>1. next = [live |-> Screen!Quiet, blocks |-> view.blocks \o text \o error \o summary]
    BY <1>5 DEF Screen!Apply, Ends
  <2>2. /\ Screen!Block("assistant", e.of, view.live.text) \in Blocks
        /\ Screen!Block("error", e.of, <<>>) \in Blocks
        /\ Screen!Block("summary", e.of, <<>>) \in Blocks
    BY <1>1, <1>2 DEF Blocks, Screen!Block, Screen!Kinds, Screen!Texts
  <2>3. /\ text \in Seq(Blocks) /\ error \in Seq(Blocks) /\ summary \in Seq(Blocks)
        /\ \A i \in 1 .. Len(text) : text[i].of = e.of /\ text[i].kind = "assistant"
        /\ \A i \in 1 .. Len(error) : error[i].of = e.of /\ error[i].kind = "error"
        /\ Len(summary) = 1 /\ summary[1].of = e.of /\ summary[1].kind = "summary"
    BY <2>2 DEF Screen!Block
  <2> HIDE DEF text, error, summary, next
  <2>4. /\ front \in Seq(Blocks) /\ Len(front) = Len(text) + Len(error)
        /\ \A i \in 1 .. Len(text) + Len(error) :
              front[i] = IF i <= Len(text) THEN text[i] ELSE error[i - Len(text)]
    BY <2>3, ConcatProperties
  <2>5. /\ add \in Seq(Blocks) /\ Len(add) = Len(front) + 1
        /\ \A i \in 1 .. Len(front) + 1 :
              add[i] = IF i <= Len(front) THEN front[i] ELSE summary[i - Len(front)]
    <3> HIDE DEF front
    <3>1. front \in Seq(Blocks) /\ summary \in Seq(Blocks) /\ Len(summary) = 1
      BY <2>3, <2>4
    <3>2. /\ front \o summary \in Seq(Blocks)
          /\ Len(front \o summary) = Len(front) + Len(summary)
          /\ \A i \in 1 .. Len(front) + Len(summary) :
                (front \o summary)[i] =
                    IF i <= Len(front) THEN front[i] ELSE summary[i - Len(front)]
      BY <3>1, ConcatProperties
    <3> QED
      BY <3>1, <3>2
  <2>6. next.blocks = view.blocks \o add /\ next \in Views
    <3>1. (view.blocks \o text \o error) \o summary = view.blocks \o add
      <4> DEFINE before == view.blocks
      <4>1. before \in Seq(Blocks) /\ front \in Seq(Blocks)
        BY <1>1, <2>4
      <4> HIDE DEF before
      <4>2. (before \o text) \o error = before \o front
        <5>1. text \in Seq(Blocks) /\ error \in Seq(Blocks)
          BY <2>3
        <5> QED
          BY <4>1, <5>1, ConcatAssociative
      <4> HIDE DEF front
      <4>3. (before \o front) \o summary = before \o add
        <5>1. summary \in Seq(Blocks)
          BY <2>3
        <5> QED
          BY <4>1, <5>1, ConcatAssociative
      <4>4. ((before \o text) \o error) \o summary = (before \o front) \o summary
        BY <4>2, Zenon
      <4> QED
        BY <4>3, <4>4, Zenon DEF before
    <3>2. view.blocks \o add \in Seq(Blocks)
      BY <1>1, <2>5, ConcatProperties
    <3> HIDE DEF add
    <3> QED
      BY <1>2, <2>1, <3>1, <3>2 DEF Views
  <2> HIDE DEF add, front
  <2>7. \A i \in 1 .. Len(add) :
            /\ add[i].of = e.of /\ add[i].kind # "user"
            /\ add[i].kind = "summary" <=> i = Len(add)
    <3> SUFFICES ASSUME NEW i \in 1 .. Len(add)
                 PROVE  /\ add[i].of = e.of /\ add[i].kind # "user"
                        /\ add[i].kind = "summary" <=> i = Len(add)
      OBVIOUS
    <3>1. Len(text) \in Nat /\ Len(error) \in Nat /\ Len(front) = Len(text) + Len(error)
      BY <2>3, <2>4
    <3>2. CASE i <= Len(text)
      <4>1. i \in 1 .. Len(text) /\ i \in 1 .. Len(front) /\ i # Len(add)
        BY <2>5, <3>1, <3>2
      <4>2. add[i] = front[i] /\ front[i] = text[i]
        BY <2>4, <2>5, <3>1, <3>2, <4>1
      <4> QED
        BY <2>3, <4>1, <4>2
    <3>3. CASE i > Len(text) /\ i <= Len(text) + Len(error)
      <4>1. i - Len(text) \in 1 .. Len(error) /\ i \in 1 .. Len(front) /\ i # Len(add)
        BY <2>5, <3>1, <3>3
      <4>2. add[i] = front[i] /\ front[i] = error[i - Len(text)]
        BY <2>4, <2>5, <3>1, <3>3, <4>1
      <4> QED
        BY <2>3, <4>1, <4>2
    <3>4. CASE i > Len(text) + Len(error)
      <4>1. i = Len(add) /\ i - Len(front) = 1
        BY <2>5, <3>1, <3>4
      <4>2. add[i] = summary[1]
        BY <2>5, <3>1, <4>1
      <4> QED
        BY <2>3, <4>1, <4>2
    <3> QED
      BY <3>1, <3>2, <3>3, <3>4
  <2>8. Len(add) \in Nat \ {0}
    BY <2>3, <2>4, <2>5
  <2>9. AddedBy(e, add)
    BY <1>5, <2>7, <2>8 DEF AddedBy, Shows, Ends
  <2> QED
    BY <2>5, <2>6, <2>9 DEF next
<1> QED
  BY <1>3, <1>4, <1>5 DEF Shows, Ends

LEMMA NothingRendered ==
    ASSUME NEW some \in Seq(Blocks), NEW events \in Seq(Events)
    PROVE  Rendered(some, events, 0, some)
<1>1. \A S : [i \in Len(some) + 1 .. Len(some) |-> 0] \in [Len(some) + 1 .. Len(some) -> S]
  OBVIOUS
<1>2. [e \in 1 .. 0 |-> 0] \in [1 .. 0 -> Nat]
  OBVIOUS
<1>3. Len(some) + 1 .. Len(some) = {} /\ 1 .. 0 = {}
  OBVIOUS
<1> QED
  BY <1>1, <1>2, <1>3 DEF Rendered, RenderedBy

LEMMA MoreRendered ==
    ASSUME NEW some \in Seq(Blocks), NEW events \in Seq(Events),
           NEW n \in 0 .. Len(events) - 1,
           NEW more \in Seq(Blocks), Extends(more, some),
           Rendered(some, events, n, more),
           NEW add \in Seq(Blocks), AddedBy(events[n + 1], add)
    PROVE  /\ more \o add \in Seq(Blocks) /\ Extends(more \o add, some)
           /\ Rendered(some, events, n + 1, more \o add)
<1> DEFINE e == events[n + 1]
           new == Len(some) + 1 .. Len(more)
           all == Len(some) + 1 .. Len(more \o add)
<1>1. /\ more \o add \in Seq(Blocks) /\ Len(more \o add) = Len(more) + Len(add)
      /\ \A i \in 1 .. Len(more) + Len(add) :
            (more \o add)[i] = IF i <= Len(more) THEN more[i] ELSE add[i - Len(more)]
  BY ConcatProperties
<1>2. Len(some) \in Nat /\ Len(more) \in Nat /\ Len(add) \in Nat /\ Len(some) <= Len(more)
  BY DEF Extends
<1>3. Extends(more \o add, some)
  BY <1>1, <1>2 DEF Extends
<1>4. PICK source \in [new -> 1 .. n], last \in [1 .. n -> Nat] :
        /\ \A i, j \in new : i < j => source[i] <= source[j]
        /\ \A i \in new :
              /\ more[i].of = events[source[i]].of /\ more[i].kind # "user"
              /\ events[source[i]].type \in Shows
              /\ i <= last[source[i]]
              /\ more[i].kind = "summary" =>
                    i = last[source[i]] /\ events[source[i]].type \in Ends
        /\ \A k \in 1 .. n : events[k].type \in Shows =>
              /\ last[k] \in new /\ source[last[k]] = k
              /\ IF events[k].type = "completed"
                 THEN more[last[k]] =
                          Screen!Block("assistant", events[k].of, events[k].text)
                 ELSE more[last[k]].kind = "summary"
  BY DEF Rendered, RenderedBy
<1> DEFINE source2 == [i \in all |-> IF i \in new THEN source[i] ELSE n + 1]
           last2 == [k \in 1 .. n + 1 |-> IF k = n + 1 THEN Len(more \o add) ELSE last[k]]
<1>5. source2 \in [all -> 1 .. n + 1] /\ last2 \in [1 .. n + 1 -> Nat]
  BY <1>1, <1>2
<1>6. /\ new \subseteq all
      /\ \A i \in new : source2[i] = source[i] /\ (more \o add)[i] = more[i] /\ source[i] \in 1 .. n
      /\ \A i \in all \ new :
            /\ source2[i] = n + 1 /\ i - Len(more) \in 1 .. Len(add)
            /\ i > Len(more) /\ (more \o add)[i] = add[i - Len(more)]
      /\ \A k \in 1 .. n : last2[k] = last[k]
      /\ last2[n + 1] = Len(more \o add)
  BY <1>1, <1>2
<1> HIDE DEF source2, last2
<1>7. ASSUME NEW i \in all, NEW j \in all, i < j PROVE source2[i] <= source2[j]
  <2>1. CASE j \in new
    <3>1. i \in new
      BY <1>2, <1>7, <2>1
    <3> QED
      BY <1>4, <1>6, <1>7, <2>1, <3>1
  <2>2. CASE j \notin new
    <3>1. source2[j] = n + 1 /\ source2[i] \in 1 .. n + 1
      BY <1>5, <1>6, <2>2
    <3> QED
      BY <3>1
  <2> QED
    BY <2>1, <2>2
<1>8. ASSUME NEW i \in all
      PROVE  /\ (more \o add)[i].of = events[source2[i]].of /\ (more \o add)[i].kind # "user"
             /\ events[source2[i]].type \in Shows
             /\ i <= last2[source2[i]]
             /\ (more \o add)[i].kind = "summary" =>
                   i = last2[source2[i]] /\ events[source2[i]].type \in Ends
  <2>1. CASE i \in new
    BY <1>4, <1>6, <2>1
  <2>2. CASE i \notin new
    <3> DEFINE k == i - Len(more)
    <3>1. k \in 1 .. Len(add) /\ (more \o add)[i] = add[k] /\ source2[i] = n + 1
      BY <1>6, <2>2
    <3>2. /\ add[k].of = e.of /\ add[k].kind # "user"
          /\ add[k].kind = "summary" => k = Len(add) /\ e.type \in Ends
      BY <3>1 DEF AddedBy
    <3>3. e.type \in Shows
      BY <1>2, <3>1 DEF AddedBy
    <3>4. last2[source2[i]] = Len(more \o add) /\ i <= Len(more \o add)
      BY <1>1, <1>2, <1>6, <3>1
    <3>5. k = Len(add) => i = Len(more \o add)
      BY <1>1, <1>2
    <3> HIDE DEF k
    <3> QED
      BY <3>1, <3>2, <3>3, <3>4, <3>5
  <2> QED
    BY <2>1, <2>2
<1>9. ASSUME NEW k \in 1 .. n + 1, events[k].type \in Shows
      PROVE  /\ last2[k] \in all /\ source2[last2[k]] = k
             /\ IF events[k].type = "completed"
                THEN (more \o add)[last2[k]] =
                         Screen!Block("assistant", events[k].of, events[k].text)
                ELSE (more \o add)[last2[k]].kind = "summary"
  <2>1. CASE k # n + 1
    <3>1. k \in 1 .. n /\ last2[k] = last[k] /\ last[k] \in new
      BY <1>4, <1>6, <1>9, <2>1
    <3> QED
      BY <1>4, <1>6, <1>9, <3>1
  <2>2. CASE k = n + 1
    <3>1. Len(add) > 0 /\ last2[k] = Len(more \o add)
      BY <1>6, <1>9, <2>2 DEF AddedBy
    <3>2. last2[k] \in all \ new /\ last2[k] - Len(more) = Len(add)
      BY <1>1, <1>2, <3>1
    <3>3. source2[last2[k]] = k /\ (more \o add)[last2[k]] = add[Len(add)]
      BY <1>6, <2>2, <3>2
    <3>4. IF e.type = "completed"
          THEN add[Len(add)] = Screen!Block("assistant", e.of, e.text)
          ELSE add[Len(add)].kind = "summary"
      BY <1>9, <2>2 DEF AddedBy, Shows, Ends
    <3> QED
      BY <2>2, <3>2, <3>3, <3>4
  <2> QED
    BY <2>1, <2>2
<1>10. Rendered(some, events, n + 1, more \o add)
  <2>1. RenderedBy(some, events, n + 1, more \o add, source2, last2)
    BY <1>7, <1>8, <1>9 DEF RenderedBy
  <2> QED
    BY <1>5, <2>1 DEF Rendered
<1> QED
  BY <1>1, <1>3, <1>10

\* There is such a function as View, and what it makes of the events.
LEMMA ViewsFollow ==
    ASSUME waiting \in Seq(Events), [live |-> tail, blocks |-> blocks] \in Views
    PROVE  \A n \in 0 .. Len(waiting) :
               /\ Screen!View[n] \in Views
               /\ Extends(Screen!View[n].blocks, blocks)
               /\ Rendered(blocks, waiting, n, Screen!View[n].blocks)
<1> DEFINE begin == [live |-> tail, blocks |-> blocks]
           IsView(v, n) ==
               /\ v[0] = begin
               /\ \A k \in 1 .. n : v[k] = Screen!Apply(v[k - 1], waiting[k])
           N == Len(waiting)
           S == {n \in 0 .. N : \E v \in [0 .. n -> Views] : IsView(v, n)}
<1>0. N \in Nat /\ begin \in Views /\ blocks \in Seq(Blocks) /\ begin.blocks = blocks
  BY DEF Views
<1> HIDE DEF begin
<1>1. \A n \in 1 .. N : waiting[n] \in Events
  OBVIOUS
<1>2. 0 \in S
  <2> DEFINE first == [k \in 0 .. 0 |-> begin]
  <2>1. first \in [0 .. 0 -> Views] /\ IsView(first, 0)
    BY <1>0
  <2> HIDE DEF first, IsView
  <2> QED
    BY <1>0, <2>1
<1>3. ASSUME NEW n \in 0 .. N - 1, n \in S PROVE n + 1 \in S
  <2>1. PICK v \in [0 .. n -> Views] : IsView(v, n)
    BY <1>3
  <2> DEFINE w == [k \in 0 .. n + 1 |->
                     IF k = n + 1 THEN Screen!Apply(v[n], waiting[n + 1]) ELSE v[k]]
  <2>2. Screen!Apply(v[n], waiting[n + 1]) \in Views
    <3>1. v[n] \in Views /\ waiting[n + 1] \in Events
      BY <1>0, <1>1
    <3> QED
      BY <3>1, AppliesWell
  <2>3. w \in [0 .. n + 1 -> Views]
    BY <2>2
  <2>4. IsView(w, n + 1)
    <3>1. w[0] = begin
      BY <2>1
    <3>2. ASSUME NEW k \in 1 .. n + 1 PROVE w[k] = Screen!Apply(w[k - 1], waiting[k])
      <4>1. w[k - 1] = v[k - 1]
        OBVIOUS
      <4>2. CASE k = n + 1
        BY <4>1, <4>2
      <4>3. CASE k # n + 1
        BY <2>1, <4>1, <4>3
      <4> QED
        BY <4>2, <4>3
    <3> QED
      BY <3>1, <3>2
  <2> HIDE DEF w, IsView
  <2> QED
    BY <1>0, <2>3, <2>4
<1>4. N \in S
  <2> HIDE DEF S, N
  <2>1. 0 .. N \subseteq S
    BY <1>0, <1>2, <1>3, CountUp
  <2> QED
    BY <1>0, <2>1
<1>5. PICK v \in [0 .. N -> Views] : IsView(v, N)
  BY <1>4
<1>6. v = [n \in 0 .. N |-> IF n = 0 THEN begin ELSE Screen!Apply(v[n - 1], waiting[n])]
  <2>1. ASSUME NEW n \in 0 .. N
        PROVE  v[n] = IF n = 0 THEN begin ELSE Screen!Apply(v[n - 1], waiting[n])
    BY <1>0, <1>5
  <2>2. v = [n \in 0 .. N |-> v[n]]
    BY <1>5
  <2> HIDE DEF IsView
  <2> QED
    BY <2>1, <2>2
<1>7. Screen!View = [n \in 0 .. N |->
          IF n = 0 THEN begin ELSE Screen!Apply(Screen!View[n - 1], waiting[n])]
  BY <1>6, Zenon DEF Screen!View, begin
<1>8. /\ Screen!View[0] = begin
      /\ \A n \in 0 .. N - 1 :
            Screen!View[n + 1] = Screen!Apply(Screen!View[n], waiting[n + 1])
  <2>1. ASSUME NEW n \in 0 .. N
        PROVE  Screen!View[n] = IF n = 0 THEN begin ELSE Screen!Apply(Screen!View[n - 1], waiting[n])
    BY <1>7
  <2>2. Screen!View[0] = begin
    BY <1>0, <2>1
  <2>3. ASSUME NEW n \in 0 .. N - 1
        PROVE  Screen!View[n + 1] = Screen!Apply(Screen!View[n], waiting[n + 1])
    <3>1. n + 1 \in 0 .. N /\ n + 1 # 0 /\ (n + 1) - 1 = n
      BY <1>0
    <3>2. Screen!View[n + 1] = IF n + 1 = 0 THEN begin ELSE Screen!Apply(Screen!View[(n + 1) - 1], waiting[n + 1])
      BY <2>1, <3>1
    <3> QED
      BY <3>1, <3>2
  <2> QED
    BY <2>2, <2>3
<1> DEFINE Follows(n) ==
               /\ Screen!View[n] \in Views
               /\ Extends(Screen!View[n].blocks, blocks)
               /\ Rendered(blocks, waiting, n, Screen!View[n].blocks)
           T == {n \in 0 .. N : Follows(n)}
<1>9. 0 \in T
  <2>1. Extends(blocks, blocks)
    BY <1>0 DEF Extends
  <2> QED
    BY <1>0, <1>8, <2>1, NothingRendered
<1>10. ASSUME NEW n \in 0 .. N - 1, n \in T PROVE n + 1 \in T
  <2> DEFINE more == Screen!View[n].blocks
  <2>1. more \in Seq(Blocks)
    BY <1>10 DEF Views
  <2>2. n + 1 \in 1 .. N /\ waiting[n + 1] \in Events
    BY <1>0, <1>1
  <2>3. Screen!View[n] \in Views /\ Extends(more, blocks) /\ Rendered(blocks, waiting, n, more)
    BY <1>10
  <2>4. Screen!View[n + 1] = Screen!Apply(Screen!View[n], waiting[n + 1])
    BY <1>8
  <2>5. /\ Screen!View[n + 1] \in Views
        /\ \E add \in Seq(Blocks) :
              Screen!View[n + 1].blocks = more \o add /\ AddedBy(waiting[n + 1], add)
    BY <2>2, <2>3, <2>4, AppliesWell
  <2>6. PICK add \in Seq(Blocks) :
            Screen!View[n + 1].blocks = more \o add /\ AddedBy(waiting[n + 1], add)
    BY <2>5
  <2> HIDE DEF more
  <2>7. /\ more \o add \in Seq(Blocks) /\ Extends(more \o add, blocks)
        /\ Rendered(blocks, waiting, n + 1, more \o add)
    BY <1>0, <2>1, <2>3, <2>6, MoreRendered
  <2>8. Follows(n + 1)
    BY <2>5, <2>6, <2>7
  <2> HIDE DEF Follows
  <2> QED
    BY <2>2, <2>8
<1> QED
  <2> HIDE DEF T, N
  <2>1. 0 .. N \subseteq T
    BY <1>0, <1>9, <1>10, CountUp
  <2> QED
    BY <2>1 DEF T, N

-----------------------------------------------------------------------------
(* The story of a turn: what shows of it, and what is still to come.       *)

Comes(p, events, i) == events[i].of = p /\ events[i].type \in Shows
NoneComes(p, events) == \A i \in 1 .. Len(events) : ~Comes(p, events, i)

Unseen(p, some, events) ==
    NoneComes(p, events) /\ \A i \in 1 .. Len(some) : some[i].of # p

\* Its prompt is its first block, its summary the last.
Begins(p, some, first) ==
    /\ some[first].of = p /\ some[first].kind = "user"
    /\ \A i \in 1 .. Len(some) :
          some[i].of = p => first <= i /\ (some[i].kind = "user" => i = first)
Closes(p, some, last) ==
    /\ some[last].of = p /\ some[last].kind = "summary"
    /\ \A i \in 1 .. Len(some) :
          some[i].of = p => i <= last /\ (some[i].kind = "summary" => i = last)

\* Its texts are in its blocks, the last of them in events that wait.
TextsAt(p, some, events, texts, n, place, event) ==
    /\ \A i, j \in 1 .. n : i < j => place[i] < place[j]
    /\ \A i \in 1 .. n : some[place[i]] = Screen!Block("assistant", p, texts[i])
    /\ \A i, j \in n + 1 .. Len(texts) : i < j => event[i] < event[j]
    /\ \A i \in n + 1 .. Len(texts) :
          events[event[i]] = Screen!Event("completed", p, texts[i])
TextsGo(p, some, events, texts) ==
    \E n \in 0 .. Len(texts) :
    \E place \in [1 .. n -> 1 .. Len(some)],
       event \in [n + 1 .. Len(texts) -> 1 .. Len(events)] :
        TextsAt(p, some, events, texts, n, place, event)

\* So is its end, if it has come to it.
NoEnd(p, some) ==
    \A i \in 1 .. Len(some) : some[i].of = p => some[i].kind # "summary"
EndComes(p, events, e) ==
    /\ events[e].of = p /\ events[e].type \in Ends
    /\ \A i \in 1 .. Len(events) :
          Comes(p, events, i) => i <= e /\ (events[i].type \in Ends => i = e)
EndGoes(p, some, events, ended) ==
    \/ /\ ~ended /\ NoEnd(p, some)
       /\ \A i \in 1 .. Len(events) : events[i].of = p => events[i].type \notin Ends
    \/ ended /\ NoEnd(p, some) /\ \E e \in 1 .. Len(events) : EndComes(p, events, e)
    \/ ended /\ NoneComes(p, events) /\ \E last \in 1 .. Len(some) : Closes(p, some, last)

Ongoing(p, some, events, texts, ended, others) ==
    /\ \E first \in 1 .. Len(some) :
          /\ Begins(p, some, first)
          /\ \A i \in first .. Len(some) : some[i].of \in {p} \cup others
    /\ TextsGo(p, some, events, texts)
    /\ EndGoes(p, some, events, ended)

FinishedAt(p, some, texts, others, first, last) ==
    /\ Begins(p, some, first) /\ Closes(p, some, last)
    /\ \A i \in first .. last : some[i].of \in {p} \cup others
    /\ \E place \in [1 .. Len(texts) -> 1 .. Len(some)] :
          /\ \A i, j \in 1 .. Len(texts) : i < j => place[i] < place[j]
          /\ \A i \in 1 .. Len(texts) :
                some[place[i]] = Screen!Block("assistant", p, texts[i])
Finished(p, some, up, events, texts, others) ==
    /\ NoneComes(p, events)
    /\ \E first, last \in 1 .. Len(some) :
          last <= up /\ FinishedAt(p, some, texts, others, first, last)

\* Blocks of others leave the edges of a turn where they are.
LEMMA EdgesKept ==
    ASSUME NEW p, NEW some \in Seq(Blocks), NEW more \in Seq(Blocks), Extends(more, some),
           \A i \in Len(some) + 1 .. Len(more) : more[i].of # p
    PROVE  /\ 1 .. Len(some) \subseteq 1 .. Len(more)
           /\ \A i \in 1 .. Len(some) : Begins(p, some, i) => Begins(p, more, i)
           /\ \A i \in 1 .. Len(some) : Closes(p, some, i) => Closes(p, more, i)
           /\ NoEnd(p, some) => NoEnd(p, more)
<1>1. /\ Len(some) \in Nat /\ Len(more) \in Nat /\ Len(some) <= Len(more)
      /\ \A i \in 1 .. Len(some) : more[i] = some[i]
  BY DEF Extends
<1>2. 1 .. Len(some) \subseteq 1 .. Len(more)
  BY <1>1
<1>3. ASSUME NEW i \in 1 .. Len(more), more[i].of = p
      PROVE  i \in 1 .. Len(some) /\ some[i].of = p /\ more[i].kind = some[i].kind
  <2>1. i \in 1 .. Len(some)
    BY <1>1, <1>3
  <2> QED
    BY <1>1, <1>3, <2>1
<1>4. ASSUME NEW k \in 1 .. Len(some), Begins(p, some, k) PROVE Begins(p, more, k)
  <2>1. more[k].of = p /\ more[k].kind = "user"
    BY <1>1, <1>4 DEF Begins
  <2>2. \A i \in 1 .. Len(more) :
            more[i].of = p => k <= i /\ (more[i].kind = "user" => i = k)
    BY <1>3, <1>4 DEF Begins
  <2> QED
    BY <2>1, <2>2 DEF Begins
<1>5. ASSUME NEW k \in 1 .. Len(some), Closes(p, some, k) PROVE Closes(p, more, k)
  <2>1. more[k].of = p /\ more[k].kind = "summary"
    BY <1>1, <1>5 DEF Closes
  <2>2. \A i \in 1 .. Len(more) :
            more[i].of = p => i <= k /\ (more[i].kind = "summary" => i = k)
    BY <1>3, <1>5 DEF Closes
  <2> QED
    BY <2>1, <2>2 DEF Closes
<1>6. NoEnd(p, some) => NoEnd(p, more)
  BY <1>3 DEF NoEnd
<1> QED
  BY <1>2, <1>4, <1>5, <1>6

\* Blocks of others, events that do not show of it, and fewer texts change nothing.
LEMMA OngoingKept ==
    ASSUME NEW p, NEW ended \in BOOLEAN, NEW others, NEW others2, others \subseteq others2,
           NEW some \in Seq(Blocks), NEW more \in Seq(Blocks), Extends(more, some),
           \A i \in Len(some) + 1 .. Len(more) : more[i].of # p /\ more[i].of \in others2,
           NEW events \in Seq(Events), NEW events2 \in Seq(Events), Extends(events2, events),
           \A i \in Len(events) + 1 .. Len(events2) : ~Comes(p, events2, i),
           NEW texts \in Seq(Screen!Texts), NEW texts2 \in Seq(Screen!Texts),
           Extends(texts, texts2),
           Ongoing(p, some, events, texts, ended, others)
    PROVE  Ongoing(p, more, events2, texts2, ended, others2)
<1>1. /\ Len(some) \in Nat /\ Len(more) \in Nat /\ Len(some) <= Len(more)
      /\ Len(events) \in Nat /\ Len(events2) \in Nat /\ Len(events) <= Len(events2)
      /\ Len(texts) \in Nat /\ Len(texts2) \in Nat /\ Len(texts2) <= Len(texts)
      /\ \A i \in 1 .. Len(some) : more[i] = some[i]
      /\ \A i \in 1 .. Len(events) : events2[i] = events[i]
      /\ \A i \in 1 .. Len(texts2) : texts2[i] = texts[i]
  BY DEF Extends
<1>2. /\ \A i \in 1 .. Len(events2) : Comes(p, events2, i) =>
            i \in 1 .. Len(events) /\ events2[i] = events[i] /\ Comes(p, events, i)
      /\ 1 .. Len(some) \subseteq 1 .. Len(more)
      /\ 1 .. Len(events) \subseteq 1 .. Len(events2)
      /\ \A i \in 1 .. Len(some) : Begins(p, some, i) => Begins(p, more, i)
      /\ \A i \in 1 .. Len(some) : Closes(p, some, i) => Closes(p, more, i)
      /\ NoEnd(p, some) => NoEnd(p, more)
  <2>1. ASSUME NEW i \in 1 .. Len(events2), Comes(p, events2, i) PROVE i \in 1 .. Len(events)
    BY <1>1, <2>1
  <2>2. 1 .. Len(events) \subseteq 1 .. Len(events2)
    BY <1>1
  <2>3. \A i \in 1 .. Len(events2) : Comes(p, events2, i) =>
            i \in 1 .. Len(events) /\ events2[i] = events[i] /\ Comes(p, events, i)
    BY <1>1, <2>1 DEF Comes
  <2> QED
    BY <2>2, <2>3, EdgesKept
<1>3. \E first \in 1 .. Len(more) :
          /\ Begins(p, more, first)
          /\ \A i \in first .. Len(more) : more[i].of \in {p} \cup others2
  <2>1. PICK first \in 1 .. Len(some) :
            /\ Begins(p, some, first)
            /\ \A i \in first .. Len(some) : some[i].of \in {p} \cup others
    BY DEF Ongoing
  <2>2. first \in 1 .. Len(more) /\ Begins(p, more, first)
    BY <1>2, <2>1
  <2>3. ASSUME NEW i \in first .. Len(more) PROVE more[i].of \in {p} \cup others2
    <3>1. CASE i <= Len(some)
      <4>1. i \in first .. Len(some) /\ i \in 1 .. Len(some)
        BY <1>1, <3>1
      <4> QED
        BY <1>1, <2>1, <4>1
    <3>2. CASE ~(i <= Len(some))
      BY <1>1, <3>2
    <3> QED
      BY <3>1, <3>2
  <2> QED
    BY <2>2, <2>3
<1>4. TextsGo(p, more, events2, texts2)
  <2>0. PICK n \in 0 .. Len(texts) :
          \E place \in [1 .. n -> 1 .. Len(some)],
             event \in [n + 1 .. Len(texts) -> 1 .. Len(events)] :
            TextsAt(p, some, events, texts, n, place, event)
    BY DEF Ongoing, TextsGo
  <2>1. PICK place \in [1 .. n -> 1 .. Len(some)],
             event \in [n + 1 .. Len(texts) -> 1 .. Len(events)] :
          TextsAt(p, some, events, texts, n, place, event)
    BY <2>0
  <2> DEFINE m == IF n <= Len(texts2) THEN n ELSE Len(texts2)
             place2 == [i \in 1 .. m |-> place[i]]
             event2 == [i \in m + 1 .. Len(texts2) |-> event[i]]
  <2>2. /\ m \in 0 .. Len(texts2) /\ 1 .. m \subseteq 1 .. n
        /\ 1 .. m \subseteq 1 .. Len(texts2)
        /\ m + 1 .. Len(texts2) \subseteq n + 1 .. Len(texts)
        /\ m + 1 .. Len(texts2) \subseteq 1 .. Len(texts2)
    BY <1>1
  <2> HIDE DEF m
  <2>3. /\ place2 \in [1 .. m -> 1 .. Len(more)]
        /\ event2 \in [m + 1 .. Len(texts2) -> 1 .. Len(events2)]
    <3>1. \A i \in 1 .. m : place[i] \in 1 .. Len(more)
      BY <1>2, <2>2
    <3>2. \A i \in m + 1 .. Len(texts2) : event[i] \in 1 .. Len(events2)
      BY <1>2, <2>2
    <3> QED
      BY <3>1, <3>2
  <2>4. /\ \A i \in 1 .. m : place2[i] = place[i] /\ place[i] \in 1 .. Len(some)
        /\ \A i \in m + 1 .. Len(texts2) : event2[i] = event[i] /\ event[i] \in 1 .. Len(events)
    BY <2>2
  <2> HIDE DEF place2, event2
  <2>5. TextsAt(p, more, events2, texts2, m, place2, event2)
    <3>1. \A i, j \in 1 .. m : i < j => place2[i] < place2[j]
      BY <2>1, <2>2, <2>4 DEF TextsAt
    <3>2. \A i \in 1 .. m : more[place2[i]] = Screen!Block("assistant", p, texts2[i])
      <4> SUFFICES ASSUME NEW i \in 1 .. m
                   PROVE  more[place2[i]] = Screen!Block("assistant", p, texts2[i])
        OBVIOUS
      <4>1. /\ place2[i] = place[i] /\ place[i] \in 1 .. Len(some)
            /\ i \in 1 .. Len(texts2) /\ i \in 1 .. n
        BY <1>1, <2>1, <2>2, <2>4
      <4>2. more[place[i]] = some[place[i]] /\ texts2[i] = texts[i]
        BY <1>1, <4>1
      <4>3. some[place[i]] = Screen!Block("assistant", p, texts[i])
        BY <2>1, <4>1 DEF TextsAt
      <4> QED
        BY <4>1, <4>2, <4>3
    <3>3. \A i, j \in m + 1 .. Len(texts2) : i < j => event2[i] < event2[j]
      BY <2>1, <2>2, <2>4 DEF TextsAt
    <3>4. \A i \in m + 1 .. Len(texts2) :
              events2[event2[i]] = Screen!Event("completed", p, texts2[i])
      <4> SUFFICES ASSUME NEW i \in m + 1 .. Len(texts2)
                   PROVE  events2[event2[i]] = Screen!Event("completed", p, texts2[i])
        OBVIOUS
      <4>1. i \in n + 1 .. Len(texts) /\ i \in 1 .. Len(texts2)
        BY <2>2
      <4>2. events[event[i]] = Screen!Event("completed", p, texts2[i])
        BY <1>1, <2>1, <4>1 DEF TextsAt
      <4> QED
        BY <1>1, <2>4, <4>2
    <3> QED
      BY <3>1, <3>2, <3>3, <3>4 DEF TextsAt
  <2> QED
    BY <2>2, <2>3, <2>5 DEF TextsGo
<1>5. EndGoes(p, more, events2, ended)
  <2>1. EndGoes(p, some, events, ended)
    BY DEF Ongoing
  <2>2. NoEnd(p, some) => NoEnd(p, more)
    BY <1>2
  <2>3. CASE ~ended
    <3>1. ASSUME NEW i \in 1 .. Len(events2), events2[i].of = p, events2[i].type \in Ends
          PROVE  FALSE
      <4>1. Comes(p, events2, i)
        BY <3>1 DEF Comes, Shows, Ends
      <4> QED
        BY <1>2, <2>1, <2>3, <3>1, <4>1 DEF EndGoes
    <3> QED
      BY <2>1, <2>2, <2>3, <3>1 DEF EndGoes
  <2>4. CASE ended /\ NoEnd(p, some) /\ \E e \in 1 .. Len(events) : EndComes(p, events, e)
    <3>1. PICK e \in 1 .. Len(events) : EndComes(p, events, e)
      BY <2>4
    <3>2. e \in 1 .. Len(events2) /\ EndComes(p, events2, e)
      <4>1. e \in 1 .. Len(events2) /\ events2[e] = events[e]
        BY <1>1, <1>2
      <4>2. \A i \in 1 .. Len(events2) :
                Comes(p, events2, i) => i <= e /\ (events2[i].type \in Ends => i = e)
        BY <1>2, <3>1 DEF EndComes
      <4> QED
        BY <3>1, <4>1, <4>2 DEF EndComes
    <3> QED
      BY <2>2, <2>4, <3>2 DEF EndGoes
  <2>5. CASE ended /\ NoneComes(p, events) /\ \E last \in 1 .. Len(some) : Closes(p, some, last)
    <3>1. PICK last \in 1 .. Len(some) : Closes(p, some, last)
      BY <2>5
    <3>2. last \in 1 .. Len(more) /\ Closes(p, more, last)
      BY <1>2, <3>1
    <3>3. NoneComes(p, events2)
      BY <1>2, <2>5 DEF NoneComes
    <3> QED
      BY <2>5, <3>2, <3>3 DEF EndGoes
  <2> QED
    BY <2>1, <2>3, <2>4, <2>5 DEF EndGoes
<1> QED
  BY <1>3, <1>4, <1>5 DEF Ongoing

\* Of fewer texts, the same is told.
LEMMA FewerTexts ==
    ASSUME NEW p, NEW ended \in BOOLEAN, NEW others,
           NEW some \in Seq(Blocks), NEW events \in Seq(Events),
           NEW texts \in Seq(Screen!Texts), NEW texts2 \in Seq(Screen!Texts),
           Extends(texts, texts2), Ongoing(p, some, events, texts, ended, others)
    PROVE  Ongoing(p, some, events, texts2, ended, others)
<1>1. /\ Extends(some, some) /\ \A i \in Len(some) + 1 .. Len(some) : FALSE
      /\ Extends(events, events) /\ \A i \in Len(events) + 1 .. Len(events) : FALSE
  BY DEF Extends
<1> QED
  BY <1>1, OngoingKept

\* A text is told.
LEMMA OngoingTells ==
    ASSUME NEW p, NEW others, NEW some \in Seq(Blocks), NEW events \in Seq(Events),
           NEW texts \in Seq(Screen!Texts), NEW text \in Screen!Texts,
           Ongoing(p, some, events, texts, FALSE, others)
    PROVE  Ongoing(p, some, Append(events, Screen!Event("completed", p, text)),
                   Append(texts, text), FALSE, others)
<1> DEFINE e == Screen!Event("completed", p, text)
           events2 == Append(events, e)
           texts2 == Append(texts, text)
<1>1. /\ Len(events) \in Nat /\ Len(texts) \in Nat
      /\ Len(events2) = Len(events) + 1 /\ events2[Len(events) + 1] = e
      /\ \A i \in 1 .. Len(events) : events2[i] = events[i]
      /\ Len(texts2) = Len(texts) + 1 /\ texts2[Len(texts) + 1] = text
      /\ \A i \in 1 .. Len(texts) : texts2[i] = texts[i]
  OBVIOUS
<1> HIDE DEF events2, texts2, e
<1>2. TextsGo(p, some, events2, texts2)
  <2>0. PICK n \in 0 .. Len(texts) :
          \E place \in [1 .. n -> 1 .. Len(some)],
             event \in [n + 1 .. Len(texts) -> 1 .. Len(events)] :
            TextsAt(p, some, events, texts, n, place, event)
    BY DEF Ongoing, TextsGo
  <2>1. PICK place \in [1 .. n -> 1 .. Len(some)],
             event \in [n + 1 .. Len(texts) -> 1 .. Len(events)] :
          TextsAt(p, some, events, texts, n, place, event)
    BY <2>0
  <2> DEFINE event2 == [i \in n + 1 .. Len(texts2) |->
                          IF i = Len(texts2) THEN Len(events2) ELSE event[i]]
  <2>2. event2 \in [n + 1 .. Len(texts2) -> 1 .. Len(events2)] /\ n \in 0 .. Len(texts2)
    BY <1>1
  <2>3. /\ \A i \in 1 .. n : i \in 1 .. Len(texts)
        /\ \A i \in n + 1 .. Len(texts) :
              event2[i] = event[i] /\ event[i] \in 1 .. Len(events) /\ i \in 1 .. Len(texts)
        /\ event2[Len(texts2)] = Len(events2)
        /\ \A i \in n + 1 .. Len(texts2) : i # Len(texts2) => i \in n + 1 .. Len(texts)
    <3>1. /\ \A i \in 1 .. n : i \in 1 .. Len(texts)
          /\ \A i \in n + 1 .. Len(texts) :
                i \in 1 .. Len(texts) /\ i \in n + 1 .. Len(texts2) /\ i # Len(texts2)
          /\ Len(texts2) \in n + 1 .. Len(texts2)
          /\ \A i \in n + 1 .. Len(texts2) : i # Len(texts2) => i \in n + 1 .. Len(texts)
      BY <1>1
    <3>2. \A i \in n + 1 .. Len(texts) : event[i] \in 1 .. Len(events)
      OBVIOUS
    <3>3. \A i \in n + 1 .. Len(texts2) :
              event2[i] = IF i = Len(texts2) THEN Len(events2) ELSE event[i]
      OBVIOUS
    <3> HIDE DEF event2
    <3> QED
      BY <3>1, <3>2, <3>3
  <2> HIDE DEF event2
  <2>4. TextsAt(p, some, events2, texts2, n, place, event2)
    <3>1. /\ \A i, j \in 1 .. n : i < j => place[i] < place[j]
          /\ \A i \in 1 .. n : some[place[i]] = Screen!Block("assistant", p, texts2[i])
      BY <1>1, <2>1, <2>3 DEF TextsAt
    <3>2. ASSUME NEW i \in n + 1 .. Len(texts2), NEW j \in n + 1 .. Len(texts2), i < j
          PROVE  event2[i] < event2[j]
      <4>1. i \in n + 1 .. Len(texts)
        BY <1>1, <3>2
      <4>2. CASE j = Len(texts2)
        BY <1>1, <2>3, <4>1, <4>2
      <4>3. CASE j # Len(texts2)
        BY <2>1, <2>3, <3>2, <4>1, <4>3 DEF TextsAt
      <4> QED
        BY <4>2, <4>3
    <3>3. ASSUME NEW i \in n + 1 .. Len(texts2)
          PROVE  events2[event2[i]] = Screen!Event("completed", p, texts2[i])
      <4>1. CASE i = Len(texts2)
        BY <1>1, <2>3, <4>1 DEF e
      <4>2. CASE i # Len(texts2)
        BY <1>1, <2>1, <2>3, <4>2 DEF TextsAt
      <4> QED
        BY <4>1, <4>2
    <3> QED
      BY <3>1, <3>2, <3>3 DEF TextsAt
  <2> QED
    BY <2>2, <2>4 DEF TextsGo
<1>3. EndGoes(p, some, events2, FALSE)
  <2>1. \A i \in 1 .. Len(events2) : i \in 1 .. Len(events) \/ i = Len(events) + 1
    BY <1>1
  <2>2. e.type \notin Ends
    BY DEF e, Screen!Event, Ends
  <2> QED
    BY <1>1, <2>1, <2>2 DEF Ongoing, EndGoes
<1> QED
  BY <1>2, <1>3 DEF Ongoing, events2, texts2, e

\* The end is told.
LEMMA OngoingEnds ==
    ASSUME NEW p, NEW others, NEW some \in Seq(Blocks), NEW events \in Seq(Events),
           NEW texts \in Seq(Screen!Texts), NEW e \in Events, e.of = p, e.type \in Ends,
           Ongoing(p, some, events, texts, FALSE, others)
    PROVE  Ongoing(p, some, Append(events, e), texts, TRUE, others)
<1> DEFINE events2 == Append(events, e)
<1>1. /\ Len(events) \in Nat /\ Len(texts) \in Nat
      /\ Len(events2) = Len(events) + 1 /\ events2[Len(events) + 1] = e
      /\ \A i \in 1 .. Len(events) : events2[i] = events[i]
  OBVIOUS
<1> HIDE DEF events2
<1>2. TextsGo(p, some, events2, texts)
  <2>0. PICK n \in 0 .. Len(texts) :
          \E place \in [1 .. n -> 1 .. Len(some)],
             event \in [n + 1 .. Len(texts) -> 1 .. Len(events)] :
            TextsAt(p, some, events, texts, n, place, event)
    BY DEF Ongoing, TextsGo
  <2>1. PICK place \in [1 .. n -> 1 .. Len(some)],
             event \in [n + 1 .. Len(texts) -> 1 .. Len(events)] :
          TextsAt(p, some, events, texts, n, place, event)
    BY <2>0
  <2>2. event \in [n + 1 .. Len(texts) -> 1 .. Len(events2)]
    BY <1>1
  <2>3. TextsAt(p, some, events2, texts, n, place, event)
    <3>1. \A i \in n + 1 .. Len(texts) : event[i] \in 1 .. Len(events)
      OBVIOUS
    <3> QED
      BY <1>1, <2>1, <3>1 DEF TextsAt
  <2> QED
    BY <2>2, <2>3 DEF TextsGo
<1>3. EndComes(p, events2, Len(events) + 1)
  <2>1. ASSUME NEW i \in 1 .. Len(events2), Comes(p, events2, i)
        PROVE  i <= Len(events) + 1 /\ (events2[i].type \in Ends => i = Len(events) + 1)
    <3>1. i \in 1 .. Len(events) \/ i = Len(events) + 1
      BY <1>1
    <3> QED
      BY <1>1, <2>1, <3>1 DEF Ongoing, EndGoes, Comes
  <2> QED
    BY <1>1, <2>1 DEF EndComes
<1>4. EndGoes(p, some, events2, TRUE)
  BY <1>1, <1>3 DEF Ongoing, EndGoes
<1> QED
  BY <1>2, <1>4 DEF Ongoing, events2

\* It is over, and everything it told shows.
LEMMA OngoingIsFinished ==
    ASSUME NEW p, NEW others, NEW some \in Seq(Blocks), NEW events \in Seq(Events),
           NEW texts \in Seq(Screen!Texts), NEW texts2 \in Seq(Screen!Texts),
           Extends(texts, texts2),
           Ongoing(p, some, events, texts, TRUE, others), NoneComes(p, events)
    PROVE  Finished(p, some, Len(some), events, texts2, others)
<1>1. /\ Len(some) \in Nat /\ Len(texts) \in Nat /\ Len(texts2) \in Nat
      /\ Len(texts2) <= Len(texts) /\ \A i \in 1 .. Len(texts2) : texts2[i] = texts[i]
  BY DEF Extends
<1>2. PICK first \in 1 .. Len(some) :
          /\ Begins(p, some, first)
          /\ \A i \in first .. Len(some) : some[i].of \in {p} \cup others
  BY DEF Ongoing
<1>3. PICK last \in 1 .. Len(some) : Closes(p, some, last)
  <2>1. ~(\E e \in 1 .. Len(events) : EndComes(p, events, e))
    BY DEF EndComes, NoneComes, Comes, Shows, Ends
  <2> QED
    BY <2>1 DEF Ongoing, EndGoes
<1>4. PICK n \in 0 .. Len(texts) :
        \E place \in [1 .. n -> 1 .. Len(some)],
           event \in [n + 1 .. Len(texts) -> 1 .. Len(events)] :
          TextsAt(p, some, events, texts, n, place, event)
  BY DEF Ongoing, TextsGo
<1>5. PICK place \in [1 .. n -> 1 .. Len(some)],
           event \in [n + 1 .. Len(texts) -> 1 .. Len(events)] :
        TextsAt(p, some, events, texts, n, place, event)
  BY <1>4
<1>6. n = Len(texts)
  <2> SUFFICES ASSUME n # Len(texts) PROVE FALSE
    OBVIOUS
  <2>1. n + 1 \in n + 1 .. Len(texts)
    BY <1>1
  <2>2. event[n + 1] \in 1 .. Len(events)
    BY <2>1
  <2>3. Comes(p, events, event[n + 1])
    <3>1. events[event[n + 1]] = Screen!Event("completed", p, texts[n + 1])
      BY <1>5, <2>1 DEF TextsAt
    <3> QED
      BY <3>1 DEF Comes, Screen!Event, Shows
  <2> QED
    BY <2>2, <2>3 DEF NoneComes
<1> DEFINE place2 == [i \in 1 .. Len(texts2) |-> place[i]]
<1>7. /\ place2 \in [1 .. Len(texts2) -> 1 .. Len(some)]
      /\ \A i, j \in 1 .. Len(texts2) : i < j => place2[i] < place2[j]
      /\ \A i \in 1 .. Len(texts2) :
            some[place2[i]] = Screen!Block("assistant", p, texts2[i])
  BY <1>1, <1>5, <1>6 DEF TextsAt
<1> HIDE DEF place2
<1>8. \A i \in first .. last : some[i].of \in {p} \cup others
  BY <1>1, <1>2, <1>3
<1>9. FinishedAt(p, some, texts2, others, first, last)
  BY <1>2, <1>3, <1>7, <1>8 DEF FinishedAt
<1> QED
  BY <1>1, <1>9 DEF Finished

\* Blocks of others change nothing of it then.
LEMMA FinishedKept ==
    ASSUME NEW p, NEW others, NEW others2, others \subseteq others2,
           NEW some \in Seq(Blocks), NEW more \in Seq(Blocks), Extends(more, some),
           \A i \in Len(some) + 1 .. Len(more) : more[i].of # p,
           NEW up \in Nat, NEW up2 \in Nat, up <= up2,
           NEW events, NEW events2, NoneComes(p, events2),
           NEW texts \in Seq(Screen!Texts),
           Finished(p, some, up, events, texts, others)
    PROVE  Finished(p, more, up2, events2, texts, others2)
<1>1. /\ Len(some) \in Nat /\ Len(more) \in Nat /\ Len(some) <= Len(more)
      /\ \A i \in 1 .. Len(some) : more[i] = some[i]
  BY DEF Extends
<1>2. /\ 1 .. Len(some) \subseteq 1 .. Len(more)
      /\ \A i \in 1 .. Len(some) : Begins(p, some, i) => Begins(p, more, i)
      /\ \A i \in 1 .. Len(some) : Closes(p, some, i) => Closes(p, more, i)
  BY EdgesKept
<1>3. PICK first \in 1 .. Len(some), last \in 1 .. Len(some) :
          last <= up /\ FinishedAt(p, some, texts, others, first, last)
  BY DEF Finished
<1>4. /\ first \in 1 .. Len(more) /\ last \in 1 .. Len(more) /\ last <= up2
      /\ Begins(p, more, first) /\ Closes(p, more, last)
  <2>1. last <= up2
    BY <1>3
  <2> QED
    BY <1>2, <1>3, <2>1 DEF FinishedAt
<1>5. \A i \in first .. last : more[i].of \in {p} \cup others2
  <2>1. \A i \in first .. last : i \in 1 .. Len(some)
    BY <1>1
  <2> QED
    BY <1>1, <1>3, <2>1 DEF FinishedAt
<1>6. PICK place \in [1 .. Len(texts) -> 1 .. Len(some)] :
          /\ \A i, j \in 1 .. Len(texts) : i < j => place[i] < place[j]
          /\ \A i \in 1 .. Len(texts) :
                some[place[i]] = Screen!Block("assistant", p, texts[i])
  BY <1>3 DEF FinishedAt
<1>7. /\ place \in [1 .. Len(texts) -> 1 .. Len(more)]
      /\ \A i \in 1 .. Len(texts) : place[i] \in 1 .. Len(some)
  BY <1>2
<1>8. FinishedAt(p, more, texts, others2, first, last)
  BY <1>1, <1>4, <1>5, <1>6, <1>7 DEF FinishedAt
<1> QED
  BY <1>4, <1>8 DEF Finished

\* Its prompt is shown.
LEMMA OngoingBegins ==
    ASSUME NEW p \in Prompts, NEW others, NEW some \in Seq(Blocks), NEW events \in Seq(Events),
           Unseen(p, some, events)
    PROVE  /\ Append(some, Screen!Block("user", p, <<>>)) \in Seq(Blocks)
           /\ Ongoing(p, Append(some, Screen!Block("user", p, <<>>)), events, <<>>,
                      FALSE, others)
<1> DEFINE b == Screen!Block("user", p, <<>>)
           more == Append(some, b)
<1>1. b \in Blocks /\ b.of = p /\ b.kind = "user"
  BY ScreenAssumption DEF Screen!Block, Blocks, Screen!Kinds, Screen!Texts, Prompts, Screen!Prompts
<1> HIDE DEF b
<1>2. /\ more \in Seq(Blocks)
      /\ Len(some) \in Nat /\ Len(more) = Len(some) + 1 /\ more[Len(some) + 1] = b
      /\ \A i \in 1 .. Len(some) : more[i] = some[i]
  BY <1>1
<1> HIDE DEF more
<1>3. \A i \in 1 .. Len(more) : more[i].of = p => i = Len(some) + 1
  <2>1. \A i \in 1 .. Len(more) : i \in 1 .. Len(some) \/ i = Len(some) + 1
    BY <1>2
  <2> QED
    BY <1>2, <2>1 DEF Unseen
<1>4. \E first \in 1 .. Len(more) :
          /\ Begins(p, more, first)
          /\ \A i \in first .. Len(more) : more[i].of \in {p} \cup others
  <2>1. Begins(p, more, Len(some) + 1)
    BY <1>1, <1>2, <1>3 DEF Begins
  <2> QED
    BY <1>1, <1>2, <2>1
<1>5. TextsGo(p, more, events, <<>>)
  <2>1. /\ 0 \in 0 .. Len(<<>>)
        /\ [i \in 1 .. 0 |-> 0] \in [1 .. 0 -> 1 .. Len(more)]
        /\ [i \in 0 + 1 .. Len(<<>>) |-> 0] \in [0 + 1 .. Len(<<>>) -> 1 .. Len(events)]
    OBVIOUS
  <2>2. TextsAt(p, more, events, <<>>, 0, [i \in 1 .. 0 |-> 0], [i \in 0 + 1 .. Len(<<>>) |-> 0])
    BY DEF TextsAt
  <2> QED
    BY <2>1, <2>2 DEF TextsGo
<1>6. EndGoes(p, more, events, FALSE)
  <2>1. NoEnd(p, more)
    BY <1>1, <1>2, <1>3 DEF NoEnd
  <2>2. \A i \in 1 .. Len(events) : events[i].of = p => events[i].type \notin Ends
    BY DEF Unseen, NoneComes, Comes, Shows, Ends
  <2> QED
    BY <2>1, <2>2 DEF EndGoes
<1> QED
  BY <1>2, <1>4, <1>5, <1>6 DEF Ongoing, more, b

\* When everything that waits shows, so does what is still to come.
LEMMA OthersShown ==
    ASSUME NEW p, NEW some \in Seq(Blocks), NEW more \in Seq(Blocks), Extends(more, some),
           NEW events \in Seq(Events), Rendered(some, events, Len(events), more),
           NoneComes(p, events)
    PROVE  \A i \in Len(some) + 1 .. Len(more) : more[i].of # p
<1>1. PICK source \in [Len(some) + 1 .. Len(more) -> 1 .. Len(events)],
           last \in [1 .. Len(events) -> Nat] :
        RenderedBy(some, events, Len(events), more, source, last)
  BY DEF Rendered
<1> SUFFICES ASSUME NEW i \in Len(some) + 1 .. Len(more), more[i].of = p PROVE FALSE
  OBVIOUS
<1>2. source[i] \in 1 .. Len(events)
  BY <1>1
<1>3. Comes(p, events, source[i])
  BY <1>1 DEF RenderedBy, Comes
<1> QED
  BY <1>2, <1>3 DEF NoneComes

LEMMA OngoingShown ==
    ASSUME NEW p, NEW ended \in BOOLEAN, NEW others,
           NEW some \in Seq(Blocks), NEW more \in Seq(Blocks), Extends(more, some),
           NEW events \in Seq(Events), Rendered(some, events, Len(events), more),
           \A i \in 1 .. Len(events) :
               events[i].type \in Shows => events[i].of \in {p} \cup others,
           NEW texts \in Seq(Screen!Texts),
           Ongoing(p, some, events, texts, ended, others)
    PROVE  Ongoing(p, more, <<>>, texts, ended, others)
<1> DEFINE new == Len(some) + 1 .. Len(more)
<1>1. /\ Len(some) \in Nat /\ Len(more) \in Nat /\ Len(some) <= Len(more)
      /\ Len(events) \in Nat /\ Len(texts) \in Nat
      /\ \A i \in 1 .. Len(some) : more[i] = some[i]
      /\ 1 .. Len(some) \subseteq 1 .. Len(more)
  BY DEF Extends
<1>2. PICK source \in [new -> 1 .. Len(events)], last \in [1 .. Len(events) -> Nat] :
        RenderedBy(some, events, Len(events), more, source, last)
  BY DEF Rendered
<1>3. /\ \A i, j \in new : i < j => source[i] <= source[j]
      /\ \A i \in new :
            /\ more[i].of = events[source[i]].of /\ more[i].kind # "user"
            /\ events[source[i]].type \in Shows
            /\ i <= last[source[i]] /\ source[i] \in 1 .. Len(events)
            /\ more[i].kind = "summary" =>
                  i = last[source[i]] /\ events[source[i]].type \in Ends
      /\ \A e \in 1 .. Len(events) : events[e].type \in Shows =>
            /\ last[e] \in new /\ source[last[e]] = e
            /\ IF events[e].type = "completed"
               THEN more[last[e]] =
                        Screen!Block("assistant", events[e].of, events[e].text)
               ELSE more[last[e]].kind = "summary"
  BY <1>2 DEF RenderedBy
<1>4. \A i \in new : more[i].of = p => Comes(p, events, source[i])
  BY <1>3 DEF Comes
<1>5. \A i \in 1 .. Len(more) : i \in 1 .. Len(some) \/ i \in new
  BY <1>1
<1>6. \A i \in new, j \in 1 .. Len(some) : j < i
  BY <1>1
<1>7. new \subseteq 1 .. Len(more)
  BY <1>1
<1> HIDE DEF new
<1>8. \E first \in 1 .. Len(more) :
          /\ Begins(p, more, first)
          /\ \A i \in first .. Len(more) : more[i].of \in {p} \cup others
  <2>1. PICK first \in 1 .. Len(some) :
            /\ Begins(p, some, first)
            /\ \A i \in first .. Len(some) : some[i].of \in {p} \cup others
    BY DEF Ongoing
  <2>2. Begins(p, more, first)
    <3>1. more[first].of = p /\ more[first].kind = "user"
      BY <1>1, <2>1 DEF Begins
    <3>2. ASSUME NEW i \in 1 .. Len(more), more[i].of = p
          PROVE  first <= i /\ (more[i].kind = "user" => i = first)
      <4>1. CASE i \in 1 .. Len(some)
        BY <1>1, <2>1, <3>2, <4>1 DEF Begins
      <4>2. CASE i \in new
        <5>1. first < i
          BY <1>6, <4>2
        <5>2. more[i].kind # "user"
          BY <1>3, <4>2
        <5> QED
          BY <5>1, <5>2
      <4> QED
        BY <1>5, <4>1, <4>2
    <3> QED
      BY <3>1, <3>2 DEF Begins
  <2>3. ASSUME NEW i \in first .. Len(more) PROVE more[i].of \in {p} \cup others
    <3>1. i \in 1 .. Len(more)
      BY <1>1
    <3>2. CASE i \in 1 .. Len(some)
      BY <1>1, <2>1, <3>2
    <3>3. CASE i \in new
      BY <1>3, <3>3
    <3> QED
      BY <1>5, <3>1, <3>2, <3>3
  <2> QED
    BY <1>1, <2>2, <2>3
<1>9. TextsGo(p, more, <<>>, texts)
  <2>1. PICK n \in 0 .. Len(texts) :
            \E place \in [1 .. n -> 1 .. Len(some)],
               event \in [n + 1 .. Len(texts) -> 1 .. Len(events)] :
              TextsAt(p, some, events, texts, n, place, event)
    BY DEF Ongoing, TextsGo
  <2>2. PICK place \in [1 .. n -> 1 .. Len(some)],
             event \in [n + 1 .. Len(texts) -> 1 .. Len(events)] :
          TextsAt(p, some, events, texts, n, place, event)
    BY <2>1
  <2>3. /\ \A i, j \in 1 .. n : i < j => place[i] < place[j]
        /\ \A i \in 1 .. n : some[place[i]] = Screen!Block("assistant", p, texts[i])
        /\ \A i, j \in n + 1 .. Len(texts) : i < j => event[i] < event[j]
        /\ \A i \in n + 1 .. Len(texts) :
              events[event[i]] = Screen!Event("completed", p, texts[i])
    BY <2>2 DEF TextsAt
  <2>4. \A i \in n + 1 .. Len(texts) :
            /\ event[i] \in 1 .. Len(events)
            /\ events[event[i]].type = "completed" /\ events[event[i]].type \in Shows
            /\ events[event[i]].of = p /\ events[event[i]].text = texts[i]
    <3>1. ASSUME NEW i \in n + 1 .. Len(texts)
          PROVE  /\ event[i] \in 1 .. Len(events)
                 /\ events[event[i]].type = "completed" /\ events[event[i]].type \in Shows
                 /\ events[event[i]].of = p /\ events[event[i]].text = texts[i]
      <4>1. event[i] \in 1 .. Len(events)
        OBVIOUS
      <4>2. events[event[i]] = Screen!Event("completed", p, texts[i])
        BY <2>3
      <4> QED
        BY <4>1, <4>2 DEF Screen!Event, Shows
    <3> QED
      BY <3>1
  <2>5. \A i \in n + 1 .. Len(texts) :
            /\ last[event[i]] \in new /\ source[last[event[i]]] = event[i]
            /\ more[last[event[i]]] = Screen!Block("assistant", p, texts[i])
    <3>1. ASSUME NEW i \in n + 1 .. Len(texts)
          PROVE  /\ last[event[i]] \in new /\ source[last[event[i]]] = event[i]
                 /\ more[last[event[i]]] = Screen!Block("assistant", p, texts[i])
      <4> DEFINE e == event[i]
      <4>1. /\ e \in 1 .. Len(events)
            /\ events[e].type = "completed" /\ events[e].type \in Shows
            /\ events[e].of = p /\ events[e].text = texts[i]
        BY <2>4
      <4> HIDE DEF e
      <4>2. /\ last[e] \in new /\ source[last[e]] = e
            /\ more[last[e]] = Screen!Block("assistant", events[e].of, events[e].text)
        BY <1>3, <4>1
      <4> QED
        BY <4>1, <4>2 DEF e
    <3> QED
      BY <3>1
  <2> DEFINE place2 == [i \in 1 .. Len(texts) |->
                           IF i \in 1 .. n THEN place[i] ELSE last[event[i]]]
  <2>6. \A i \in 1 .. Len(texts) : i \in 1 .. n \/ i \in n + 1 .. Len(texts)
    BY <1>1
  <2>7. \A i \in 1 .. Len(texts) :
            /\ i \in 1 .. n => place2[i] = place[i] /\ place2[i] \in 1 .. Len(some)
            /\ i \notin 1 .. n => place2[i] = last[event[i]] /\ place2[i] \in new
    BY <2>5, <2>6
  <2>8. place2 \in [1 .. Len(texts) -> 1 .. Len(more)]
    BY <1>1, <1>7, <2>7
  <2> HIDE DEF place2
  <2>9. ASSUME NEW i \in 1 .. Len(texts), NEW j \in 1 .. Len(texts), i < j
        PROVE  place2[i] < place2[j]
    <3>1. CASE j \in 1 .. n
      <4>1. i \in 1 .. n
        BY <2>9, <3>1
      <4> QED
        BY <2>3, <2>7, <2>9, <3>1, <4>1
    <3>2. CASE j \notin 1 .. n /\ i \in 1 .. n
      BY <1>6, <2>7, <3>2
    <3>3. CASE j \notin 1 .. n /\ i \notin 1 .. n
      <4>1. i \in n + 1 .. Len(texts) /\ j \in n + 1 .. Len(texts)
        BY <2>6, <3>3
      <4>2. event[i] < event[j]
        BY <2>3, <2>9, <4>1
      <4>3. /\ place2[i] \in new /\ place2[j] \in new
            /\ source[place2[i]] = event[i] /\ source[place2[j]] = event[j]
        BY <2>5, <2>7, <3>3, <4>1
      <4>4. event[i] \in Int /\ event[j] \in Int /\ place2[i] \in Int /\ place2[j] \in Int
        <5>1. event[i] \in 1 .. Len(events) /\ event[j] \in 1 .. Len(events)
          BY <4>1
        <5>2. place2[i] \in 1 .. Len(more) /\ place2[j] \in 1 .. Len(more)
          BY <1>7, <4>3
        <5> QED
          BY <1>1, <5>1, <5>2, InInterval
      <4>5. place2[i] # place2[j] /\ ~(place2[j] < place2[i])
        BY <1>3, <4>2, <4>3, <4>4
      <4> QED
        BY <4>4, <4>5
    <3> QED
      BY <3>1, <3>2, <3>3
  <2>10. ASSUME NEW i \in 1 .. Len(texts)
         PROVE  more[place2[i]] = Screen!Block("assistant", p, texts[i])
    <3>1. CASE i \in 1 .. n
      BY <1>1, <2>3, <2>7, <3>1
    <3>2. CASE i \notin 1 .. n
      BY <2>5, <2>6, <2>7, <3>2
    <3> QED
      BY <3>1, <3>2
  <2> DEFINE none == [i \in Len(texts) + 1 .. Len(texts) |-> 0]
  <2>11. /\ Len(texts) + 1 .. Len(texts) = {} /\ Len(texts) \in 0 .. Len(texts)
         /\ none \in [Len(texts) + 1 .. Len(texts) -> 1 .. Len(<<>>)]
    BY <1>1
  <2> HIDE DEF none
  <2>12. TextsAt(p, more, <<>>, texts, Len(texts), place2, none)
    BY <2>9, <2>10, <2>11 DEF TextsAt
  <2> QED
    BY <2>8, <2>11, <2>12 DEF TextsGo
<1>10. EndGoes(p, more, <<>>, ended)
  <2>1. EndGoes(p, some, events, ended)
    BY DEF Ongoing
  <2>2. NoneComes(p, <<>>) /\ \A i \in 1 .. Len(<<>>) : FALSE
    BY DEF NoneComes
  <2>3. CASE ~ended
    <3>1. ASSUME NEW i \in 1 .. Len(more), more[i].of = p PROVE more[i].kind # "summary"
      <4>1. CASE i \in 1 .. Len(some)
        BY <1>1, <2>1, <2>3, <3>1, <4>1 DEF EndGoes, NoEnd
      <4>2. CASE i \in new
        BY <1>3, <2>1, <2>3, <3>1, <4>2 DEF EndGoes
      <4> QED
        BY <1>5, <4>1, <4>2
    <3>2. NoEnd(p, more)
      BY <3>1 DEF NoEnd
    <3> QED
      BY <2>2, <2>3, <3>2 DEF EndGoes
  <2>4. CASE ended /\ NoEnd(p, some) /\ \E e \in 1 .. Len(events) : EndComes(p, events, e)
    <3>1. PICK e \in 1 .. Len(events) : EndComes(p, events, e)
      BY <2>4
    <3>2. /\ events[e].of = p /\ events[e].type \in Ends /\ events[e].type \in Shows
          /\ events[e].type # "completed"
      BY <3>1 DEF EndComes, Ends, Shows
    <3>3. /\ last[e] \in new /\ source[last[e]] = e
          /\ more[last[e]].kind = "summary" /\ more[last[e]].of = p
      BY <1>3, <3>2
    <3>4. ASSUME NEW i \in 1 .. Len(more), more[i].of = p
          PROVE  i <= last[e] /\ (more[i].kind = "summary" => i = last[e])
      <4>1. CASE i \in 1 .. Len(some)
        <5>1. i < last[e] /\ i <= last[e]
          BY <1>6, <3>3, <4>1
        <5>2. more[i].kind # "summary"
          BY <1>1, <2>4, <3>4, <4>1 DEF NoEnd
        <5> QED
          BY <5>1, <5>2
      <4>2. CASE i \in new
        <5>1. Comes(p, events, source[i]) /\ source[i] \in 1 .. Len(events)
          BY <1>3, <1>4, <3>4, <4>2
        <5>2. source[i] <= e /\ (events[source[i]].type \in Ends => source[i] = e)
          BY <3>1, <5>1 DEF EndComes
        <5>3. i \in Int /\ last[e] \in Int /\ source[i] \in Int /\ e \in Int
          BY <1>7, <3>3, <5>1
        <5>4. i <= last[e]
          <6>1. CASE source[i] = e
            BY <1>3, <4>2, <6>1
          <6>2. CASE source[i] # e
            BY <1>3, <3>3, <4>2, <5>2, <5>3, <6>2
          <6> QED
            BY <6>1, <6>2
        <5>5. more[i].kind = "summary" => i = last[e]
          BY <1>3, <4>2, <5>2
        <5> QED
          BY <5>4, <5>5
      <4> QED
        BY <1>5, <4>1, <4>2
    <3>5. Closes(p, more, last[e])
      BY <3>3, <3>4 DEF Closes
    <3> QED
      BY <1>7, <2>2, <2>4, <3>3, <3>5 DEF EndGoes
  <2>5. CASE ended /\ NoneComes(p, events) /\ \E k \in 1 .. Len(some) : Closes(p, some, k)
    <3>1. PICK k \in 1 .. Len(some) : Closes(p, some, k)
      BY <2>5
    <3>2. \A i \in Len(some) + 1 .. Len(more) : more[i].of # p
      BY <2>5, OthersShown
    <3>3. k \in 1 .. Len(more) /\ Closes(p, more, k)
      BY <3>1, <3>2, EdgesKept
    <3> QED
      BY <2>2, <2>5, <3>3 DEF EndGoes
  <2> QED
    BY <2>1, <2>3, <2>4, <2>5 DEF EndGoes
<1> QED
  BY <1>8, <1>9, <1>10 DEF Ongoing

\* A turn that is finished is told.
LEMMA FinishedIsTold ==
    ASSUME NEW p \in Prompts, NEW others, others \subseteq disturbed \cup turnsCancelled,
           blocks \in Seq(Blocks), mounted \in Nat, shownLog[p] \in Seq(Screen!Texts),
           Finished(p, blocks, mounted, waiting, shownLog[p], others)
    PROVE  Screen!TurnIsTold(p)
<1> DEFINE texts == shownLog[p]
<1>1. PICK first \in 1 .. Len(blocks), last \in 1 .. Len(blocks) :
          last <= mounted /\ FinishedAt(p, blocks, texts, others, first, last)
  BY DEF Finished
<1>2. /\ blocks[first].of = p /\ blocks[first].kind = "user"
      /\ \A i \in 1 .. Len(blocks) :
            blocks[i].of = p => first <= i /\ (blocks[i].kind = "user" => i = first)
      /\ blocks[last].of = p /\ blocks[last].kind = "summary"
      /\ \A i \in 1 .. Len(blocks) :
            blocks[i].of = p => i <= last /\ (blocks[i].kind = "summary" => i = last)
      /\ \A i \in first .. last : blocks[i].of \in {p} \cup others
  BY <1>1 DEF FinishedAt, Begins, Closes
<1>3. PICK place \in [1 .. Len(texts) -> 1 .. Len(blocks)] :
          /\ \A i, j \in 1 .. Len(texts) : i < j => place[i] < place[j]
          /\ \A i \in 1 .. Len(texts) :
                blocks[place[i]] = Screen!Block("assistant", p, texts[i])
  BY <1>1 DEF FinishedAt
<1>4. /\ DOMAIN blocks = 1 .. Len(blocks) /\ DOMAIN texts = 1 .. Len(texts)
      /\ Len(blocks) \in Nat /\ Len(texts) \in Nat
  OBVIOUS
<1>5. first < last
  BY <1>2, <1>4
<1>6. Screen!Positions("user", p) = {first} /\ Screen!Positions("summary", p) = {last}
  BY <1>2, <1>4 DEF Screen!Positions
<1>7. Screen!Positions("assistant", p) \subseteq first .. last
  BY <1>2, <1>4 DEF Screen!Positions
<1>8. place \in [DOMAIN texts -> first .. last]
  <2>1. ASSUME NEW i \in 1 .. Len(texts) PROVE place[i] \in first .. last
    <3>1. blocks[place[i]].of = p
      <4>1. blocks[place[i]] = Screen!Block("assistant", p, texts[i])
        BY <1>3
      <4> QED
        BY <4>1 DEF Screen!Block
    <3> QED
      BY <1>2, <1>4, <3>1
  <2> QED
    BY <1>4, <2>1
<1> HIDE DEF texts
<1>9. /\ \A i \in DOMAIN texts : blocks[place[i]] = Screen!Block("assistant", p, texts[i])
      /\ \A i, j \in DOMAIN texts : i < j => place[i] < place[j]
  BY <1>3, <1>4
<1>10. \A i \in first .. last : blocks[i].of \in {p} \cup disturbed \cup turnsCancelled
  BY <1>2
<1> QED
  BY <1>1, <1>4, <1>5, <1>6, <1>7, <1>8, <1>9, <1>10 DEF Screen!TurnIsTold, texts

-----------------------------------------------------------------------------
(* The session on the screen: its types.                                   *)

Line == {"none", "ready", "flush", "start"} \X (0 .. MaxPrompts)

SinkTypes == waiting \in Seq(Events) /\ drainPosted \in BOOLEAN /\ posted \in Seq(Line)
ViewTypes ==
    /\ handler \in Line /\ tail \in [text : Screen!Texts, error : BOOLEAN]
    /\ blocks \in Seq(Blocks) /\ mounted \in 0 .. Len(blocks)
TurnTypes ==
    /\ promptAt \in [Prompts -> Screen!Places] /\ step \in [Prompts -> Screen!Steps]
    /\ attempt \in [Prompts -> Screen!Texts]
    /\ shownRound \in [Prompts -> Seq(Screen!Texts)]
    /\ shownLog \in [Prompts -> Seq(Screen!Texts)]
    /\ turnWorker \in 0 .. MaxPrompts /\ queued \in Seq(Prompts)
    /\ turnsCancelled \subseteq Prompts /\ disturbed \subseteq Prompts
    /\ said \in 0 .. MaxPieces
ScreenTypes == SinkTypes /\ ViewTypes /\ TurnTypes

Once(line, c) == \A i, j \in 1 .. Len(line) : line[i] = c /\ line[j] = c => i = j

\* One more at the end of a line, and one less at its head.
LEMMA PutLast ==
    ASSUME NEW S, NEW line \in Seq(S), NEW x \in S
    PROVE  /\ Append(line, x) \in Seq(S) /\ line \o <<x>> = Append(line, x)
           /\ \A c : InLine(Append(line, x), c) <=> InLine(line, c) \/ c = x
           /\ \A c : Once(line, c) /\ (c = x => ~InLine(line, c)) => Once(Append(line, x), c)
<1> DEFINE more == Append(line, x)
<1>1. /\ more \in Seq(S) /\ Len(line) \in Nat /\ Len(more) = Len(line) + 1
      /\ \A i \in 1 .. Len(line) : more[i] = line[i]
      /\ more[Len(line) + 1] = x
  BY AppendProperties
<1>2. line \o <<x>> = more
  BY AppendIsConcat
<1> HIDE DEF more
<1>3. \A i \in 1 .. Len(more) : i \in 1 .. Len(line) \/ i = Len(line) + 1
  BY <1>1
<1>4. 1 .. Len(line) \subseteq 1 .. Len(more) /\ Len(line) + 1 \in 1 .. Len(more)
  BY <1>1
<1>5. \A c : InLine(more, c) <=> InLine(line, c) \/ c = x
  BY <1>1, <1>3, <1>4 DEF InLine
<1>6. ASSUME NEW c, Once(line, c), c = x => ~InLine(line, c) PROVE Once(more, c)
  BY <1>1, <1>3, <1>6 DEF Once, InLine
<1> QED
  BY <1>1, <1>2, <1>5, <1>6 DEF more

LEMMA TakeFirst ==
    ASSUME NEW S, NEW line \in Seq(S), line # <<>>
    PROVE  /\ Head(line) \in S /\ Tail(line) \in Seq(S)
           /\ \A c : InLine(line, c) <=> c = Head(line) \/ InLine(Tail(line), c)
           /\ \A c : Once(line, c) =>
                  Once(Tail(line), c) /\ (c = Head(line) => ~InLine(Tail(line), c))
<1> DEFINE rest == Tail(line)
<1>1. /\ Head(line) \in S /\ rest \in Seq(S) /\ Len(line) \in Nat /\ Len(line) > 0
      /\ Len(rest) = Len(line) - 1 /\ Head(line) = line[1]
      /\ \A i \in 1 .. Len(rest) : rest[i] = line[i + 1]
  BY HeadTailProperties
<1> HIDE DEF rest
<1>2. /\ \A i \in 1 .. Len(line) : i # 1 => i - 1 \in 1 .. Len(rest) /\ rest[i - 1] = line[i]
      /\ 1 \in 1 .. Len(line)
      /\ \A i \in 1 .. Len(rest) : i + 1 \in 1 .. Len(line) /\ i + 1 # 1
  BY <1>1
<1>3. ASSUME NEW c PROVE InLine(line, c) <=> c = Head(line) \/ InLine(rest, c)
  <2>1. ASSUME InLine(line, c) PROVE c = Head(line) \/ InLine(rest, c)
    BY <1>1, <1>2, <2>1 DEF InLine
  <2>2. ASSUME InLine(rest, c) PROVE InLine(line, c)
    BY <1>1, <1>2, <2>2 DEF InLine
  <2>3. InLine(line, Head(line))
    BY <1>1, <1>2 DEF InLine
  <2> QED
    BY <2>1, <2>2, <2>3
<1>4. ASSUME NEW c, Once(line, c)
      PROVE  Once(rest, c) /\ (c = Head(line) => ~InLine(rest, c))
  <2>1. ASSUME NEW i \in 1 .. Len(rest), NEW j \in 1 .. Len(rest), rest[i] = c, rest[j] = c
        PROVE  i = j
    <3>1. i + 1 = j + 1
      BY <1>1, <1>2, <1>4, <2>1 DEF Once
    <3> QED
      BY <3>1
  <2>2. ASSUME NEW i \in 1 .. Len(rest), rest[i] = c, c = Head(line) PROVE FALSE
    <3>1. i + 1 = 1
      BY <1>1, <1>2, <1>4, <2>2 DEF Once
    <3> QED
      BY <3>1
  <2> QED
    BY <2>1, <2>2 DEF Once, InLine
<1> QED
  BY <1>1, <1>3, <1>4 DEF rest

\* A message to take what waits is posted, or is about to be.
DrainIsOnItsWay ==
    /\ drainPosted => emitter = "posting" \/ InLine(posted, Screen!Ready)
    /\ waiting # <<>> /\ ~drainPosted => emitter = "appended"

LEMMA LineFacts ==
    /\ Screen!Ready \in Line
    /\ \A p \in Prompts : Screen!Flush(p) \in Line /\ Screen!Start(p) \in Line
    /\ \A p, q : Screen!Flush(p) # Screen!Start(q) /\ Screen!Flush(p) # Screen!Ready
                 /\ Screen!Start(p) # Screen!Ready
    /\ \A p, q : Screen!Flush(p) = Screen!Flush(q) \/ Screen!Start(p) = Screen!Start(q) => p = q
    /\ Prompts \subseteq 1 .. MaxPrompts /\ MaxPrompts \in Nat
  BY ScreenAssumption
     DEF Screen!Ready, Screen!Flush, Screen!Start, Line, Prompts, Screen!Prompts

\* What is asked of the application: to take what waits, and to flush.
Requests(p, flush) ==
    /\ posted' \in Seq(Line) /\ drainPosted' \in BOOLEAN
    /\ \A c : InLine(posted', c) =>
           InLine(posted, c) \/ c = Screen!Ready \/ (flush /\ c = Screen!Flush(p))
    /\ \A c : InLine(posted, c) => InLine(posted', c)
    /\ \A c : /\ Once(posted, c) /\ c # Screen!Ready
              /\ flush /\ c = Screen!Flush(p) => ~InLine(posted, c)
              => Once(posted', c)

LEMMA DrainRequested ==
    ASSUME SinkTypes, NEW p \in Prompts, NEW flush \in BOOLEAN,
           Screen!RequestDrain(IF flush THEN <<Screen!Flush(p)>> ELSE <<>>)
    PROVE  /\ Requests(p, flush)
           /\ DrainIsOnItsWay /\ UNCHANGED emitter => DrainIsOnItsWay'
<1> DEFINE line == IF drainPosted \/ waiting' = <<>> THEN posted ELSE Append(posted, Screen!Ready)
<1>1. /\ line \in Seq(Line)
      /\ \A c : InLine(line, c) => InLine(posted, c) \/ c = Screen!Ready
      /\ \A c : InLine(posted, c) => InLine(line, c)
      /\ \A c : Once(posted, c) /\ c # Screen!Ready => Once(line, c)
      /\ ~drainPosted /\ waiting' # <<>> => InLine(line, Screen!Ready)
      /\ posted \o <<Screen!Ready>> = Append(posted, Screen!Ready)
  <2>1. posted \in Seq(Line) /\ Screen!Ready \in Line
    BY LineFacts DEF SinkTypes
  <2>2. CASE drainPosted \/ waiting' = <<>>
    BY <2>1, <2>2, PutLast
  <2>3. CASE ~(drainPosted \/ waiting' = <<>>)
    BY <2>1, <2>3, PutLast
  <2> QED
    BY <2>2, <2>3
<1>2. /\ posted' = IF flush THEN Append(line, Screen!Flush(p)) ELSE line
      /\ drainPosted' = (drainPosted \/ waiting' # <<>>)
  <2>1. line \o <<>> = line /\ line \o <<Screen!Flush(p)>> = Append(line, Screen!Flush(p))
    <3> HIDE DEF line
    <3> QED
      BY <1>1, LineFacts, ConcatEmptySeq, PutLast
  <2>2. drainPosted \in BOOLEAN
    BY DEF SinkTypes
  <2>3. CASE drainPosted \/ waiting' = <<>>
    BY <2>1, <2>2, <2>3 DEF Screen!RequestDrain
  <2>4. CASE ~(drainPosted \/ waiting' = <<>>)
    BY <1>1, <2>1, <2>2, <2>4 DEF Screen!RequestDrain
  <2> QED
    BY <2>3, <2>4
<1> HIDE DEF line
<1>3. drainPosted \in BOOLEAN
  BY DEF SinkTypes
<1>4. CASE flush
  <2>1. posted' = Append(line, Screen!Flush(p))
    BY <1>2, <1>4
  <2>2. /\ posted' \in Seq(Line)
        /\ \A c : InLine(posted', c) <=> InLine(line, c) \/ c = Screen!Flush(p)
        /\ \A c : Once(line, c) /\ (c = Screen!Flush(p) => ~InLine(line, c)) => Once(posted', c)
    BY <1>1, <2>1, LineFacts, PutLast
  <2>3. Screen!Flush(p) # Screen!Ready
    BY LineFacts
  <2> QED
    BY <1>1, <1>2, <1>3, <1>4, <2>2, <2>3 DEF Requests, DrainIsOnItsWay
<1>5. CASE ~flush
  <2>1. posted' = line
    BY <1>2, <1>5
  <2> QED
    BY <1>1, <1>2, <1>3, <1>5, <2>1 DEF Requests, DrainIsOnItsWay
<1> QED
  BY <1>4, <1>5

-----------------------------------------------------------------------------
(* Where the turns are.                                                    *)

\* Each prompt that waits does so in one place, and once.
PromptsWaitInLine ==
    \A p \in Prompts :
        /\ InLine(queued, p) => promptAt[p] = "queued"
        /\ InLine(posted, Screen!Start(p)) => promptAt[p] = "posted"
        /\ Once(queued, p) /\ Once(posted, Screen!Start(p))

\* Where a turn that was not cut short can be.
NotBegun == {"none", "queued", "posted", "started"}
PlacesFit ==
    \A p \in Prompts \ disturbed :
        /\ promptAt[p] \notin {"cancelled", "interrupted"}
        /\ promptAt[p] = "done" => step[p] = "over"
        /\ promptAt[p] \in NotBegun \cup {"prompt"} => step[p] = "begin"

\* A turn awaits each of its flushes, and by then nothing of it waits any more.
FlushesAreAwaited ==
    \A p \in Prompts \ disturbed :
        /\ InLine(posted, Screen!Flush(p)) =>
              promptAt[p] = "flushing" /\ handler # Screen!Flush(p)
        /\ Once(posted, Screen!Flush(p))
        /\ handler = Screen!Flush(p) =>
              promptAt[p] = "flushing" /\ NoneComes(p, waiting)

\* It has told everything, it is cancelled or to be, it goes on.
Over(p) == promptAt[p] = "done" \/ (promptAt[p] = "running" /\ step[p] = "over")
Doomed == disturbed \cup {p \in turnsCancelled : ~Over(p)}
Active(p) ==
    /\ promptAt[p] \in {"started", "prompt", "running", "flushing"}
    /\ ~Over(p) /\ p \notin disturbed \cup turnsCancelled

OneIsActive == \A p, q \in Prompts : Active(p) /\ Active(q) => p = q

EventsAreOfTurns ==
    \A i \in 1 .. Len(waiting) :
        waiting[i].type \in Shows =>
            \E p \in Prompts : waiting[i].of = p /\ (Active(p) \/ p \in Doomed)

\* The story of each that nobody cancelled.
StoryOf(p) ==
    IF promptAt[p] \in NotBegun
    THEN Unseen(p, blocks, waiting) /\ shownLog[p] = <<>> /\ shownRound[p] = <<>>
    ELSE IF Over(p) THEN Finished(p, blocks, mounted, waiting, shownLog[p], Doomed)
    ELSE Ongoing(p, blocks, waiting, shownLog[p] \o shownRound[p], step[p] = "over", Doomed)
Stories == \A p \in Prompts \ Doomed : StoryOf(p)

Orderly ==
    /\ PromptsWaitInLine /\ PlacesFit /\ FlushesAreAwaited
    /\ OneIsActive /\ EventsAreOfTurns
ScreenInv == ScreenTypes /\ DrainIsOnItsWay /\ Orderly /\ Stories

LEMMA GoingIsActive ==
    ASSUME PlacesFit, TurnTypes, NEW p \in Prompts, p \notin Doomed
    PROVE  Active(p) \/ Over(p) \/ promptAt[p] \in {"none", "queued", "posted"}
<1>1. p \notin disturbed /\ promptAt[p] \in Screen!Places
  BY DEF Doomed, TurnTypes
<1>2. promptAt[p] \notin {"cancelled", "interrupted"}
  BY <1>1 DEF PlacesFit
<1> QED
  BY <1>1, <1>2 DEF Doomed, Active, Over, Screen!Places

\* What leaves the story of a turn as it is.
LEMMA StoryKept ==
    ASSUME ScreenTypes, ScreenTypes', NEW q \in Prompts, StoryOf(q),
           Doomed \subseteq Doomed',
           Extends(blocks', blocks), Extends(waiting', waiting), mounted <= mounted',
           \A i \in Len(blocks) + 1 .. Len(blocks') :
               /\ blocks'[i].of # q
               /\ blocks'[i].of \in Doomed' \/ promptAt[q] \in NotBegun \/ Over(q),
           \A i \in Len(waiting) + 1 .. Len(waiting') : ~Comes(q, waiting', i),
           promptAt'[q] \in NotBegun <=> promptAt[q] \in NotBegun,
           Over(q)' <=> Over(q), step'[q] = "over" <=> step[q] = "over",
           shownLog'[q] = shownLog[q], shownRound'[q] = shownRound[q]
    PROVE  StoryOf(q)'
<1>1. /\ blocks \in Seq(Blocks) /\ blocks' \in Seq(Blocks)
      /\ waiting \in Seq(Events) /\ waiting' \in Seq(Events)
      /\ mounted \in Nat /\ mounted' \in Nat
      /\ shownLog[q] \in Seq(Screen!Texts) /\ shownRound[q] \in Seq(Screen!Texts)
  BY DEF ScreenTypes, SinkTypes, ViewTypes, TurnTypes
<1>2. \A i \in 1 .. Len(blocks') : i \in 1 .. Len(blocks) \/ i \in Len(blocks) + 1 .. Len(blocks')
  BY <1>1
<1>3. \A i \in 1 .. Len(waiting') :
          i \in 1 .. Len(waiting) \/ i \in Len(waiting) + 1 .. Len(waiting')
  BY <1>1
<1>4. NoneComes(q, waiting) => NoneComes(q, waiting')
  BY <1>3 DEF NoneComes, Comes, Extends
<1>5. CASE promptAt[q] \in NotBegun
  <2>1. Unseen(q, blocks, waiting) /\ shownLog[q] = <<>> /\ shownRound[q] = <<>>
    BY <1>5 DEF StoryOf
  <2>2. Unseen(q, blocks', waiting')
    BY <1>2, <1>4, <2>1 DEF Unseen, Extends
  <2> QED
    BY <1>5, <2>1, <2>2 DEF StoryOf
<1>6. CASE promptAt[q] \notin NotBegun /\ Over(q)
  <2>1. Finished(q, blocks, mounted, waiting, shownLog[q], Doomed)
    BY <1>6 DEF StoryOf
  <2>2. NoneComes(q, waiting')
    BY <1>4, <2>1 DEF Finished
  <2>3. Finished(q, blocks', mounted', waiting', shownLog[q], Doomed')
    BY <1>1, <2>1, <2>2, FinishedKept
  <2> QED
    BY <1>6, <2>3 DEF StoryOf
<1>7. CASE promptAt[q] \notin NotBegun /\ ~Over(q)
  <2> DEFINE texts == shownLog[q] \o shownRound[q]
             ended == step[q] = "over"
  <2>1. Ongoing(q, blocks, waiting, texts, ended, Doomed)
    BY <1>7 DEF StoryOf
  <2>2. texts \in Seq(Screen!Texts) /\ Extends(texts, texts)
    <3>1. texts \in Seq(Screen!Texts)
      BY <1>1, ConcatProperties
    <3> HIDE DEF texts
    <3> QED
      BY <3>1 DEF Extends
  <2>3. ended \in BOOLEAN
    OBVIOUS
  <2> HIDE DEF texts, ended
  <2>4. Ongoing(q, blocks', waiting', texts, ended, Doomed')
    BY <1>1, <1>7, <2>1, <2>2, <2>3, OngoingKept
  <2> QED
    BY <1>7, <2>4 DEF StoryOf, texts, ended
<1> QED
  BY <1>5, <1>6, <1>7

\* A step that shows nothing, and changes no turn's part of it.
Rests(q) ==
    /\ promptAt'[q] \in NotBegun <=> promptAt[q] \in NotBegun
    /\ Over(q)' <=> Over(q)
    /\ step'[q] = "over" <=> step[q] = "over"
    /\ shownLog'[q] = shownLog[q] /\ shownRound'[q] = shownRound[q]

LEMMA ExtendsSame == \A S : \A line \in Seq(S) : Extends(line, line)
  BY DEF Extends

LEMMA ExtendsMore ==
    ASSUME NEW S, NEW line \in Seq(S), NEW x \in S
    PROVE  /\ Append(line, x) \in Seq(S) /\ Extends(Append(line, x), line)
           /\ \A i \in Len(line) + 1 .. Len(Append(line, x)) : Append(line, x)[i] = x
  BY AppendProperties DEF Extends

LEMMA StoriesRest ==
    ASSUME ScreenTypes, ScreenTypes', Stories, Doomed \subseteq Doomed',
           UNCHANGED <<blocks, waiting>>, mounted <= mounted',
           \A q \in Prompts \ Doomed' : Rests(q)
    PROVE  Stories'
<1> SUFFICES ASSUME NEW q \in Prompts, q \notin Doomed' PROVE StoryOf(q)'
  BY DEF Stories
<1>1. StoryOf(q) /\ Rests(q)
  BY DEF Stories
<1>2. Len(blocks) \in Nat /\ Len(waiting) \in Nat
  BY DEF ScreenTypes, SinkTypes, ViewTypes
<1>3. Extends(blocks', blocks) /\ Extends(waiting', waiting)
  BY ExtendsSame DEF ScreenTypes, SinkTypes, ViewTypes
<1>4. /\ \A i \in Len(blocks) + 1 .. Len(blocks') : FALSE
      /\ \A i \in Len(waiting) + 1 .. Len(waiting') : FALSE
  BY <1>2
<1> QED
  BY <1>1, <1>3, <1>4, StoryKept DEF Rests

-----------------------------------------------------------------------------
(* The turn tells: what its steps have in common, and their stories.       *)

Tells(p, flush) ==
    /\ promptAt[p] = "running" /\ step[p] # "over" /\ p \notin turnsCancelled
    /\ promptAt'[p] = IF flush THEN "flushing" ELSE "running"
    /\ flush \/ step'[p] # "over"
    /\ \A q \in Prompts \ {p} :
          /\ promptAt'[q] = promptAt[q] /\ step'[q] = step[q]
          /\ shownLog'[q] = shownLog[q] /\ shownRound'[q] = shownRound[q]
    /\ Requests(p, flush)
    /\ \/ UNCHANGED waiting
       \/ \E e \in Events : e.of = p /\ waiting' = Append(waiting, e)
    /\ UNCHANGED <<queued, turnsCancelled, disturbed, handler, blocks, mounted>>

\* One event at the end of those that wait, and a message that asks to take it.
LEMMA Emitted ==
    ASSUME SinkTypes, NEW p \in Prompts, NEW type \in Screen!Types,
           NEW text \in Screen!Texts, NEW flush \in BOOLEAN,
           Screen!Emit(Screen!Event(type, p, text),
                       IF flush THEN <<Screen!Flush(p)>> ELSE <<>>)
    PROVE  /\ Requests(p, flush) /\ SinkTypes' /\ (DrainIsOnItsWay => DrainIsOnItsWay')
           /\ waiting' = Append(waiting, Screen!Event(type, p, text))
           /\ Screen!Event(type, p, text) \in Events
           /\ Screen!Event(type, p, text).of = p
<1>1. Screen!Event(type, p, text) \in Events /\ Screen!Event(type, p, text).of = p
  BY LineFacts DEF Screen!Event, Events
<1>2. /\ waiting' = Append(waiting, Screen!Event(type, p, text)) /\ UNCHANGED emitter
      /\ Screen!RequestDrain(IF flush THEN <<Screen!Flush(p)>> ELSE <<>>)
  BY DEF Screen!Emit
<1>3. Requests(p, flush) /\ (DrainIsOnItsWay => DrainIsOnItsWay')
  BY <1>2, DrainRequested
<1>4. waiting' \in Seq(Events)
  BY <1>1, <1>2 DEF SinkTypes
<1>5. SinkTypes'
  BY <1>3, <1>4, <1>2 DEF SinkTypes, Requests, Screen!RequestDrain
<1> QED
  BY <1>1, <1>2, <1>3, <1>5

LEMMA TellingKeeps ==
    ASSUME ScreenTypes, Orderly, ScreenTypes', NEW p \in Prompts, NEW flush \in BOOLEAN,
           Tells(p, flush)
    PROVE  Orderly' /\ Doomed' = Doomed
<1>1. /\ promptAt[p] = "running" /\ step[p] # "over" /\ p \notin turnsCancelled
      /\ promptAt'[p] \in {"flushing", "running"} /\ (promptAt'[p] = "flushing" <=> flush)
      /\ promptAt'[p] = "flushing" \/ step'[p] # "over"
      /\ \A q \in Prompts \ {p} : promptAt'[q] = promptAt[q] /\ step'[q] = step[q]
      /\ UNCHANGED <<queued, turnsCancelled, disturbed, handler>>
  BY DEF Tells
<1>2. \A q \in Prompts : Over(q)' <=> Over(q)
  BY <1>1 DEF Over
<1>3. Doomed' = Doomed
  BY <1>1, <1>2 DEF Doomed, ScreenTypes, TurnTypes
<1>4. \A q \in Prompts : Active(q)' <=> Active(q)
  BY <1>1, <1>2 DEF Active
<1>5. PromptsWaitInLine'
  <2> SUFFICES ASSUME NEW q \in Prompts
               PROVE  /\ InLine(queued', q) => promptAt'[q] = "queued"
                      /\ InLine(posted', Screen!Start(q)) => promptAt'[q] = "posted"
                      /\ Once(queued', q) /\ Once(posted', Screen!Start(q))
    BY DEF PromptsWaitInLine
  <2>1. /\ InLine(queued, q) => promptAt[q] = "queued"
        /\ InLine(posted, Screen!Start(q)) => promptAt[q] = "posted"
        /\ Once(queued, q) /\ Once(posted, Screen!Start(q))
    BY DEF Orderly, PromptsWaitInLine
  <2>2. Screen!Start(q) # Screen!Ready /\ Screen!Start(q) # Screen!Flush(p)
    BY LineFacts
  <2>3. /\ InLine(posted', Screen!Start(q)) => InLine(posted, Screen!Start(q))
        /\ Once(posted', Screen!Start(q))
    BY <2>1, <2>2 DEF Tells, Requests
  <2> QED
    BY <1>1, <2>1, <2>3
<1>6. PlacesFit'
  BY <1>1 DEF Orderly, PlacesFit, NotBegun
<1>7. FlushesAreAwaited'
  <2> SUFFICES ASSUME NEW q \in Prompts, q \notin disturbed
               PROVE  /\ InLine(posted', Screen!Flush(q)) =>
                            promptAt'[q] = "flushing" /\ handler' # Screen!Flush(q)
                      /\ Once(posted', Screen!Flush(q))
                      /\ handler' = Screen!Flush(q) =>
                            promptAt'[q] = "flushing" /\ NoneComes(q, waiting')
    BY <1>1 DEF FlushesAreAwaited
  <2>1. /\ InLine(posted, Screen!Flush(q)) =>
              promptAt[q] = "flushing" /\ handler # Screen!Flush(q)
        /\ Once(posted, Screen!Flush(q))
        /\ handler = Screen!Flush(q) =>
              promptAt[q] = "flushing" /\ NoneComes(q, waiting)
    BY DEF Orderly, FlushesAreAwaited
  <2>2. Screen!Flush(q) # Screen!Ready
    BY LineFacts
  <2>3. CASE q = p
    <3>1. ~InLine(posted, Screen!Flush(q)) /\ handler # Screen!Flush(q)
      BY <1>1, <2>1, <2>3
    <3>2. Once(posted', Screen!Flush(q))
      BY <2>1, <2>2, <3>1 DEF Tells, Requests
    <3>3. InLine(posted', Screen!Flush(q)) => flush
      BY <2>2, <3>1 DEF Tells, Requests
    <3> QED
      BY <1>1, <2>3, <3>1, <3>2, <3>3
  <2>4. CASE q # p
    <3>1. Screen!Flush(q) # Screen!Flush(p)
      BY <2>4, LineFacts
    <3>2. /\ InLine(posted', Screen!Flush(q)) => InLine(posted, Screen!Flush(q))
          /\ Once(posted', Screen!Flush(q))
      BY <2>1, <2>2, <3>1 DEF Tells, Requests
    <3>3. NoneComes(q, waiting) => NoneComes(q, waiting')
      <4>1. CASE UNCHANGED waiting
        BY <4>1
      <4>2. CASE \E e \in Events : e.of = p /\ waiting' = Append(waiting, e)
        <5>1. PICK e \in Events : e.of = p /\ waiting' = Append(waiting, e)
          BY <4>2
        <5>2. \A i \in 1 .. Len(waiting') :
                  (i \in 1 .. Len(waiting) /\ waiting'[i] = waiting[i]) \/ waiting'[i] = e
          BY <5>1 DEF ScreenTypes, SinkTypes
        <5> QED
          BY <2>4, <5>1, <5>2 DEF NoneComes, Comes
      <4> QED
        BY <4>1, <4>2 DEF Tells
    <3> QED
      BY <1>1, <2>1, <2>4, <3>2, <3>3
  <2> QED
    BY <2>3, <2>4
<1>8. OneIsActive'
  BY <1>4 DEF Orderly, OneIsActive
<1>9. EventsAreOfTurns'
  <2>1. p \in disturbed \/ Active(p)
    BY <1>1 DEF Active, Over
  <2>2. ASSUME NEW q \in Prompts, Active(q) \/ q \in Doomed
        PROVE  Active(q)' \/ q \in Doomed'
    BY <1>3, <1>4, <2>2
  <2>3. Active(p)' \/ p \in Doomed'
    BY <2>1, <2>2 DEF Doomed
  <2>4. \A i \in 1 .. Len(waiting) :
            waiting[i].type \in Shows =>
                \E q \in Prompts : waiting[i].of = q /\ (Active(q) \/ q \in Doomed)
    BY DEF Orderly, EventsAreOfTurns
  <2>5. \A i \in 1 .. Len(waiting) :
            waiting[i].type \in Shows =>
                \E q \in Prompts : waiting[i].of = q /\ (Active(q)' \/ q \in Doomed')
    BY <2>2, <2>4
  <2>6. CASE UNCHANGED waiting
    BY <2>5, <2>6 DEF EventsAreOfTurns
  <2>7. CASE \E e \in Events : e.of = p /\ waiting' = Append(waiting, e)
    <3>1. PICK e \in Events : e.of = p /\ waiting' = Append(waiting, e)
      BY <2>7
    <3>2. ASSUME NEW i \in 1 .. Len(waiting')
          PROVE  (i \in 1 .. Len(waiting) /\ waiting'[i] = waiting[i]) \/ waiting'[i] = e
      BY <3>1 DEF ScreenTypes, SinkTypes
    <3> QED
      BY <2>3, <2>5, <3>1, <3>2 DEF EventsAreOfTurns
  <2> QED
    BY <2>6, <2>7 DEF Tells
<1> QED
  BY <1>3, <1>5, <1>6, <1>7, <1>8, <1>9 DEF Orderly

\* The stories of the others go on as they were.
LEMMA TellingStories ==
    ASSUME ScreenTypes, Orderly, Stories, ScreenTypes',
           NEW p \in Prompts, NEW flush \in BOOLEAN, Tells(p, flush)
    PROVE  /\ p \notin Doomed => Ongoing(p, blocks, waiting, shownLog[p] \o shownRound[p],
                                         FALSE, Doomed)
           /\ \A q \in Prompts : q # p /\ q \notin Doomed => StoryOf(q)'
           /\ (p \notin Doomed =>
                 Ongoing(p, blocks, waiting', shownLog'[p] \o shownRound'[p],
                         step'[p] = "over", Doomed)) => Stories'
<1>1. /\ promptAt[p] = "running" /\ step[p] # "over"
      /\ promptAt'[p] \in {"flushing", "running"}
      /\ promptAt'[p] = "flushing" \/ step'[p] # "over"
      /\ \A q \in Prompts \ {p} :
            /\ promptAt'[q] = promptAt[q] /\ step'[q] = step[q]
            /\ shownLog'[q] = shownLog[q] /\ shownRound'[q] = shownRound[q]
      /\ UNCHANGED <<blocks, mounted>>
      /\ mounted \in Nat /\ Len(blocks) \in Nat /\ Len(waiting) \in Nat
  BY DEF Tells, ScreenTypes, ViewTypes, SinkTypes
<1>2. Doomed' = Doomed
  BY TellingKeeps
<1>3. ASSUME p \notin Doomed
      PROVE  Ongoing(p, blocks, waiting, shownLog[p] \o shownRound[p], FALSE, Doomed)
  <2>1. StoryOf(p) /\ ~Over(p) /\ promptAt[p] \notin NotBegun
    BY <1>1, <1>3 DEF Stories, Over, NotBegun
  <2>2. (step[p] = "over") = FALSE
    BY <1>1
  <2> QED
    BY <2>1, <2>2 DEF StoryOf
<1>4. ASSUME NEW q \in Prompts, q # p, q \notin Doomed PROVE StoryOf(q)'
  <2>1. StoryOf(q)
    BY <1>4 DEF Stories
  <2>2. Extends(blocks', blocks) /\ \A i \in Len(blocks) + 1 .. Len(blocks') : FALSE
    BY <1>1, ExtendsSame DEF ScreenTypes, ViewTypes
  <2>3. Extends(waiting', waiting) /\
        \A i \in Len(waiting) + 1 .. Len(waiting') : ~Comes(q, waiting', i)
    <3>1. CASE UNCHANGED waiting
      BY <1>1, <3>1, ExtendsSame DEF ScreenTypes, SinkTypes
    <3>2. CASE \E e \in Events : e.of = p /\ waiting' = Append(waiting, e)
      <4>1. PICK e \in Events : e.of = p /\ waiting' = Append(waiting, e)
        BY <3>2
      <4>2. /\ Extends(waiting', waiting)
            /\ \A i \in Len(waiting) + 1 .. Len(waiting') : waiting'[i] = e
        BY <4>1, ExtendsMore DEF ScreenTypes, SinkTypes
      <4> QED
        BY <1>4, <4>1, <4>2 DEF Comes
    <3> QED
      BY <3>1, <3>2 DEF Tells
  <2>4. Rests(q)
    BY <1>1, <1>4 DEF Rests, Over
  <2>5. mounted <= mounted' /\ Doomed \subseteq Doomed'
    BY <1>1, <1>2
  <2> QED
    BY <2>1, <2>2, <2>3, <2>4, <2>5, StoryKept DEF Rests
<1>5. ASSUME p \notin Doomed =>
                 Ongoing(p, blocks, waiting', shownLog'[p] \o shownRound'[p],
                         step'[p] = "over", Doomed)
      PROVE  Stories'
  <2>1. p \notin Doomed => StoryOf(p)'
    <3>1. ~Over(p)' /\ promptAt'[p] \notin NotBegun
      BY <1>1 DEF Over, NotBegun
    <3> QED
      BY <1>1, <1>2, <1>5, <3>1 DEF StoryOf
  <2> QED
    BY <1>2, <1>4, <2>1 DEF Stories
<1> QED
  BY <1>3, <1>4, <1>5

LEMMA Told ==
    ASSUME ScreenInv, NEW p \in Prompts, NEW flush \in BOOLEAN, Tells(p, flush),
           SinkTypes', DrainIsOnItsWay', TurnTypes', UNCHANGED tail,
           p \notin Doomed =>
               Ongoing(p, blocks, waiting', shownLog'[p] \o shownRound'[p],
                       step'[p] = "over", Doomed)
    PROVE  ScreenInv'
<1>1. ViewTypes'
  BY DEF Tells, ViewTypes, ScreenInv, ScreenTypes
<1>2. ScreenTypes'
  BY <1>1 DEF ScreenTypes
<1> QED
  BY <1>2, TellingKeeps, TellingStories DEF ScreenInv

\* Events that do not show leave the story of the turn that emits them.
LEMMA SilentEvent ==
    ASSUME ScreenTypes, NEW p \in Prompts, NEW e \in Events, e.type \notin Shows,
           NEW texts \in Seq(Screen!Texts), NEW ended \in BOOLEAN, NEW others,
           waiting' = Append(waiting, e),
           Ongoing(p, blocks, waiting, texts, ended, others)
    PROVE  Ongoing(p, blocks, waiting', texts, ended, others)
<1>1. waiting \in Seq(Events) /\ blocks \in Seq(Blocks) /\ Len(blocks) \in Nat
  BY DEF ScreenTypes, SinkTypes, ViewTypes
<1>2. /\ waiting' \in Seq(Events) /\ Extends(waiting', waiting)
      /\ \A i \in Len(waiting) + 1 .. Len(waiting') : waiting'[i] = e
  BY <1>1, ExtendsMore
<1>3. \A i \in Len(waiting) + 1 .. Len(waiting') : ~Comes(p, waiting', i)
  BY <1>2 DEF Comes
<1>4. Extends(blocks, blocks) /\ Extends(texts, texts)
      /\ \A i \in Len(blocks) + 1 .. Len(blocks) : FALSE
  BY <1>1, ExtendsSame
<1> QED
  BY <1>1, <1>2, <1>3, <1>4, OngoingKept

LEMMA TurnStartsStep ==
    ASSUME ScreenInv, NEW p \in Prompts, Screen!TurnStarts(p)
    PROVE  ScreenInv'
<1>1. ScreenTypes /\ DrainIsOnItsWay /\ Orderly /\ Stories
  BY DEF ScreenInv
<1>2. Screen!Emit(Screen!Event("start", p, <<>>), IF FALSE THEN <<Screen!Flush(p)>> ELSE <<>>)
  BY DEF Screen!TurnStarts
<1>3. /\ Requests(p, FALSE) /\ SinkTypes' /\ DrainIsOnItsWay'
      /\ waiting' = Append(waiting, Screen!Event("start", p, <<>>))
      /\ Screen!Event("start", p, <<>>) \in Events /\ Screen!Event("start", p, <<>>).of = p
      /\ Screen!Event("start", p, <<>>).type \notin Shows
  <2>1. <<>> \in Screen!Texts /\ "start" \in Screen!Types
    BY DEF Screen!Texts, Screen!Types
  <2>2. Screen!Event("start", p, <<>>).type \notin Shows
    BY DEF Screen!Event, Shows
  <2> QED
    BY <1>1, <1>2, <2>1, <2>2, Emitted DEF ScreenTypes
<1>4. /\ promptAt[p] = "running" /\ step[p] = "begin" /\ p \notin turnsCancelled
      /\ step' = [step EXCEPT ![p] = "streaming"]
      /\ UNCHANGED <<promptAt, attempt, shownRound, said, shownLog, turnWorker, queued,
                     turnsCancelled, disturbed, tail, blocks, mounted, handler>>
  BY DEF Screen!TurnStarts, Screen!Turning, Screen!turnRest, Screen!screenVars
<1>5. TurnTypes' /\ step'[p] = "streaming" /\ \A q \in Prompts \ {p} : step'[q] = step[q]
  BY <1>1, <1>4 DEF ScreenTypes, TurnTypes, Screen!Steps
<1>6. Tells(p, FALSE)
  BY <1>3, <1>4, <1>5 DEF Tells
<1>7. p \notin Doomed =>
          Ongoing(p, blocks, waiting', shownLog'[p] \o shownRound'[p], step'[p] = "over", Doomed)
  <2>1. shownLog[p] \in Seq(Screen!Texts) /\ shownRound[p] \in Seq(Screen!Texts)
    BY <1>1 DEF ScreenTypes, TurnTypes
  <2>2. shownLog[p] \o shownRound[p] \in Seq(Screen!Texts)
    BY <2>1, ConcatProperties
  <2>3. ScreenTypes'
    BY <1>1, <1>3, <1>4, <1>5 DEF ScreenTypes, ViewTypes
  <2>4. p \notin Doomed =>
            Ongoing(p, blocks, waiting, shownLog[p] \o shownRound[p], FALSE, Doomed)
    BY <1>1, <1>6, <2>3, TellingStories
  <2>5. p \notin Doomed =>
            Ongoing(p, blocks, waiting', shownLog[p] \o shownRound[p], FALSE, Doomed)
    BY <1>1, <1>3, <2>2, <2>4, SilentEvent
  <2>6. (step'[p] = "over") = FALSE
    BY <1>5
  <2> QED
    BY <1>4, <2>5, <2>6
<1> QED
  BY <1>3, <1>4, <1>5, <1>6, <1>7, Told

LEMMA Joined ==
    ASSUME NEW S, NEW s \in Seq(S), NEW t \in Seq(S)
    PROVE  /\ s \o t \in Seq(S) /\ Extends(s \o t, s)
           /\ \A x \in S : Append(t, x) \in Seq(S) /\ s \o Append(t, x) = Append(s \o t, x)
<1>1. /\ s \o t \in Seq(S) /\ Len(s \o t) = Len(s) + Len(t)
      /\ \A i \in 1 .. Len(s) + Len(t) :
            (s \o t)[i] = IF i <= Len(s) THEN s[i] ELSE t[i - Len(s)]
  BY ConcatProperties
<1>2. Extends(s \o t, s)
  BY <1>1 DEF Extends
<1>3. ASSUME NEW x \in S PROVE Append(t, x) \in Seq(S) /\ s \o Append(t, x) = Append(s \o t, x)
  <2> DEFINE st == s \o t
             tx == Append(t, x)
             one == <<x>>
  <2>1. st \in Seq(S) /\ tx \in Seq(S) /\ one \in Seq(S) /\ tx = t \o one
    BY <1>1, AppendIsConcat
  <2>2. st \o one = s \o (t \o one)
    BY <2>1, ConcatAssociative
  <2>3. Append(st, x) = st \o one
    <3> HIDE DEF st
    <3> QED
      BY <2>1, AppendIsConcat
  <2> QED
    BY <2>1, <2>2, <2>3
<1> QED
  BY <1>1, <1>2, <1>3

LEMMA TextsSoFar ==
    ASSUME ScreenTypes, NEW p \in Prompts
    PROVE  /\ shownLog[p] \in Seq(Screen!Texts) /\ shownRound[p] \in Seq(Screen!Texts)
           /\ shownLog[p] \o shownRound[p] \in Seq(Screen!Texts)
           /\ Extends(shownLog[p] \o shownRound[p], shownLog[p])
           /\ Extends(shownLog[p] \o shownRound[p], shownLog[p] \o shownRound[p])
<1>1. shownLog[p] \in Seq(Screen!Texts) /\ shownRound[p] \in Seq(Screen!Texts)
  BY DEF ScreenTypes, TurnTypes
<1>2. /\ shownLog[p] \o shownRound[p] \in Seq(Screen!Texts)
      /\ Extends(shownLog[p] \o shownRound[p], shownLog[p])
  BY <1>1, Joined
<1>3. Extends(shownLog[p] \o shownRound[p], shownLog[p] \o shownRound[p])
  BY <1>2, ExtendsSame
<1> QED
  BY <1>1, <1>2, <1>3

LEMMA TextDeltaStep ==
    ASSUME ScreenInv, NEW p \in Prompts, Screen!TextDelta(p)
    PROVE  ScreenInv'
<1> DEFINE e == Screen!Event("delta", p, <<said'>>)
<1>1. ScreenTypes /\ DrainIsOnItsWay /\ Orderly /\ Stories
  BY DEF ScreenInv
<1>2. Screen!Emit(e, IF FALSE THEN <<Screen!Flush(p)>> ELSE <<>>)
  BY DEF Screen!TextDelta
<1>3. /\ promptAt[p] = "running" /\ step[p] = "streaming" /\ p \notin turnsCancelled
      /\ said' = said + 1 /\ said < MaxPieces
      /\ attempt' = [attempt EXCEPT ![p] = Append(attempt[p], said')]
      /\ UNCHANGED <<promptAt, step, shownRound, shownLog, turnWorker, queued,
                     turnsCancelled, disturbed, tail, blocks, mounted, handler>>
  BY DEF Screen!TextDelta, Screen!Turning, Screen!turnRest, Screen!screenVars
<1>4. said' \in 0 .. MaxPieces /\ said' \in 1 .. MaxPieces
  BY <1>1, <1>3, ScreenAssumption DEF ScreenTypes, TurnTypes
<1>5. /\ Requests(p, FALSE) /\ SinkTypes' /\ DrainIsOnItsWay'
      /\ waiting' = Append(waiting, e) /\ e \in Events /\ e.of = p /\ e.type \notin Shows
  <2>1. <<said'>> \in Screen!Texts /\ "delta" \in Screen!Types
    BY <1>4 DEF Screen!Texts, Screen!Types
  <2>2. e.type \notin Shows
    BY DEF Screen!Event, Shows
  <2> QED
    BY <1>1, <1>2, <2>1, <2>2, Emitted DEF ScreenTypes
<1>6. TurnTypes'
  <2>1. Append(attempt[p], said') \in Screen!Texts
    BY <1>1, <1>4 DEF ScreenTypes, TurnTypes, Screen!Texts
  <2> QED
    BY <1>1, <1>3, <1>4, <2>1 DEF ScreenTypes, TurnTypes
<1> HIDE DEF e
<1>7. Tells(p, FALSE)
  BY <1>3, <1>5 DEF Tells
<1>8. p \notin Doomed =>
          Ongoing(p, blocks, waiting', shownLog'[p] \o shownRound'[p], step'[p] = "over", Doomed)
  <2>1. ScreenTypes'
    BY <1>1, <1>3, <1>5, <1>6 DEF ScreenTypes, ViewTypes
  <2>2. p \notin Doomed =>
            Ongoing(p, blocks, waiting, shownLog[p] \o shownRound[p], FALSE, Doomed)
    BY <1>1, <1>7, <2>1, TellingStories
  <2>3. p \notin Doomed =>
            Ongoing(p, blocks, waiting', shownLog[p] \o shownRound[p], FALSE, Doomed)
    BY <1>1, <1>5, <2>2, SilentEvent, TextsSoFar
  <2>4. (step'[p] = "over") = FALSE
    BY <1>3
  <2> QED
    BY <1>3, <2>3, <2>4
<1> QED
  BY <1>3, <1>5, <1>6, <1>7, <1>8, Told

LEMMA ContentCompletedStep ==
    ASSUME ScreenInv, NEW p \in Prompts, Screen!ContentCompleted(p)
    PROVE  ScreenInv'
<1> DEFINE text == attempt[p]
           e == Screen!Event("completed", p, text)
<1>1. ScreenTypes /\ DrainIsOnItsWay /\ Orderly /\ Stories
  BY DEF ScreenInv
<1>2. Screen!Emit(e, IF FALSE THEN <<Screen!Flush(p)>> ELSE <<>>)
  BY DEF Screen!ContentCompleted
<1>3. /\ promptAt[p] = "running" /\ step[p] = "streaming" /\ p \notin turnsCancelled
      /\ shownRound' = [shownRound EXCEPT ![p] = Append(shownRound[p], text)]
      /\ attempt' = [attempt EXCEPT ![p] = <<>>]
      /\ UNCHANGED <<promptAt, step, said, shownLog, turnWorker, queued,
                     turnsCancelled, disturbed, tail, blocks, mounted, handler>>
  BY DEF Screen!ContentCompleted, Screen!Turning, Screen!turnRest, Screen!screenVars
<1>4. text \in Screen!Texts /\ <<>> \in Screen!Texts
  BY <1>1 DEF ScreenTypes, TurnTypes, Screen!Texts
<1>5. /\ Requests(p, FALSE) /\ SinkTypes' /\ DrainIsOnItsWay'
      /\ waiting' = Append(waiting, e) /\ e \in Events /\ e.of = p
  <2>1. "completed" \in Screen!Types
    BY DEF Screen!Types
  <2> QED
    BY <1>1, <1>2, <1>4, <2>1, Emitted DEF ScreenTypes
<1> HIDE DEF text
<1>6. /\ Append(shownRound[p], text) \in Seq(Screen!Texts)
      /\ shownLog[p] \o Append(shownRound[p], text) =
            Append(shownLog[p] \o shownRound[p], text)
  <2>1. shownLog[p] \in Seq(Screen!Texts) /\ shownRound[p] \in Seq(Screen!Texts)
    BY <1>1, TextsSoFar
  <2> DEFINE s == shownLog[p]
             t == shownRound[p]
             S == Screen!Texts
  <2>2. s \in Seq(S) /\ t \in Seq(S) /\ text \in S
    BY <1>4, <2>1
  <2> HIDE DEF s, t, S
  <2>3. \A x \in S : Append(t, x) \in Seq(S) /\ s \o Append(t, x) = Append(s \o t, x)
    BY <2>2, Joined
  <2>4. Append(t, text) \in Seq(S) /\ s \o Append(t, text) = Append(s \o t, text)
    BY <2>2, <2>3, Zenon
  <2> QED
    BY <2>4, Zenon DEF s, t, S
<1>7. TurnTypes' /\ shownRound'[p] = Append(shownRound[p], text)
      /\ \A q \in Prompts \ {p} : shownRound'[q] = shownRound[q]
  BY <1>1, <1>3, <1>4, <1>6 DEF ScreenTypes, TurnTypes
<1> HIDE DEF e
<1>8. Tells(p, FALSE)
  BY <1>3, <1>5, <1>7 DEF Tells
<1>9. p \notin Doomed =>
          Ongoing(p, blocks, waiting', shownLog'[p] \o shownRound'[p], step'[p] = "over", Doomed)
  <2>1. ScreenTypes'
    BY <1>1, <1>3, <1>5, <1>7 DEF ScreenTypes, ViewTypes
  <2>2. p \notin Doomed =>
            Ongoing(p, blocks, waiting, shownLog[p] \o shownRound[p], FALSE, Doomed)
    BY <1>1, <1>8, <2>1, TellingStories
  <2>3. blocks \in Seq(Blocks) /\ waiting \in Seq(Events)
    BY <1>1 DEF ScreenTypes, ViewTypes, SinkTypes
  <2>4. p \notin Doomed =>
            Ongoing(p, blocks, Append(waiting, Screen!Event("completed", p, text)),
                    Append(shownLog[p] \o shownRound[p], text), FALSE, Doomed)
    BY <1>1, <1>4, <2>2, <2>3, OngoingTells, TextsSoFar
  <2>5. (step'[p] = "over") = FALSE
    BY <1>3
  <2>6. shownLog'[p] \o shownRound'[p] = Append(shownLog[p] \o shownRound[p], text)
    BY <1>3, <1>6, <1>7
  <2> QED
    BY <1>5, <2>4, <2>5, <2>6 DEF e
<1> QED
  BY <1>3, <1>5, <1>7, <1>8, <1>9, Told

LEMMA RespondedStep ==
    ASSUME ScreenInv, NEW p \in Prompts, Screen!Responded(p)
    PROVE  ScreenInv'
<1>1. ScreenTypes /\ DrainIsOnItsWay /\ Orderly /\ Stories
  BY DEF ScreenInv
<1>2. /\ Screen!RequestDrain(IF TRUE THEN <<Screen!Flush(p)>> ELSE <<>>)
      /\ UNCHANGED <<waiting, emitter>>
  BY DEF Screen!Responded
<1>3. /\ promptAt[p] = "running" /\ step[p] = "streaming" /\ p \notin turnsCancelled
      /\ step' = [step EXCEPT ![p] = "answered"]
      /\ promptAt' = [promptAt EXCEPT ![p] = "flushing"]
      /\ UNCHANGED <<attempt, shownRound, said, shownLog, turnWorker, queued,
                     turnsCancelled, disturbed, tail, blocks, mounted, handler>>
  BY DEF Screen!Responded, Screen!Turning, Screen!turnRest, Screen!screenVars
<1>4. Requests(p, TRUE) /\ DrainIsOnItsWay'
  BY <1>1, <1>2, DrainRequested DEF ScreenTypes
<1>5. SinkTypes'
  BY <1>1, <1>2, <1>4 DEF ScreenTypes, SinkTypes, Requests
<1>6. /\ TurnTypes' /\ step'[p] = "answered" /\ promptAt'[p] = "flushing"
      /\ \A q \in Prompts \ {p} : step'[q] = step[q] /\ promptAt'[q] = promptAt[q]
  BY <1>1, <1>3 DEF ScreenTypes, TurnTypes, Screen!Steps, Screen!Places
<1>7. Tells(p, TRUE)
  BY <1>2, <1>3, <1>4, <1>6 DEF Tells
<1>8. p \notin Doomed =>
          Ongoing(p, blocks, waiting', shownLog'[p] \o shownRound'[p], step'[p] = "over", Doomed)
  <2>1. ScreenTypes'
    BY <1>1, <1>3, <1>5, <1>6 DEF ScreenTypes, ViewTypes
  <2>2. p \notin Doomed =>
            Ongoing(p, blocks, waiting, shownLog[p] \o shownRound[p], FALSE, Doomed)
    BY <1>1, <1>7, <2>1, TellingStories
  <2>3. (step'[p] = "over") = FALSE
    BY <1>6
  <2> QED
    BY <1>2, <1>3, <2>2, <2>3
<1> QED
  BY <1>3, <1>4, <1>5, <1>6, <1>7, <1>8, Told

LEMMA BrokenStep ==
    ASSUME ScreenInv, NEW p \in Prompts, Screen!Broken(p)
    PROVE  ScreenInv'
<1> DEFINE e == Screen!Event("error", p, <<>>)
<1>1. ScreenTypes /\ DrainIsOnItsWay /\ Orderly /\ Stories
  BY DEF ScreenInv
<1>2. Screen!Emit(e, IF TRUE THEN <<Screen!Flush(p)>> ELSE <<>>)
  BY DEF Screen!Broken
<1>3. /\ promptAt[p] = "running" /\ step[p] = "streaming" /\ p \notin turnsCancelled
      /\ step' = [step EXCEPT ![p] = "broken"]
      /\ promptAt' = [promptAt EXCEPT ![p] = "flushing"]
      /\ UNCHANGED <<attempt, shownRound, said, shownLog, turnWorker, queued,
                     turnsCancelled, disturbed, tail, blocks, mounted, handler>>
  BY DEF Screen!Broken, Screen!Turning, Screen!turnRest, Screen!screenVars
<1>4. /\ Requests(p, TRUE) /\ SinkTypes' /\ DrainIsOnItsWay'
      /\ waiting' = Append(waiting, e) /\ e \in Events /\ e.of = p /\ e.type \notin Shows
  <2>1. <<>> \in Screen!Texts /\ "error" \in Screen!Types
    BY DEF Screen!Texts, Screen!Types
  <2>2. e.type \notin Shows
    BY DEF Screen!Event, Shows
  <2> QED
    BY <1>1, <1>2, <2>1, <2>2, Emitted DEF ScreenTypes
<1> HIDE DEF e
<1>5. /\ TurnTypes' /\ step'[p] = "broken" /\ promptAt'[p] = "flushing"
      /\ \A q \in Prompts \ {p} : step'[q] = step[q] /\ promptAt'[q] = promptAt[q]
  BY <1>1, <1>3 DEF ScreenTypes, TurnTypes, Screen!Steps, Screen!Places
<1>6. Tells(p, TRUE)
  BY <1>3, <1>4, <1>5 DEF Tells
<1>7. p \notin Doomed =>
          Ongoing(p, blocks, waiting', shownLog'[p] \o shownRound'[p], step'[p] = "over", Doomed)
  <2>1. ScreenTypes'
    BY <1>1, <1>3, <1>4, <1>5 DEF ScreenTypes, ViewTypes
  <2>2. p \notin Doomed =>
            Ongoing(p, blocks, waiting, shownLog[p] \o shownRound[p], FALSE, Doomed)
    BY <1>1, <1>6, <2>1, TellingStories
  <2>3. p \notin Doomed =>
            Ongoing(p, blocks, waiting', shownLog[p] \o shownRound[p], FALSE, Doomed)
    BY <1>1, <1>4, <2>2, SilentEvent, TextsSoFar
  <2>4. (step'[p] = "over") = FALSE
    BY <1>5
  <2> QED
    BY <1>3, <2>3, <2>4
<1> QED
  BY <1>3, <1>4, <1>5, <1>6, <1>7, Told

\* What a turn keeps of its texts as the next request is made, or it ends.
LEMMA TextsKept ==
    ASSUME ScreenTypes, NEW p \in Prompts, NEW keep \in BOOLEAN,
           shownLog' = [shownLog EXCEPT ![p] = IF keep THEN shownLog[p] \o shownRound[p]
                                               ELSE shownLog[p]],
           shownRound' = [shownRound EXCEPT ![p] = <<>>]
    PROVE  /\ shownLog' \in [Prompts -> Seq(Screen!Texts)]
           /\ shownRound' \in [Prompts -> Seq(Screen!Texts)]
           /\ \A q \in Prompts \ {p} :
                 shownLog'[q] = shownLog[q] /\ shownRound'[q] = shownRound[q]
           /\ shownLog'[p] \o shownRound'[p] \in Seq(Screen!Texts)
           /\ Extends(shownLog[p] \o shownRound[p], shownLog'[p] \o shownRound'[p])
<1>1. /\ shownLog[p] \in Seq(Screen!Texts) /\ shownRound[p] \in Seq(Screen!Texts)
      /\ shownLog[p] \o shownRound[p] \in Seq(Screen!Texts)
      /\ Extends(shownLog[p] \o shownRound[p], shownLog[p])
      /\ Extends(shownLog[p] \o shownRound[p], shownLog[p] \o shownRound[p])
  BY TextsSoFar
<1>2. /\ shownLog' \in [Prompts -> Seq(Screen!Texts)]
      /\ shownRound' \in [Prompts -> Seq(Screen!Texts)]
      /\ shownLog'[p] = IF keep THEN shownLog[p] \o shownRound[p] ELSE shownLog[p]
      /\ shownRound'[p] = <<>>
      /\ \A q \in Prompts \ {p} :
            shownLog'[q] = shownLog[q] /\ shownRound'[q] = shownRound[q]
  BY <1>1 DEF ScreenTypes, TurnTypes
<1>3. shownLog'[p] \o shownRound'[p] = shownLog'[p]
  BY <1>1, <1>2, ConcatEmptySeq
<1> QED
  BY <1>1, <1>2, <1>3

LEMMA NextRequestStep ==
    ASSUME ScreenInv, NEW p \in Prompts, Screen!NextRequest(p)
    PROVE  ScreenInv'
<1> DEFINE keep == step[p] = "answered"
<1>1. ScreenTypes /\ DrainIsOnItsWay /\ Orderly /\ Stories
  BY DEF ScreenInv
<1>2. /\ promptAt[p] = "running" /\ step[p] \in {"answered", "broken"}
      /\ p \notin turnsCancelled
      /\ shownLog' = [shownLog EXCEPT ![p] = IF keep THEN shownLog[p] \o shownRound[p]
                                             ELSE shownLog[p]]
      /\ shownRound' = [shownRound EXCEPT ![p] = <<>>]
      /\ step' = [step EXCEPT ![p] = "streaming"]
      /\ attempt' = [attempt EXCEPT ![p] = <<>>]
      /\ UNCHANGED <<promptAt, said, waiting, drainPosted, posted, emitter, turnWorker,
                     queued, turnsCancelled, disturbed, tail, blocks, mounted, handler>>
  BY DEF Screen!NextRequest, Screen!Turning, Screen!turnRest, Screen!screenVars,
         Screen!sinkVars
<1>3. keep \in BOOLEAN
  OBVIOUS
<1> HIDE DEF keep
<1>4. /\ shownLog' \in [Prompts -> Seq(Screen!Texts)]
      /\ shownRound' \in [Prompts -> Seq(Screen!Texts)]
      /\ \A q \in Prompts \ {p} :
            shownLog'[q] = shownLog[q] /\ shownRound'[q] = shownRound[q]
      /\ shownLog'[p] \o shownRound'[p] \in Seq(Screen!Texts)
      /\ Extends(shownLog[p] \o shownRound[p], shownLog'[p] \o shownRound'[p])
  BY <1>1, <1>2, <1>3, TextsKept
<1>5. SinkTypes' /\ DrainIsOnItsWay' /\ Requests(p, FALSE)
  BY <1>1, <1>2 DEF ScreenTypes, SinkTypes, DrainIsOnItsWay, Requests
<1>6. /\ TurnTypes' /\ step'[p] = "streaming"
      /\ \A q \in Prompts \ {p} : step'[q] = step[q]
  BY <1>1, <1>2, <1>4 DEF ScreenTypes, TurnTypes, Screen!Steps, Screen!Texts
<1>7. Tells(p, FALSE)
  BY <1>2, <1>4, <1>5, <1>6 DEF Tells
<1>8. p \notin Doomed =>
          Ongoing(p, blocks, waiting', shownLog'[p] \o shownRound'[p], step'[p] = "over", Doomed)
  <2>1. ScreenTypes'
    BY <1>1, <1>2, <1>5, <1>6 DEF ScreenTypes, ViewTypes
  <2>2. p \notin Doomed =>
            Ongoing(p, blocks, waiting, shownLog[p] \o shownRound[p], FALSE, Doomed)
    BY <1>1, <1>7, <2>1, TellingStories
  <2> DEFINE texts == shownLog[p] \o shownRound[p]
             texts2 == shownLog'[p] \o shownRound'[p]
  <2>3. /\ blocks \in Seq(Blocks) /\ waiting \in Seq(Events)
        /\ texts \in Seq(Screen!Texts) /\ texts2 \in Seq(Screen!Texts)
        /\ Extends(texts, texts2)
    BY <1>1, <1>4, TextsSoFar DEF ScreenTypes, ViewTypes, SinkTypes
  <2> HIDE DEF texts, texts2
  <2>4. ASSUME Ongoing(p, blocks, waiting, texts, FALSE, Doomed)
        PROVE  Ongoing(p, blocks, waiting, texts2, FALSE, Doomed)
    BY <2>3, <2>4, FewerTexts
  <2>5. (step'[p] = "over") = FALSE
    BY <1>6
  <2> QED
    BY <1>2, <2>2, <2>4, <2>5 DEF texts, texts2
<1> QED
  BY <1>2, <1>5, <1>6, <1>7, <1>8, Told

LEMMA TurnFinishesStep ==
    ASSUME ScreenInv, NEW p \in Prompts, Screen!TurnFinishes(p)
    PROVE  ScreenInv'
<1> DEFINE keep == step[p] = "answered"
           type == IF step[p] = "answered" THEN "finished" ELSE "failed"
           e == Screen!Event(type, p, <<>>)
<1>1. ScreenTypes /\ DrainIsOnItsWay /\ Orderly /\ Stories
  BY DEF ScreenInv
<1>2. Screen!Emit(e, IF TRUE THEN <<Screen!Flush(p)>> ELSE <<>>)
  BY DEF Screen!TurnFinishes
<1>3. /\ promptAt[p] = "running" /\ step[p] \in {"answered", "broken"}
      /\ p \notin turnsCancelled
      /\ shownLog' = [shownLog EXCEPT ![p] = IF keep THEN shownLog[p] \o shownRound[p]
                                             ELSE shownLog[p]]
      /\ shownRound' = [shownRound EXCEPT ![p] = <<>>]
      /\ step' = [step EXCEPT ![p] = "over"]
      /\ promptAt' = [promptAt EXCEPT ![p] = "flushing"]
      /\ UNCHANGED <<attempt, said, turnWorker,
                     queued, turnsCancelled, disturbed, tail, blocks, mounted, handler>>
  BY DEF Screen!TurnFinishes, Screen!Turning, Screen!turnRest, Screen!screenVars
<1>4. keep \in BOOLEAN /\ type \in Ends
  BY DEF Ends
<1> HIDE DEF keep, type
<1>5. /\ shownLog' \in [Prompts -> Seq(Screen!Texts)]
      /\ shownRound' \in [Prompts -> Seq(Screen!Texts)]
      /\ \A q \in Prompts \ {p} :
            shownLog'[q] = shownLog[q] /\ shownRound'[q] = shownRound[q]
      /\ shownLog'[p] \o shownRound'[p] \in Seq(Screen!Texts)
      /\ Extends(shownLog[p] \o shownRound[p], shownLog'[p] \o shownRound'[p])
  BY <1>1, <1>3, <1>4, TextsKept
<1>6. /\ Requests(p, TRUE) /\ SinkTypes' /\ DrainIsOnItsWay'
      /\ waiting' = Append(waiting, e) /\ e \in Events /\ e.of = p /\ e.type \in Ends
  <2>1. <<>> \in Screen!Texts /\ type \in Screen!Types
    BY <1>4 DEF Screen!Texts, Screen!Types, Ends
  <2>2. e.type \in Ends
    BY <1>4 DEF Screen!Event
  <2> QED
    BY <1>1, <1>2, <2>1, <2>2, Emitted DEF ScreenTypes
<1> HIDE DEF e
<1>7. /\ TurnTypes' /\ step'[p] = "over" /\ promptAt'[p] = "flushing"
      /\ \A q \in Prompts \ {p} : step'[q] = step[q] /\ promptAt'[q] = promptAt[q]
  BY <1>1, <1>3, <1>5 DEF ScreenTypes, TurnTypes, Screen!Steps, Screen!Places
<1>8. Tells(p, TRUE)
  BY <1>3, <1>5, <1>6, <1>7 DEF Tells
<1>9. p \notin Doomed =>
          Ongoing(p, blocks, waiting', shownLog'[p] \o shownRound'[p], step'[p] = "over", Doomed)
  <2>1. ScreenTypes'
    BY <1>1, <1>3, <1>6, <1>7 DEF ScreenTypes, ViewTypes
  <2>2. p \notin Doomed =>
            Ongoing(p, blocks, waiting, shownLog[p] \o shownRound[p], FALSE, Doomed)
    BY <1>1, <1>8, <2>1, TellingStories
  <2> DEFINE texts == shownLog[p] \o shownRound[p]
             texts2 == shownLog'[p] \o shownRound'[p]
  <2>3. /\ blocks \in Seq(Blocks) /\ waiting \in Seq(Events) /\ waiting' \in Seq(Events)
        /\ texts \in Seq(Screen!Texts) /\ texts2 \in Seq(Screen!Texts)
        /\ Extends(texts, texts2)
    BY <1>1, <1>5, <1>6, TextsSoFar DEF ScreenTypes, ViewTypes, SinkTypes
  <2> HIDE DEF texts, texts2
  <2>4. ASSUME Ongoing(p, blocks, waiting, texts, FALSE, Doomed)
        PROVE  Ongoing(p, blocks, waiting', texts, TRUE, Doomed)
    BY <1>6, <2>3, <2>4, OngoingEnds
  <2>5. ASSUME Ongoing(p, blocks, waiting', texts, TRUE, Doomed)
        PROVE  Ongoing(p, blocks, waiting', texts2, TRUE, Doomed)
    BY <2>3, <2>5, FewerTexts
  <2>6. (step'[p] = "over") = TRUE
    BY <1>7
  <2> QED
    BY <2>2, <2>4, <2>5, <2>6 DEF texts, texts2
<1> QED
  BY <1>3, <1>6, <1>7, <1>8, <1>9, Told

-----------------------------------------------------------------------------
(* The other steps.                                                        *)

\* Where no turn moves and nothing is added, it is as orderly as it was.
LEMMA NoTurnMoves ==
    ASSUME ScreenInv, SinkTypes', ViewTypes', DrainIsOnItsWay',
           UNCHANGED <<promptAt, step, attempt, shownRound, shownLog, turnWorker, queued,
                       turnsCancelled, disturbed, said, handler, blocks>>,
           mounted <= mounted',
           \A p \in Prompts :
               /\ InLine(posted', Screen!Start(p)) <=> InLine(posted, Screen!Start(p))
               /\ InLine(posted', Screen!Flush(p)) <=> InLine(posted, Screen!Flush(p))
               /\ Once(posted, Screen!Start(p)) => Once(posted', Screen!Start(p))
               /\ Once(posted, Screen!Flush(p)) => Once(posted', Screen!Flush(p)),
           \/ UNCHANGED waiting
           \/ \E e \in Events : e.type \notin Shows /\ waiting' = Append(waiting, e)
    PROVE  ScreenInv'
<1>1. ScreenTypes /\ DrainIsOnItsWay /\ Orderly /\ Stories
  BY DEF ScreenInv
<1>2. ScreenTypes'
  BY <1>1 DEF ScreenTypes, TurnTypes
<1>3. \A q \in Prompts : (Over(q)' <=> Over(q)) /\ (Active(q)' <=> Active(q)) /\ Rests(q)
  BY DEF Over, Active, Rests
<1>4. Doomed' = Doomed
  BY <1>1, <1>3 DEF Doomed, ScreenTypes, TurnTypes
<1>5. \E e \in Events : e.type \notin Shows /\
          \A i \in 1 .. Len(waiting') :
              (i \in 1 .. Len(waiting) /\ waiting'[i] = waiting[i]) \/ waiting'[i] = e
  <2>1. CASE UNCHANGED waiting
    <3> DEFINE e == Screen!Event("notice", 0, <<>>)
    <3>1. e \in Events /\ e.type \notin Shows
      BY LineFacts DEF Screen!Event, Events, Screen!Types, Screen!Texts, Shows
    <3> QED
      BY <2>1, <3>1
  <2>2. CASE \E e \in Events : e.type \notin Shows /\ waiting' = Append(waiting, e)
    <3>1. PICK e \in Events : e.type \notin Shows /\ waiting' = Append(waiting, e)
      BY <2>2
    <3>2. \A i \in 1 .. Len(waiting') :
              (i \in 1 .. Len(waiting) /\ waiting'[i] = waiting[i]) \/ waiting'[i] = e
      BY <1>1, <3>1 DEF ScreenTypes, SinkTypes
    <3> QED
      BY <3>1, <3>2
  <2> QED
    BY <2>1, <2>2
<1>6. \A q : NoneComes(q, waiting) => NoneComes(q, waiting')
  BY <1>5 DEF NoneComes, Comes
<1>7. PromptsWaitInLine' /\ PlacesFit' /\ OneIsActive'
  BY <1>1, <1>3 DEF Orderly, PromptsWaitInLine, PlacesFit, OneIsActive
<1>8. FlushesAreAwaited'
  BY <1>1, <1>6 DEF Orderly, FlushesAreAwaited
<1>9. EventsAreOfTurns'
  <2>1. \A i \in 1 .. Len(waiting) :
            waiting[i].type \in Shows =>
                \E q \in Prompts : waiting[i].of = q /\ (Active(q)' \/ q \in Doomed')
    BY <1>1, <1>3, <1>4 DEF Orderly, EventsAreOfTurns
  <2> QED
    BY <1>5, <2>1 DEF EventsAreOfTurns
<1>10. Stories'
  <2> SUFFICES ASSUME NEW q \in Prompts, q \notin Doomed' PROVE StoryOf(q)'
    BY DEF Stories
  <2>1. StoryOf(q) /\ Len(blocks) \in Nat
    BY <1>1, <1>4 DEF Stories, ScreenTypes, ViewTypes
  <2>2. Extends(blocks', blocks) /\ \A i \in Len(blocks) + 1 .. Len(blocks') : FALSE
    BY <1>1, <2>1, ExtendsSame DEF ScreenTypes, ViewTypes
  <2>3. Extends(waiting', waiting) /\
        \A i \in Len(waiting) + 1 .. Len(waiting') : ~Comes(q, waiting', i)
    <3>1. CASE UNCHANGED waiting
      BY <1>1, <3>1, ExtendsSame DEF ScreenTypes, SinkTypes
    <3>2. CASE \E e \in Events : e.type \notin Shows /\ waiting' = Append(waiting, e)
      <4>1. PICK e \in Events : e.type \notin Shows /\ waiting' = Append(waiting, e)
        BY <3>2
      <4>2. /\ Extends(waiting', waiting)
            /\ \A i \in Len(waiting) + 1 .. Len(waiting') : waiting'[i] = e
        BY <1>1, <4>1, ExtendsMore DEF ScreenTypes, SinkTypes
      <4> QED
        BY <4>1, <4>2 DEF Comes
    <3> QED
      BY <3>1, <3>2
  <2> QED
    BY <1>1, <1>2, <1>3, <1>4, <2>1, <2>2, <2>3, StoryKept DEF Rests
<1> QED
  BY <1>2, <1>7, <1>8, <1>9, <1>10 DEF ScreenInv, Orderly

LEMMA NoticeSteps ==
    ASSUME ScreenInv, Screen!NoticeAppended \/ Screen!NoticeRequested \/ Screen!NoticePosted
    PROVE  ScreenInv'
<1>1. ScreenTypes /\ DrainIsOnItsWay
  BY DEF ScreenInv
<1>2. UNCHANGED <<promptAt, step, attempt, shownRound, shownLog, turnWorker, queued,
                  turnsCancelled, disturbed, said, handler, blocks, mounted, tail>>
  BY DEF Screen!NoticeAppended, Screen!NoticeRequested, Screen!NoticePosted,
         Screen!workVars, Screen!screenVars
<1>3. ViewTypes' /\ mounted <= mounted'
  BY <1>1, <1>2 DEF ScreenTypes, ViewTypes
<1>4. CASE Screen!NoticeAppended
  <2> DEFINE e == Screen!Event("notice", 0, <<>>)
  <2>1. /\ waiting' = Append(waiting, e) /\ emitter' = "appended"
        /\ UNCHANGED <<drainPosted, posted>>
    BY <1>4 DEF Screen!NoticeAppended
  <2>2. e \in Events /\ e.type \notin Shows
    BY LineFacts DEF Screen!Event, Events, Screen!Types, Screen!Texts, Shows
  <2> HIDE DEF e
  <2>3. SinkTypes'
    BY <1>1, <2>1, <2>2 DEF ScreenTypes, SinkTypes
  <2>4. DrainIsOnItsWay'
    BY <1>1, <1>4, <2>1 DEF DrainIsOnItsWay, Screen!NoticeAppended
  <2> QED
    BY <1>2, <1>3, <2>1, <2>2, <2>3, <2>4, NoTurnMoves
<1>5. CASE Screen!NoticeRequested
  <2>1. SinkTypes' /\ UNCHANGED <<waiting, posted>>
    BY <1>1, <1>5 DEF ScreenTypes, SinkTypes, Screen!NoticeRequested
  <2>2. DrainIsOnItsWay'
    BY <1>1, <1>5 DEF DrainIsOnItsWay, Screen!NoticeRequested
  <2> QED
    BY <1>2, <1>3, <2>1, <2>2, NoTurnMoves
<1>6. CASE Screen!NoticePosted
  <2>1. /\ posted' = Append(posted, Screen!Ready) /\ emitter = "posting" /\ emitter' = "idle"
        /\ UNCHANGED <<waiting, drainPosted>>
    BY <1>6 DEF Screen!NoticePosted
  <2>2. /\ posted' \in Seq(Line)
        /\ \A c : InLine(posted', c) <=> InLine(posted, c) \/ c = Screen!Ready
        /\ \A c : Once(posted, c) /\ c # Screen!Ready => Once(posted', c)
    BY <1>1, <2>1, LineFacts, PutLast DEF ScreenTypes, SinkTypes
  <2>3. SinkTypes' /\ DrainIsOnItsWay'
    BY <1>1, <2>1, <2>2 DEF ScreenTypes, SinkTypes, DrainIsOnItsWay
  <2> QED
    BY <1>2, <1>3, <2>1, <2>2, <2>3, LineFacts, NoTurnMoves
<1> QED
  BY <1>4, <1>5, <1>6

LEMMA MountStep ==
    ASSUME ScreenInv, Screen!Mount
    PROVE  ScreenInv'
<1>1. ScreenTypes /\ DrainIsOnItsWay
  BY DEF ScreenInv
<1>2. /\ UNCHANGED <<promptAt, step, attempt, shownRound, shownLog, turnWorker, queued,
                     turnsCancelled, disturbed, said, handler, blocks, tail,
                     waiting, drainPosted, posted, emitter>>
      /\ mounted' = Len(blocks)
  BY DEF Screen!Mount, Screen!workVars, Screen!sinkVars
<1>3. SinkTypes' /\ ViewTypes' /\ DrainIsOnItsWay' /\ mounted <= mounted'
  BY <1>1, <1>2 DEF ScreenTypes, SinkTypes, ViewTypes, DrainIsOnItsWay
<1> QED
  BY <1>2, <1>3, NoTurnMoves

LEMMA EventsStay ==
    ASSUME EventsAreOfTurns, UNCHANGED waiting, Doomed \subseteq Doomed',
           \A q \in Prompts : Active(q) => Active(q)' \/ q \in Doomed'
    PROVE  EventsAreOfTurns'
<1>1. \A i \in 1 .. Len(waiting) :
          waiting[i].type \in Shows =>
              \E q \in Prompts : waiting[i].of = q /\ (Active(q)' \/ q \in Doomed')
  BY DEF EventsAreOfTurns
<1> QED
  BY <1>1 DEF EventsAreOfTurns

LEMMA FlushesStay ==
    ASSUME FlushesAreAwaited, UNCHANGED <<waiting, handler>>, disturbed \subseteq disturbed',
           \A q \in Prompts \ disturbed' :
               /\ InLine(posted', Screen!Flush(q)) => InLine(posted, Screen!Flush(q))
               /\ Once(posted, Screen!Flush(q)) => Once(posted', Screen!Flush(q))
               /\ promptAt[q] = "flushing" => promptAt'[q] = "flushing"
    PROVE  FlushesAreAwaited'
<1>1. \A q \in Prompts \ disturbed' : q \in Prompts \ disturbed
  OBVIOUS
<1> QED
  BY <1>1 DEF FlushesAreAwaited

\* Where a block of one turn is added, the others' stories stay.
LEMMA StoriesOfOthers ==
    ASSUME ScreenTypes, ScreenTypes', PlacesFit, OneIsActive, Stories,
           Doomed \subseteq Doomed', UNCHANGED <<waiting, mounted>>,
           NEW p \in Prompts, p \in Doomed' \/ Active(p),
           NEW b \in Blocks, b.of = p, blocks' = Append(blocks, b),
           NEW q \in Prompts, q # p, q \notin Doomed', Rests(q)
    PROVE  StoryOf(q)'
<1>1. StoryOf(q) /\ q \notin Doomed
  BY DEF Stories
<1>2. /\ blocks \in Seq(Blocks) /\ waiting \in Seq(Events) /\ Len(waiting) \in Nat
      /\ mounted \in Nat
  BY DEF ScreenTypes, SinkTypes, ViewTypes
<1>3. /\ Extends(blocks', blocks)
      /\ \A i \in Len(blocks) + 1 .. Len(blocks') : blocks'[i] = b
  BY <1>2, ExtendsMore
<1>4. Extends(waiting', waiting) /\ \A i \in Len(waiting) + 1 .. Len(waiting') : FALSE
  BY <1>2, ExtendsSame
<1>5. p \in Doomed' \/ Over(q) \/ promptAt[q] \in NotBegun
  BY <1>1, GoingIsActive DEF ScreenTypes, OneIsActive, NotBegun
<1>6. \A i \in Len(blocks) + 1 .. Len(blocks') :
          /\ blocks'[i].of # q
          /\ blocks'[i].of \in Doomed' \/ promptAt[q] \in NotBegun \/ Over(q)
  BY <1>3, <1>5
<1>7. \A i \in Len(waiting) + 1 .. Len(waiting') : ~Comes(q, waiting', i)
  BY <1>4
<1> QED
  BY <1>1, <1>2, <1>3, <1>4, <1>6, <1>7, StoryKept DEF Rests

LEMMA EscapeStep ==
    ASSUME ScreenInv, Screen!Escape
    PROVE  ScreenInv'
<1>1. /\ ScreenTypes /\ DrainIsOnItsWay /\ Stories /\ PromptsWaitInLine /\ PlacesFit
      /\ FlushesAreAwaited /\ OneIsActive /\ EventsAreOfTurns
  BY DEF ScreenInv, Orderly
<1>2. /\ turnsCancelled' = turnsCancelled \cup {turnWorker} /\ turnWorker # 0
      /\ UNCHANGED <<waiting, drainPosted, posted, emitter, handler, tail, blocks, mounted,
                     promptAt, step, attempt, shownRound, shownLog, turnWorker, queued,
                     disturbed, said>>
  BY DEF Screen!Escape, Screen!sinkVars, Screen!screenVars
<1>3. turnWorker \in Prompts
  BY <1>1, <1>2 DEF ScreenTypes, TurnTypes, Prompts, Screen!Prompts
<1>4. ScreenTypes' /\ DrainIsOnItsWay'
  BY <1>1, <1>2, <1>3
     DEF ScreenTypes, SinkTypes, ViewTypes, TurnTypes, DrainIsOnItsWay
<1>5. PromptsWaitInLine' /\ PlacesFit'
  BY <1>1, <1>2 DEF PromptsWaitInLine, PlacesFit
<1>6. \A q \in Prompts : (Over(q)' <=> Over(q)) /\ (Active(q)' => Active(q)) /\ Rests(q)
  BY <1>2 DEF Over, Active, Rests
<1>7. Doomed \subseteq Doomed'
  BY <1>1, <1>2, <1>6 DEF Doomed, ScreenTypes, TurnTypes
<1>8. \A q \in Prompts : Active(q) => Active(q)' \/ q \in Doomed'
  BY <1>2, <1>6 DEF Active, Doomed
<1>9. FlushesAreAwaited' /\ EventsAreOfTurns' /\ OneIsActive'
  <2>1. FlushesAreAwaited'
    BY <1>1, <1>2, FlushesStay
  <2>2. EventsAreOfTurns'
    BY <1>1, <1>2, <1>7, <1>8, EventsStay
  <2> QED
    BY <1>1, <1>6, <2>1, <2>2 DEF OneIsActive
<1>10. Stories'
  <2>1. mounted <= mounted'
    BY <1>1, <1>2 DEF ScreenTypes, ViewTypes
  <2> QED
    BY <1>1, <1>2, <1>4, <1>6, <1>7, <2>1, StoriesRest
<1> QED
  BY <1>4, <1>5, <1>9, <1>10 DEF ScreenInv, Orderly

LEMMA PromptShownStep ==
    ASSUME ScreenInv, NEW p \in Prompts, Screen!PromptShown(p)
    PROVE  ScreenInv'
<1>1. /\ ScreenTypes /\ DrainIsOnItsWay /\ Stories /\ PromptsWaitInLine /\ PlacesFit
      /\ FlushesAreAwaited /\ OneIsActive /\ EventsAreOfTurns
  BY DEF ScreenInv, Orderly
<1>2. /\ promptAt[p] = "prompt" /\ p \notin turnsCancelled
      /\ promptAt' = [promptAt EXCEPT ![p] = "running"]
      /\ UNCHANGED <<waiting, drainPosted, posted, emitter, handler, tail, blocks, mounted,
                     step, attempt, shownRound, shownLog, turnWorker, queued,
                     turnsCancelled, disturbed, said>>
  BY DEF Screen!PromptShown, Screen!sinkVars, Screen!screenVars
<1>3. /\ promptAt' \in [Prompts -> Screen!Places] /\ promptAt'[p] = "running"
      /\ \A q \in Prompts : q # p => promptAt'[q] = promptAt[q]
  BY <1>1, <1>2 DEF ScreenTypes, TurnTypes, Screen!Places
<1>4. ScreenTypes' /\ DrainIsOnItsWay'
  BY <1>1, <1>2, <1>3
     DEF ScreenTypes, SinkTypes, ViewTypes, TurnTypes, DrainIsOnItsWay
<1>5. PromptsWaitInLine' /\ PlacesFit'
  BY <1>1, <1>2, <1>3 DEF PromptsWaitInLine, PlacesFit, NotBegun
<1>6. \A q \in Prompts \ disturbed :
          (Over(q)' <=> Over(q)) /\ (Active(q)' <=> Active(q)) /\ Rests(q)
  <2>1. p \notin disturbed => step[p] = "begin"
    BY <1>1, <1>2 DEF PlacesFit
  <2> QED
    BY <1>2, <1>3, <2>1 DEF Over, Active, Rests, NotBegun
<1>7. Doomed \subseteq Doomed'
  BY <1>1, <1>2, <1>6 DEF Doomed, ScreenTypes, TurnTypes
<1>8. \A q \in Prompts : Active(q)' <=> Active(q)
  BY <1>2, <1>6 DEF Active
<1>9. FlushesAreAwaited' /\ EventsAreOfTurns' /\ OneIsActive'
  <2>1. FlushesAreAwaited'
    BY <1>1, <1>2, <1>3, FlushesStay
  <2>2. EventsAreOfTurns'
    BY <1>1, <1>2, <1>7, <1>8, EventsStay
  <2> QED
    BY <1>1, <1>8, <2>1, <2>2 DEF OneIsActive
<1>10. Stories'
  <2>1. mounted <= mounted'
    BY <1>1, <1>2 DEF ScreenTypes, ViewTypes
  <2>2. \A q \in Prompts \ Doomed' : Rests(q)
    BY <1>2, <1>6 DEF Doomed
  <2> QED
    BY <1>1, <1>2, <1>4, <1>7, <2>1, <2>2, StoriesRest
<1> QED
  BY <1>4, <1>5, <1>9, <1>10 DEF ScreenInv, Orderly

LEMMA NeverRunStep ==
    ASSUME ScreenInv, NEW p \in Prompts, Screen!NeverRun(p)
    PROVE  ScreenInv'
<1>1. /\ ScreenTypes /\ DrainIsOnItsWay /\ Stories /\ PromptsWaitInLine /\ PlacesFit
      /\ FlushesAreAwaited /\ OneIsActive /\ EventsAreOfTurns
  BY DEF ScreenInv, Orderly
<1>2. /\ promptAt[p] = "started" /\ p \in turnsCancelled
      /\ promptAt' = [promptAt EXCEPT ![p] = "done"]
      /\ turnsCancelled' = turnsCancelled \ {p} /\ disturbed' = disturbed \cup {p}
      /\ UNCHANGED <<waiting, drainPosted, posted, emitter, handler, tail, blocks, mounted,
                     step, attempt, shownRound, shownLog, turnWorker, queued, said>>
  BY DEF Screen!NeverRun, Screen!sinkVars, Screen!screenVars
<1>3. /\ promptAt' \in [Prompts -> Screen!Places] /\ promptAt'[p] = "done"
      /\ \A q \in Prompts : q # p => promptAt'[q] = promptAt[q]
  BY <1>1, <1>2 DEF ScreenTypes, TurnTypes, Screen!Places
<1>4. ScreenTypes' /\ DrainIsOnItsWay'
  BY <1>1, <1>2, <1>3
     DEF ScreenTypes, SinkTypes, ViewTypes, TurnTypes, DrainIsOnItsWay
<1>5. PromptsWaitInLine' /\ PlacesFit'
  BY <1>1, <1>2, <1>3 DEF PromptsWaitInLine, PlacesFit, NotBegun
<1>6. \A q \in Prompts \ {p} :
          (Over(q)' <=> Over(q)) /\ (Active(q)' <=> Active(q)) /\ Rests(q)
  BY <1>2, <1>3 DEF Over, Active, Rests
<1>7. Doomed \subseteq Doomed' /\ p \in Doomed' /\ ~Active(p)'
  BY <1>1, <1>2, <1>6 DEF Doomed, Active, ScreenTypes, TurnTypes
<1>8. FlushesAreAwaited' /\ EventsAreOfTurns' /\ OneIsActive'
  <2>1. FlushesAreAwaited'
    BY <1>1, <1>2, <1>3, FlushesStay
  <2>2. \A q \in Prompts : Active(q) => Active(q)' \/ q \in Doomed'
    BY <1>6, <1>7
  <2>3. EventsAreOfTurns'
    BY <1>1, <1>2, <1>7, <2>2, EventsStay
  <2> QED
    BY <1>1, <1>6, <1>7, <2>1, <2>3 DEF OneIsActive
<1>9. Stories'
  <2>1. mounted <= mounted'
    BY <1>1, <1>2 DEF ScreenTypes, ViewTypes
  <2>2. \A q \in Prompts \ Doomed' : Rests(q)
    BY <1>6, <1>7
  <2> QED
    BY <1>1, <1>2, <1>4, <1>7, <2>1, <2>2, StoriesRest
<1> QED
  BY <1>4, <1>5, <1>8, <1>9 DEF ScreenInv, Orderly

LEMMA TurnCancelledStep ==
    ASSUME ScreenInv, NEW p \in Prompts, Screen!TurnCancelled(p)
    PROVE  ScreenInv'
<1>1. /\ ScreenTypes /\ DrainIsOnItsWay /\ Stories /\ PromptsWaitInLine /\ PlacesFit
      /\ FlushesAreAwaited /\ OneIsActive /\ EventsAreOfTurns
  BY DEF ScreenInv, Orderly
<1>2. /\ promptAt[p] \in {"running", "flushing"} /\ p \in turnsCancelled
      /\ promptAt' = [promptAt EXCEPT ![p] = "cancelled"]
      /\ turnsCancelled' = turnsCancelled \ {p} /\ disturbed' = disturbed \cup {p}
      /\ Screen!RequestDrain(IF TRUE THEN <<Screen!Flush(p)>> ELSE <<>>)
      /\ UNCHANGED <<waiting, emitter, handler, tail, blocks, mounted,
                     step, attempt, shownRound, shownLog, turnWorker, queued, said>>
  BY DEF Screen!TurnCancelled, Screen!screenVars
<1>3. /\ promptAt' \in [Prompts -> Screen!Places] /\ promptAt'[p] = "cancelled"
      /\ \A q \in Prompts : q # p => promptAt'[q] = promptAt[q]
  BY <1>1, <1>2 DEF ScreenTypes, TurnTypes, Screen!Places
<1>4. Requests(p, TRUE) /\ DrainIsOnItsWay'
  BY <1>1, <1>2, DrainRequested DEF ScreenTypes
<1>5. ScreenTypes'
  BY <1>1, <1>2, <1>3, <1>4 DEF ScreenTypes, SinkTypes, ViewTypes, TurnTypes, Requests
<1>6. \A q \in Prompts :
          /\ InLine(posted', Screen!Start(q)) => InLine(posted, Screen!Start(q))
          /\ Once(posted, Screen!Start(q)) => Once(posted', Screen!Start(q))
          /\ q # p => (InLine(posted', Screen!Flush(q)) => InLine(posted, Screen!Flush(q)))
          /\ q # p => (Once(posted, Screen!Flush(q)) => Once(posted', Screen!Flush(q)))
  BY <1>4, LineFacts DEF Requests
<1>7. PromptsWaitInLine' /\ PlacesFit'
  BY <1>1, <1>2, <1>3, <1>6 DEF PromptsWaitInLine, PlacesFit, NotBegun
<1>8. \A q \in Prompts \ {p} :
          (Over(q)' <=> Over(q)) /\ (Active(q)' <=> Active(q)) /\ Rests(q)
  BY <1>2, <1>3 DEF Over, Active, Rests
<1>9. Doomed \subseteq Doomed' /\ p \in Doomed' /\ ~Active(p)'
  BY <1>1, <1>2, <1>8 DEF Doomed, Active, ScreenTypes, TurnTypes
<1>10. FlushesAreAwaited' /\ EventsAreOfTurns' /\ OneIsActive'
  <2>1. FlushesAreAwaited'
    BY <1>1, <1>2, <1>3, <1>6, FlushesStay
  <2>2. \A q \in Prompts : Active(q) => Active(q)' \/ q \in Doomed'
    BY <1>8, <1>9
  <2>3. EventsAreOfTurns'
    BY <1>1, <1>2, <1>9, <2>2, EventsStay
  <2> QED
    BY <1>1, <1>8, <1>9, <2>1, <2>3 DEF OneIsActive
<1>11. Stories'
  <2>1. mounted <= mounted'
    BY <1>1, <1>2 DEF ScreenTypes, ViewTypes
  <2>2. \A q \in Prompts \ Doomed' : Rests(q)
    BY <1>8, <1>9
  <2> QED
    BY <1>1, <1>2, <1>5, <1>9, <2>1, <2>2, StoriesRest
<1> QED
  BY <1>4, <1>5, <1>7, <1>10, <1>11 DEF ScreenInv, Orderly

LEMMA InterruptedStep ==
    ASSUME ScreenInv, NEW p \in Prompts, Screen!Interrupted(p)
    PROVE  ScreenInv'
<1> DEFINE b == Screen!Block("notice", p, <<>>)
<1>1. /\ ScreenTypes /\ DrainIsOnItsWay /\ Stories /\ PromptsWaitInLine /\ PlacesFit
      /\ FlushesAreAwaited /\ OneIsActive /\ EventsAreOfTurns
  BY DEF ScreenInv, Orderly
<1>2. /\ promptAt[p] = "cancelled" \/ (promptAt[p] = "prompt" /\ p \in turnsCancelled)
      /\ promptAt' = [promptAt EXCEPT ![p] = "interrupted"]
      /\ turnsCancelled' = turnsCancelled \ {p} /\ disturbed' = disturbed \cup {p}
      /\ tail' = Screen!Quiet /\ blocks' = Append(blocks, b)
      /\ UNCHANGED <<waiting, drainPosted, posted, emitter, handler, mounted,
                     step, attempt, shownRound, shownLog, turnWorker, queued, said>>
  BY DEF Screen!Interrupted, Screen!sinkVars
<1>3. /\ promptAt' \in [Prompts -> Screen!Places] /\ promptAt'[p] = "interrupted"
      /\ \A q \in Prompts : q # p => promptAt'[q] = promptAt[q]
  BY <1>1, <1>2 DEF ScreenTypes, TurnTypes, Screen!Places
<1>4. b \in Blocks /\ b.of = p
  BY LineFacts DEF Screen!Block, Blocks, Screen!Kinds, Screen!Texts
<1> HIDE DEF b
<1>5. ScreenTypes' /\ DrainIsOnItsWay'
  <2>1. /\ blocks' \in Seq(Blocks) /\ mounted' \in 0 .. Len(blocks')
        /\ Screen!Quiet \in [text : Screen!Texts, error : BOOLEAN]
    BY <1>1, <1>2, <1>4 DEF ScreenTypes, ViewTypes, Screen!Quiet, Screen!Texts
  <2> QED
    BY <1>1, <1>2, <1>3, <2>1
       DEF ScreenTypes, SinkTypes, ViewTypes, TurnTypes, DrainIsOnItsWay
<1>6. PromptsWaitInLine' /\ PlacesFit'
  BY <1>1, <1>2, <1>3 DEF PromptsWaitInLine, PlacesFit, NotBegun
<1>7. \A q \in Prompts \ {p} :
          (Over(q)' <=> Over(q)) /\ (Active(q)' <=> Active(q)) /\ Rests(q)
  BY <1>2, <1>3 DEF Over, Active, Rests
<1>8. Doomed \subseteq Doomed' /\ p \in Doomed' /\ ~Active(p)'
  BY <1>1, <1>2, <1>7 DEF Doomed, Active, ScreenTypes, TurnTypes
<1>9. FlushesAreAwaited' /\ EventsAreOfTurns' /\ OneIsActive'
  <2>1. FlushesAreAwaited'
    BY <1>1, <1>2, <1>3, FlushesStay
  <2>2. \A q \in Prompts : Active(q) => Active(q)' \/ q \in Doomed'
    BY <1>7, <1>8
  <2>3. EventsAreOfTurns'
    BY <1>1, <1>2, <1>8, <2>2, EventsStay
  <2> QED
    BY <1>1, <1>7, <1>8, <2>1, <2>3 DEF OneIsActive
<1>10. Stories'
  <2> SUFFICES ASSUME NEW q \in Prompts, q \notin Doomed' PROVE StoryOf(q)'
    BY DEF Stories
  <2>1. q # p /\ Rests(q)
    BY <1>7, <1>8
  <2> QED
    BY <1>1, <1>2, <1>4, <1>5, <1>8, <2>1, StoriesOfOthers
<1> QED
  BY <1>5, <1>6, <1>9, <1>10 DEF ScreenInv, Orderly

LEMMA BeginStep ==
    ASSUME ScreenInv, NEW p \in Prompts, Screen!Begin(p)
    PROVE  ScreenInv'
<1> DEFINE b == Screen!Block("user", p, <<>>)
<1>1. /\ ScreenTypes /\ DrainIsOnItsWay /\ Stories /\ PromptsWaitInLine /\ PlacesFit
      /\ FlushesAreAwaited /\ OneIsActive /\ EventsAreOfTurns
  BY DEF ScreenInv, Orderly
<1>2. /\ promptAt[p] = "started" /\ p \notin turnsCancelled
      /\ promptAt' = [promptAt EXCEPT ![p] = "prompt"]
      /\ blocks' = Append(blocks, b)
      /\ UNCHANGED <<waiting, drainPosted, posted, emitter, handler, tail, mounted,
                     step, attempt, shownRound, shownLog, turnWorker, queued,
                     turnsCancelled, disturbed, said>>
  BY DEF Screen!Begin, Screen!sinkVars
<1>3. /\ promptAt' \in [Prompts -> Screen!Places] /\ promptAt'[p] = "prompt"
      /\ \A q \in Prompts : q # p => promptAt'[q] = promptAt[q]
  BY <1>1, <1>2 DEF ScreenTypes, TurnTypes, Screen!Places
<1>4. b \in Blocks /\ b.of = p
  BY LineFacts DEF Screen!Block, Blocks, Screen!Kinds, Screen!Texts
<1> HIDE DEF b
<1>5. ScreenTypes' /\ DrainIsOnItsWay'
  <2>1. blocks' \in Seq(Blocks) /\ mounted' \in 0 .. Len(blocks')
    BY <1>1, <1>2, <1>4 DEF ScreenTypes, ViewTypes
  <2> QED
    BY <1>1, <1>2, <1>3, <2>1
       DEF ScreenTypes, SinkTypes, ViewTypes, TurnTypes, DrainIsOnItsWay
<1>6. PromptsWaitInLine' /\ PlacesFit'
  BY <1>1, <1>2, <1>3 DEF PromptsWaitInLine, PlacesFit, NotBegun
<1>7. /\ \A q \in Prompts : (Over(q)' <=> Over(q)) /\ (Active(q)' <=> Active(q))
      /\ \A q \in Prompts \ {p} : Rests(q)
  BY <1>2, <1>3 DEF Over, Active, Rests
<1>8. Doomed' = Doomed /\ (p \in Doomed \/ Active(p))
  BY <1>1, <1>2, <1>7 DEF Doomed, Active, Over, ScreenTypes, TurnTypes
<1>9. FlushesAreAwaited' /\ EventsAreOfTurns' /\ OneIsActive'
  <2>1. FlushesAreAwaited'
    BY <1>1, <1>2, <1>3, FlushesStay
  <2>2. EventsAreOfTurns'
    BY <1>1, <1>2, <1>7, <1>8, EventsStay
  <2> QED
    BY <1>1, <1>7, <2>1, <2>2 DEF OneIsActive
<1>10. Stories'
  <2> SUFFICES ASSUME NEW q \in Prompts, q \notin Doomed' PROVE StoryOf(q)'
    BY DEF Stories
  <2>1. CASE q # p
    BY <1>1, <1>2, <1>4, <1>5, <1>7, <1>8, <2>1, StoriesOfOthers
  <2>2. CASE q = p
    <3>1. /\ Unseen(p, blocks, waiting) /\ shownLog[p] = <<>> /\ shownRound[p] = <<>>
      <4>1. StoryOf(p) /\ promptAt[p] \in NotBegun
        BY <1>1, <1>2, <1>8, <2>2 DEF Stories, NotBegun
      <4> QED
        BY <4>1 DEF StoryOf
    <3>2. Ongoing(p, blocks', waiting, <<>>, FALSE, Doomed)
      BY <1>1, <1>2, <3>1, OngoingBegins DEF ScreenTypes, ViewTypes, SinkTypes, b
    <3>3. shownLog'[p] \o shownRound'[p] = <<>>
      BY <1>2, <3>1
    <3>4. (step'[p] = "over") = FALSE
      <4>1. p \notin disturbed
        BY <1>8, <2>2 DEF Doomed
      <4>2. step[p] = "begin"
        BY <1>1, <1>2, <4>1 DEF PlacesFit, NotBegun
      <4> QED
        BY <1>2, <4>2
    <3>5. promptAt'[p] \notin NotBegun /\ ~Over(p)'
      BY <1>3 DEF NotBegun, Over
    <3> QED
      BY <1>2, <1>8, <2>2, <3>2, <3>3, <3>4, <3>5 DEF StoryOf
  <2> QED
    BY <2>1, <2>2
<1> QED
  BY <1>5, <1>6, <1>9, <1>10 DEF ScreenInv, Orderly

LEMMA EndedStep ==
    ASSUME ScreenInv, NEW p \in Prompts, Screen!Ended(p)
    PROVE  ScreenInv'
<1> DEFINE h == Head(queued)
<1>1. /\ ScreenTypes /\ DrainIsOnItsWay /\ Stories /\ PromptsWaitInLine /\ PlacesFit
      /\ FlushesAreAwaited /\ OneIsActive /\ EventsAreOfTurns
  BY DEF ScreenInv, Orderly
<1>2. /\ promptAt[p] = "interrupted" \/ (promptAt[p] = "running" /\ step[p] = "over")
      /\ turnWorker' = 0 /\ turnsCancelled' = turnsCancelled \ {p}
      /\ \/ /\ queued = <<>> /\ promptAt' = [promptAt EXCEPT ![p] = "done"]
            /\ UNCHANGED <<queued, posted>>
         \/ /\ queued # <<>>
            /\ promptAt' = [promptAt EXCEPT ![p] = "done", ![h] = "posted"]
            /\ queued' = Tail(queued) /\ posted' = Append(posted, Screen!Start(h))
      /\ UNCHANGED <<waiting, drainPosted, emitter, handler, tail, blocks, mounted,
                     step, attempt, shownRound, shownLog, disturbed, said>>
  BY DEF Screen!Ended, Screen!Leave, Screen!screenVars
<1> HIDE DEF h
<1>3. /\ posted \in Seq(Line) /\ queued \in Seq(Prompts)
      /\ promptAt \in [Prompts -> Screen!Places]
  BY <1>1 DEF ScreenTypes, SinkTypes, TurnTypes
<1>4. queued # <<>> =>
          /\ h \in Prompts /\ promptAt[h] = "queued" /\ h # p
          /\ queued' \in Seq(Prompts) /\ posted' \in Seq(Line)
          /\ \A c : InLine(queued', c) => InLine(queued, c)
          /\ \A c : Once(queued, c) => Once(queued', c)
          /\ ~InLine(queued', h)
          /\ \A c : InLine(posted', c) <=> InLine(posted, c) \/ c = Screen!Start(h)
          /\ \A c : /\ Once(posted, c)
                    /\ c = Screen!Start(h) => ~InLine(posted, c)
                    => Once(posted', c)
          /\ Screen!Start(h) # Screen!Ready
  <2> SUFFICES ASSUME queued # <<>>
               PROVE  /\ h \in Prompts /\ promptAt[h] = "queued" /\ h # p
                      /\ queued' \in Seq(Prompts) /\ posted' \in Seq(Line)
                      /\ \A c : InLine(queued', c) => InLine(queued, c)
                      /\ \A c : Once(queued, c) => Once(queued', c)
                      /\ ~InLine(queued', h)
                      /\ \A c : InLine(posted', c) <=> InLine(posted, c) \/ c = Screen!Start(h)
                      /\ \A c : /\ Once(posted, c)
                                /\ c = Screen!Start(h) => ~InLine(posted, c)
                                => Once(posted', c)
                      /\ Screen!Start(h) # Screen!Ready
    OBVIOUS
  <2>1. /\ h \in Prompts /\ Tail(queued) \in Seq(Prompts)
        /\ \A c : InLine(queued, c) <=> c = h \/ InLine(Tail(queued), c)
        /\ \A c : Once(queued, c) =>
                  Once(Tail(queued), c) /\ (c = h => ~InLine(Tail(queued), c))
    BY <1>3, TakeFirst DEF h
  <2>2. queued' = Tail(queued) /\ posted' = Append(posted, Screen!Start(h))
    BY <1>2
  <2>3. promptAt[h] = "queued" /\ h # p /\ Once(queued, h)
    BY <1>1, <1>2, <2>1 DEF PromptsWaitInLine
  <2>4. Screen!Start(h) \in Line /\ Screen!Start(h) # Screen!Ready
    BY <2>1, LineFacts
  <2>5. /\ Append(posted, Screen!Start(h)) \in Seq(Line)
        /\ \A c : InLine(Append(posted, Screen!Start(h)), c) <=>
                      InLine(posted, c) \/ c = Screen!Start(h)
        /\ \A c : Once(posted, c) /\ (c = Screen!Start(h) => ~InLine(posted, c)) =>
                      Once(Append(posted, Screen!Start(h)), c)
    BY <1>3, <2>4, PutLast
  <2> QED
    BY <2>1, <2>2, <2>3, <2>4, <2>5
<1>5. /\ promptAt' \in [Prompts -> Screen!Places] /\ promptAt'[p] = "done"
      /\ queued # <<>> => promptAt'[h] = "posted"
      /\ \A q \in Prompts : q # p /\ (queued # <<>> => q # h) => promptAt'[q] = promptAt[q]
  <2>1. "done" \in Screen!Places /\ "posted" \in Screen!Places
    BY DEF Screen!Places
  <2>2. CASE queued = <<>>
    BY <1>2, <1>3, <2>1, <2>2
  <2>3. CASE queued # <<>>
    BY <1>2, <1>3, <1>4, <2>1, <2>3
  <2> QED
    BY <2>2, <2>3
<1>6. \A q \in Prompts :
          /\ InLine(posted', Screen!Flush(q)) => InLine(posted, Screen!Flush(q))
          /\ Once(posted, Screen!Flush(q)) => Once(posted', Screen!Flush(q))
  BY <1>2, <1>4, LineFacts
<1>7. ScreenTypes' /\ DrainIsOnItsWay'
  <2>1. posted' \in Seq(Line) /\ queued' \in Seq(Prompts) /\ turnWorker' \in 0 .. MaxPrompts
    BY <1>2, <1>3, <1>4, LineFacts
  <2>2. InLine(posted, Screen!Ready) => InLine(posted', Screen!Ready)
    BY <1>2, <1>4
  <2> QED
    BY <1>1, <1>2, <1>5, <2>1, <2>2
       DEF ScreenTypes, SinkTypes, ViewTypes, TurnTypes, DrainIsOnItsWay
<1>8. PlacesFit'
  BY <1>1, <1>2, <1>4, <1>5 DEF PlacesFit, NotBegun
<1>9. PromptsWaitInLine'
  <2> SUFFICES ASSUME NEW q \in Prompts
               PROVE  /\ InLine(queued', q) => promptAt'[q] = "queued"
                      /\ InLine(posted', Screen!Start(q)) => promptAt'[q] = "posted"
                      /\ Once(queued', q) /\ Once(posted', Screen!Start(q))
    BY DEF PromptsWaitInLine
  <2>1. /\ InLine(queued, q) => promptAt[q] = "queued"
        /\ InLine(posted, Screen!Start(q)) => promptAt[q] = "posted"
        /\ Once(queued, q) /\ Once(posted, Screen!Start(q))
    BY <1>1 DEF PromptsWaitInLine
  <2>2. CASE queued = <<>>
    BY <1>2, <1>5, <2>1, <2>2
  <2>3. CASE queued # <<>>
    <3>1. Screen!Start(q) = Screen!Start(h) => q = h
      BY LineFacts
    <3>2. /\ InLine(queued', q) => InLine(queued, q) /\ q # h
          /\ Once(queued', q)
          /\ InLine(posted', Screen!Start(q)) => InLine(posted, Screen!Start(q)) \/ q = h
      BY <1>4, <2>1, <2>3, <3>1
    <3>3. Once(posted', Screen!Start(q))
      <4>1. CASE q = h
        <5>1. ~InLine(posted, Screen!Start(q))
          BY <1>4, <2>1, <2>3, <4>1
        <5> QED
          BY <1>4, <2>1, <2>3, <5>1
      <4>2. CASE q # h
        BY <1>4, <2>1, <2>3, <3>1, <4>2
      <4> QED
        BY <4>1, <4>2
    <3> QED
      BY <1>2, <1>5, <2>1, <2>3, <3>2, <3>3
  <2> QED
    BY <2>2, <2>3
<1>10. /\ \A q \in Prompts \ {p} :
             (Over(q)' <=> Over(q)) /\ (Active(q)' <=> Active(q)) /\ Rests(q)
       /\ p \notin disturbed => Over(p) /\ Over(p)' /\ Rests(p)
       /\ ~Active(p) /\ ~Active(p)' /\ Over(p)'
  <2>1. ASSUME NEW q \in Prompts, q # p
        PROVE  (Over(q)' <=> Over(q)) /\ (Active(q)' <=> Active(q)) /\ Rests(q)
    <3>1. CASE queued # <<>> /\ q = h
      BY <1>2, <1>4, <1>5, <2>1, <3>1 DEF Over, Active, Rests, NotBegun
    <3>2. CASE ~(queued # <<>> /\ q = h)
      <4>1. promptAt'[q] = promptAt[q]
        BY <1>5, <2>1, <3>2
      <4> QED
        BY <1>2, <2>1, <4>1 DEF Over, Active, Rests, NotBegun
    <3> QED
      BY <3>1, <3>2
  <2>2. p \notin disturbed => promptAt[p] = "running" /\ step[p] = "over"
    BY <1>1, <1>2 DEF PlacesFit
  <2> QED
    BY <1>2, <1>5, <2>1, <2>2 DEF Over, Active, Rests, NotBegun
<1>11. Doomed \subseteq Doomed'
  BY <1>1, <1>2, <1>10 DEF Doomed, ScreenTypes, TurnTypes
<1>12. FlushesAreAwaited' /\ EventsAreOfTurns' /\ OneIsActive'
  <2>1. FlushesAreAwaited'
    <3>1. \A q \in Prompts : promptAt[q] = "flushing" => promptAt'[q] = "flushing"
      BY <1>2, <1>4, <1>5
    <3> QED
      BY <1>1, <1>2, <1>6, <3>1, FlushesStay
  <2>2. EventsAreOfTurns'
    <3>1. \A q \in Prompts : Active(q) => Active(q)'
      BY <1>10
    <3> QED
      BY <1>1, <1>2, <1>11, <3>1, EventsStay
  <2> QED
    BY <1>1, <1>10, <2>1, <2>2 DEF OneIsActive
<1>13. Stories'
  <2>1. mounted <= mounted'
    BY <1>1, <1>2 DEF ScreenTypes, ViewTypes
  <2>2. \A q \in Prompts \ Doomed' : Rests(q)
    BY <1>2, <1>10 DEF Doomed
  <2> QED
    BY <1>1, <1>2, <1>7, <1>11, <2>1, <2>2, StoriesRest
<1> QED
  BY <1>7, <1>8, <1>9, <1>12, <1>13 DEF ScreenInv, Orderly

LEMMA StartTypes ==
    ASSUME NEW p \in Prompts, turnsCancelled \subseteq Prompts, Screen!StartPrompt(p)
    PROVE  /\ turnWorker' \in 0 .. MaxPrompts /\ turnsCancelled' \subseteq Prompts
           /\ tail' \in [text : Screen!Texts, error : BOOLEAN]
<1>1. turnWorker' \in 0 .. MaxPrompts
  BY ScreenAssumption DEF Screen!StartPrompt, Prompts, Screen!Prompts
<1>2. turnsCancelled' \subseteq Prompts
  BY DEF Screen!StartPrompt, Prompts
<1>3. tail' \in [text : Screen!Texts, error : BOOLEAN]
  BY DEF Screen!StartPrompt, Screen!Quiet, Screen!Texts
<1> QED
  BY <1>1, <1>2, <1>3

\* A worker starts, and those before it are to be cancelled.
LEMMA PromptStarts ==
    ASSUME ScreenInv, ScreenTypes', DrainIsOnItsWay', PromptsWaitInLine',
           NEW p \in Prompts, promptAt[p] \in {"none", "posted"}, Screen!StartPrompt(p),
           promptAt' = [promptAt EXCEPT ![p] = "started"],
           UNCHANGED <<waiting, handler, blocks, mounted, step, shownRound, shownLog,
                       disturbed>>,
           \A q \in Prompts :
               /\ InLine(posted', Screen!Flush(q)) => InLine(posted, Screen!Flush(q))
               /\ Once(posted, Screen!Flush(q)) => Once(posted', Screen!Flush(q))
    PROVE  ScreenInv'
<1>1. /\ ScreenTypes /\ Stories /\ PlacesFit /\ FlushesAreAwaited /\ OneIsActive
      /\ EventsAreOfTurns
  BY DEF ScreenInv, Orderly
<1>2. turnsCancelled' = turnsCancelled \cup {q \in Prompts \ {p} : promptAt[q] \in Screen!Working}
  BY DEF Screen!StartPrompt, Screen!Running, Prompts
<1>3. /\ promptAt'[p] = "started"
      /\ \A q \in Prompts : q # p => promptAt'[q] = promptAt[q]
  BY <1>1 DEF ScreenTypes, TurnTypes
<1>4. PlacesFit'
  BY <1>1, <1>3 DEF PlacesFit, NotBegun
<1>5. \A q \in Prompts : (Over(q)' <=> Over(q)) /\ Rests(q)
  BY <1>3 DEF Over, Rests, NotBegun
<1>6. Doomed \subseteq Doomed'
  BY <1>1, <1>2, <1>5 DEF Doomed, ScreenTypes, TurnTypes
<1>7. \A q \in Prompts : q # p =>
          ~Active(q)' /\ (Active(q) => q \in Doomed') /\ ~Active(p)
  BY <1>2, <1>3, <1>5 DEF Active, Doomed, Screen!Working
<1>8. FlushesAreAwaited' /\ EventsAreOfTurns' /\ OneIsActive'
  <2>1. FlushesAreAwaited'
    BY <1>1, <1>3, FlushesStay
  <2>2. \A q \in Prompts : Active(q) => Active(q)' \/ q \in Doomed'
    <3>1. ~Active(p)
      BY DEF Active
    <3> QED
      BY <1>7, <3>1
  <2>3. EventsAreOfTurns'
    BY <1>1, <1>6, <2>2, EventsStay
  <2> QED
    BY <1>7, <2>1, <2>3 DEF OneIsActive
<1>9. Stories'
  <2>1. mounted <= mounted'
    BY <1>1 DEF ScreenTypes, ViewTypes
  <2> QED
    BY <1>1, <1>5, <1>6, <2>1, StoriesRest
<1> QED
  BY <1>4, <1>8, <1>9 DEF ScreenInv, Orderly

LEMMA SubmitStep ==
    ASSUME ScreenInv, NEW p \in Prompts, Screen!Submit(p)
    PROVE  ScreenInv'
<1>1. /\ ScreenTypes /\ DrainIsOnItsWay /\ Stories /\ PromptsWaitInLine /\ PlacesFit
      /\ FlushesAreAwaited /\ OneIsActive /\ EventsAreOfTurns
  BY DEF ScreenInv, Orderly
<1>2. /\ promptAt[p] = "none"
      /\ UNCHANGED <<waiting, drainPosted, posted, emitter, handler, blocks, mounted,
                     step, attempt, shownRound, shownLog, said, disturbed>>
  BY DEF Screen!Submit, Screen!sinkVars
<1>3. /\ queued \in Seq(Prompts) /\ promptAt \in [Prompts -> Screen!Places]
      /\ turnsCancelled \subseteq Prompts /\ turnWorker \in 0 .. MaxPrompts
      /\ ~InLine(queued, p) /\ ~InLine(posted, Screen!Start(p))
  BY <1>1, <1>2 DEF ScreenTypes, TurnTypes, PromptsWaitInLine
<1>4. DrainIsOnItsWay' /\ SinkTypes'
  BY <1>1, <1>2 DEF DrainIsOnItsWay, ScreenTypes, SinkTypes
<1>5. CASE /\ queued' = Append(queued, p) /\ promptAt' = [promptAt EXCEPT ![p] = "queued"]
           /\ UNCHANGED <<turnWorker, turnsCancelled, tail>>
  <2>1. /\ promptAt' \in [Prompts -> Screen!Places] /\ promptAt'[p] = "queued"
        /\ \A q \in Prompts : q # p => promptAt'[q] = promptAt[q]
    BY <1>3, <1>5 DEF Screen!Places
  <2>2. /\ queued' \in Seq(Prompts)
        /\ \A c : InLine(queued', c) <=> InLine(queued, c) \/ c = p
        /\ \A c : Once(queued, c) /\ (c = p => ~InLine(queued, c)) => Once(queued', c)
    BY <1>3, <1>5, PutLast
  <2>3. ScreenTypes'
    BY <1>1, <1>2, <1>4, <1>5, <2>1, <2>2 DEF ScreenTypes, ViewTypes, TurnTypes
  <2>4. PromptsWaitInLine' /\ PlacesFit'
    <3>1. PromptsWaitInLine'
      BY <1>1, <1>2, <1>3, <2>1, <2>2 DEF PromptsWaitInLine
    <3> QED
      BY <1>1, <1>2, <2>1, <3>1 DEF PlacesFit, NotBegun
  <2>5. \A q \in Prompts : (Over(q)' <=> Over(q)) /\ (Active(q)' <=> Active(q)) /\ Rests(q)
    BY <1>2, <1>5, <2>1 DEF Over, Active, Rests, NotBegun
  <2>6. Doomed \subseteq Doomed'
    BY <1>2, <1>3, <1>5, <2>5 DEF Doomed
  <2>7. FlushesAreAwaited' /\ EventsAreOfTurns' /\ OneIsActive'
    <3>1. FlushesAreAwaited'
      BY <1>1, <1>2, <2>1, FlushesStay
    <3>2. EventsAreOfTurns'
      BY <1>1, <1>2, <2>5, <2>6, EventsStay
    <3> QED
      BY <1>1, <2>5, <3>1, <3>2 DEF OneIsActive
  <2>8. Stories'
    <3>1. mounted <= mounted'
      BY <1>1, <1>2 DEF ScreenTypes, ViewTypes
    <3> QED
      BY <1>1, <1>2, <2>3, <2>5, <2>6, <3>1, StoriesRest
  <2> QED
    BY <1>4, <2>3, <2>4, <2>7, <2>8 DEF ScreenInv, Orderly
<1>6. CASE /\ Screen!StartPrompt(p) /\ promptAt' = [promptAt EXCEPT ![p] = "started"]
           /\ UNCHANGED queued
  <2>1. /\ promptAt' \in [Prompts -> Screen!Places] /\ promptAt'[p] = "started"
        /\ \A q \in Prompts : q # p => promptAt'[q] = promptAt[q]
    BY <1>3, <1>6 DEF Screen!Places
  <2>2. /\ turnWorker' \in 0 .. MaxPrompts /\ turnsCancelled' \subseteq Prompts
        /\ tail' \in [text : Screen!Texts, error : BOOLEAN]
    BY <1>3, <1>6, StartTypes
  <2>3. ScreenTypes'
    BY <1>1, <1>2, <1>4, <1>6, <2>1, <2>2 DEF ScreenTypes, ViewTypes, TurnTypes
  <2>4. PromptsWaitInLine'
    BY <1>1, <1>2, <1>3, <1>6, <2>1 DEF PromptsWaitInLine
  <2> QED
    BY <1>2, <1>4, <1>6, <2>3, <2>4, PromptStarts
<1> QED
  BY <1>5, <1>6 DEF Screen!Submit

LEMMA StartQueuedStep ==
    ASSUME ScreenInv, NEW p \in Prompts, Screen!StartQueued(p)
    PROVE  ScreenInv'
<1>1. ScreenTypes /\ DrainIsOnItsWay /\ PromptsWaitInLine
  BY DEF ScreenInv, Orderly
<1>2. /\ posted # <<>> /\ Head(posted) = Screen!Start(p) /\ posted' = Tail(posted)
      /\ Screen!StartPrompt(p) /\ promptAt' = [promptAt EXCEPT ![p] = "started"]
      /\ UNCHANGED <<waiting, drainPosted, emitter, handler, blocks, mounted,
                     step, attempt, shownRound, shownLog, queued, said, disturbed>>
  BY DEF Screen!StartQueued
<1>3. /\ promptAt \in [Prompts -> Screen!Places] /\ turnsCancelled \subseteq Prompts
      /\ posted \in Seq(Line)
  BY <1>1 DEF ScreenTypes, SinkTypes, TurnTypes
<1>4. /\ posted' \in Seq(Line)
      /\ \A c : InLine(posted, c) <=> c = Screen!Start(p) \/ InLine(posted', c)
      /\ \A c : Once(posted, c) =>
             Once(posted', c) /\ (c = Screen!Start(p) => ~InLine(posted', c))
  BY <1>2, <1>3, TakeFirst
<1>5. promptAt[p] = "posted" /\ ~InLine(posted', Screen!Start(p))
  BY <1>1, <1>4 DEF PromptsWaitInLine
<1>6. /\ promptAt' \in [Prompts -> Screen!Places] /\ promptAt'[p] = "started"
      /\ \A q \in Prompts : q # p => promptAt'[q] = promptAt[q]
  BY <1>2, <1>3 DEF Screen!Places
<1>7. /\ turnWorker' \in 0 .. MaxPrompts /\ turnsCancelled' \subseteq Prompts
      /\ tail' \in [text : Screen!Texts, error : BOOLEAN]
  BY <1>2, <1>3, StartTypes
<1>8. ScreenTypes'
  BY <1>1, <1>2, <1>4, <1>6, <1>7 DEF ScreenTypes, SinkTypes, ViewTypes, TurnTypes
<1>9. DrainIsOnItsWay'
  BY <1>1, <1>2, <1>4, LineFacts DEF DrainIsOnItsWay
<1>10. PromptsWaitInLine'
  <2>1. ASSUME NEW q \in Prompts
        PROVE  /\ InLine(queued', q) => promptAt'[q] = "queued"
               /\ InLine(posted', Screen!Start(q)) => promptAt'[q] = "posted"
               /\ Once(queued', q) /\ Once(posted', Screen!Start(q))
    BY <1>1, <1>2, <1>4, <1>5, <1>6 DEF PromptsWaitInLine
  <2> QED
    BY <2>1 DEF PromptsWaitInLine
<1> QED
  BY <1>2, <1>4, <1>5, <1>8, <1>9, <1>10, PromptStarts

\* All that waits shows: of the turn that goes on, or of some that nobody asks after.
LEMMA StoriesShown ==
    ASSUME ScreenTypes, ScreenTypes', PlacesFit, OneIsActive, EventsAreOfTurns, Stories,
           Extends(blocks', blocks), Rendered(blocks, waiting, Len(waiting), blocks'),
           waiting' = <<>>, Doomed' = Doomed, mounted' = mounted,
           UNCHANGED <<promptAt, step, shownLog, shownRound>>
    PROVE  Stories'
<1> SUFFICES ASSUME NEW q \in Prompts, q \notin Doomed PROVE StoryOf(q)'
  BY DEF Stories
<1>1. /\ blocks \in Seq(Blocks) /\ blocks' \in Seq(Blocks)
      /\ waiting \in Seq(Events) /\ mounted \in Nat
      /\ Len(blocks) \in Nat /\ Len(blocks') \in Nat
      /\ shownLog[q] \in Seq(Screen!Texts) /\ shownRound[q] \in Seq(Screen!Texts)
  BY DEF ScreenTypes, SinkTypes, ViewTypes, TurnTypes
<1>2. StoryOf(q) /\ NoneComes(q, waiting') /\ (Over(q)' <=> Over(q))
  BY DEF Stories, NoneComes, Over
<1>3. NoneComes(q, waiting) =>
          \A i \in Len(blocks) + 1 .. Len(blocks') : blocks'[i].of # q
  BY <1>1, OthersShown
<1>4. CASE promptAt[q] \in NotBegun
  <2>1. Unseen(q, blocks, waiting) /\ shownLog[q] = <<>> /\ shownRound[q] = <<>>
    BY <1>2, <1>4 DEF StoryOf
  <2>2. \A i \in 1 .. Len(blocks') :
            i \in Len(blocks) + 1 .. Len(blocks')
            \/ (i \in 1 .. Len(blocks) /\ blocks'[i] = blocks[i])
    BY <1>1 DEF Extends
  <2>3. Unseen(q, blocks', waiting')
    BY <1>2, <1>3, <2>1, <2>2 DEF Unseen
  <2> QED
    BY <1>4, <2>1, <2>3 DEF StoryOf
<1>5. CASE promptAt[q] \notin NotBegun /\ Over(q)
  <2>1. Finished(q, blocks, mounted, waiting, shownLog[q], Doomed)
    BY <1>2, <1>5 DEF StoryOf
  <2>2. NoneComes(q, waiting)
    BY <2>1 DEF Finished
  <2>3. Finished(q, blocks', mounted, waiting', shownLog[q], Doomed)
    BY <1>1, <1>2, <1>3, <2>1, <2>2, FinishedKept
  <2> QED
    BY <1>2, <1>5, <2>3 DEF StoryOf
<1>6. CASE promptAt[q] \notin NotBegun /\ ~Over(q)
  <2> DEFINE texts == shownLog[q] \o shownRound[q]
             ended == step[q] = "over"
  <2>1. Ongoing(q, blocks, waiting, texts, ended, Doomed)
    BY <1>2, <1>6 DEF StoryOf
  <2>2. texts \in Seq(Screen!Texts) /\ ended \in BOOLEAN
    BY <1>1, ConcatProperties
  <2>3. Active(q)
    BY <1>6, GoingIsActive DEF ScreenTypes, NotBegun
  <2>4. \A i \in 1 .. Len(waiting) :
            waiting[i].type \in Shows => waiting[i].of \in {q} \cup Doomed
    BY <2>3 DEF EventsAreOfTurns, OneIsActive
  <2> HIDE DEF texts, ended
  <2>5. Ongoing(q, blocks', <<>>, texts, ended, Doomed)
    BY <1>1, <2>1, <2>2, <2>4, OngoingShown
  <2> QED
    BY <1>2, <1>6, <2>5 DEF StoryOf, texts, ended
<1> QED
  BY <1>4, <1>5, <1>6

LEMMA HandleStep ==
    ASSUME ScreenInv, Screen!Handle
    PROVE  ScreenInv'
<1> DEFINE view == Screen!View[Len(waiting)]
<1>1. /\ ScreenTypes /\ DrainIsOnItsWay /\ Stories /\ PromptsWaitInLine /\ PlacesFit
      /\ FlushesAreAwaited /\ OneIsActive /\ EventsAreOfTurns
  BY DEF ScreenInv, Orderly
<1>2. /\ posted # <<>> /\ handler' = Head(posted) /\ posted' = Tail(posted)
      /\ tail' = view.live /\ blocks' = view.blocks
      /\ waiting' = <<>> /\ drainPosted' = FALSE
      /\ UNCHANGED <<mounted, emitter, promptAt, step, attempt, shownRound, shownLog,
                     turnWorker, queued, turnsCancelled, disturbed, said>>
  BY DEF Screen!Handle, Screen!TakePending, Screen!workVars
<1>3. /\ view \in Views /\ Extends(view.blocks, blocks)
      /\ Rendered(blocks, waiting, Len(waiting), view.blocks)
  <2>1. waiting \in Seq(Events) /\ Len(waiting) \in 0 .. Len(waiting)
    BY <1>1 DEF ScreenTypes, SinkTypes
  <2>2. [live |-> tail, blocks |-> blocks] \in Views
    BY <1>1 DEF ScreenTypes, ViewTypes, Views
  <2> QED
    BY <2>1, <2>2, ViewsFollow
<1> HIDE DEF view
<1>4. posted \in Seq(Line) /\ blocks \in Seq(Blocks)
  BY <1>1 DEF ScreenTypes, SinkTypes, ViewTypes
<1>5. /\ Head(posted) \in Line /\ posted' \in Seq(Line)
      /\ \A c : InLine(posted, c) <=> c = Head(posted) \/ InLine(posted', c)
      /\ \A c : Once(posted, c) =>
             Once(posted', c) /\ (c = Head(posted) => ~InLine(posted', c))
  BY <1>2, <1>4, TakeFirst
<1>6. /\ tail' \in [text : Screen!Texts, error : BOOLEAN] /\ blocks' \in Seq(Blocks)
      /\ mounted' \in 0 .. Len(blocks')
  <2>1. tail' \in [text : Screen!Texts, error : BOOLEAN] /\ blocks' \in Seq(Blocks)
    BY <1>2, <1>3 DEF Views
  <2> QED
    BY <1>1, <1>2, <1>3, <2>1 DEF ScreenTypes, ViewTypes, Extends
<1>7. ScreenTypes' /\ DrainIsOnItsWay'
  <2>1. waiting' \in Seq(Events) /\ DrainIsOnItsWay'
    BY <1>2 DEF DrainIsOnItsWay
  <2>2. SinkTypes'
    BY <1>2, <1>5, <2>1 DEF SinkTypes
  <2>3. ViewTypes'
    BY <1>2, <1>5, <1>6 DEF ViewTypes
  <2>4. TurnTypes'
    BY <1>1, <1>2 DEF ScreenTypes, TurnTypes
  <2> QED
    BY <2>1, <2>2, <2>3, <2>4 DEF ScreenTypes
<1>8. PromptsWaitInLine' /\ PlacesFit'
  BY <1>1, <1>2, <1>5 DEF PromptsWaitInLine, PlacesFit
<1>9. \A q \in Prompts : (Over(q)' <=> Over(q)) /\ (Active(q)' <=> Active(q))
  BY <1>2 DEF Over, Active
<1>10. Doomed' = Doomed
  BY <1>1, <1>2, <1>9 DEF Doomed, ScreenTypes, TurnTypes
<1>11. FlushesAreAwaited'
  <2>1. \A q : NoneComes(q, waiting')
    BY <1>2 DEF NoneComes
  <2>2. ASSUME NEW q \in Prompts \ disturbed
        PROVE  /\ InLine(posted', Screen!Flush(q)) =>
                      promptAt'[q] = "flushing" /\ handler' # Screen!Flush(q)
               /\ Once(posted', Screen!Flush(q))
               /\ handler' = Screen!Flush(q) =>
                      promptAt'[q] = "flushing" /\ NoneComes(q, waiting')
    BY <1>1, <1>2, <1>5, <2>1 DEF FlushesAreAwaited
  <2> QED
    BY <1>2, <2>2 DEF FlushesAreAwaited
<1>12. EventsAreOfTurns' /\ OneIsActive'
  BY <1>1, <1>2, <1>9 DEF EventsAreOfTurns, OneIsActive
<1>13. Stories'
  BY <1>1, <1>2, <1>3, <1>7, <1>10, StoriesShown
<1> QED
  BY <1>7, <1>8, <1>11, <1>12, <1>13 DEF ScreenInv, Orderly

LEMMA HandledStep ==
    ASSUME ScreenInv, Screen!Handled
    PROVE  ScreenInv'
<1> DEFINE GoesOn(q) ==
               handler = Screen!Flush(q) /\ promptAt[q] = "flushing" /\ q \notin turnsCancelled
<1>1. /\ ScreenTypes /\ DrainIsOnItsWay /\ Stories /\ PromptsWaitInLine /\ PlacesFit
      /\ FlushesAreAwaited /\ OneIsActive /\ EventsAreOfTurns
  BY DEF ScreenInv, Orderly
<1>2. /\ handler' = <<"none", 0>> /\ mounted = Len(blocks)
      /\ promptAt' = [q \in Prompts |-> IF GoesOn(q) THEN "running" ELSE promptAt[q]]
      /\ UNCHANGED <<waiting, drainPosted, posted, emitter, tail, blocks, mounted, step,
                     attempt, shownRound, shownLog, turnWorker, queued, turnsCancelled,
                     disturbed, said>>
  BY DEF Screen!Handled, Screen!sinkVars, Screen!None, Prompts
<1>3. /\ promptAt' \in [Prompts -> Screen!Places]
      /\ \A q \in Prompts : GoesOn(q) => promptAt'[q] = "running"
      /\ \A q \in Prompts : ~GoesOn(q) => promptAt'[q] = promptAt[q]
  BY <1>1, <1>2 DEF ScreenTypes, TurnTypes, Screen!Places
<1>4. ScreenTypes' /\ DrainIsOnItsWay'
  <2>1. handler' \in Line
    BY <1>2, LineFacts DEF Line
  <2> QED
    BY <1>1, <1>2, <1>3, <2>1
       DEF ScreenTypes, SinkTypes, ViewTypes, TurnTypes, DrainIsOnItsWay
<1>5. PromptsWaitInLine'
  BY <1>1, <1>2, <1>3 DEF PromptsWaitInLine
<1>6. PlacesFit'
  BY <1>1, <1>2, <1>3 DEF PlacesFit, NotBegun
<1>7. FlushesAreAwaited'
  <2>1. \A q : handler' # Screen!Flush(q)
    BY <1>2 DEF Screen!Flush
  <2> QED
    BY <1>1, <1>2, <1>3, <2>1 DEF FlushesAreAwaited
<1>8. \A q \in Prompts :
          /\ ~(GoesOn(q) /\ step[q] = "over") => (Over(q)' <=> Over(q)) /\ Rests(q)
          /\ GoesOn(q) /\ step[q] = "over" => ~Over(q) /\ Over(q)'
          /\ q \in turnsCancelled => (Over(q)' <=> Over(q))
          /\ Active(q)' => Active(q)
          /\ Active(q) => Active(q)' \/ GoesOn(q)
  <2> SUFFICES ASSUME NEW q \in Prompts
               PROVE  /\ ~(GoesOn(q) /\ step[q] = "over") => (Over(q)' <=> Over(q)) /\ Rests(q)
                      /\ GoesOn(q) /\ step[q] = "over" => ~Over(q) /\ Over(q)'
                      /\ q \in turnsCancelled => (Over(q)' <=> Over(q))
                      /\ Active(q)' => Active(q)
                      /\ Active(q) => Active(q)' \/ GoesOn(q)
    OBVIOUS
  <2>1. CASE GoesOn(q)
    <3>1. promptAt[q] = "flushing" /\ promptAt'[q] = "running" /\ q \notin turnsCancelled
      BY <1>3, <2>1
    <3> HIDE DEF GoesOn
    <3> QED
      BY <1>2, <2>1, <3>1 DEF Over, Active, Rests, NotBegun
  <2>2. CASE ~GoesOn(q)
    <3>1. promptAt'[q] = promptAt[q]
      BY <1>3, <2>2
    <3> HIDE DEF GoesOn
    <3> QED
      BY <1>2, <2>2, <3>1 DEF Over, Active, Rests, NotBegun
  <2> QED
    BY <2>1, <2>2
<1>9. Doomed' = Doomed
  BY <1>1, <1>2, <1>8 DEF Doomed, ScreenTypes, TurnTypes
<1>10. \A q \in Prompts \ Doomed : GoesOn(q) => NoneComes(q, waiting)
  BY <1>1 DEF FlushesAreAwaited, Doomed
<1>11. EventsAreOfTurns'
  <2>1. ASSUME NEW i \in 1 .. Len(waiting), waiting[i].type \in Shows
        PROVE  \E q \in Prompts : waiting[i].of = q /\ (Active(q)' \/ q \in Doomed')
    <3>1. PICK q \in Prompts : waiting[i].of = q /\ (Active(q) \/ q \in Doomed)
      BY <1>1, <2>1 DEF EventsAreOfTurns
    <3>2. ~NoneComes(q, waiting)
      BY <2>1, <3>1 DEF NoneComes, Comes
    <3> QED
      BY <1>8, <1>9, <1>10, <3>1, <3>2
  <2> QED
    BY <1>2, <2>1 DEF EventsAreOfTurns
<1>12. OneIsActive'
  BY <1>1, <1>8 DEF OneIsActive
<1>13. Stories'
  <2> SUFFICES ASSUME NEW q \in Prompts, q \notin Doomed PROVE StoryOf(q)'
    BY <1>9 DEF Stories
  <2>1. StoryOf(q)
    BY <1>1 DEF Stories
  <2>2. /\ blocks \in Seq(Blocks) /\ waiting \in Seq(Events) /\ mounted \in Nat
        /\ Len(blocks) \in Nat /\ Len(waiting) \in Nat
        /\ shownLog[q] \in Seq(Screen!Texts) /\ shownRound[q] \in Seq(Screen!Texts)
    BY <1>1 DEF ScreenTypes, SinkTypes, ViewTypes, TurnTypes
  <2>3. CASE GoesOn(q) /\ step[q] = "over"
    <3> DEFINE texts == shownLog[q] \o shownRound[q]
    <3>1. promptAt[q] \notin NotBegun /\ promptAt'[q] \notin NotBegun /\ ~Over(q) /\ Over(q)'
      BY <1>3, <1>8, <2>3 DEF NotBegun
    <3>2. Ongoing(q, blocks, waiting, texts, TRUE, Doomed)
      <4>1. (step[q] = "over") = TRUE
        BY <2>3
      <4> QED
        BY <2>1, <3>1, <4>1 DEF StoryOf
    <3>3. texts \in Seq(Screen!Texts) /\ Extends(texts, shownLog[q])
      BY <1>1, <2>2, TextsSoFar
    <3> HIDE DEF texts
    <3>4. Finished(q, blocks, Len(blocks), waiting, shownLog[q], Doomed)
      BY <1>10, <2>2, <2>3, <3>2, <3>3, OngoingIsFinished
    <3> QED
      BY <1>2, <1>9, <3>1, <3>4 DEF StoryOf
  <2>4. CASE ~(GoesOn(q) /\ step[q] = "over")
    <3>1. Rests(q)
      BY <1>8, <2>4
    <3>2. /\ Extends(blocks', blocks) /\ Extends(waiting', waiting) /\ mounted <= mounted'
          /\ \A i \in Len(blocks) + 1 .. Len(blocks') : FALSE
          /\ \A i \in Len(waiting) + 1 .. Len(waiting') : FALSE
      BY <1>2, <2>2, ExtendsSame
    <3> QED
      BY <1>1, <1>4, <1>9, <2>1, <3>1, <3>2, StoryKept DEF Rests
  <2> QED
    BY <2>3, <2>4
<1> QED
  BY <1>4, <1>5, <1>6, <1>7, <1>11, <1>12, <1>13 DEF ScreenInv, Orderly

-----------------------------------------------------------------------------
(* Every step, and what it comes to.                                       *)

LEMMA ScreenBegins == Screen!Init => ScreenInv
<1> SUFFICES ASSUME Screen!Init PROVE ScreenInv
  OBVIOUS
<1>1. /\ waiting = <<>> /\ drainPosted = FALSE /\ posted = <<>>
      /\ handler = <<"none", 0>> /\ tail = [text |-> <<>>, error |-> FALSE]
      /\ blocks = <<>> /\ mounted = 0
      /\ promptAt = [p \in Prompts |-> "none"] /\ step = [p \in Prompts |-> "begin"]
      /\ attempt = [p \in Prompts |-> <<>>] /\ shownRound = [p \in Prompts |-> <<>>]
      /\ shownLog = [p \in Prompts |-> <<>>]
      /\ turnWorker = 0 /\ queued = <<>> /\ turnsCancelled = {} /\ disturbed = {} /\ said = 0
  BY DEF Screen!Init, Prompts, Screen!None
<1>2. SinkTypes /\ DrainIsOnItsWay
  <2>1. <<>> \in Seq(Events) /\ <<>> \in Seq(Line)
    OBVIOUS
  <2>2. SinkTypes
    BY <1>1, <2>1 DEF SinkTypes
  <2> QED
    BY <1>1, <2>2 DEF DrainIsOnItsWay
<1>3. ViewTypes
  <2>1. handler \in Line
    BY <1>1, LineFacts DEF Line
  <2> QED
    BY <1>1, <2>1 DEF ViewTypes, Screen!Texts
<1>4. TurnTypes
  <2>1. <<>> \in Screen!Texts /\ <<>> \in Seq(Screen!Texts)
        /\ "none" \in Screen!Places /\ "begin" \in Screen!Steps
        /\ 0 \in 0 .. MaxPrompts /\ 0 \in 0 .. MaxPieces /\ <<>> \in Seq(Prompts)
    BY ScreenAssumption, LineFacts DEF Screen!Texts, Screen!Places, Screen!Steps
  <2> QED
    BY <1>1, <2>1 DEF TurnTypes
<1>5. /\ \A c : ~InLine(queued, c) /\ ~InLine(posted, c) /\ Once(queued, c) /\ Once(posted, c)
      /\ \A p : handler # Screen!Flush(p) /\ Unseen(p, blocks, waiting)
  BY <1>1 DEF InLine, Once, Screen!Flush, Unseen, NoneComes
<1>6. \A p \in Prompts :
          /\ promptAt[p] = "none" /\ step[p] = "begin"
          /\ shownLog[p] = <<>> /\ shownRound[p] = <<>>
  BY <1>1
<1>7. PromptsWaitInLine /\ PlacesFit /\ FlushesAreAwaited
  BY <1>5, <1>6 DEF PromptsWaitInLine, PlacesFit, FlushesAreAwaited
<1>8. OneIsActive /\ EventsAreOfTurns
  BY <1>1, <1>6 DEF OneIsActive, Active, EventsAreOfTurns
<1>9. Stories
  BY <1>5, <1>6 DEF Stories, StoryOf, NotBegun
<1> QED
  BY <1>2, <1>3, <1>4, <1>7, <1>8, <1>9 DEF ScreenInv, ScreenTypes, Orderly

LEMMA ScreenStep == ScreenInv /\ [Screen!Next]_(Screen!vars) => ScreenInv'
<1> SUFFICES ASSUME ScreenInv, [Screen!Next]_(Screen!vars)
             PROVE  ScreenInv'
  OBVIOUS
<1>1. CASE UNCHANGED Screen!vars
  <2>1. UNCHANGED <<waiting, drainPosted, posted, handler, emitter, tail, blocks, mounted,
                    promptAt, step, attempt, shownRound, shownLog, turnWorker, queued,
                    turnsCancelled, disturbed, said>>
    BY <1>1 DEF Screen!vars
  <2>2. SinkTypes' /\ ViewTypes' /\ DrainIsOnItsWay' /\ mounted <= mounted'
    BY <2>1 DEF ScreenInv, ScreenTypes, SinkTypes, ViewTypes, DrainIsOnItsWay
  <2> QED
    BY <2>1, <2>2, NoTurnMoves
<1>2. ASSUME NEW p \in Prompts,
             \/ Screen!Submit(p) \/ Screen!StartQueued(p) \/ Screen!Begin(p)
             \/ Screen!PromptShown(p) \/ Screen!NeverRun(p) \/ Screen!TurnCancelled(p)
             \/ Screen!Interrupted(p) \/ Screen!Ended(p)
      PROVE  ScreenInv'
  BY <1>2, SubmitStep, StartQueuedStep, BeginStep, PromptShownStep, NeverRunStep,
     TurnCancelledStep, InterruptedStep, EndedStep
<1>3. ASSUME NEW p \in Prompts,
             \/ Screen!TurnStarts(p) \/ Screen!TextDelta(p) \/ Screen!ContentCompleted(p)
             \/ Screen!Responded(p) \/ Screen!Broken(p) \/ Screen!NextRequest(p)
             \/ Screen!TurnFinishes(p)
      PROVE  ScreenInv'
  BY <1>3, TurnStartsStep, TextDeltaStep, ContentCompletedStep, RespondedStep, BrokenStep,
     NextRequestStep, TurnFinishesStep
<1> QED
  BY <1>1, <1>2, <1>3, NoticeSteps, HandleStep, MountStep, HandledStep, EscapeStep
  DEF Screen!Next, Prompts

LEMMA ScreenTells == ScreenInv => TurnsAreTold
<1> SUFFICES ASSUME ScreenInv PROVE Screen!TurnsAreTold
  BY DEF TurnsAreTold
<1>1. Screen!DrainIsComing
  <2>1. InLine(posted, Screen!Ready) => Screen!Ready \in Screen!ToSet(posted)
    <3>1. posted \in Seq(Line)
      BY DEF ScreenInv, ScreenTypes, SinkTypes
    <3> QED
      BY <3>1 DEF InLine, Screen!ToSet
  <2>2. drainPosted \in BOOLEAN
    BY DEF ScreenInv, ScreenTypes, SinkTypes
  <2> QED
    BY <2>1, <2>2 DEF ScreenInv, DrainIsOnItsWay, Screen!DrainIsComing
<1>2. ASSUME NEW p \in Prompts, promptAt[p] = "done", p \notin disturbed
      PROVE  Screen!TurnIsTold(p)
  <2>1. /\ blocks \in Seq(Blocks) /\ mounted \in Nat
        /\ shownLog[p] \in Seq(Screen!Texts)
    BY DEF ScreenInv, ScreenTypes, ViewTypes, TurnTypes
  <2>2. Over(p) /\ p \notin Doomed /\ promptAt[p] \notin NotBegun
    BY <1>2 DEF Over, Doomed, NotBegun
  <2>3. Finished(p, blocks, mounted, waiting, shownLog[p], Doomed)
    BY <2>2 DEF ScreenInv, Stories, StoryOf
  <2>4. Doomed \subseteq disturbed \cup turnsCancelled
    BY DEF Doomed
  <2> QED
    BY <2>1, <2>3, <2>4, FinishedIsTold
<1> QED
  BY <1>1, <1>2 DEF Screen!TurnsAreTold, Prompts

\* A step of the session is a step of its screen, or leaves it alone.
LEMMA ScreenMoves == [SessionNext]_sessionVars => [Screen!Next]_(Screen!vars)
  BY DEF SessionNext, Moves, sessionVars, screenVars, Screen!vars

\* Events that wait are on their way to the screen, and a turn that ended by itself
\* is there as the session keeps it, its texts in order between its prompt and its
\* summary, for any number of prompts, texts and cancelled turns.
THEOREM TurnsAreToldInOrder == SessionSpec => []TurnsAreTold
<1>1. SessionInit => ScreenInv
  BY ScreenBegins DEF SessionInit
<1>2. ScreenInv /\ [SessionNext]_sessionVars => ScreenInv'
  BY ScreenStep, ScreenMoves
<1>3. ScreenInv => TurnsAreTold
  BY ScreenTells
<1> QED
  BY <1>1, <1>2, <1>3, PTL DEF SessionSpec
=============================================================================
