------------------------- MODULE ServiceCallsProofs -------------------------
(* What is proved of the services that one call uses: the commands of tools *)
(* and of hooks, worktrees, the text of a provider, and, of the evaluation, *)
(* the scores of a suite and the check of a solution. As in ServicesProofs, *)
(* each has its inductive invariant.                                        *)
EXTENDS Services, TLAPS

\* A step of the composition is a step of each service, or leaves it alone.
LEMMA Moving ==
    [Next]_vars =>
        /\ [Commands!Next]_(Commands!vars) /\ [HookCommands!Next]_(HookCommands!vars)
        /\ [Trees!Next]_(Trees!vars) /\ [Texts!Next]_(Texts!vars)
        /\ [Evaluating!Next]_(Evaluating!vars) /\ [Checking!Next]_(Checking!vars)
<1> SUFFICES ASSUME [Next]_vars
             PROVE  /\ [Commands!Next]_(Commands!vars)
                    /\ [HookCommands!Next]_(HookCommands!vars)
                    /\ [Trees!Next]_(Trees!vars) /\ [Texts!Next]_(Texts!vars)
                    /\ [Evaluating!Next]_(Evaluating!vars)
                    /\ [Checking!Next]_(Checking!vars)
  OBVIOUS
<1>1. [Commands!Next]_(Commands!vars)
  BY DEF Next, Moves, vars, commandVars, Commands!vars
<1>2. [HookCommands!Next]_(HookCommands!vars)
  BY DEF Next, Moves, vars, hookCommandVars, HookCommands!vars
<1>3. [Trees!Next]_(Trees!vars)
  BY DEF Next, Moves, vars, worktreeVars, Trees!vars
<1>4. [Texts!Next]_(Texts!vars)
  BY DEF Next, Moves, vars, textVars, Texts!vars
<1>5. [Evaluating!Next]_(Evaluating!vars)
  BY DEF Next, Moves, vars, evaluationVars, Evaluating!vars
<1>6. [Checking!Next]_(Checking!vars)
  BY DEF Next, Moves, vars, checksVars, Checking!vars
<1> QED
  BY <1>1, <1>2, <1>3, <1>4, <1>5, <1>6

-----------------------------------------------------------------------------
(* Commands, of tools and of hooks.                                        *)

\* The command's life, by where the call is.
CallStages ==
    \A c \in ProcessCalls :
        /\ call[c] = "new" => spawn[c] = "none" /\ root[c] = "none"
        /\ call[c] \in {"spawning", "waiting"} => spawn[c] # "none"
        /\ call[c] \in {"running"} \cup Commands!Cleaning => spawn[c] = "done"
        /\ spawn[c] = "done" => root[c] # "none"
        /\ call[c] \in Commands!Endings => spawn[c] # "pending" /\ root[c] # "alive"

\* Who cleans up has killed the group.
GroupIsKilled ==
    \A c \in ProcessCalls :
        /\ call[c] \in Commands!Cleaning => reason[c] \in Commands!Endings
        /\ call[c] \notin Commands!Cleaning \cup Commands!Endings => reason[c] = "none"
        /\ reason[c] # "none" => root[c] = "dead" /\ helpers[c] \subseteq {"escaped"}

CommandInv == Commands!TypeOK /\ CallStages /\ GroupIsKilled

LEMMA CommandInit == Commands!Init => CommandInv
  BY DEF Commands!Init, CommandInv, Commands!TypeOK, CallStages, GroupIsKilled,
     Commands!Kinds, Commands!Endings, Commands!Cleaning

LEMMA CommandStep == CommandInv /\ [Commands!Next]_(Commands!vars) => CommandInv'
<1> SUFFICES ASSUME CommandInv, [Commands!Next]_(Commands!vars)
             PROVE  CommandInv'
  OBVIOUS
<1> USE DEF Commands!Kinds, Commands!Endings, Commands!Cleaning, Commands!Goes
<1>0. Commands!TypeOK /\ CallStages /\ GroupIsKilled
  BY DEF CommandInv
<1>1. CASE UNCHANGED Commands!vars
  BY <1>0, <1>1 DEF Commands!vars, CommandInv, Commands!TypeOK, CallStages,
     GroupIsKilled
<1>2. ASSUME NEW c \in ProcessCalls, NEW kind \in Commands!Kinds,
             Commands!StartHelper(c, kind)
      PROVE  CommandInv'
  <2>1. Commands!TypeOK'
    BY <1>0, <1>2 DEF Commands!StartHelper, Commands!TypeOK
  <2>2. CallStages'
    BY <1>0, <1>2 DEF Commands!StartHelper, Commands!TypeOK, CallStages, GroupIsKilled
  <2>3. GroupIsKilled'
    BY <1>0, <1>2 DEF Commands!StartHelper, Commands!TypeOK, CallStages, GroupIsKilled
  <2> QED
    BY <2>1, <2>2, <2>3 DEF CommandInv
<1>3. ASSUME NEW c \in ProcessCalls, NEW kind \in Commands!Kinds,
             Commands!HelperExits(c, kind)
      PROVE  CommandInv'
  <2>1. Commands!TypeOK'
    BY <1>0, <1>3 DEF Commands!HelperExits, Commands!TypeOK
  <2>2. CallStages'
    BY <1>0, <1>3 DEF Commands!HelperExits, Commands!TypeOK, CallStages, GroupIsKilled
  <2>3. GroupIsKilled'
    BY <1>0, <1>3 DEF Commands!HelperExits, Commands!TypeOK, CallStages, GroupIsKilled
  <2> QED
    BY <2>1, <2>2, <2>3 DEF CommandInv
<1>4. ASSUME NEW c \in ProcessCalls, Commands!RootExits(c)
      PROVE  CommandInv'
  <2>1. Commands!TypeOK'
    BY <1>0, <1>4 DEF Commands!RootExits, Commands!TypeOK
  <2>2. CallStages'
    BY <1>0, <1>4 DEF Commands!RootExits, Commands!TypeOK, CallStages, GroupIsKilled
  <2>3. GroupIsKilled'
    BY <1>0, <1>4 DEF Commands!RootExits, Commands!TypeOK, CallStages, GroupIsKilled
  <2> QED
    BY <2>1, <2>2, <2>3 DEF CommandInv
<1>5. ASSUME NEW c \in ProcessCalls, Commands!Spawn(c)
      PROVE  CommandInv'
  <2>1. Commands!TypeOK'
    BY <1>0, <1>5 DEF Commands!Spawn, Commands!TypeOK
  <2>2. CallStages'
    BY <1>0, <1>5 DEF Commands!Spawn, Commands!TypeOK, CallStages, GroupIsKilled
  <2>3. GroupIsKilled'
    BY <1>0, <1>5 DEF Commands!Spawn, Commands!TypeOK, CallStages, GroupIsKilled
  <2> QED
    BY <2>1, <2>2, <2>3 DEF CommandInv
<1>6. ASSUME NEW c \in ProcessCalls, Commands!Execs(c)
      PROVE  CommandInv'
  <2>1. Commands!TypeOK'
    BY <1>0, <1>6 DEF Commands!Execs, Commands!TypeOK
  <2>2. CallStages'
    BY <1>0, <1>6 DEF Commands!Execs, Commands!TypeOK, CallStages, GroupIsKilled
  <2>3. GroupIsKilled'
    BY <1>0, <1>6 DEF Commands!Execs, Commands!TypeOK, CallStages, GroupIsKilled
  <2> QED
    BY <2>1, <2>2, <2>3 DEF CommandInv
<1>7. ASSUME NEW c \in ProcessCalls, Commands!Spawned(c)
      PROVE  CommandInv'
  <2>1. Commands!TypeOK'
    BY <1>0, <1>7 DEF Commands!Spawned, Commands!TypeOK
  <2>2. CallStages'
    BY <1>0, <1>7 DEF Commands!Spawned, Commands!TypeOK, CallStages, GroupIsKilled
  <2>3. GroupIsKilled'
    BY <1>0, <1>7 DEF Commands!Spawned, Commands!TypeOK, CallStages, GroupIsKilled
  <2> QED
    BY <2>1, <2>2, <2>3 DEF CommandInv
<1>8. ASSUME NEW c \in ProcessCalls, Commands!SpawnFails(c)
      PROVE  CommandInv'
  <2>1. /\ call[c] \in {"spawning", "waiting"} /\ call'[c] \in {"failed", "cancelled"}
        /\ call' \in [ProcessCalls -> {"new", "spawning", "waiting", "running"} \cup Commands!Cleaning \cup Commands!Endings]
        /\ \A d \in ProcessCalls \ {c} : call'[d] = call[d] /\ spawn'[d] = spawn[d]
        /\ spawn'[c] = "none" /\ root[c] = "none"
        /\ spawn' \in [ProcessCalls -> {"none", "pending", "done"}]
        /\ UNCHANGED <<root, helpers, started, reason>>
    BY <1>0, <1>8 DEF Commands!SpawnFails, Commands!TypeOK
  <2>2. Commands!TypeOK'
    BY <1>0, <2>1 DEF Commands!TypeOK
  <2>3. CallStages'
    BY <1>0, <2>1 DEF CallStages
  <2>4. GroupIsKilled'
    BY <1>0, <2>1 DEF GroupIsKilled
  <2> QED
    BY <2>2, <2>3, <2>4 DEF CommandInv
<1>9. ASSUME NEW c \in ProcessCalls, Commands!CancelSpawn(c)
      PROVE  CommandInv'
  <2>1. Commands!TypeOK'
    BY <1>0, <1>9 DEF Commands!CancelSpawn, Commands!TypeOK
  <2>2. CallStages'
    BY <1>0, <1>9 DEF Commands!CancelSpawn, Commands!TypeOK, CallStages, GroupIsKilled
  <2>3. GroupIsKilled'
    BY <1>0, <1>9 DEF Commands!CancelSpawn, Commands!TypeOK, CallStages, GroupIsKilled
  <2> QED
    BY <2>1, <2>2, <2>3 DEF CommandInv
<1>10. ASSUME NEW c \in ProcessCalls, Commands!AbandonSpawn(c)
      PROVE  CommandInv'
  <2>1. Commands!TypeOK'
    BY <1>0, <1>10 DEF Commands!AbandonSpawn, Commands!TypeOK
  <2>2. CallStages'
    BY <1>0, <1>10 DEF Commands!AbandonSpawn, Commands!TypeOK, CallStages, GroupIsKilled
  <2>3. GroupIsKilled'
    BY <1>0, <1>10 DEF Commands!AbandonSpawn, Commands!TypeOK, CallStages, GroupIsKilled
  <2> QED
    BY <2>1, <2>2, <2>3 DEF CommandInv
<1>11. ASSUME NEW c \in ProcessCalls, Commands!Accept(c)
      PROVE  CommandInv'
  <2>1. Commands!TypeOK'
    BY <1>0, <1>11 DEF Commands!Accept, Commands!TypeOK
  <2>2. CallStages'
    BY <1>0, <1>11 DEF Commands!Accept, Commands!TypeOK, CallStages, GroupIsKilled
  <2>3. GroupIsKilled'
    BY <1>0, <1>11 DEF Commands!Accept, Commands!TypeOK, CallStages, GroupIsKilled
  <2> QED
    BY <2>1, <2>2, <2>3 DEF CommandInv
<1>12. ASSUME NEW c \in ProcessCalls, Commands!Complete(c)
      PROVE  CommandInv'
  <2>1. Commands!TypeOK'
    BY <1>0, <1>12 DEF Commands!Complete, Commands!Silent, Commands!TypeOK
  <2>2. CallStages'
    BY <1>0, <1>12 DEF Commands!Complete, Commands!Silent, Commands!TypeOK, CallStages,
       GroupIsKilled
  <2>3. GroupIsKilled'
    BY <1>0, <1>12 DEF Commands!Complete, Commands!Silent, Commands!TypeOK, CallStages,
       GroupIsKilled
  <2> QED
    BY <2>1, <2>2, <2>3 DEF CommandInv
<1>13. ASSUME NEW c \in ProcessCalls, Commands!Unaccepted(c)
      PROVE  CommandInv'
  <2>1. Commands!TypeOK'
    BY <1>0, <1>13 DEF Commands!Unaccepted, Commands!CleansUp, Commands!TerminateTree,
       Commands!TypeOK
  <2>2. CallStages'
    BY <1>0, <1>13 DEF Commands!Unaccepted, Commands!CleansUp, Commands!TerminateTree,
       Commands!TypeOK, CallStages, GroupIsKilled
  <2>3. GroupIsKilled'
    BY <1>0, <1>13 DEF Commands!Unaccepted, Commands!CleansUp, Commands!TerminateTree,
       Commands!TypeOK, CallStages, GroupIsKilled
  <2> QED
    BY <2>1, <2>2, <2>3 DEF CommandInv
<1>14. ASSUME NEW c \in ProcessCalls, Commands!Timeout(c)
      PROVE  CommandInv'
  <2>1. Commands!TypeOK'
    BY <1>0, <1>14 DEF Commands!Timeout, Commands!CleansUp, Commands!TerminateTree,
       Commands!TypeOK
  <2>2. CallStages'
    BY <1>0, <1>14 DEF Commands!Timeout, Commands!CleansUp, Commands!TerminateTree,
       Commands!TypeOK, CallStages, GroupIsKilled
  <2>3. GroupIsKilled'
    BY <1>0, <1>14 DEF Commands!Timeout, Commands!CleansUp, Commands!TerminateTree,
       Commands!TypeOK, CallStages, GroupIsKilled
  <2> QED
    BY <2>1, <2>2, <2>3 DEF CommandInv
<1>15. ASSUME NEW c \in ProcessCalls, Commands!CaptureFails(c)
      PROVE  CommandInv'
  <2>1. Commands!TypeOK'
    BY <1>0, <1>15 DEF Commands!CaptureFails, Commands!CleansUp, Commands!TerminateTree,
       Commands!TypeOK
  <2>2. CallStages'
    BY <1>0, <1>15 DEF Commands!CaptureFails, Commands!CleansUp, Commands!TerminateTree,
       Commands!TypeOK, CallStages, GroupIsKilled
  <2>3. GroupIsKilled'
    BY <1>0, <1>15 DEF Commands!CaptureFails, Commands!CleansUp, Commands!TerminateTree,
       Commands!TypeOK, CallStages, GroupIsKilled
  <2> QED
    BY <2>1, <2>2, <2>3 DEF CommandInv
<1>16. ASSUME NEW c \in ProcessCalls, Commands!Cancel(c)
      PROVE  CommandInv'
  <2>1. Commands!TypeOK'
    BY <1>0, <1>16 DEF Commands!Cancel, Commands!CleansUp, Commands!TerminateTree,
       Commands!TypeOK
  <2>2. CallStages'
    BY <1>0, <1>16 DEF Commands!Cancel, Commands!CleansUp, Commands!TerminateTree,
       Commands!TypeOK, CallStages, GroupIsKilled
  <2>3. GroupIsKilled'
    BY <1>0, <1>16 DEF Commands!Cancel, Commands!CleansUp, Commands!TerminateTree,
       Commands!TypeOK, CallStages, GroupIsKilled
  <2> QED
    BY <2>1, <2>2, <2>3 DEF CommandInv
<1>17. ASSUME NEW c \in ProcessCalls, Commands!Cleaned(c)
      PROVE  CommandInv'
  <2>1. Commands!TypeOK'
    BY <1>0, <1>17 DEF Commands!Cleaned, Commands!Silent, Commands!TypeOK, GroupIsKilled
  <2>2. CallStages'
    BY <1>0, <1>17 DEF Commands!Cleaned, Commands!Silent, Commands!TypeOK, CallStages,
       GroupIsKilled
  <2>3. GroupIsKilled'
    BY <1>0, <1>17 DEF Commands!Cleaned, Commands!Silent, Commands!TypeOK, CallStages,
       GroupIsKilled
  <2> QED
    BY <2>1, <2>2, <2>3 DEF CommandInv
<1>18. ASSUME NEW c \in ProcessCalls, Commands!CancelCleanup(c)
      PROVE  CommandInv'
  <2>1. Commands!TypeOK'
    BY <1>0, <1>18 DEF Commands!CancelCleanup, Commands!TypeOK
  <2>2. CallStages'
    BY <1>0, <1>18 DEF Commands!CancelCleanup, Commands!TypeOK, CallStages,
       GroupIsKilled
  <2>3. GroupIsKilled'
    BY <1>0, <1>18 DEF Commands!CancelCleanup, Commands!TypeOK, CallStages,
       GroupIsKilled
  <2> QED
    BY <2>1, <2>2, <2>3 DEF CommandInv
<1>19. ASSUME NEW c \in ProcessCalls, Commands!GiveUp(c)
      PROVE  CommandInv'
  <2>1. Commands!TypeOK'
    BY <1>0, <1>19 DEF Commands!GiveUp, Commands!TerminateTree, Commands!TypeOK,
       GroupIsKilled
  <2>2. CallStages'
    BY <1>0, <1>19 DEF Commands!GiveUp, Commands!TerminateTree, Commands!TypeOK,
       CallStages, GroupIsKilled
  <2>3. GroupIsKilled'
    BY <1>0, <1>19 DEF Commands!GiveUp, Commands!TerminateTree, Commands!TypeOK,
       CallStages, GroupIsKilled
  <2> QED
    BY <2>1, <2>2, <2>3 DEF CommandInv
<1> QED
  BY <1>1, <1>2, <1>3, <1>4, <1>5, <1>6, <1>7, <1>8, <1>9, <1>10, <1>11, <1>12, <1>13,
     <1>14, <1>15, <1>16, <1>17, <1>18, <1>19 DEF Commands!Next

LEMMA CommandsEnd == CommandInv => Commands!NothingRunsOn
  BY DEF CommandInv, CallStages, GroupIsKilled, Commands!NothingRunsOn

\* A task that is done has seen all of its stream, or the exit.
TasksTell ==
    /\ hookAt \in {"new", "sending"} =>
           hookTasks = HookCommands!NoTasks /\ got = [s \in HookCommands!Streams |-> 0]
    /\ \A s \in HookCommands!Streams :
          /\ hookTasks[s] \in {"running", "done"} => got[s] <= MaxWords
          /\ hookTasks[s] = "done" =>
                 hookProcess # "running" /\ ~streamsHeld /\ got[s] = said[s]
    /\ hookAt = "new" => hookProcess = "none" /\ ~streamsHeld

\* What the call leaves when it is over.
EndsClean ==
    /\ hookAt = "settling" => hookProcess # "running"
    /\ hookAt = "over" =>
          disturbedTwice \/ (hookProcess # "running" /\ \A t \in HookCommands!Tasks : hookTasks[t] # "running")

\* What the dispatch is told.
ToldHonestly ==
    /\ hookOutcome.told = "answered" =>
          /\ hookAt = "over" /\ hookProcess = "succeeded" /\ ~streamsHeld
          /\ \A s \in HookCommands!Streams : got[s] = said[s] /\ got[s] <= MaxWords
          /\ hookOutcome.blocked = (hookAnswer = "block")
          /\ hookOutcome.changed => hookPoint = "pre" /\ hookAnswer = "change"
          /\ \A t \in HookCommands!Tasks : hookTasks[t] # "running"
    /\ hookAt = "over" =>
           (hookPoint # "post" /\ hookOutcome.told = "failed" => hookOutcome.blocked)

HookInv == HookCommands!TypeOK /\ TasksTell /\ EndsClean /\ ToldHonestly

LEMMA HookInit == HookCommands!Init => HookInv
<1> SUFFICES ASSUME HookCommands!Init
             PROVE  HookInv
  OBVIOUS
<1> USE BoundAssumption DEF HookCommands!Init, HookCommands!Streams, HookCommands!Tasks,
   HookCommands!NoTasks, HookCommands!Told
<1>a. streamsHeld \in BOOLEAN /\ disturbedTwice \in BOOLEAN
  BY Zenon
<1>1. HookCommands!TypeOK
  BY <1>a DEF HookCommands!TypeOK, HookCommands!Answers, HookCommands!Ending
<1>2. TasksTell
  BY DEF TasksTell
<1>3. EndsClean /\ ToldHonestly
  BY DEF EndsClean, ToldHonestly
<1> QED
  BY <1>1, <1>2, <1>3 DEF HookInv

LEMMA HookStep == HookInv /\ [HookCommands!Next]_(HookCommands!vars) => HookInv'
<1> SUFFICES ASSUME HookInv, [HookCommands!Next]_(HookCommands!vars)
             PROVE  HookInv'
  OBVIOUS
<1> USE BoundAssumption DEF HookCommands!Streams, HookCommands!Tasks,
   HookCommands!NoTasks, HookCommands!Told, HookCommands!Answers, HookCommands!Ending,
   HookCommands!commandVars, HookCommands!Failed
<1>0. HookCommands!TypeOK /\ TasksTell /\ EndsClean /\ ToldHonestly
  BY DEF HookInv
<1>1. CASE UNCHANGED HookCommands!vars
  BY <1>0, <1>1 DEF HookCommands!vars, HookInv, HookCommands!TypeOK, TasksTell,
     EndsClean, ToldHonestly
<1>2. ASSUME NEW s \in HookCommands!Streams, HookCommands!Say(s)
      PROVE  HookInv'
  <2>1. HookCommands!TypeOK'
    BY <1>0, <1>2 DEF HookCommands!Say, HookCommands!TypeOK
  <2>2. TasksTell'
    BY <1>0, <1>2 DEF HookCommands!Say, HookCommands!TypeOK, TasksTell
  <2>3. EndsClean'
    BY <1>0, <1>2 DEF HookCommands!Say, HookCommands!TypeOK, TasksTell, EndsClean
  <2>4. ToldHonestly'
    BY <1>0, <1>2 DEF HookCommands!Say, HookCommands!TypeOK, TasksTell, EndsClean,
       ToldHonestly
  <2> QED
    BY <2>1, <2>2, <2>3, <2>4 DEF HookInv
<1>3. ASSUME NEW s \in HookCommands!Streams, HookCommands!Read(s)
      PROVE  HookInv'
  <2>1. HookCommands!TypeOK'
    BY <1>0, <1>3 DEF HookCommands!Read, HookCommands!TypeOK
  <2>2. TasksTell'
    BY <1>0, <1>3 DEF HookCommands!Read, HookCommands!TypeOK, TasksTell
  <2>3. EndsClean'
    BY <1>0, <1>3 DEF HookCommands!Read, HookCommands!TypeOK, TasksTell, EndsClean
  <2>4. ToldHonestly'
    BY <1>0, <1>3 DEF HookCommands!Read, HookCommands!TypeOK, TasksTell, EndsClean,
       ToldHonestly
  <2> QED
    BY <2>1, <2>2, <2>3, <2>4 DEF HookInv
<1>4. ASSUME NEW s \in HookCommands!Streams, HookCommands!ReadEnd(s)
      PROVE  HookInv'
  <2>1. HookCommands!TypeOK'
    BY <1>0, <1>4 DEF HookCommands!ReadEnd, HookCommands!TypeOK
  <2>2. TasksTell'
    BY <1>0, <1>4 DEF HookCommands!ReadEnd, HookCommands!TypeOK, TasksTell
  <2>3. EndsClean'
    BY <1>0, <1>4 DEF HookCommands!ReadEnd, HookCommands!TypeOK, TasksTell, EndsClean
  <2>4. ToldHonestly'
    BY <1>0, <1>4 DEF HookCommands!ReadEnd, HookCommands!TypeOK, TasksTell, EndsClean,
       ToldHonestly
  <2> QED
    BY <2>1, <2>2, <2>3, <2>4 DEF HookInv
<1>5. CASE HookCommands!Exit
  <2>1. HookCommands!TypeOK'
    BY <1>0, <1>5 DEF HookCommands!Exit, HookCommands!TypeOK
  <2>2. TasksTell'
    BY <1>0, <1>5 DEF HookCommands!Exit, HookCommands!TypeOK, TasksTell
  <2>3. EndsClean'
    BY <1>0, <1>5 DEF HookCommands!Exit, HookCommands!TypeOK, TasksTell, EndsClean
  <2>4. ToldHonestly'
    BY <1>0, <1>5 DEF HookCommands!Exit, HookCommands!TypeOK, TasksTell, EndsClean,
       ToldHonestly
  <2> QED
    BY <2>1, <2>2, <2>3, <2>4 DEF HookInv
<1>6. CASE HookCommands!HelperExits
  <2>a. streamsHeld' \in BOOLEAN
    BY <1>6, Zenon DEF HookCommands!HelperExits
  <2>1. HookCommands!TypeOK'
    BY <1>0, <1>6, <2>a DEF HookCommands!HelperExits, HookCommands!TypeOK
  <2>2. TasksTell'
    BY <1>0, <1>6 DEF HookCommands!HelperExits, HookCommands!TypeOK, TasksTell
  <2>3. EndsClean'
    BY <1>0, <1>6 DEF HookCommands!HelperExits, HookCommands!TypeOK, TasksTell,
       EndsClean
  <2>4. ToldHonestly'
    BY <1>0, <1>6 DEF HookCommands!HelperExits, HookCommands!TypeOK, TasksTell,
       EndsClean, ToldHonestly
  <2> QED
    BY <2>1, <2>2, <2>3, <2>4 DEF HookInv
<1>7. CASE HookCommands!Refuse
  <2>1. HookCommands!TypeOK'
    BY <1>0, <1>7 DEF HookCommands!Refuse, HookCommands!TypeOK
  <2>2. TasksTell'
    BY <1>0, <1>7 DEF HookCommands!Refuse, HookCommands!TypeOK, TasksTell
  <2>3. EndsClean'
    BY <1>0, <1>7 DEF HookCommands!Refuse, HookCommands!TypeOK, TasksTell, EndsClean
  <2>4. ToldHonestly'
    BY <1>0, <1>7 DEF HookCommands!Refuse, HookCommands!TypeOK, TasksTell, EndsClean,
       ToldHonestly
  <2> QED
    BY <2>1, <2>2, <2>3, <2>4 DEF HookInv
<1>8. CASE HookCommands!Start
  <2>1. HookCommands!TypeOK'
    BY <1>0, <1>8 DEF HookCommands!Start, HookCommands!TypeOK
  <2>2. TasksTell'
    BY <1>0, <1>8 DEF HookCommands!Start, HookCommands!TypeOK, TasksTell
  <2>3. EndsClean'
    BY <1>0, <1>8 DEF HookCommands!Start, HookCommands!TypeOK, TasksTell, EndsClean
  <2>4. ToldHonestly'
    BY <1>0, <1>8 DEF HookCommands!Start, HookCommands!TypeOK, TasksTell, EndsClean,
       ToldHonestly
  <2> QED
    BY <2>1, <2>2, <2>3, <2>4 DEF HookInv
<1>9. CASE HookCommands!Sent
  <2>1. HookCommands!TypeOK'
    BY <1>0, <1>9 DEF HookCommands!Sent, HookCommands!TypeOK
  <2>2. TasksTell'
    BY <1>0, <1>9 DEF HookCommands!Sent, HookCommands!TypeOK, TasksTell
  <2>3. EndsClean'
    BY <1>0, <1>9 DEF HookCommands!Sent, HookCommands!TypeOK, TasksTell, EndsClean
  <2>4. ToldHonestly'
    BY <1>0, <1>9 DEF HookCommands!Sent, HookCommands!TypeOK, TasksTell, EndsClean,
       ToldHonestly
  <2> QED
    BY <2>1, <2>2, <2>3, <2>4 DEF HookInv
<1>10. CASE HookCommands!Reap
  <2>1. HookCommands!TypeOK'
    BY <1>0, <1>10 DEF HookCommands!Reap, HookCommands!TypeOK
  <2>2. TasksTell'
    BY <1>0, <1>10 DEF HookCommands!Reap, HookCommands!TypeOK, TasksTell
  <2>3. EndsClean'
    BY <1>0, <1>10 DEF HookCommands!Reap, HookCommands!TypeOK, TasksTell, EndsClean
  <2>4. ToldHonestly'
    BY <1>0, <1>10 DEF HookCommands!Reap, HookCommands!TypeOK, TasksTell, EndsClean,
       ToldHonestly
  <2> QED
    BY <2>1, <2>2, <2>3, <2>4 DEF HookInv
<1>11. CASE HookCommands!Collected
  <2>1. HookCommands!TypeOK'
    BY <1>0, <1>11 DEF HookCommands!Collected, HookCommands!Answer, HookCommands!TypeOK
  <2>2. TasksTell'
    BY <1>0, <1>11 DEF HookCommands!Collected, HookCommands!Answer, HookCommands!TypeOK,
       TasksTell
  <2>3. EndsClean'
    BY <1>0, <1>11 DEF HookCommands!Collected, HookCommands!Answer, HookCommands!TypeOK,
       TasksTell, EndsClean
  <2>4. ToldHonestly'
    BY <1>0, <1>11 DEF HookCommands!Collected, HookCommands!Answer, HookCommands!TypeOK,
       TasksTell, EndsClean, ToldHonestly
  <2> QED
    BY <2>1, <2>2, <2>3, <2>4 DEF HookInv
<1>12. CASE HookCommands!TimeOut
  <2>1. HookCommands!TypeOK'
    BY <1>0, <1>12 DEF HookCommands!TimeOut, HookCommands!Stop, HookCommands!TypeOK
  <2>2. TasksTell'
    BY <1>0, <1>12 DEF HookCommands!TimeOut, HookCommands!Stop, HookCommands!TypeOK,
       TasksTell
  <2>3. EndsClean'
    BY <1>0, <1>12 DEF HookCommands!TimeOut, HookCommands!Stop, HookCommands!TypeOK,
       TasksTell, EndsClean
  <2>4. ToldHonestly'
    BY <1>0, <1>12 DEF HookCommands!TimeOut, HookCommands!Stop, HookCommands!TypeOK,
       TasksTell, EndsClean, ToldHonestly
  <2> QED
    BY <2>1, <2>2, <2>3, <2>4 DEF HookInv
<1>13. CASE HookCommands!Cancel
  <2>1. HookCommands!TypeOK'
    BY <1>0, <1>13 DEF HookCommands!Cancel, HookCommands!Stop, HookCommands!TypeOK
  <2>2. TasksTell'
    BY <1>0, <1>13 DEF HookCommands!Cancel, HookCommands!Stop, HookCommands!TypeOK,
       TasksTell
  <2>3. EndsClean'
    BY <1>0, <1>13 DEF HookCommands!Cancel, HookCommands!Stop, HookCommands!TypeOK,
       TasksTell, EndsClean
  <2>4. ToldHonestly'
    BY <1>0, <1>13 DEF HookCommands!Cancel, HookCommands!Stop, HookCommands!TypeOK,
       TasksTell, EndsClean, ToldHonestly
  <2> QED
    BY <2>1, <2>2, <2>3, <2>4 DEF HookInv
<1>14. CASE HookCommands!TooLong
  <2>1. HookCommands!TypeOK'
    BY <1>0, <1>14 DEF HookCommands!TooLong, HookCommands!Stop, HookCommands!TypeOK
  <2>2. TasksTell'
    BY <1>0, <1>14 DEF HookCommands!TooLong, HookCommands!Stop, HookCommands!TypeOK,
       TasksTell
  <2>3. EndsClean'
    BY <1>0, <1>14 DEF HookCommands!TooLong, HookCommands!Stop, HookCommands!TypeOK,
       TasksTell, EndsClean
  <2>4. ToldHonestly'
    BY <1>0, <1>14 DEF HookCommands!TooLong, HookCommands!Stop, HookCommands!TypeOK,
       TasksTell, EndsClean, ToldHonestly
  <2> QED
    BY <2>1, <2>2, <2>3, <2>4 DEF HookInv
<1>15. CASE HookCommands!Break
  <2>1. HookCommands!TypeOK'
    BY <1>0, <1>15 DEF HookCommands!Break, HookCommands!Stop, HookCommands!TypeOK
  <2>2. TasksTell'
    BY <1>0, <1>15 DEF HookCommands!Break, HookCommands!Stop, HookCommands!TypeOK,
       TasksTell
  <2>3. EndsClean'
    BY <1>0, <1>15 DEF HookCommands!Break, HookCommands!Stop, HookCommands!TypeOK,
       TasksTell, EndsClean
  <2>4. ToldHonestly'
    BY <1>0, <1>15 DEF HookCommands!Break, HookCommands!Stop, HookCommands!TypeOK,
       TasksTell, EndsClean, ToldHonestly
  <2> QED
    BY <2>1, <2>2, <2>3, <2>4 DEF HookInv
<1>16. CASE HookCommands!Kill
  <2>1. HookCommands!TypeOK'
    BY <1>0, <1>16 DEF HookCommands!Kill, HookCommands!TypeOK
  <2>2. TasksTell'
    BY <1>0, <1>16 DEF HookCommands!Kill, HookCommands!TypeOK, TasksTell
  <2>3. EndsClean'
    BY <1>0, <1>16 DEF HookCommands!Kill, HookCommands!TypeOK, TasksTell, EndsClean
  <2>4. ToldHonestly'
    BY <1>0, <1>16 DEF HookCommands!Kill, HookCommands!TypeOK, TasksTell, EndsClean,
       ToldHonestly
  <2> QED
    BY <2>1, <2>2, <2>3, <2>4 DEF HookInv
<1>17. CASE HookCommands!Stopped
  <2>1. HookCommands!TypeOK'
    BY <1>0, <1>17 DEF HookCommands!Stopped, HookCommands!TypeOK
  <2>2. TasksTell'
    BY <1>0, <1>17 DEF HookCommands!Stopped, HookCommands!TypeOK, TasksTell
  <2>3. EndsClean'
    BY <1>0, <1>17 DEF HookCommands!Stopped, HookCommands!TypeOK, TasksTell, EndsClean
  <2>4. ToldHonestly'
    BY <1>0, <1>17 DEF HookCommands!Stopped, HookCommands!TypeOK, TasksTell, EndsClean,
       ToldHonestly
  <2> QED
    BY <2>1, <2>2, <2>3, <2>4 DEF HookInv
<1>18. CASE HookCommands!Settle
  <2>1. HookCommands!TypeOK'
    BY <1>0, <1>18 DEF HookCommands!Settle, HookCommands!TypeOK
  <2>2. TasksTell'
    BY <1>0, <1>18 DEF HookCommands!Settle, HookCommands!TypeOK, TasksTell
  <2>3. EndsClean'
    BY <1>0, <1>18 DEF HookCommands!Settle, HookCommands!TypeOK, TasksTell, EndsClean
  <2>4. ToldHonestly'
    BY <1>0, <1>18 DEF HookCommands!Settle, HookCommands!TypeOK, TasksTell, EndsClean,
       ToldHonestly
  <2> QED
    BY <2>1, <2>2, <2>3, <2>4 DEF HookInv
<1>19. CASE HookCommands!CancelEnding
  <2>1. HookCommands!TypeOK'
    BY <1>0, <1>19 DEF HookCommands!CancelEnding, HookCommands!TypeOK
  <2>2. TasksTell'
    BY <1>0, <1>19 DEF HookCommands!CancelEnding, HookCommands!TypeOK, TasksTell
  <2>3. EndsClean'
    BY <1>0, <1>19 DEF HookCommands!CancelEnding, HookCommands!TypeOK, TasksTell,
       EndsClean
  <2>4. ToldHonestly'
    BY <1>0, <1>19 DEF HookCommands!CancelEnding, HookCommands!TypeOK, TasksTell,
       EndsClean, ToldHonestly
  <2> QED
    BY <2>1, <2>2, <2>3, <2>4 DEF HookInv
<1>20. CASE HookCommands!CancelSettling
  <2>1. HookCommands!TypeOK'
    BY <1>0, <1>20 DEF HookCommands!CancelSettling, HookCommands!TypeOK
  <2>2. TasksTell'
    BY <1>0, <1>20 DEF HookCommands!CancelSettling, HookCommands!TypeOK, TasksTell
  <2>3. EndsClean'
    BY <1>0, <1>20 DEF HookCommands!CancelSettling, HookCommands!TypeOK, TasksTell,
       EndsClean
  <2>4. ToldHonestly'
    BY <1>0, <1>20 DEF HookCommands!CancelSettling, HookCommands!TypeOK, TasksTell,
       EndsClean, ToldHonestly
  <2> QED
    BY <2>1, <2>2, <2>3, <2>4 DEF HookInv
<1> QED
  BY <1>1, <1>2, <1>3, <1>4, <1>5, <1>6, <1>7, <1>8, <1>9, <1>10, <1>11, <1>12, <1>13,
     <1>14, <1>15, <1>16, <1>17, <1>18, <1>19, <1>20 DEF HookCommands!Next

LEMMA HookCommandsEnd == HookInv => HookCommands!NothingRunsOn
  BY DEF HookInv, EndsClean, ToldHonestly, HookCommands!NothingRunsOn

\* No process a tool or a hook's command has started runs on after its call, and a
\* hook's answer is what its command said (NothingRunsOn: the process groups that
\* are killed whichever way the call ends, and the tasks that read its streams).
THEOREM CommandsEndWithTheirCalls == Spec => []NothingRunsOn
<1>1. Init => CommandInv /\ HookInv
  BY CommandInit, HookInit DEF Init
<1>2. CommandInv /\ HookInv /\ [Next]_vars => CommandInv' /\ HookInv'
  BY CommandStep, HookStep, Moving
<1>3. CommandInv /\ HookInv => NothingRunsOn
  BY CommandsEnd, HookCommandsEnd DEF NothingRunsOn
<1> QED
  BY <1>1, <1>2, <1>3, PTL DEF Spec

-----------------------------------------------------------------------------
(* Worktrees.                                                              *)

TreesType ==
    /\ git \in [WorktreeTasks -> Trees!Bindings]
    /\ bound \in [WorktreeTasks -> Trees!Bindings]
    /\ at \in [WorktreeCalls -> Trees!Steps \cup Trees!Ends]
    /\ tool \in [WorktreeCalls -> Trees!Tools]
    /\ task \in [WorktreeCalls -> WorktreeTasks]
    /\ wanted \in [WorktreeCalls -> Trees!Bindings]
    /\ seen \in [WorktreeCalls -> [WorktreeTasks -> Trees!Bindings]]
    /\ repair \in [WorktreeCalls -> [WorktreeTasks -> Trees!Bindings]]
    /\ changes \in 0 .. MaxChanges

\* What nothing disturbs is under way alone.
Calm(c) == c \notin disturbed /\ at[c] \in Trees!Steps
CalmIsAlone ==
    \A c, d \in WorktreeCalls : Calm(c) /\ d # c => at[d] \notin Trees!Steps

\* The tools that write go on where a list ends.
ToolsDiffer ==
    \A c \in WorktreeCalls :
        /\ at[c] \in {"creating", "created"} => tool[c] = "create"
        /\ at[c] \in {"checking", "removing", "removed"} => tool[c] = "remove"

\* How far the repair of a call that nothing disturbs has come.
RepairComes ==
    \A c \in WorktreeCalls : Calm(c) =>
        /\ at[c] = "reading" => seen[c] = git
        /\ at[c] = "unbinding" =>
              /\ seen[c] = git
              /\ \A t \in WorktreeTasks :
                    IF repair[c][t] = Trees!NoBinding THEN bound[t] \in {Trees!NoBinding, git[t]}
                    ELSE repair[c][t] = bound[t]
        /\ at[c] = "binding" =>
              \A t \in WorktreeTasks :
                  /\ bound[t] \in {Trees!NoBinding, git[t]}
                  /\ seen[c][t] \in {Trees!NoBinding, git[t]}
                  /\ repair[c][t] # Trees!NoBinding =>
                         repair[c][t] = git[t] /\ bound[t] = Trees!NoBinding
                  /\ seen[c][t] = Trees!NoBinding /\ repair[c][t] = Trees!NoBinding =>
                         bound[t] = git[t]
        /\ at[c] \in {"checking", "creating", "removing"} => bound = git
        /\ at[c] = "created" =>
              /\ git[task[c]] = wanted[c]
              /\ \A t \in WorktreeTasks \ {task[c]} : bound[t] = git[t]
        /\ at[c] = "removing" => bound[task[c]] = wanted[c]
        /\ at[c] = "removed" =>
              /\ bound[task[c]] = wanted[c] /\ git[task[c]] = Trees!NoBinding
              /\ \A t \in WorktreeTasks \ {task[c]} : bound[t] = git[t]

TreesInv == TreesType /\ CalmIsAlone /\ ToolsDiffer /\ RepairComes

LEMMA BindingsAreTyped ==
    /\ Trees!NoBinding \in Trees!Bindings
    /\ Trees!Nothing \in [WorktreeTasks -> Trees!Bindings]
    /\ \A t \in WorktreeTasks : Trees!Nothing[t] = Trees!NoBinding
  BY BoundAssumption DEF Trees!NoBinding, Trees!Bindings, Trees!Nothing

LEMMA TreesInit == Trees!Init => TreesInv
<1> SUFFICES ASSUME Trees!Init
             PROVE  TreesInv
  OBVIOUS
<1>1. TreesType
  BY BoundAssumption, BindingsAreTyped DEF Trees!Init, TreesType, Trees!Steps,
     Trees!Ends, Trees!Tools
<1>2. \A c \in WorktreeCalls : at[c] = "idle"
  BY DEF Trees!Init
<1>3. CalmIsAlone /\ ToolsDiffer /\ RepairComes
  BY <1>2 DEF CalmIsAlone, ToolsDiffer, RepairComes, Calm, Trees!Steps
<1> QED
  BY <1>1, <1>3 DEF TreesInv

\* A step of a call leaves the others where they are.
LEMMA OneMoves ==
    ASSUME TreesType, NEW c \in WorktreeCalls, NEW from \in Trees!Steps,
           NEW to \in Trees!Steps \cup Trees!Ends, Trees!Goes(c, from, to)
    PROVE  /\ at[c] = from /\ at'[c] = to
           /\ at' \in [WorktreeCalls -> Trees!Steps \cup Trees!Ends]
           /\ \A d \in WorktreeCalls \ {c} : at'[d] = at[d]
           /\ disturbed' = IF to \in Trees!Ends THEN disturbed \ {c} ELSE disturbed
  BY DEF TreesType, Trees!Goes

LEMMA CallEnds ==
    ASSUME TreesType, NEW c \in WorktreeCalls, NEW from \in Trees!Steps,
           NEW to \in Trees!Ends, Trees!Over(c, from, to)
    PROVE  /\ at[c] = from /\ at'[c] = to
           /\ at' \in [WorktreeCalls -> Trees!Steps \cup Trees!Ends]
           /\ \A d \in WorktreeCalls \ {c} : at'[d] = at[d]
           /\ disturbed' = disturbed \ {c}
           /\ tool' \in [WorktreeCalls -> Trees!Tools]
           /\ \A d \in WorktreeCalls \ {c} : tool'[d] = tool[d]
           /\ wanted' \in [WorktreeCalls -> Trees!Bindings]
           /\ \A d \in WorktreeCalls \ {c} : wanted'[d] = wanted[d]
           /\ seen' \in [WorktreeCalls -> [WorktreeTasks -> Trees!Bindings]]
           /\ \A d \in WorktreeCalls \ {c} : seen'[d] = seen[d]
           /\ repair' \in [WorktreeCalls -> [WorktreeTasks -> Trees!Bindings]]
           /\ \A d \in WorktreeCalls \ {c} : repair'[d] = repair[d]
           /\ task' = task
  BY BindingsAreTyped DEF TreesType, Trees!Over, Trees!Goes, Trees!Tools

\* A call that is over, and nothing else that was calm: the rest follows.
LEMMA EndIsCalm ==
    ASSUME TreesInv, NEW c \in WorktreeCalls, NEW from \in Trees!Steps,
           NEW to \in Trees!Ends, Trees!Over(c, from, to),
           git' \in [WorktreeTasks -> Trees!Bindings], bound' \in [WorktreeTasks -> Trees!Bindings],
           changes' \in 0 .. MaxChanges
    PROVE  TreesInv'
<1>0. TreesType /\ CalmIsAlone /\ ToolsDiffer /\ RepairComes
  BY DEF TreesInv
<1>1. /\ at[c] = from /\ at'[c] = to /\ to \notin Trees!Steps
      /\ at' \in [WorktreeCalls -> Trees!Steps \cup Trees!Ends]
      /\ \A d \in WorktreeCalls \ {c} : at'[d] = at[d]
      /\ disturbed' = disturbed \ {c}
      /\ tool' \in [WorktreeCalls -> Trees!Tools]
      /\ \A d \in WorktreeCalls \ {c} : tool'[d] = tool[d]
      /\ wanted' \in [WorktreeCalls -> Trees!Bindings]
      /\ seen' \in [WorktreeCalls -> [WorktreeTasks -> Trees!Bindings]]
      /\ repair' \in [WorktreeCalls -> [WorktreeTasks -> Trees!Bindings]]
      /\ task' = task
  BY <1>0, CallEnds DEF Trees!Ends, Trees!Steps
<1>2. TreesType'
  BY <1>0, <1>1 DEF TreesType
<1>3. ASSUME NEW d \in WorktreeCalls
      PROVE  ~Calm(d)'
  <2>1. CASE d = c
    BY <1>1, <2>1 DEF Calm
  <2>2. CASE d # c
    BY <1>0, <1>1, <2>2 DEF Calm, CalmIsAlone
  <2> QED
    BY <2>1, <2>2
<1>4. CalmIsAlone' /\ RepairComes'
  BY <1>3 DEF CalmIsAlone, RepairComes
<1>5. ToolsDiffer'
  BY <1>0, <1>1 DEF ToolsDiffer, Trees!Steps
<1> QED
  BY <1>2, <1>4, <1>5 DEF TreesInv

\* A call takes a step; the others, if it is calm, are not under way.
LEMMA CallGoesOn ==
    ASSUME TreesInv, NEW c \in WorktreeCalls,
           at[c] \in Trees!Steps, at'[c] \in Trees!Steps,
           at' \in [WorktreeCalls -> Trees!Steps \cup Trees!Ends],
           \A d \in WorktreeCalls \ {c} : at'[d] = at[d],
           disturbed' = disturbed, UNCHANGED <<tool, task>>, TreesType',
           at'[c] \in {"creating", "created"} => tool[c] = "create",
           at'[c] \in {"checking", "removing", "removed"} => tool[c] = "remove",
           Calm(c) =>
        /\ at'[c] = "reading" => seen'[c] = git'
        /\ at'[c] = "unbinding" =>
              /\ seen'[c] = git'
              /\ \A t \in WorktreeTasks :
                    IF repair'[c][t] = Trees!NoBinding THEN bound'[t] \in {Trees!NoBinding, git'[t]}
                    ELSE repair'[c][t] = bound'[t]
        /\ at'[c] = "binding" =>
              \A t \in WorktreeTasks :
                  /\ bound'[t] \in {Trees!NoBinding, git'[t]}
                  /\ seen'[c][t] \in {Trees!NoBinding, git'[t]}
                  /\ repair'[c][t] # Trees!NoBinding =>
                         repair'[c][t] = git'[t] /\ bound'[t] = Trees!NoBinding
                  /\ seen'[c][t] = Trees!NoBinding /\ repair'[c][t] = Trees!NoBinding =>
                         bound'[t] = git'[t]
        /\ at'[c] \in {"checking", "creating", "removing"} => bound' = git'
        /\ at'[c] = "created" =>
              /\ git'[task[c]] = wanted'[c]
              /\ \A t \in WorktreeTasks \ {task[c]} : bound'[t] = git'[t]
        /\ at'[c] = "removing" => bound'[task[c]] = wanted'[c]
        /\ at'[c] = "removed" =>
              /\ bound'[task[c]] = wanted'[c] /\ git'[task[c]] = Trees!NoBinding
              /\ \A t \in WorktreeTasks \ {task[c]} : bound'[t] = git'[t]
    PROVE  TreesInv'
<1>0. TreesType /\ CalmIsAlone /\ ToolsDiffer /\ RepairComes
  BY DEF TreesInv
<1>1. \A d \in WorktreeCalls : Calm(d)' <=> Calm(d)
  BY DEF Calm
<1>2. ASSUME NEW d \in WorktreeCalls, Calm(d)'
      PROVE  d = c /\ Calm(c)
  BY <1>0, <1>1, <1>2 DEF CalmIsAlone
<1>3. CalmIsAlone'
  BY <1>0, <1>1 DEF CalmIsAlone, Calm
<1>4. ToolsDiffer'
  BY <1>0 DEF ToolsDiffer
<1>5. RepairComes'
  BY <1>2 DEF RepairComes
<1> QED
  BY <1>3, <1>4, <1>5 DEF TreesInv

LEMMA TreesStep == TreesInv /\ [Trees!Next]_(Trees!vars) => TreesInv'
<1> SUFFICES ASSUME TreesInv, [Trees!Next]_(Trees!vars)
             PROVE  TreesInv'
  OBVIOUS
<1> USE BoundAssumption
<1>0. TreesType /\ CalmIsAlone /\ ToolsDiffer /\ RepairComes
  BY DEF TreesInv
<1>b. Trees!NoBinding \in Trees!Bindings /\ Trees!Nothing \in [WorktreeTasks -> Trees!Bindings]
      /\ \A t \in WorktreeTasks : Trees!Nothing[t] = Trees!NoBinding
  BY BindingsAreTyped
<1>f. changes < MaxChanges /\ changes' = changes + 1 =>
          /\ changes' \in 0 .. MaxChanges /\ changes' = changes + 1
          /\ Trees!Fresh \in Trees!Bindings
          /\ [Trees!Fresh EXCEPT !.nonce = 0] \in Trees!Bindings
          /\ \A any \in Trees!Bindings :
                 [any EXCEPT !.head = Trees!ProjectHead + changes'] \in Trees!Bindings
  <2> SUFFICES ASSUME changes < MaxChanges, changes' = changes + 1
               PROVE  /\ changes' \in 0 .. MaxChanges /\ changes' = changes + 1
                      /\ Trees!Fresh \in Trees!Bindings
                      /\ [Trees!Fresh EXCEPT !.nonce = 0] \in Trees!Bindings
                      /\ \A any \in Trees!Bindings :
                             [any EXCEPT !.head = Trees!ProjectHead + changes'] \in Trees!Bindings
    OBVIOUS
  <2>1. /\ changes \in 0 .. MaxChanges /\ changes' \in 0 .. MaxChanges
        /\ changes + 1 \in 0 .. MaxChanges /\ Trees!ProjectHead \in 0 .. MaxChanges + 1
        /\ Trees!ProjectHead + changes' \in 0 .. MaxChanges + 1 /\ 0 \in 0 .. MaxChanges
    BY <1>0 DEF TreesType, Trees!ProjectHead
  <2> QED
    BY <2>1 DEF Trees!Fresh, Trees!Bindings
<1>1. CASE UNCHANGED Trees!vars
  BY <1>0, <1>1 DEF Trees!vars, TreesInv, TreesType, CalmIsAlone, ToolsDiffer,
     RepairComes, Calm
<1>2. ASSUME NEW c \in WorktreeCalls, Trees!Start(c)
      PROVE  TreesInv'
  <2>1. /\ at[c] \in Trees!Ends /\ at'[c] \in {"reconciling", "listing"}
        /\ \A d \in WorktreeCalls \ {c} : at'[d] = at[d] /\ tool'[d] = tool[d]
        /\ at' \in [WorktreeCalls -> Trees!Steps \cup Trees!Ends]
        /\ tool' \in [WorktreeCalls -> Trees!Tools]
        /\ disturbed' = IF Trees!UnderWay = {} THEN {} ELSE Trees!UnderWay \cup {c}
        /\ UNCHANGED <<git, bound, task, wanted, seen, repair, changes>>
    BY <1>0, <1>2 DEF Trees!Start, TreesType, Trees!Steps
  <2>2. TreesType'
    BY <1>0, <2>1 DEF TreesType
  <2>3. ASSUME NEW d \in WorktreeCalls, Calm(d)'
        PROVE  d = c /\ Trees!UnderWay = {}
    BY <2>1, <2>3 DEF Calm, Trees!UnderWay
  <2>4. CalmIsAlone'
    BY <2>1, <2>3 DEF CalmIsAlone, Trees!UnderWay
  <2>5. ToolsDiffer' 
    BY <1>0, <2>1 DEF ToolsDiffer
  <2>6. RepairComes'
    BY <2>1, <2>3 DEF RepairComes
  <2> QED
    BY <2>2, <2>4, <2>5, <2>6 DEF TreesInv
<1>3. ASSUME NEW c \in WorktreeCalls, Trees!List(c)
      PROVE  TreesInv'
  <2>1. /\ at[c] = "listing" /\ at'[c] = "reconciling"
        /\ at' \in [WorktreeCalls -> Trees!Steps \cup Trees!Ends]
        /\ \A d \in WorktreeCalls \ {c} : at'[d] = at[d]
        /\ disturbed' = disturbed
    BY <1>0, <1>3, OneMoves DEF Trees!List, Trees!Steps, Trees!Ends
  <2>2. wanted' \in [WorktreeCalls -> Trees!Bindings] /\ UNCHANGED <<git, bound, tool, task, seen, repair, changes>>
    BY <1>0, <1>3 DEF Trees!List, TreesType
  <2>3. TreesType'
    BY <1>0, <2>1, <2>2 DEF TreesType
  <2> QED
    BY <2>1, <2>2, <2>3, CallGoesOn DEF Trees!Steps
<1>4. ASSUME NEW c \in WorktreeCalls, Trees!Reconcile(c)
      PROVE  TreesInv'
  <2>1. /\ at[c] = "reconciling" /\ at'[c] = "reading"
        /\ at' \in [WorktreeCalls -> Trees!Steps \cup Trees!Ends]
        /\ \A d \in WorktreeCalls \ {c} : at'[d] = at[d]
        /\ disturbed' = disturbed
    BY <1>0, <1>4, OneMoves DEF Trees!Reconcile, Trees!Steps, Trees!Ends
  <2>2. /\ seen'[c] = git
        /\ seen' \in [WorktreeCalls -> [WorktreeTasks -> Trees!Bindings]]
        /\ UNCHANGED <<git, bound, tool, task, wanted, repair, changes>>
    BY <1>0, <1>4 DEF Trees!Reconcile, TreesType
  <2>3. TreesType'
    BY <1>0, <2>1, <2>2 DEF TreesType
  <2> QED
    BY <2>1, <2>2, <2>3, CallGoesOn DEF Trees!Steps
<1>5. ASSUME NEW c \in WorktreeCalls, Trees!ReadTasks(c)
      PROVE  TreesInv'
  <2>1. /\ at[c] = "reading" /\ at'[c] = "unbinding"
        /\ at' \in [WorktreeCalls -> Trees!Steps \cup Trees!Ends]
        /\ \A d \in WorktreeCalls \ {c} : at'[d] = at[d]
        /\ disturbed' = disturbed
    BY <1>0, <1>5, OneMoves DEF Trees!ReadTasks, Trees!Steps, Trees!Ends
  <2>2. /\ \A t \in WorktreeTasks :
               repair'[c][t] = IF seen[c][t] =
                   bound[t] THEN Trees!NoBinding ELSE bound[t]
        /\ repair' \in [WorktreeCalls -> [WorktreeTasks -> Trees!Bindings]]
        /\ UNCHANGED <<git, bound, tool, task, wanted, seen, changes>>
    <3> DEFINE toUnbind == [t \in WorktreeTasks |-> IF Trees!InGit(seen[c], t, bound[t]) THEN Trees!NoBinding ELSE bound[t]]
    <3>1. toUnbind \in [WorktreeTasks -> Trees!Bindings]
      BY <1>0, <1>b DEF TreesType
    <3>2. repair' = [repair EXCEPT ![c] = toUnbind]
      BY <1>5 DEF Trees!ReadTasks
    <3>3. \A t \in WorktreeTasks :
              toUnbind[t] = IF seen[c][t] = bound[t] THEN Trees!NoBinding ELSE bound[t]
      BY DEF Trees!InGit
    <3> HIDE DEF toUnbind
    <3>4. repair'[c] = toUnbind /\ repair' \in [WorktreeCalls -> [WorktreeTasks -> Trees!Bindings]]
      BY <1>0, <3>1, <3>2 DEF TreesType
    <3> QED
      BY <1>5, <3>3, <3>4 DEF Trees!ReadTasks
  <2>3. TreesType'
    BY <1>0, <2>1, <2>2 DEF TreesType
  <2>4. ASSUME Calm(c)
        PROVE  seen[c] = git
    BY <1>0, <2>1, <2>4 DEF RepairComes
  <2> QED
    BY <2>1, <2>2, <2>3, <2>4, CallGoesOn DEF Trees!Steps
<1>s. ASSUME NEW c \in WorktreeCalls, NEW t \in WorktreeTasks,
             NEW some \in {"unbinding", "binding"}, at[c] = some,
             repair' = [repair EXCEPT ![c][t] = Trees!NoBinding]
      PROVE  /\ repair' \in [WorktreeCalls -> [WorktreeTasks -> Trees!Bindings]]
             /\ repair'[c][t] = Trees!NoBinding
             /\ \A u \in WorktreeTasks \ {t} : repair'[c][u] = repair[c][u]
  BY <1>0, <1>b, <1>s DEF TreesType
<1>6. ASSUME NEW c \in WorktreeCalls, NEW t \in WorktreeTasks, Trees!Unbind(c, t)
      PROVE  TreesInv'
  <2>1. /\ at[c] = "unbinding"
        /\ UNCHANGED <<git, at, tool, task, wanted, seen, disturbed, changes>>
        /\ repair' \in [WorktreeCalls -> [WorktreeTasks -> Trees!Bindings]]
        /\ repair'[c][t] = Trees!NoBinding
        /\ \A u \in WorktreeTasks \ {t} : repair'[c][u] = repair[c][u]
        /\ bound' \in [WorktreeTasks -> Trees!Bindings] /\ bound'[t] = Trees!NoBinding
        /\ \A u \in WorktreeTasks \ {t} : bound'[u] = bound[u]
    BY <1>0, <1>b, <1>6, <1>s DEF Trees!Unbind, TreesType
  <2>2. TreesType'
    BY <1>0, <2>1 DEF TreesType
  <2>3. ASSUME Calm(c)
        PROVE  /\ seen'[c] = git'
               /\ \A u \in WorktreeTasks :
                    IF repair'[c][u] = Trees!NoBinding THEN bound'[u] \in {Trees!NoBinding, git'[u]}
                    ELSE repair'[c][u] = bound'[u]
    BY <1>0, <2>1, <2>3 DEF RepairComes
  <2>4. at' \in [WorktreeCalls -> Trees!Steps \cup Trees!Ends]
    BY <1>0, <2>1 DEF TreesType
  <2> QED
    BY <2>1, <2>2, <2>3, <2>4, CallGoesOn DEF Trees!Steps
<1>7. ASSUME NEW c \in WorktreeCalls, NEW t \in WorktreeTasks, Trees!UnbindRefused(c, t)
      PROVE  TreesInv'
  BY <1>0, <1>7, EndIsCalm DEF Trees!UnbindRefused, TreesType, Trees!Steps, Trees!Ends
<1>8. ASSUME NEW c \in WorktreeCalls, Trees!Unbound(c)
      PROVE  TreesInv'
  <2>1. /\ at[c] = "unbinding" /\ at'[c] = "binding"
        /\ at' \in [WorktreeCalls -> Trees!Steps \cup Trees!Ends]
        /\ \A d \in WorktreeCalls \ {c} : at'[d] = at[d]
        /\ disturbed' = disturbed
    BY <1>0, <1>8, OneMoves DEF Trees!Unbound, Trees!Steps, Trees!Ends
  <2>2. repair[c] = Trees!Nothing /\ UNCHANGED <<git, bound, tool, task, wanted, seen, repair, changes>>
    BY <1>8 DEF Trees!Unbound, Trees!callVars
  <2>3. TreesType'
    BY <1>0, <2>1, <2>2 DEF TreesType
  <2>4. ASSUME Calm(c)
        PROVE  seen[c] = git /\ \A t \in WorktreeTasks :
                   bound[t] \in {Trees!NoBinding, git[t]} /\ repair[c][t] = Trees!NoBinding
    BY <1>0, <1>b, <2>1, <2>2, <2>4 DEF RepairComes
  <2> QED
    BY <2>1, <2>2, <2>3, <2>4, CallGoesOn DEF Trees!Steps
<1>9. ASSUME NEW c \in WorktreeCalls, NEW t \in WorktreeTasks, Trees!GetTask(c, t)
      PROVE  TreesInv'
  <2>1. /\ at[c] = "binding" /\ repair[c] = Trees!Nothing
        /\ seen[c][t] # Trees!NoBinding
        /\ UNCHANGED <<git, bound, at, tool, task, wanted, disturbed, changes>>
        /\ seen' = [seen EXCEPT ![c][t] = Trees!NoBinding]
        /\ repair' =
               [repair EXCEPT ![c][t] = IF bound[t] = Trees!NoBinding THEN seen[c][t] ELSE Trees!NoBinding]
    BY <1>9 DEF Trees!GetTask
  <2>2. /\ seen' \in [WorktreeCalls -> [WorktreeTasks -> Trees!Bindings]]
        /\ seen'[c][t] = Trees!NoBinding
        /\ \A u \in WorktreeTasks \ {t} : seen'[c][u] = seen[c][u]
    BY <1>0, <1>b, <2>1 DEF TreesType
  <2>3. /\ repair' \in [WorktreeCalls -> [WorktreeTasks -> Trees!Bindings]]
        /\ repair'[c][t] = IF bound[t] =
               Trees!NoBinding THEN seen[c][t] ELSE Trees!NoBinding
        /\ \A u \in WorktreeTasks \ {t} : repair'[c][u] = repair[c][u]
    BY <1>0, <1>b, <2>1 DEF TreesType
  <2>4. TreesType'
    BY <1>0, <2>1, <2>2, <2>3 DEF TreesType
  <2>5. ASSUME Calm(c), NEW u \in WorktreeTasks
        PROVE  /\ bound[u] \in {Trees!NoBinding, git[u]}
               /\ seen'[c][u] \in {Trees!NoBinding, git[u]}
               /\ repair'[c][u] # Trees!NoBinding =>
                      repair'[c][u] = git[u] /\ bound[u] = Trees!NoBinding
               /\ seen'[c][u] = Trees!NoBinding /\ repair'[c][u] = Trees!NoBinding =>
                      bound[u] = git[u]
    <3>1. /\ \A v \in WorktreeTasks :
                /\ bound[v] \in {Trees!NoBinding, git[v]}
                /\ seen[c][v] \in {Trees!NoBinding, git[v]}
                /\ seen[c][v] = Trees!NoBinding /\ repair[c][v] = Trees!NoBinding =>
                       bound[v] = git[v]
          /\ \A v \in WorktreeTasks : repair[c][v] = Trees!NoBinding
      BY <1>0, <1>b, <2>1, <2>5 DEF RepairComes
    <3>2. CASE u = t
      BY <2>1, <2>2, <2>3, <3>1, <3>2
    <3>3. CASE u # t
      BY <2>1, <2>2, <2>3, <3>1, <3>3
    <3> QED
      BY <3>2, <3>3
  <2>6. at' \in [WorktreeCalls -> Trees!Steps \cup Trees!Ends]
    BY <1>0, <2>1 DEF TreesType
  <2> QED
    BY <2>1, <2>4, <2>5, <2>6, CallGoesOn DEF Trees!Steps
<1>10. ASSUME NEW c \in WorktreeCalls, NEW t \in WorktreeTasks, Trees!Bind(c, t)
       PROVE  TreesInv'
  <2>1. /\ at[c] = "binding"
        /\ UNCHANGED <<git, at, tool, task, wanted, seen, disturbed, changes>>
        /\ repair' \in [WorktreeCalls -> [WorktreeTasks -> Trees!Bindings]]
        /\ repair'[c][t] = Trees!NoBinding
        /\ \A u \in WorktreeTasks \ {t} : repair'[c][u] = repair[c][u]
        /\ repair[c][t] # Trees!NoBinding
        /\ bound' \in [WorktreeTasks -> Trees!Bindings] /\ bound'[t] = repair[c][t]
        /\ \A u \in WorktreeTasks \ {t} : bound'[u] = bound[u]
    BY <1>0, <1>b, <1>10, <1>s DEF Trees!Bind, TreesType
  <2>2. TreesType'
    BY <1>0, <2>1 DEF TreesType
  <2>3. ASSUME Calm(c), NEW u \in WorktreeTasks
        PROVE  /\ bound'[u] \in {Trees!NoBinding, git'[u]}
               /\ seen'[c][u] \in {Trees!NoBinding, git'[u]}
               /\ repair'[c][u] # Trees!NoBinding =>
                      repair'[c][u] = git'[u] /\ bound'[u] = Trees!NoBinding
               /\ seen'[c][u] = Trees!NoBinding /\ repair'[c][u] = Trees!NoBinding =>
                      bound'[u] = git'[u]
    BY <1>0, <2>1, <2>3 DEF RepairComes
  <2>4. at' \in [WorktreeCalls -> Trees!Steps \cup Trees!Ends]
    BY <1>0, <2>1 DEF TreesType
  <2> QED
    BY <2>1, <2>2, <2>3, <2>4, CallGoesOn DEF Trees!Steps
<1>11. ASSUME NEW c \in WorktreeCalls, NEW t \in WorktreeTasks, Trees!BindRefused(c, t)
       PROVE  TreesInv'
  BY <1>0, <1>11, EndIsCalm DEF Trees!BindRefused, TreesType, Trees!Steps, Trees!Ends
<1>12. ASSUME NEW c \in WorktreeCalls, Trees!Reconciled(c)
       PROVE  TreesInv'
  BY <1>0, <1>12, EndIsCalm DEF Trees!Reconciled, TreesType, Trees!Steps, Trees!Ends
<1>13. ASSUME NEW c \in WorktreeCalls, Trees!Repaired(c)
       PROVE  TreesInv'
  <2>1. /\ at[c] = "binding"
        /\ at'[c] = IF tool[c] = "create" THEN "creating" ELSE "checking"
        /\ at' \in [WorktreeCalls -> Trees!Steps \cup Trees!Ends]
        /\ \A d \in WorktreeCalls \ {c} : at'[d] = at[d]
        /\ disturbed' = disturbed
    BY <1>0, <1>13, OneMoves DEF Trees!Repaired, Trees!Steps, Trees!Ends
  <2>2. /\ seen[c] = Trees!Nothing /\ repair[c] = Trees!Nothing
        /\ tool[c] \in {"create", "remove"}
        /\ UNCHANGED <<git, bound, tool, task, wanted, seen, repair, changes>>
    BY <1>0, <1>13 DEF Trees!Repaired, Trees!callVars, TreesType, Trees!Tools
  <2>3. TreesType'
    BY <1>0, <2>1, <2>2 DEF TreesType
  <2>4. ASSUME Calm(c)
        PROVE  bound = git
    <3>1. \A t \in WorktreeTasks : bound[t] = git[t]
      BY <1>0, <1>b, <2>1, <2>2, <2>4 DEF RepairComes
    <3> QED
      BY <1>0, <3>1 DEF TreesType
  <2> QED
    BY <2>1, <2>2, <2>3, <2>4, CallGoesOn DEF Trees!Steps
<1>14. ASSUME NEW c \in WorktreeCalls, Trees!Create(c)
       PROVE  TreesInv'
  <2>1. /\ at[c] = "creating" /\ at'[c] = "created"
        /\ at' \in [WorktreeCalls -> Trees!Steps \cup Trees!Ends]
        /\ \A d \in WorktreeCalls \ {c} : at'[d] = at[d]
        /\ disturbed' = disturbed
    BY <1>0, <1>14, OneMoves DEF Trees!Create, Trees!Steps, Trees!Ends
  <2>2. Trees!Fresh \in Trees!Bindings /\ changes' \in 0 .. MaxChanges
    BY <1>f, <1>14 DEF Trees!Create
  <2>3. /\ git' \in [WorktreeTasks -> Trees!Bindings] /\ git'[task[c]] = Trees!Fresh
        /\ \A t \in WorktreeTasks \ {task[c]} : git'[t] = git[t]
        /\ wanted' \in [WorktreeCalls -> Trees!Bindings] /\ wanted'[c] = Trees!Fresh
        /\ UNCHANGED <<bound, tool, task, seen, repair>>
    BY <1>0, <1>14, <2>2 DEF Trees!Create, TreesType
  <2>4. TreesType'
    BY <1>0, <2>1, <2>2, <2>3 DEF TreesType
  <2>5. ASSUME Calm(c)
        PROVE  bound = git
    BY <1>0, <2>1, <2>5 DEF RepairComes
  <2>6. tool[c] = "create"
    BY <1>0, <2>1 DEF ToolsDiffer
  <2> QED
    BY <2>1, <2>3, <2>4, <2>5, <2>6, CallGoesOn DEF Trees!Steps
<1>15. ASSUME NEW c \in WorktreeCalls, Trees!CreateRefused(c)
       PROVE  TreesInv'
  BY <1>0, <1>15, EndIsCalm DEF Trees!CreateRefused, TreesType, Trees!Steps, Trees!Ends
<1>16. ASSUME NEW c \in WorktreeCalls, Trees!CreateLeavesWorktree(c)
       PROVE  TreesInv'
  <2>1. git' \in [WorktreeTasks -> Trees!Bindings] /\ changes' \in 0 .. MaxChanges /\ bound' = bound
    <3>1. changes' \in 0 .. MaxChanges /\ Trees!Fresh \in Trees!Bindings /\ [Trees!Fresh EXCEPT !.nonce = 0] \in Trees!Bindings
      BY <1>f, <1>16 DEF Trees!CreateLeavesWorktree
    <3>2. PICK some \in {Trees!Fresh, [Trees!Fresh EXCEPT !.nonce = 0]} :
                   git' = [git EXCEPT ![task[c]] = some]
      BY <1>16 DEF Trees!CreateLeavesWorktree
    <3>3. some \in Trees!Bindings
      BY <3>1, <3>2
    <3>4. bound' = bound
      BY <1>16 DEF Trees!CreateLeavesWorktree
    <3> QED
      BY <1>0, <3>1, <3>2, <3>3, <3>4 DEF TreesType
  <2> QED
    BY <1>0, <1>16, <2>1, EndIsCalm DEF Trees!CreateLeavesWorktree, TreesType,
       Trees!Steps, Trees!Ends
<1>17. ASSUME NEW c \in WorktreeCalls, Trees!BindCreated(c)
       PROVE  TreesInv'
  <2>1. git' = git /\ changes' = changes /\ bound' \in [WorktreeTasks -> Trees!Bindings]
    BY <1>0, <1>17 DEF Trees!BindCreated, TreesType
  <2> QED
    BY <1>0, <1>17, <2>1, EndIsCalm DEF Trees!BindCreated, TreesType, Trees!Steps,
       Trees!Ends
<1>18. ASSUME NEW c \in WorktreeCalls, Trees!BindCreatedRefused(c)
       PROVE  TreesInv'
  <2>1. git' \in [WorktreeTasks -> Trees!Bindings] /\ changes' = changes /\ bound' = bound
    BY <1>0, <1>b, <1>18 DEF Trees!BindCreatedRefused, TreesType
  <2> QED
    BY <1>0, <1>18, <2>1, EndIsCalm DEF Trees!BindCreatedRefused, TreesType,
       Trees!Steps, Trees!Ends
<1>19. ASSUME NEW c \in WorktreeCalls, Trees!CheckRemoval(c)
       PROVE  TreesInv'
  <2>1. CASE wanted[c] # Trees!NoBinding /\ bound[task[c]] = wanted[c]
    <3>1. Trees!Goes(c, "checking", "removing") /\ UNCHANGED <<git, bound, changes, tool, task, wanted, seen, repair>>
      BY <1>19, <2>1 DEF Trees!CheckRemoval, Trees!callVars
    <3>2. /\ at[c] = "checking" /\ at'[c] = "removing"
          /\ at' \in [WorktreeCalls -> Trees!Steps \cup Trees!Ends]
          /\ \A d \in WorktreeCalls \ {c} : at'[d] = at[d]
          /\ disturbed' = disturbed
      BY <1>0, <3>1, OneMoves DEF Trees!Steps, Trees!Ends
    <3>3. TreesType'
      BY <1>0, <3>1, <3>2 DEF TreesType
    <3>4. tool[c] = "remove"
      BY <1>0, <3>2 DEF ToolsDiffer
    <3>5. ASSUME Calm(c)
          PROVE  bound = git
      BY <1>0, <3>2, <3>5 DEF RepairComes
    <3> QED
      BY <2>1, <3>1, <3>2, <3>3, <3>4, <3>5, CallGoesOn DEF Trees!Steps
  <2>2. CASE ~(wanted[c] # Trees!NoBinding /\ bound[task[c]] = wanted[c])
    BY <1>0, <1>19, <2>2, EndIsCalm DEF Trees!CheckRemoval, TreesType, Trees!Steps,
       Trees!Ends
  <2> QED
    BY <2>1, <2>2
<1>20. ASSUME NEW c \in WorktreeCalls, Trees!Remove(c)
       PROVE  TreesInv'
  <2>1. /\ at[c] = "removing" /\ at'[c] = "removed"
        /\ at' \in [WorktreeCalls -> Trees!Steps \cup Trees!Ends]
        /\ \A d \in WorktreeCalls \ {c} : at'[d] = at[d]
        /\ disturbed' = disturbed
    BY <1>0, <1>20, OneMoves DEF Trees!Remove, Trees!Steps, Trees!Ends
  <2>2. /\ git' \in [WorktreeTasks -> Trees!Bindings] /\ git'[task[c]] = Trees!NoBinding
        /\ \A t \in WorktreeTasks \ {task[c]} : git'[t] = git[t]
        /\ UNCHANGED <<bound, changes, tool, task, wanted, seen, repair>>
    BY <1>0, <1>b, <1>20 DEF Trees!Remove, Trees!callVars, TreesType
  <2>3. TreesType'
    BY <1>0, <2>1, <2>2 DEF TreesType
  <2>4. ASSUME Calm(c)
        PROVE  bound = git /\ bound[task[c]] = wanted[c]
    BY <1>0, <2>1, <2>4 DEF RepairComes
  <2>5. tool[c] = "remove"
    BY <1>0, <2>1 DEF ToolsDiffer
  <2> QED
    BY <2>1, <2>2, <2>3, <2>4, <2>5, CallGoesOn DEF Trees!Steps
<1>21. ASSUME NEW c \in WorktreeCalls, Trees!RemoveRefused(c)
       PROVE  TreesInv'
  BY <1>0, <1>21, EndIsCalm DEF Trees!RemoveRefused, TreesType, Trees!Steps, Trees!Ends
<1>22. ASSUME NEW c \in WorktreeCalls, Trees!UnbindRemoved(c)
       PROVE  TreesInv'
  <2>1. git' = git /\ changes' = changes /\ bound' \in [WorktreeTasks -> Trees!Bindings]
    BY <1>0, <1>b, <1>22 DEF Trees!UnbindRemoved, TreesType
  <2>2. Trees!Over(c, "removed", "done") \/ Trees!Over(c, "removed", "refused")
    BY <1>22 DEF Trees!UnbindRemoved
  <2>3. git' \in [WorktreeTasks -> Trees!Bindings] /\ changes' \in 0 .. MaxChanges
    BY <1>0, <2>1 DEF TreesType
  <2> QED
    BY <2>1, <2>2, <2>3, EndIsCalm DEF Trees!Steps, Trees!Ends
<1>23. ASSUME NEW c \in WorktreeCalls, Trees!Fail(c)
       PROVE  TreesInv'
  BY <1>0, <1>23, EndIsCalm DEF Trees!Fail, TreesType, Trees!Ends
<1>24. ASSUME NEW t \in WorktreeTasks,
              Trees!Commit(t) \/ Trees!RemoveByHand(t) \/ Trees!Reset(t)
       PROVE  TreesInv'
  <2>1. /\ disturbed' = disturbed \cup Trees!UnderWay
        /\ UNCHANGED <<at, tool, task, wanted, seen, repair>>
        /\ changes' \in 0 .. MaxChanges
    BY <1>0, <1>24, <1>f DEF Trees!Commit, Trees!RemoveByHand, Trees!Reset,
       Trees!callVars, TreesType
  <2>2. git' \in [WorktreeTasks -> Trees!Bindings] /\ bound' \in [WorktreeTasks -> Trees!Bindings]
    <3>1. CASE Trees!Commit(t)
      <4>1. [git[t] EXCEPT !.head = Trees!ProjectHead + changes'] \in Trees!Bindings
        BY <1>0, <1>f, <3>1 DEF Trees!Commit, TreesType
      <4>2. git' = [git EXCEPT ![t] = [git[t] EXCEPT !.head = Trees!ProjectHead + changes']] /\ bound' = bound
        BY <3>1 DEF Trees!Commit
      <4> QED
        BY <1>0, <4>1, <4>2 DEF TreesType
    <3>2. CASE Trees!RemoveByHand(t)
      BY <1>0, <1>b, <3>2 DEF Trees!RemoveByHand, TreesType
    <3>3. CASE Trees!Reset(t)
      BY <1>0, <1>b, <3>3 DEF Trees!Reset, TreesType
    <3> QED
      BY <1>24, <3>1, <3>2, <3>3
  <2>3. TreesType'
    BY <1>0, <2>1, <2>2 DEF TreesType
  <2>4. \A c \in WorktreeCalls : ~Calm(c)'
    BY <2>1 DEF Calm, Trees!UnderWay
  <2>5. ToolsDiffer'
    BY <1>0, <2>1 DEF ToolsDiffer
  <2>6. CalmIsAlone' /\ RepairComes'
    BY <2>4 DEF CalmIsAlone, RepairComes
  <2> QED
    BY <2>3, <2>5, <2>6 DEF TreesInv
<1> QED
  BY <1>1, <1>2, <1>3, <1>4, <1>5, <1>6, <1>7, <1>8, <1>9, <1>10, <1>11, <1>12, <1>13,
     <1>14,
     <1>15, <1>16, <1>17, <1>18, <1>19, <1>20, <1>21, <1>22, <1>23, <1>24 DEF Trees!Next

\* What a step may do to a call that nothing disturbs.
LEMMA CalmCallsMend ==
    TreesInv /\ [Trees!Next]_(Trees!vars) =>
        [\A c \in WorktreeCalls :
            (c \notin disturbed /\ at[c] \in Trees!Steps) =>
                /\ at'[c] = "done" => bound' = git'
                /\ tool[c] = "list" => at'[c] # "refused"]_(Trees!vars)
<1> SUFFICES ASSUME TreesInv, Trees!Next, NEW c \in WorktreeCalls, c \notin disturbed,
                    at[c] \in Trees!Steps
             PROVE  /\ at'[c] = "done" => bound' = git'
                    /\ tool[c] = "list" => at'[c] # "refused"
  OBVIOUS
<1>0. TreesType /\ CalmIsAlone /\ ToolsDiffer /\ RepairComes /\ Calm(c)
  BY DEF TreesInv, Calm
<1>b. \A t \in WorktreeTasks : Trees!Nothing[t] = Trees!NoBinding
  BY DEF Trees!Nothing
<1>1. CASE at'[c] = at[c]
  BY <1>1 DEF Trees!Steps
<1>2. \A d \in WorktreeCalls : at[d] \in Trees!Steps => d = c
  BY <1>0 DEF CalmIsAlone
<1>3. TreesInv' /\ TreesType'
  BY TreesStep DEF TreesInv
<1>4. ASSUME NEW d \in WorktreeCalls, Trees!Start(d)
      PROVE  at'[c] = at[c]
  BY <1>0, <1>4 DEF Trees!Start, TreesType, Trees!Steps, Trees!Ends
<1>5. ASSUME NEW d \in WorktreeCalls, \/ Trees!Goes(d, "listing", "reconciling") \/ Trees!Goes(d, "reconciling", "reading")
                              \/ Trees!Goes(d, "reading", "unbinding") \/ Trees!Goes(d, "unbinding", "binding")
                              \/ Trees!Goes(d, "binding", "creating") \/ Trees!Goes(d, "binding", "checking")
                              \/ Trees!Goes(d, "creating", "created") \/ Trees!Goes(d, "checking", "removing")
                              \/ Trees!Goes(d, "removing", "removed")
      PROVE  at'[c] \notin {"done", "refused"}
  BY <1>0, <1>2, <1>5 DEF Trees!Goes, TreesType, Trees!Steps
<1>6. ASSUME NEW d \in WorktreeCalls, NEW from \in Trees!Steps, NEW to \in Trees!Ends,
             Trees!Over(d, from, to)
      PROVE  d = c /\ at[c] = from /\ at'[c] = to
  BY <1>0, <1>2, <1>6, CallEnds
<1>7. ASSUME NEW d \in WorktreeCalls, NEW t \in WorktreeTasks,
             Trees!UnbindRefused(d, t) \/ Trees!BindRefused(d, t)
      PROVE  FALSE
  <2>1. d = c /\ at[c] \in {"unbinding", "binding"}
    BY <1>6, <1>7 DEF Trees!UnbindRefused, Trees!BindRefused, Trees!Steps, Trees!Ends
  <2> QED
    BY <1>0, <1>6, <1>7, <2>1 DEF Trees!UnbindRefused, Trees!BindRefused, RepairComes,
       Trees!Over, Trees!Goes
<1>8. ASSUME NEW d \in WorktreeCalls, Trees!Reconciled(d)
      PROVE  at'[c] = "done" /\ bound' = git'
  <2>1. d = c /\ at[c] = "binding" /\ at'[c] = "done"
    BY <1>6, <1>8 DEF Trees!Reconciled, Trees!Steps, Trees!Ends
  <2>2. seen[c] = Trees!Nothing /\ repair[c] = Trees!Nothing /\ UNCHANGED <<git, bound>>
    BY <1>8, <2>1 DEF Trees!Reconciled
  <2>3. \A t \in WorktreeTasks : bound[t] = git[t]
    BY <1>0, <1>b, <2>1, <2>2 DEF RepairComes
  <2> QED
    BY <1>0, <2>1, <2>2, <2>3 DEF TreesType
<1>9. ASSUME NEW d \in WorktreeCalls,
             Trees!CreateRefused(d) \/ Trees!RemoveRefused(d) \/ Trees!BindCreatedRefused(d)
      PROVE  at'[c] # "done" /\ tool[c] # "list"
  <2>1. d = c /\ at[c] \in {"creating", "removing", "created"} /\ at'[c] = "refused"
    BY <1>6, <1>9 DEF Trees!CreateRefused, Trees!RemoveRefused,
       Trees!BindCreatedRefused, Trees!Steps, Trees!Ends
  <2> QED
    BY <1>0, <2>1 DEF ToolsDiffer
<1>10. ASSUME NEW d \in WorktreeCalls, Trees!CreateLeavesWorktree(d) \/ Trees!Fail(d)
       PROVE  at'[c] \notin {"done", "refused"}
  BY <1>6, <1>10 DEF Trees!CreateLeavesWorktree, Trees!Fail, Trees!Steps, Trees!Ends
<1>11. ASSUME NEW d \in WorktreeCalls, Trees!BindCreated(d)
       PROVE  at'[c] = "done" /\ bound' = git'
  <2>1. d = c /\ at[c] = "created" /\ at'[c] = "done"
    BY <1>6, <1>11 DEF Trees!BindCreated, Trees!Steps, Trees!Ends
  <2>2. bound' = [bound EXCEPT ![task[c]] = wanted[c]] /\ git' = git
    BY <1>11, <2>1 DEF Trees!BindCreated
  <2>3. \A t \in WorktreeTasks : bound'[t] = git'[t]
    BY <1>0, <2>1, <2>2 DEF RepairComes, TreesType
  <2> QED
    BY <1>3, <2>1, <2>3 DEF TreesType
<1>12. ASSUME NEW d \in WorktreeCalls, Trees!CheckRemoval(d)
       PROVE  at'[c] # "done" /\ tool[c] # "list"
  <2>1. CASE Trees!Over(d, "checking", "refused")
    <3>1. d = c /\ at[c] = "checking" /\ at'[c] = "refused"
      BY <1>6, <2>1 DEF Trees!Steps, Trees!Ends
    <3> QED
      BY <1>0, <3>1 DEF ToolsDiffer
  <2>2. CASE Trees!Goes(d, "checking", "removing")
    <3>1. d = c /\ at[c] = "checking" /\ at'[c] = "removing"
      BY <1>0, <1>2, <2>2 DEF Trees!Goes, TreesType, Trees!Steps
    <3> QED
      BY <1>0, <3>1 DEF ToolsDiffer
  <2> QED
    BY <1>12, <2>1, <2>2 DEF Trees!CheckRemoval
<1>13. ASSUME NEW d \in WorktreeCalls, Trees!UnbindRemoved(d)
       PROVE  (at'[c] = "done" => bound' = git') /\ tool[c] # "list"
  <2>1. d = c /\ at[c] = "removed"
    BY <1>6, <1>13 DEF Trees!UnbindRemoved, Trees!Steps, Trees!Ends
  <2>2. tool[c] # "list"
    BY <1>0, <2>1 DEF ToolsDiffer
  <2>3. bound' = [bound EXCEPT ![task[c]] = Trees!NoBinding] /\ git' = git
    BY <1>0, <1>13, <2>1 DEF Trees!UnbindRemoved, RepairComes
  <2>4. \A t \in WorktreeTasks : bound'[t] = git'[t]
    BY <1>0, <2>1, <2>3 DEF RepairComes, TreesType
  <2> QED
    BY <1>3, <2>2, <2>4 DEF TreesType
<1>14. ASSUME NEW d \in WorktreeCalls,
              Trees!List(d) \/ Trees!Reconcile(d) \/ Trees!ReadTasks(d) \/ Trees!Unbound(d) \/ Trees!Repaired(d)
                                 \/ Trees!Create(d) \/ Trees!Remove(d)
       PROVE  at'[c] \notin {"done", "refused"}
  BY <1>5, <1>14 DEF Trees!List, Trees!Reconcile, Trees!ReadTasks, Trees!Unbound,
     Trees!Repaired, Trees!Create, Trees!Remove
<1>15. ASSUME NEW d \in WorktreeCalls, NEW t \in WorktreeTasks,
              Trees!Unbind(d, t) \/ Trees!GetTask(d, t) \/ Trees!Bind(d, t)
       PROVE  at'[c] = at[c]
  BY <1>15 DEF Trees!Unbind, Trees!GetTask, Trees!Bind
<1>16. ASSUME NEW t \in WorktreeTasks,
              Trees!Commit(t) \/ Trees!RemoveByHand(t) \/ Trees!Reset(t)
       PROVE  at'[c] = at[c]
  BY <1>16 DEF Trees!Commit, Trees!RemoveByHand, Trees!Reset
<1> QED
  BY <1>1, <1>4, <1>7, <1>8, <1>9, <1>10, <1>11, <1>12, <1>13, <1>14, <1>15, <1>16 DEF
     Trees!Next

\* Whatever was cancelled, removed by hand, committed or reset before, a call that
\* nothing disturbs leaves every task with the worktree that Git has for it, and a
\* call that only lists is not refused (CallsRepair: the reconciliation of
\* WorktreeManager's records with `git worktree list`).
THEOREM WorktreesAreRepaired == Spec => CallsRepair
<1>1. Init => TreesInv
  BY TreesInit DEF Init
<1>2. TreesInv /\ [Next]_vars => TreesInv'
  BY TreesStep, Moving
<1>3. TreesInv /\ [Next]_vars =>
          [\A c \in WorktreeCalls :
              (c \notin disturbed /\ at[c] \in Trees!Steps) =>
                  /\ at'[c] = "done" => bound' = git'
                  /\ tool[c] = "list" => at'[c] # "refused"]_(Trees!vars)
  BY CalmCallsMend, Moving
<1> QED
  BY <1>1, <1>2, <1>3, PTL DEF Spec, CallsRepair, Trees!CallsRepair

-----------------------------------------------------------------------------
(* Texts.                                                                  *)

\* As long as the text is not returned, it is what was emitted.
TextsInv ==
    /\ accumulated \in Seq(Nat) /\ emitted \in Nat
    /\ Texts!TextIsContiguous

\* A piece knows how much there was in front of it.
LEMMA PieceGoesOn ==
    ASSUME NEW text \in Seq(Nat), Texts!Contiguous(text),
           NEW piece \in {<<>>, <<Len(text)>>}
    PROVE  /\ text \o piece \in Seq(Nat) /\ Texts!Contiguous(text \o piece)
           /\ Len(text \o piece) = Len(text) + Len(piece)
<1>1. CASE piece = <<>>
  BY <1>1
<1>2. CASE piece = <<Len(text)>>
  <2> DEFINE longer == text \o piece
  <2>1. /\ longer \in Seq(Nat) /\ Len(longer) = Len(text) + 1 /\ Len(text) \in Nat
        /\ \A i \in 1 .. Len(text) : longer[i] = text[i]
        /\ longer[Len(text) + 1] = Len(text)
    BY <1>2
  <2>2. DOMAIN text = 1 .. Len(text)
    OBVIOUS
  <2> HIDE DEF longer
  <2>3. DOMAIN longer = 1 .. (Len(text) + 1)
    BY <2>1
  <2>4. \A i \in 1 .. (Len(text) + 1) : i \in 1 .. Len(text) \/ i = Len(text) + 1
    BY <2>1
  <2>5. Texts!Contiguous(longer)
    BY <2>1, <2>2, <2>3, <2>4 DEF Texts!Contiguous
  <2> QED
    BY <2>1, <2>5 DEF longer
<1> QED
  BY <1>1, <1>2

LEMMA TextsInit == Texts!Init => TextsInv
  BY DEF Texts!Init, TextsInv, Texts!TextIsContiguous, Texts!Contiguous, Texts!Over

LEMMA TextsStep == TextsInv /\ [Texts!Next]_(Texts!vars) => TextsInv'
<1> SUFFICES ASSUME TextsInv, [Texts!Next]_(Texts!vars)
             PROVE  TextsInv'
  OBVIOUS
<1>1. CASE UNCHANGED Texts!vars
  BY <1>1 DEF Texts!vars, TextsInv, Texts!TextIsContiguous, Texts!Contiguous, Texts!Over,
     Texts!PrefixIsDropped
<1>2. ASSUME NEW how \in Texts!Stops, NEW piece \in {<<>>, <<Len(accumulated)>>},
             Texts!Attempt(how, piece)
      PROVE  TextsInv'
  <2> DEFINE longer == accumulated \o piece
  <2>1. ~Texts!Over /\ Texts!Contiguous(accumulated) /\ Len(accumulated) = emitted
    BY <1>2 DEF Texts!Attempt, TextsInv, Texts!TextIsContiguous
  <2>2. /\ longer \in Seq(Nat) /\ Texts!Contiguous(longer)
        /\ Len(longer) = emitted + Len(piece)
    BY <2>1, PieceGoesOn DEF TextsInv
  <2>3. piece \in Seq(Nat) /\ Len(piece) \in Nat /\ emitted \in Nat
    <3>1. CASE piece = <<>>
      BY <3>1 DEF TextsInv
    <3>2. CASE piece = <<Len(accumulated)>>
      BY <3>2 DEF TextsInv
    <3> QED
      BY <3>1, <3>2
  <2>4. piece = <<>> => longer = accumulated
    BY DEF TextsInv
  <2>5. Len(accumulated) = 0 => accumulated = <<>>
    BY DEF TextsInv
  <2>6. accumulated' = Texts!Prefix(how, piece) /\ lastText' = piece
    BY <1>2 DEF Texts!Attempt
  <2>7. \/ /\ stop' = "none"
           /\ emitted' = emitted + (IF Texts!IsCutOff(how) THEN Len(piece) ELSE 0)
        \/ stop' = how /\ how # "none" /\ result' = Texts!Text(how, piece) /\ emitted' = emitted
    BY <1>2, <2>1 DEF Texts!Attempt, Texts!Over, Texts!Stops
  <2> HIDE DEF longer
  <2>8. Texts!Prefix(how, piece) = IF Texts!IsCutOff(how) THEN longer ELSE accumulated
    <3>1. accumulated # <<>> <=> emitted > 0
      BY <2>1, <2>3, <2>5
    <3> QED
      BY <3>1 DEF Texts!Prefix, Texts!IsCutOff, longer
  <2>9. accumulated' \in Seq(Nat) /\ emitted' \in Nat
    BY <2>2, <2>3, <2>6, <2>7, <2>8 DEF TextsInv
  <2>10. CASE stop' = "none" /\ emitted' = emitted + (IF Texts!IsCutOff(how) THEN Len(piece) ELSE 0)
    <3>1. Texts!Contiguous(accumulated') /\ Len(accumulated') = emitted'
      BY <2>1, <2>2, <2>3, <2>6, <2>8, <2>10
    <3>2. Texts!TextIsContiguous'
      BY <2>10, <3>1 DEF Texts!TextIsContiguous, Texts!Over, Texts!Contiguous
    <3> QED
      BY <2>9, <3>2 DEF TextsInv
  <2>11. CASE stop' = how /\ how # "none" /\ result' = Texts!Text(how, piece) /\ emitted' = emitted
    <3>1. CASE \/ how \in {"end turn", "retryable error", "error"} /\ piece = <<>>
               \/ how = "other"
      <4>1. result' = lastText' /\ Texts!PrefixIsDropped' /\ Texts!Over'
        BY <2>6, <2>11, <3>1 DEF Texts!Text, Texts!PrefixIsDropped, Texts!Over
      <4>2. Texts!TextIsContiguous'
        BY <4>1 DEF Texts!TextIsContiguous
      <4> QED
        BY <2>9, <4>2 DEF TextsInv
    <3>2. CASE ~(\/ how \in {"end turn", "retryable error", "error"} /\ piece = <<>>
                 \/ how = "other")
      <4>1. result' = longer /\ ~Texts!PrefixIsDropped' /\ Texts!Over'
        BY <2>6, <2>11, <3>2 DEF Texts!Text, Texts!PrefixIsDropped, Texts!Over, Texts!Stops, longer
      <4>2. Texts!Contiguous(result') /\ Len(result') = emitted' + Len(lastText')
        BY <2>2, <2>6, <2>11, <4>1
      <4>3. Texts!TextIsContiguous'
        BY <4>1, <4>2 DEF Texts!TextIsContiguous, Texts!Contiguous
      <4> QED
        BY <2>9, <4>3 DEF TextsInv
    <3> QED
      BY <3>1, <3>2
  <2> QED
    BY <2>7, <2>10, <2>11
<1> QED
  BY <1>1, <1>2 DEF Texts!Next

LEMMA TextsGoOn == TextsInv => Texts!TextIsContiguous
  BY DEF TextsInv

\* What is returned, and what a request is asked to continue, is all that the
\* responses that were cut off have brought, each piece once and in order, whatever
\* failed or was tried again between; only where the prefix is dropped it is the last
\* response's text alone (TextIsContiguous: complete_text_with_retry).
THEOREM TextsAreContiguous == Spec => []TextIsContiguous
<1>1. Init => TextsInv
  BY TextsInit DEF Init
<1>2. TextsInv /\ [Next]_vars => TextsInv'
  BY TextsStep, Moving
<1>3. TextsInv => TextIsContiguous
  BY TextsGoOn DEF TextIsContiguous
<1> QED
  BY <1>1, <1>2, <1>3, PTL DEF Spec

-----------------------------------------------------------------------------
(* The scores of the evaluation.                                           *)

Evidence ==
    {"marker", "probed", "traced", "compacted", "recovered", "dependencies",
     "artifact", "workflow"}
Kinds ==
    {"build", "start", "turn", "state", "setup", "stage", "shut", "resume", "finish"}
Executions ==
    [open : BOOLEAN, result : {"none", "completed", "budget", "stopped"},
     error : Kinds \cup {"none"}, raised : {"none", "error", "cancelled"},
     provider : BOOLEAN, shown : SUBSET Evidence,
     trouble : SUBSET (Kinds \cup {"tidying"})]
Statuses == {"passed", "failed", "infra_error", "invalid"}
RunStatuses == {"completed", "completed_with_infra_errors", "interrupted"}
ReportsOf ==
    [status : Statuses, shown : SUBSET Evidence,
     truth :
         [flawless : BOOLEAN, earned : BOOLEAN, fair : BOOLEAN, disturbed : BOOLEAN]]
Tidying == {"close", "copy", "clients", "flush"}

SuiteType ==
    /\ suitePlan \in Seq(Evaluating!Modes) /\ runs \in Seq(RunStatuses)
    /\ cases \in Seq(Statuses)
    /\ reports \in Seq(ReportsOf) /\ execution \in Executions
    /\ phase \in {"next", "script", "executed", "score"} \cup Tidying
    /\ step \in Nat

\* While a case is under way the run has not all of its cases, nor the case all of
\* its candidates, unless it is to be scored.
CaseUnderWay ==
    suite = "running" /\ (phase # "next" \/ reports # <<>>) =>
        /\ Len(runs) < Len(suitePlan) /\ Len(cases) < TasksOf[Evaluating!Mode]
        /\ phase # "score" => Len(reports) < Len(Evaluating!Candidates(Evaluating!Mode))
        /\ phase = "score" => Len(reports) = Len(Evaluating!Candidates(Evaluating!Mode))

\* What is known in front of a step of the script.
ScriptGoesOn ==
    suite = "running" /\ phase = "script" =>
        /\ step \in 1 .. Len(Evaluating!Script)
        /\ execution.trouble = {} /\ execution.error = "none"
        /\ execution.raised = "none"
        /\ execution.result = "completed" =>
               Evaluating!Script[step] \in {"finish", "state"}
        /\ "workflow" \in execution.shown => Evaluating!Script[step] = "state"

\* What went wrong has left its trace, and only the last step of a recovered task
\* can go wrong after a turn that was completed.
TroubleIsKnown ==
    suite = "running" /\ phase \in Tidying \cup {"executed"} =>
        /\ execution.error # "none" => execution.error \in execution.trouble
        /\ execution.raised = "error" => execution.trouble # {}
        /\ execution.raised = "none" => execution.trouble \subseteq {execution.error}
        /\ execution.raised = "none" /\ execution.error = "none" =>
               execution.trouble = {}
        /\ execution.error # "none" /\ execution.result = "completed" =>
              /\ execution.error = "finish" /\ Evaluating!Mode = "task-state"
              /\ "workflow" \notin execution.shown

RuntimeIsClosed ==
    phase \in {"executed", "score", "next", "copy", "clients", "flush"} /\ execution.open =>
        execution.raised # "none"

\* A report says of a candidate what became of it.
Tells(report, mode) ==
    /\ report.status = "passed" => report.truth.earned
    /\ report.status \in {"passed", "failed"} => report.truth.fair
    /\ report.status = "infra_error" => report.truth.disturbed
    /\ report.status \in {"passed", "failed"}
       /\ (mode # "task-state" \/ "workflow" \in report.shown) => report.truth.flawless
ReportsTell ==
    suite = "running" => \A r \in 1 .. Len(reports) : Tells(reports[r], Evaluating!Mode)

ScoreTells ==
    /\ scored.status = "passed" =>
          /\ \A truth \in Evaluating!Truths : truth.flawless
          /\ Evaluating!Last.truth.earned
          /\ Evaluating!Required(scored.mode) \cup Evaluating!Exercised(scored.mode) \subseteq Evaluating!Last.shown
    /\ scored.status = "failed" => \A truth \in Evaluating!Truths : truth.fair
    /\ scored.status = "infra_error" => \E truth \in Evaluating!Truths : truth.disturbed

SuiteIsWhole ==
    suite = "completed" =>
        Len(runs) = Len(suitePlan) /\ \A r \in DOMAIN runs : runs[r] = "completed"

ScoresInv ==
    /\ SuiteType /\ CaseUnderWay /\ ScriptGoesOn /\ TroubleIsKnown /\ RuntimeIsClosed
    /\ ReportsTell /\ ScoreTells /\ SuiteIsWhole

ScriptsOf == {Evaluating!Turn, Evaluating!Continued, Evaluating!Recovered}

\* The scripts of a mode's candidates.
LEMMA CandidatesHaveScripts ==
    ASSUME NEW mode \in Evaluating!Modes
    PROVE  /\ Len(Evaluating!Candidates(mode)) \in Nat \ {0}
           /\ \A i \in 1 .. Len(Evaluating!Candidates(mode)) :
                 /\ Evaluating!Candidates(mode)[i] \in ScriptsOf
                 /\ Evaluating!Candidates(mode)[i] = Evaluating!Recovered =>
                        mode = "task-state"
           /\ mode = "task-state" => Len(Evaluating!Candidates(mode)) = 1
<1>1. Evaluating!Turn # Evaluating!Recovered /\ Evaluating!Continued # Evaluating!Recovered
  <2>1. Len(Evaluating!Turn) = 4 /\ Len(Evaluating!Continued) = 5 /\ Len(Evaluating!Recovered) = 10
    BY DEF Evaluating!Turn, Evaluating!Continued, Evaluating!Recovered
  <2> QED
    BY <2>1
<1>2. CASE mode \in {"agent-benchmark", "memory"}
  <2>1. Evaluating!Candidates(mode) = <<Evaluating!Turn>>
    BY <1>2 DEF Evaluating!Candidates
  <2> QED
    BY <1>1, <1>2, <2>1 DEF ScriptsOf
<1>3. CASE mode = "tools-hooks"
  <2>1. Evaluating!Candidates(mode) = <<Evaluating!Continued>>
    BY <1>3 DEF Evaluating!Candidates
  <2> QED
    BY <1>1, <1>3, <2>1 DEF ScriptsOf
<1>4. CASE mode = "context-manager"
  <2>0. Evaluating!Candidates(mode) = <<Evaluating!Continued, Evaluating!Continued>>
    BY <1>4 DEF Evaluating!Candidates
  <2>1. /\ Len(Evaluating!Candidates(mode)) = 2
        /\ Evaluating!Candidates(mode)[1] = Evaluating!Continued
        /\ Evaluating!Candidates(mode)[2] = Evaluating!Continued
    BY <2>0
  <2> QED
    BY <1>1, <1>4, <2>1 DEF ScriptsOf
<1>5. CASE mode = "task-state"
  <2>1. Evaluating!Candidates(mode) = <<Evaluating!Recovered>>
    BY <1>5 DEF Evaluating!Candidates
  <2> QED
    BY <1>1, <1>5, <2>1 DEF ScriptsOf
<1> QED
  BY <1>2, <1>3, <1>4, <1>5 DEF Evaluating!Modes

\* How a script goes on.
LEMMA ScriptEnds ==
    ASSUME NEW script \in ScriptsOf, NEW i \in 1 .. Len(script)
    PROVE  /\ Len(script) \in Nat \ {0} /\ script[i] \in Kinds
           /\ script[i] = "state" <=> i = Len(script)
           /\ script[1] \notin {"finish", "state"} /\ Len(script) > 1
           /\ script[i] = "finish" =>
                  i + 1 = Len(script) /\ script = Evaluating!Recovered
           /\ script[i] = "turn" =>
                  i + 1 \in 1 .. Len(script) /\ script[i + 1] \in {"finish", "state"}
           /\ script[i] = "setup" => i + 2 \in 1 .. Len(script)
<1>1. CASE script = Evaluating!Turn
  <2>1. Len(script) = 4 /\ i \in {1, 2, 3, 4}
    BY <1>1 DEF Evaluating!Turn
  <2>2. /\ script[1] = "build" /\ script[2] = "start" /\ script[3] = "turn"
        /\ script[4] = "state"
    BY <1>1 DEF Evaluating!Turn
  <2> QED
    BY <2>1, <2>2 DEF Kinds
<1>2. CASE script = Evaluating!Continued
  <2>1. Len(script) = 5 /\ i \in {1, 2, 3, 4, 5}
    BY <1>2 DEF Evaluating!Continued
  <2>2. /\ script[1] = "build" /\ script[2] = "start" /\ script[3] = "setup"
        /\ script[4] = "turn" /\ script[5] = "state"
    BY <1>2 DEF Evaluating!Continued
  <2> QED
    BY <2>1, <2>2 DEF Kinds
<1>3. CASE script = Evaluating!Recovered
  <2>1. Len(script) = 10 /\ i \in {1, 2, 3, 4, 5, 6, 7, 8, 9, 10}
    BY <1>3 DEF Evaluating!Recovered
  <2>2. /\ script[1] = "build" /\ script[2] = "start" /\ script[3] = "stage"
        /\ script[4] = "shut" /\ script[5] = "build" /\ script[6] = "start"
        /\ script[7] = "resume" /\ script[8] = "turn" /\ script[9] = "finish"
        /\ script[10] = "state"
    BY <1>3 DEF Evaluating!Recovered
  <2> QED
    BY <1>3, <2>1, <2>2 DEF Kinds
<1> QED
  BY <1>1, <1>2, <1>3 DEF ScriptsOf

LEMMA ScoresInit == Evaluating!Init => ScoresInv
<1> SUFFICES ASSUME Evaluating!Init PROVE ScoresInv
  OBVIOUS
<1>1. /\ suitePlan \in Seq(Evaluating!Modes) /\ runs = <<>> /\ cases = <<>>
      /\ reports = <<>>
      /\ phase = "next" /\ step = 1 /\ suite = "running"
      /\ execution = Evaluating!Fresh /\ scored = Evaluating!NotScored
  BY PlansAssumption DEF Evaluating!Init
<1>2. Evaluating!Fresh \in Executions
  BY DEF Evaluating!Fresh, Executions, Evidence, Kinds
<1>3. SuiteType
  BY <1>1, <1>2 DEF SuiteType, Statuses, ReportsOf, RunStatuses
<1>4. CaseUnderWay /\ ScriptGoesOn /\ TroubleIsKnown /\ ReportsTell /\ SuiteIsWhole
  BY <1>1 DEF CaseUnderWay, ScriptGoesOn, TroubleIsKnown, ReportsTell, SuiteIsWhole,
     Tidying
<1>5. RuntimeIsClosed
  <2>1. execution.open = FALSE
    BY <1>1 DEF Evaluating!Fresh
  <2> QED
    BY <2>1 DEF RuntimeIsClosed
<1>6. ScoreTells
  BY <1>1 DEF ScoreTells, Evaluating!NotScored
<1> QED
  BY <1>3, <1>4, <1>5, <1>6 DEF ScoresInv

\* The mode and the script of the case that is under way.
LEMMA ModeNow ==
    ASSUME SuiteType, CaseUnderWay, suite = "running", phase # "next" \/ reports # <<>>
    PROVE  /\ Evaluating!Mode \in Evaluating!Modes /\ Len(runs) \in Nat
           /\ Len(suitePlan) \in Nat /\ Len(runs) < Len(suitePlan)
           /\ Len(reports) \in Nat
           /\ phase # "score" =>
                 Evaluating!Script \in ScriptsOf /\ (Evaluating!Script = Evaluating!Recovered => Evaluating!Mode = "task-state")
<1>1. /\ Len(runs) \in Nat /\ Len(suitePlan) \in Nat /\ Len(reports) \in Nat
      /\ Len(runs) < Len(suitePlan)
      /\ phase # "score" => Len(reports) < Len(Evaluating!Candidates(Evaluating!Mode))
  BY DEF SuiteType, CaseUnderWay
<1>2. Len(runs) + 1 \in 1 .. Len(suitePlan)
  BY <1>1
<1>3. Evaluating!Mode \in Evaluating!Modes
  BY <1>2 DEF SuiteType, Evaluating!Mode
<1>4. Len(Evaluating!Candidates(Evaluating!Mode)) \in Nat
  BY <1>3, CandidatesHaveScripts
<1>5. phase # "score" =>
          Len(reports) + 1 \in 1 .. Len(Evaluating!Candidates(Evaluating!Mode))
  BY <1>1, <1>4
<1> QED
  BY <1>1, <1>3, <1>5, CandidatesHaveScripts DEF Evaluating!Script

\* What a step that succeeds may change of the execution.
LEMMA StepDoes ==
    ASSUME SuiteType, NEW kind \in Kinds, NEW new \in Evaluating!Effects(kind)
    PROVE  /\ new \in Executions
           /\ new.trouble = execution.trouble /\ new.error = execution.error
           /\ new.raised = execution.raised
           /\ new.result = "completed" =>
                  kind = "turn" \/ execution.result = "completed"
           /\ "workflow" \in new.shown =>
                  kind = "finish" \/ "workflow" \in execution.shown
           /\ kind \notin {"setup", "turn"} => new.result = execution.result
<1>0. execution \in Executions
  BY DEF SuiteType
<1>1. CASE kind = "build"
  <2>1. new = [execution EXCEPT !.open = TRUE]
    BY <1>1 DEF Evaluating!Effects
  <2> QED
    BY <1>0, <1>1, <2>1 DEF Executions
<1>2. CASE kind = "shut"
  <2>1. new = [execution EXCEPT !.open = FALSE]
    BY <1>2 DEF Evaluating!Effects
  <2> QED
    BY <1>0, <1>2, <2>1 DEF Executions
<1>3. CASE kind = "resume"
  <2>1. PICK more \in SUBSET {"dependencies", "artifact"} :
            new = [execution EXCEPT !.shown = @ \cup {"recovered"} \cup more]
    BY <1>3 DEF Evaluating!Effects
  <2>2. /\ new.shown = execution.shown \cup {"recovered"} \cup more
        /\ new.open = execution.open /\ new.provider = execution.provider
        /\ new.trouble = execution.trouble /\ new.error = execution.error
        /\ new.raised = execution.raised /\ new.result = execution.result
    BY <1>0, <2>1 DEF Executions
  <2>3. new.shown \subseteq Evidence
    BY <1>0, <2>2 DEF Executions, Evidence
  <2>4. new \in Executions
    BY <1>0, <2>1, <2>3 DEF Executions
  <2> QED
    BY <1>3, <2>2, <2>4
<1>4. CASE kind = "setup"
  <2>0. Evaluating!Effects(kind) =
            {[execution EXCEPT !.result = turn.result, !.provider = turn.provider] :
                turn \in [result : {"none", "budget", "stopped"}, provider : BOOLEAN]}
    BY <1>4 DEF Evaluating!Effects
  <2>1. PICK turn \in [result : {"none", "budget", "stopped"}, provider : BOOLEAN] :
            new = [execution EXCEPT !.result = turn.result, !.provider = turn.provider]
    BY <2>0, Zenon
  <2> QED
    BY <1>0, <1>4, <2>1 DEF Executions
<1>5. CASE kind = "turn"
  <2>0. Evaluating!Effects(kind) =
            {[execution EXCEPT !.result = turn.result, !.provider = @ \/ turn.provider] :
                turn \in [result : {"completed", "budget", "stopped"}, provider : BOOLEAN]}
    BY <1>5 DEF Evaluating!Effects
  <2>1. PICK turn \in [result : {"completed", "budget", "stopped"}, provider : BOOLEAN] :
            new = [execution EXCEPT !.result = turn.result, !.provider = @ \/ turn.provider]
    BY <2>0, Zenon
  <2>2. (execution.provider \/ turn.provider) \in BOOLEAN
    OBVIOUS
  <2> QED
    BY <1>0, <1>5, <2>1, <2>2 DEF Executions
<1>6. CASE kind = "finish"
  <2>1. new = [execution EXCEPT !.shown =
                  @ \cup (IF execution.result = "completed" THEN {"workflow"} ELSE {})]
    BY <1>6 DEF Evaluating!Effects
  <2>2. new.shown \subseteq Evidence
    BY <1>0, <2>1 DEF Executions, Evidence
  <2>3. /\ new.open = execution.open /\ new.provider = execution.provider
        /\ new.trouble = execution.trouble /\ new.error = execution.error
        /\ new.raised = execution.raised /\ new.result = execution.result
    BY <1>0, <2>1 DEF Executions
  <2> QED
    BY <1>0, <1>6, <2>1, <2>2, <2>3 DEF Executions
<1>7. CASE kind = "state"
  <2>1. PICK compacted \in SUBSET {"compacted"} :
            new = [execution EXCEPT !.shown = @ \cup compacted]
    BY <1>7 DEF Evaluating!Effects
  <2>2. /\ new.shown = execution.shown \cup compacted
        /\ new.open = execution.open /\ new.provider = execution.provider
        /\ new.trouble = execution.trouble /\ new.error = execution.error
        /\ new.raised = execution.raised /\ new.result = execution.result
    BY <1>0, <2>1 DEF Executions
  <2>3. new.shown \subseteq Evidence
    BY <1>0, <2>2 DEF Executions, Evidence
  <2>4. new \in Executions
    BY <1>0, <2>1, <2>3 DEF Executions
  <2> QED
    BY <1>7, <2>2, <2>4
<1>8. CASE kind \in {"start", "stage"}
  <2>0. Evaluating!Effects(kind) = {execution}
    BY <1>8 DEF Evaluating!Effects
  <2>1. new = execution
    BY <2>0
  <2> QED
    BY <1>0, <1>8, <2>1
<1> QED
  BY <1>1, <1>2, <1>3, <1>4, <1>5, <1>6, <1>7, <1>8 DEF Kinds

\* The candidate goes on, and neither its case nor what is scored is touched.
CandidateGoesOn ==
    /\ suite = "running" /\ phase # "next" /\ phase # "score" /\ phase' # "next"
    /\ phase' # "score"
    /\ UNCHANGED <<suitePlan, runs, cases, reports, scored, suite>>
LEMMA CaseStays ==
    ASSUME ScoresInv, CandidateGoesOn
    PROVE  /\ Evaluating!Mode' = Evaluating!Mode
           /\ Evaluating!Script' = Evaluating!Script
           /\ CaseUnderWay' /\ ReportsTell' /\ ScoreTells' /\ SuiteIsWhole'
<1>1. Evaluating!Mode' = Evaluating!Mode /\ Evaluating!Script' = Evaluating!Script
  BY DEF CandidateGoesOn, Evaluating!Mode, Evaluating!Script
<1>2. CaseUnderWay'
  BY <1>1 DEF ScoresInv, CandidateGoesOn, CaseUnderWay
<1>3. ReportsTell'
  BY <1>1 DEF ScoresInv, CandidateGoesOn, ReportsTell
<1>4. ScoreTells'
  BY DEF ScoresInv, CandidateGoesOn, ScoreTells, Evaluating!Truths, Evaluating!Last
<1>5. SuiteIsWhole'
  BY DEF ScoresInv, CandidateGoesOn, SuiteIsWhole
<1> QED
  BY <1>1, <1>2, <1>3, <1>4, <1>5

\* The script goes on, or ends well.
LEMMA Succeeds ==
    ScoresInv /\ Evaluating!Succeed => ScoresInv'
<1> SUFFICES ASSUME ScoresInv, Evaluating!Succeed PROVE ScoresInv'
  OBVIOUS
<1>0. /\ SuiteType /\ CaseUnderWay /\ ScriptGoesOn /\ TroubleIsKnown /\ RuntimeIsClosed
      /\ suite = "running" /\ phase = "script"
  BY DEF ScoresInv, Evaluating!Succeed, Evaluating!Running
<1>1. /\ Evaluating!Mode \in Evaluating!Modes /\ Evaluating!Script \in ScriptsOf
      /\ (Evaluating!Script = Evaluating!Recovered => Evaluating!Mode = "task-state")
      /\ step \in 1 .. Len(Evaluating!Script)
  BY <1>0, ModeNow DEF ScriptGoesOn
<1> DEFINE kind == Evaluating!Script[step]
<1>2. /\ Len(Evaluating!Script) \in Nat \ {0} /\ kind \in Kinds
      /\ kind = "state" <=> step = Len(Evaluating!Script)
      /\ kind = "finish" => step + 1 = Len(Evaluating!Script)
      /\ kind = "turn" =>
             step + 1 \in 1 .. Len(Evaluating!Script) /\ Evaluating!Script[step + 1] \in {"finish", "state"}
      /\ kind = "setup" => step + 2 \in 1 .. Len(Evaluating!Script)
  BY <1>1, ScriptEnds
<1>3. Evaluating!Script[Len(Evaluating!Script)] = "state"
  <2>1. Len(Evaluating!Script) \in 1 .. Len(Evaluating!Script)
    BY <1>2
  <2> QED
    BY <1>1, <2>1, ScriptEnds
<1>4. /\ execution' \in Evaluating!Effects(kind)
      /\ step = Len(Evaluating!Script) => phase' = "close" /\ step' = 1
      /\ step # Len(Evaluating!Script) =>
             phase' = "script" /\ step' = Evaluating!Following(kind, execution'.result)
      /\ UNCHANGED <<suitePlan, runs, cases, reports, scored, suite>>
  BY <1>0 DEF Evaluating!Succeed
<1>5. /\ execution' \in Executions
      /\ execution'.trouble = {} /\ execution'.error = "none"
      /\ execution'.raised = "none"
      /\ execution'.result = "completed" =>
             kind = "turn" \/ kind \in {"finish", "state"}
      /\ "workflow" \in execution'.shown => kind = "finish" \/ kind = "state"
  <2>1. /\ execution.trouble = {} /\ execution.error = "none"
        /\ execution.raised = "none"
        /\ execution.result = "completed" => kind \in {"finish", "state"}
        /\ "workflow" \in execution.shown => kind = "state"
    BY <1>0 DEF ScriptGoesOn
  <2> QED
    BY <1>0, <1>2, <1>4, <2>1, StepDoes
<1> HIDE DEF kind
<1>6. step \in Nat /\ step >= 1 /\ step <= Len(Evaluating!Script)
  BY <1>1, <1>2
<1>7. step # Len(Evaluating!Script) =>
          /\ step' \in 1 .. Len(Evaluating!Script)
          /\ kind = "turn" => step' = step + 1
          /\ kind = "finish" => step' = Len(Evaluating!Script)
  BY <1>2, <1>4, <1>6 DEF Evaluating!Following
<1>8. CandidateGoesOn
  BY <1>0, <1>4 DEF CandidateGoesOn
<1>9. Evaluating!Script' = Evaluating!Script /\ CaseUnderWay' /\ ReportsTell' /\ ScoreTells' /\ SuiteIsWhole'
  BY <1>8, CaseStays
<1>10. SuiteType'
  <2>1. phase' \in {"script", "close"} /\ step' \in Nat
    BY <1>2, <1>4, <1>7
  <2> QED
    BY <1>0, <1>4, <1>5, <2>1 DEF SuiteType, Tidying
<1>11. ScriptGoesOn'
  <2> SUFFICES ASSUME phase' = "script" PROVE ScriptGoesOn'
    BY DEF ScriptGoesOn
  <2>1. step # Len(Evaluating!Script)
    BY <1>4
  <2>2. kind = "turn" => Evaluating!Script[step'] \in {"finish", "state"}
    BY <1>2, <1>7, <2>1
  <2>3. kind = "finish" => Evaluating!Script[step'] = "state"
    BY <1>3, <1>7, <2>1
  <2>4. kind # "state"
    BY <1>2, <2>1
  <2> QED
    BY <1>5, <1>7, <1>9, <2>1, <2>2, <2>3, <2>4 DEF ScriptGoesOn
<1>12. TroubleIsKnown'
  BY <1>5 DEF TroubleIsKnown
<1>13. RuntimeIsClosed'
  BY <1>4 DEF RuntimeIsClosed
<1> QED
  BY <1>9, <1>10, <1>11, <1>12, <1>13 DEF ScoresInv

\* A step fails, or is cancelled.
LEMMA Breaks ==
    ScoresInv /\ (Evaluating!Fail \/ Evaluating!Cancel) => ScoresInv'
<1> SUFFICES ASSUME ScoresInv, Evaluating!Fail \/ Evaluating!Cancel PROVE ScoresInv'
  OBVIOUS
<1>0. /\ SuiteType /\ CaseUnderWay /\ ScriptGoesOn /\ TroubleIsKnown /\ RuntimeIsClosed
      /\ suite = "running" /\ phase = "script" /\ Evaluating!Script[step] # "state"
  BY DEF ScoresInv, Evaluating!Fail, Evaluating!Cancel, Evaluating!Running
<1>1. /\ Evaluating!Mode \in Evaluating!Modes /\ Evaluating!Script \in ScriptsOf
      /\ (Evaluating!Script = Evaluating!Recovered => Evaluating!Mode = "task-state")
      /\ step \in 1 .. Len(Evaluating!Script)
  BY <1>0, ModeNow DEF ScriptGoesOn
<1> DEFINE kind == Evaluating!Script[step]
<1>2. kind \in Kinds /\ (kind = "finish" => Evaluating!Script = Evaluating!Recovered)
  BY <1>1, ScriptEnds
<1>3. /\ execution \in Executions
      /\ execution.trouble = {} /\ execution.error = "none" /\ execution.raised = "none"
      /\ execution.result = "completed" => kind = "finish"
      /\ "workflow" \notin execution.shown
  BY <1>0 DEF ScriptGoesOn, SuiteType
<1>4. /\ phase' \in {"executed", "close"} /\ step' = 1
      /\ step = 1 => phase' = "executed"
      /\ step # 1 => phase' = "close"
      /\ UNCHANGED <<suitePlan, runs, cases, reports, scored, suite>>
  BY DEF Evaluating!Fail, Evaluating!Cancel
<1> HIDE DEF kind
<1>5. /\ execution' \in Executions
      /\ execution'.result = execution.result /\ execution'.shown = execution.shown
      /\ step = 1 => execution'.raised # "none"
      /\ \/ execution'.trouble = {} /\ execution'.error = "none" /\ execution'.raised = "cancelled"
         \/ execution'.trouble = {kind} /\ execution'.error = "none" /\ execution'.raised = "error"
         \/ execution'.trouble = {kind} /\ execution'.error = kind /\ execution'.raised = "none"
  <2>1. CASE Evaluating!Cancel
    <3>1. execution' = [execution EXCEPT !.raised = "cancelled"]
      BY <2>1 DEF Evaluating!Cancel
    <3> QED
      BY <1>3, <3>1 DEF Executions
  <2>2. CASE Evaluating!Fail /\ step = 1
    <3>1. execution' = [execution EXCEPT !.trouble = @ \cup {kind}, !.error = @, !.raised = "error"]
      BY <2>2 DEF Evaluating!Fail, kind
    <3> QED
      BY <1>2, <1>3, <3>1 DEF Executions
  <2>3. CASE Evaluating!Fail /\ step # 1
    <3>1. execution' = [execution EXCEPT !.trouble = @ \cup {kind}, !.error = kind, !.raised = @]
      BY <2>3 DEF Evaluating!Fail, kind
    <3> QED
      BY <1>2, <1>3, <2>3, <3>1 DEF Executions
  <2> QED
    BY <2>1, <2>2, <2>3
<1>6. CandidateGoesOn
  BY <1>0, <1>4 DEF CandidateGoesOn
<1>7. Evaluating!Mode' = Evaluating!Mode /\ CaseUnderWay' /\ ReportsTell' /\ ScoreTells' /\ SuiteIsWhole'
  BY <1>6, CaseStays
<1>8. SuiteType'
  BY <1>0, <1>4, <1>5 DEF SuiteType, Tidying
<1>9. ScriptGoesOn'
  BY <1>4 DEF ScriptGoesOn
<1>10. TroubleIsKnown'
  <2>1. execution'.error # "none" =>
            execution'.error = kind /\ execution'.trouble = {kind}
    BY <1>5
  <2>2. kind # "none"
    BY <1>2 DEF Kinds
  <2>3. execution'.result = "completed" /\ execution'.error # "none" =>
            /\ execution'.error = "finish" /\ Evaluating!Mode' = "task-state"
            /\ "workflow" \notin execution'.shown
    BY <1>1, <1>2, <1>3, <1>5, <1>7, <2>1
  <2>4. /\ execution'.raised = "error" => execution'.trouble # {}
        /\ execution'.raised = "none" => execution'.trouble \subseteq {execution'.error}
        /\ execution'.raised = "none" /\ execution'.error = "none" =>
               execution'.trouble = {}
    BY <1>5, <2>2
  <2> QED
    BY <2>1, <2>3, <2>4 DEF TroubleIsKnown
<1>11. RuntimeIsClosed'
  BY <1>4, <1>5 DEF RuntimeIsClosed
<1> QED
  BY <1>7, <1>8, <1>9, <1>10, <1>11 DEF ScoresInv

\* A part of the clean-up.
LEMMA Tidies ==
    ASSUME ScoresInv, NEW part \in Tidying,
           NEW next \in {"copy", "clients", "flush", "executed"},
           Evaluating!TidyUp(part, next)
    PROVE  ScoresInv'
<1>0. /\ SuiteType /\ CaseUnderWay /\ ScriptGoesOn /\ TroubleIsKnown /\ RuntimeIsClosed
      /\ execution \in Executions
  BY DEF ScoresInv, SuiteType
<1>1. /\ suite = "running" /\ phase = part /\ phase' = next
      /\ UNCHANGED <<step, suitePlan, runs, cases, reports, scored, suite>>
  BY DEF Evaluating!TidyUp
<1>2. PICK raised \in {execution.raised, "error", "cancelled"} :
          execution' = [execution EXCEPT
              !.raised = raised,
              !.open = IF part = "close" /\ raised = execution.raised THEN FALSE ELSE @,
              !.trouble = IF raised = "error" THEN @ \cup {"tidying"} ELSE @]
  <2>1. \E raised \in {execution.raised, "error"}
                        \cup (IF part = "copy" THEN {} ELSE {"cancelled"}) :
            execution' = [execution EXCEPT
                !.raised = raised,
                !.open = IF part = "close" /\ raised =
                    execution.raised THEN FALSE ELSE @,
                !.trouble = IF raised = "error" THEN @ \cup {"tidying"} ELSE @]
    BY Zenon DEF Evaluating!TidyUp
  <2>2. {execution.raised, "error"} \cup (IF part = "copy" THEN {} ELSE {"cancelled"})
            \subseteq {execution.raised, "error", "cancelled"}
    OBVIOUS
  <2> QED
    BY <2>1, <2>2, Zenon
<1>3. /\ execution' \in Executions
      /\ execution'.raised = raised
      /\ execution'.result = execution.result /\ execution'.error = execution.error
      /\ execution'.shown = execution.shown
      /\ raised = "error" => execution'.trouble = execution.trouble \cup {"tidying"}
      /\ raised # "error" => execution'.trouble = execution.trouble
  BY <1>0, <1>2 DEF Executions
<1>4. CandidateGoesOn
  BY <1>1 DEF CandidateGoesOn, Tidying
<1>5. Evaluating!Mode' = Evaluating!Mode /\ CaseUnderWay' /\ ReportsTell' /\ ScoreTells' /\ SuiteIsWhole'
  BY <1>4, CaseStays
<1>6. SuiteType'
  BY <1>0, <1>1, <1>3 DEF SuiteType, Tidying
<1>7. ScriptGoesOn'
  BY <1>1 DEF ScriptGoesOn
<1>8. TroubleIsKnown'
  <2>1. /\ execution.error # "none" => execution.error \in execution.trouble
        /\ execution.raised = "error" => execution.trouble # {}
        /\ execution.raised = "none" => execution.trouble \subseteq {execution.error}
        /\ execution.raised = "none" /\ execution.error = "none" =>
               execution.trouble = {}
        /\ execution.error # "none" /\ execution.result = "completed" =>
              /\ execution.error = "finish" /\ Evaluating!Mode = "task-state"
              /\ "workflow" \notin execution.shown
    BY <1>0, <1>1 DEF TroubleIsKnown
  <2>2. /\ execution'.error # "none" => execution'.error \in execution'.trouble
        /\ execution'.raised = "error" => execution'.trouble # {}
        /\ execution'.raised = "none" => execution.raised = "none"
    BY <1>3, <2>1
  <2> QED
    BY <1>3, <1>5, <2>1, <2>2 DEF TroubleIsKnown
<1>9. RuntimeIsClosed'
  <2>1. execution'.open => execution'.raised # "none"
    <3>1. CASE part = "close" /\ raised = execution.raised
      <4>1. execution'.open = FALSE
        BY <1>0, <1>2, <3>1 DEF Executions
      <4> QED
        BY <4>1
    <3>2. CASE part = "close" /\ raised # execution.raised
      BY <1>3, <3>2
    <3>3. CASE part # "close"
      <4>1. execution'.open = execution.open
        BY <1>0, <1>2, <3>3 DEF Executions
      <4>2. execution.open => execution.raised # "none"
        BY <1>0, <1>1, <3>3 DEF RuntimeIsClosed, Tidying
      <4> QED
        BY <1>3, <4>1, <4>2
    <3> QED
      BY <3>1, <3>2, <3>3
  <2> QED
    BY <2>1 DEF RuntimeIsClosed
<1> QED
  BY <1>5, <1>6, <1>7, <1>8, <1>9 DEF ScoresInv

\* A candidate begins.
LEMMA Begins == ScoresInv /\ Evaluating!Begin => ScoresInv'
<1> SUFFICES ASSUME ScoresInv, Evaluating!Begin PROVE ScoresInv'
  OBVIOUS
<1>0. /\ SuiteType /\ CaseUnderWay /\ ReportsTell /\ SuiteIsWhole
  BY DEF ScoresInv
<1>1. /\ suite = "running" /\ phase = "next" /\ Len(runs) < Len(suitePlan)
      /\ Len(cases) < TasksOf[Evaluating!Mode]
      /\ phase' = "script" /\ step' = 1 /\ execution' = Evaluating!Fresh
      /\ scored' = Evaluating!NotScored
      /\ UNCHANGED <<suitePlan, runs, cases, reports, suite>>
  BY DEF Evaluating!Begin
<1>2. Evaluating!Mode' = Evaluating!Mode /\ Evaluating!Script' = Evaluating!Script
  BY <1>1 DEF Evaluating!Mode, Evaluating!Script
<1>3. Evaluating!Mode \in Evaluating!Modes
  <2>1. Len(runs) + 1 \in 1 .. Len(suitePlan)
    BY <1>0, <1>1 DEF SuiteType
  <2> QED
    BY <1>0, <2>1 DEF SuiteType, Evaluating!Mode
<1>4. Len(reports) \in Nat /\ Len(reports) < Len(Evaluating!Candidates(Evaluating!Mode)) /\ Len(Evaluating!Candidates(Evaluating!Mode)) \in Nat
  <2>1. Len(reports) \in Nat /\ (reports = <<>> => Len(reports) = 0)
    BY <1>0 DEF SuiteType
  <2>2. Len(Evaluating!Candidates(Evaluating!Mode)) \in Nat \ {0}
    BY <1>3, CandidatesHaveScripts
  <2>3. reports # <<>> => Len(reports) < Len(Evaluating!Candidates(Evaluating!Mode))
    BY <1>0, <1>1 DEF CaseUnderWay
  <2> QED
    BY <2>1, <2>2, <2>3
<1>5. CaseUnderWay'
  BY <1>1, <1>2, <1>4 DEF CaseUnderWay
<1>6. Evaluating!Script \in ScriptsOf
  <2>1. Len(reports) + 1 \in 1 .. Len(Evaluating!Candidates(Evaluating!Mode))
    BY <1>4
  <2> QED
    BY <1>3, <2>1, CandidatesHaveScripts DEF Evaluating!Script
<1>7. Evaluating!Fresh \in Executions
  BY DEF Evaluating!Fresh, Executions, Evidence, Kinds
<1>8. SuiteType'
  BY <1>0, <1>1, <1>7 DEF SuiteType
<1>9. ScriptGoesOn'
  <2>1. 1 \in 1 .. Len(Evaluating!Script)
    <3>1. CASE Evaluating!Script = Evaluating!Turn
      BY <3>1 DEF Evaluating!Turn
    <3>2. CASE Evaluating!Script = Evaluating!Continued
      BY <3>2 DEF Evaluating!Continued
    <3>3. CASE Evaluating!Script = Evaluating!Recovered
      BY <3>3 DEF Evaluating!Recovered
    <3> QED
      BY <1>6, <3>1, <3>2, <3>3 DEF ScriptsOf
  <2>2. /\ Evaluating!Fresh.trouble = {} /\ Evaluating!Fresh.error = "none"
        /\ Evaluating!Fresh.raised = "none"
        /\ Evaluating!Fresh.result = "none" /\ Evaluating!Fresh.shown = {}
    BY DEF Evaluating!Fresh
  <2> QED
    BY <1>1, <1>2, <2>1, <2>2 DEF ScriptGoesOn
<1>10. TroubleIsKnown' /\ RuntimeIsClosed'
  BY <1>1 DEF TroubleIsKnown, RuntimeIsClosed, Tidying
<1>11. ReportsTell'
  BY <1>0, <1>1, <1>2 DEF ReportsTell
<1>12. ScoreTells'
  BY <1>1 DEF ScoreTells, Evaluating!NotScored
<1>13. SuiteIsWhole'
  BY <1>1 DEF SuiteIsWhole
<1> QED
  BY <1>5, <1>8, <1>9, <1>10, <1>11, <1>12, <1>13 DEF ScoresInv

\* What a status says of the execution it was made from.
LEMMA StatusSays ==
    ASSUME NEW x \in Executions, x.raised # "cancelled",
           NEW judged \in {"right", "wrong", "error"}, NEW measured \in BOOLEAN,
           NEW given, given = Evaluating!CandidateStatus(Evaluating!Failure(x), judged, measured)
    PROVE  /\ given \in Statuses
           /\ given = "passed" => x.result = "completed" /\ judged = "right"
           /\ given \in {"passed", "failed"} =>
                 /\ judged # "error" /\ measured /\ x.raised = "none"
                 /\ x.error = "none" \/ x.result = "completed"
           /\ given = "infra_error" =>
                 judged = "error" \/ x.raised = "error" \/ x.error # "none" \/ x.provider
<1>1. x.raised \in {"none", "error"} /\ x.provider \in BOOLEAN
  BY DEF Executions
<1> DEFINE failure == Evaluating!Failure(x)
<1>2. /\ failure = "none" => x.result = "completed"
      /\ failure \notin Evaluating!Infrastructure =>
            x.raised = "none" /\ (x.error = "none" \/ x.result = "completed")
      /\ failure \in Evaluating!Infrastructure =>
            x.raised = "error" \/ x.error # "none" \/ x.provider
  BY <1>1 DEF Evaluating!Failure, Evaluating!Infrastructure
<1> HIDE DEF failure
<1>3. given = Evaluating!CandidateStatus(failure, judged, measured)
  BY DEF failure
<1> QED
  BY <1>2, <1>3 DEF Evaluating!CandidateStatus, Statuses

LEMMA TruthHasFields ==
    ASSUME NEW a \in BOOLEAN, NEW b \in BOOLEAN, NEW c \in BOOLEAN, NEW d \in BOOLEAN,
           NEW truth, truth = [flawless |-> a, earned |-> b, fair |-> c, disturbed |-> d]
    PROVE  /\ truth.flawless = a /\ truth.earned = b /\ truth.fair = c
           /\ truth.disturbed = d
           /\ truth \in
                 [flawless : BOOLEAN, earned : BOOLEAN, fair : BOOLEAN, disturbed : BOOLEAN]
  OBVIOUS

\* A report is true of its candidate.
LEMMA ReportIsTrue ==
    ASSUME NEW x \in Executions, x.raised # "cancelled", NEW mode,
           x.error # "none" => x.error \in x.trouble,
           x.raised = "error" => x.trouble # {},
           x.raised = "none" => x.trouble \subseteq {x.error},
           x.raised = "none" /\ x.error = "none" => x.trouble = {},
           x.error # "none" /\ x.result = "completed" =>
              x.error = "finish" /\ mode = "task-state" /\ "workflow" \notin x.shown,
           NEW judged \in {"right", "wrong", "error"}, NEW measured \in BOOLEAN,
           NEW shown \in SUBSET Evidence, "workflow" \in shown =>
                   "workflow" \in x.shown,
           NEW report,
           report = [status |-> Evaluating!CandidateStatus(Evaluating!Failure(x), judged, measured),
                     shown |-> shown, truth |-> Evaluating!Truth(x, judged, measured)]
    PROVE  report \in ReportsOf /\ Tells(report, mode)
<1>1. /\ report.status = Evaluating!CandidateStatus(Evaluating!Failure(x), judged, measured)
      /\ report.shown = shown /\ report.truth = Evaluating!Truth(x, judged, measured)
  OBVIOUS
<1>2. /\ report.status \in Statuses
      /\ report.status = "passed" => x.result = "completed" /\ judged = "right"
      /\ report.status \in {"passed", "failed"} =>
            /\ judged # "error" /\ measured /\ x.raised = "none"
            /\ x.error = "none" \/ x.result = "completed"
      /\ report.status = "infra_error" =>
            judged = "error" \/ x.raised = "error" \/ x.error # "none" \/ x.provider
  BY <1>1, StatusSays
<1>3. /\ report.status \in {"passed", "failed"} =>
            x.trouble \subseteq {"finish"} /\ (x.trouble # {} => x.result = "completed")
      /\ report.status \in {"passed", "failed"} /\ (mode # "task-state" \/ "workflow" \in shown) =>
            x.trouble = {}
      /\ report.status = "infra_error" =>
             x.trouble # {} \/ x.provider \/ judged = "error"
  BY <1>2
<1>4. x.provider \in BOOLEAN
  BY DEF Executions
<1> DEFINE isFlawless == x.trouble = {}
           isEarned == x.result = "completed" /\ judged = "right"
           isFair == Evaluating!Untroubled(x) /\ judged # "error" /\ measured
           isDisturbed == x.trouble # {} \/ x.provider \/ judged = "error"
<1>5. Evaluating!Truth(x, judged, measured) =
          [flawless |-> isFlawless, earned |-> isEarned, fair |-> isFair, disturbed |-> isDisturbed]
  BY Zenon DEF Evaluating!Truth
<1>6. isFlawless \in BOOLEAN /\ isEarned \in BOOLEAN /\ isFair \in BOOLEAN /\ isDisturbed \in BOOLEAN
  OBVIOUS
<1>7. /\ Evaluating!Truth(x, judged, measured).flawless = isFlawless
      /\ Evaluating!Truth(x, judged, measured).earned = isEarned
      /\ Evaluating!Truth(x, judged, measured).fair = isFair
      /\ Evaluating!Truth(x, judged, measured).disturbed = isDisturbed
      /\ Evaluating!Truth(x, judged, measured) \in
            [flawless : BOOLEAN, earned : BOOLEAN, fair : BOOLEAN, disturbed : BOOLEAN]
  <2> HIDE DEF isFlawless, isEarned, isFair, isDisturbed
  <2> QED
    BY <1>5, <1>6, TruthHasFields
<1>8. report \in ReportsOf
  BY <1>1, <1>2, <1>7 DEF ReportsOf
<1>9. /\ report.status = "passed" => report.truth.earned
      /\ report.status = "infra_error" => report.truth.disturbed
      /\ report.status \in {"passed", "failed"}
         /\ (mode # "task-state" \/ "workflow" \in report.shown) =>
                report.truth.flawless
  BY <1>1, <1>2, <1>3, <1>7, Zenon
<1>10. report.status \in {"passed", "failed"} => report.truth.fair
  BY <1>1, <1>2, <1>3, <1>7, Zenon DEF Evaluating!Untroubled
<1> QED
  BY <1>8, <1>9, <1>10 DEF Tells

\* A candidate is judged.
LEMMA Judges == ScoresInv /\ Evaluating!Judge => ScoresInv'
<1> SUFFICES ASSUME ScoresInv, Evaluating!Judge PROVE ScoresInv'
  OBVIOUS
<1>0. /\ SuiteType /\ CaseUnderWay /\ TroubleIsKnown /\ RuntimeIsClosed /\ ReportsTell
      /\ ScoreTells /\ SuiteIsWhole /\ execution \in Executions
  BY DEF ScoresInv, SuiteType
<1>1. /\ suite = "running" /\ phase = "executed" /\ execution.raised # "cancelled"
      /\ phase' = IF Evaluating!IsLast THEN "score" ELSE "next"
      /\ UNCHANGED <<suitePlan, runs, cases, step, execution, scored, suite>>
  BY DEF Evaluating!Judge
<1>2. PICK judged \in {"right", "wrong", "error"}, measured \in BOOLEAN :
      \E observed \in SUBSET (Evaluating!Measurable \cap (Evaluating!Exercised(Evaluating!Mode) \cup Evaluating!Required(Evaluating!Mode))) :
          reports' = Append(reports,
            [status |-> Evaluating!CandidateStatus(Evaluating!Failure(execution), judged, measured),
             shown |-> IF ~Evaluating!IsLast THEN {}
                       ELSE (IF measured THEN observed ELSE {})
                            \cup (IF execution.raised = "error" THEN {} ELSE execution.shown),
             truth |-> Evaluating!Truth(execution, judged, measured)])
  BY Zenon DEF Evaluating!Judge
<1>3. PICK observed \in SUBSET (Evaluating!Measurable \cap (Evaluating!Exercised(Evaluating!Mode) \cup Evaluating!Required(Evaluating!Mode))) :
          reports' = Append(reports,
            [status |-> Evaluating!CandidateStatus(Evaluating!Failure(execution), judged, measured),
             shown |-> IF ~Evaluating!IsLast THEN {}
                       ELSE (IF measured THEN observed ELSE {})
                            \cup (IF execution.raised = "error" THEN {} ELSE execution.shown),
             truth |-> Evaluating!Truth(execution, judged, measured)])
  BY <1>2
<1> DEFINE shown == IF ~Evaluating!IsLast THEN {}
                    ELSE (IF measured THEN observed ELSE {})
                         \cup (IF execution.raised = "error" THEN {} ELSE execution.shown)
           report == [status |-> Evaluating!CandidateStatus(Evaluating!Failure(execution), judged, measured),
                      shown |-> shown, truth |-> Evaluating!Truth(execution, judged, measured)]
<1>4. reports' = Append(reports, report)
  BY <1>3
<1>5. shown \in SUBSET Evidence /\ ("workflow" \in shown => "workflow" \in execution.shown)
  <2>1. observed \subseteq {"marker", "probed", "traced"}
    BY DEF Evaluating!Measurable
  <2>2. execution.shown \subseteq Evidence
    BY <1>0 DEF Executions
  <2>3. {"marker", "probed", "traced"} \subseteq Evidence /\ "workflow" \notin {"marker", "probed", "traced"}
    BY DEF Evidence
  <2> QED
    BY <2>1, <2>2, <2>3
<1>6. report \in ReportsOf /\ Tells(report, Evaluating!Mode)
  <2>1. /\ execution.error # "none" => execution.error \in execution.trouble
        /\ execution.raised = "error" => execution.trouble # {}
        /\ execution.raised = "none" => execution.trouble \subseteq {execution.error}
        /\ execution.raised = "none" /\ execution.error = "none" =>
               execution.trouble = {}
        /\ execution.error # "none" /\ execution.result = "completed" =>
              execution.error = "finish" /\ Evaluating!Mode = "task-state" /\ "workflow" \notin execution.shown
    BY <1>0, <1>1 DEF TroubleIsKnown
  <2> HIDE DEF shown
  <2>2. report = [status |-> Evaluating!CandidateStatus(Evaluating!Failure(execution), judged, measured),
                  shown |-> shown, truth |-> Evaluating!Truth(execution, judged, measured)]
    OBVIOUS
  <2> HIDE DEF report
  <2> QED
    BY <1>0, <1>1, <1>5, <2>1, <2>2, ReportIsTrue
<1> HIDE DEF report
<1>7. /\ reports' \in Seq(ReportsOf) /\ reports \in Seq(ReportsOf)
      /\ Len(reports) \in Nat
      /\ Len(reports') = Len(reports) + 1 /\ reports' # <<>>
      /\ reports'[Len(reports) + 1] = report
      /\ \A r \in 1 .. Len(reports) : reports'[r] = reports[r]
  BY <1>0, <1>4, <1>6 DEF SuiteType
<1>8. Evaluating!Mode' = Evaluating!Mode
  BY <1>1 DEF Evaluating!Mode
<1>9. /\ Len(runs) < Len(suitePlan) /\ Len(cases) < TasksOf[Evaluating!Mode]
      /\ Len(reports) < Len(Evaluating!Candidates(Evaluating!Mode))
      /\ Len(Evaluating!Candidates(Evaluating!Mode)) \in Nat
  <2>1. Evaluating!Mode \in Evaluating!Modes
    BY <1>0, <1>1, ModeNow
  <2> QED
    BY <1>0, <1>1, <2>1, CandidatesHaveScripts DEF CaseUnderWay
<1>10. CaseUnderWay'
  BY <1>1, <1>7, <1>8, <1>9 DEF CaseUnderWay, Evaluating!IsLast
<1>11. SuiteType'
  <2>1. phase' \in {"score", "next"}
    BY <1>1
  <2> QED
    BY <1>0, <1>1, <1>7, <2>1 DEF SuiteType
<1>12. ScriptGoesOn' /\ TroubleIsKnown'
  BY <1>1 DEF ScriptGoesOn, TroubleIsKnown, Tidying
<1>13. RuntimeIsClosed'
  BY <1>0, <1>1 DEF RuntimeIsClosed
<1>14. ReportsTell'
  <2>1. \A r \in 1 .. Len(reports) : Tells(reports[r], Evaluating!Mode)
    BY <1>0, <1>1 DEF ReportsTell
  <2>2. \A r \in 1 .. Len(reports') : r \in 1 .. Len(reports) \/ r = Len(reports) + 1
    BY <1>7
  <2>3. \A r \in 1 .. Len(reports') : Tells(reports'[r], Evaluating!Mode)
    BY <1>6, <1>7, <2>1, <2>2
  <2> QED
    BY <1>8, <2>3 DEF ReportsTell
<1>15. ScoreTells' /\ SuiteIsWhole'
  BY <1>0, <1>1 DEF ScoreTells, SuiteIsWhole, Evaluating!Truths, Evaluating!Last
<1> QED
  BY <1>10, <1>11, <1>12, <1>13, <1>14, <1>15 DEF ScoresInv

\* A case is scored by its reports.
LEMMA Scores == ScoresInv /\ Evaluating!Score => ScoresInv'
<1> SUFFICES ASSUME ScoresInv, Evaluating!Score PROVE ScoresInv'
  OBVIOUS
<1>0. /\ SuiteType /\ CaseUnderWay /\ ReportsTell /\ SuiteIsWhole
  BY DEF ScoresInv
<1>1. /\ suite = "running" /\ phase = "score"
      /\ cases' = Append(cases, Evaluating!CaseStatus)
      /\ scored' = [status |-> Evaluating!CaseStatus, mode |-> Evaluating!Mode, reports |-> reports]
      /\ reports' = <<>> /\ execution' = Evaluating!Fresh /\ phase' = "next"
      /\ UNCHANGED <<suitePlan, runs, step, suite>>
  BY DEF Evaluating!Score
<1>2. /\ Evaluating!Mode \in Evaluating!Modes
      /\ Len(reports) = Len(Evaluating!Candidates(Evaluating!Mode))
      /\ Len(reports) \in Nat \ {0}
      /\ reports \in Seq(ReportsOf)
      /\ Evaluating!Mode = "task-state" => Len(reports) = 1
  <2>1. Evaluating!Mode \in Evaluating!Modes
    BY <1>0, <1>1, ModeNow
  <2> QED
    BY <1>0, <1>1, <2>1, CandidatesHaveScripts DEF CaseUnderWay, SuiteType
<1>3. \A r \in 1 .. Len(reports) :
          reports[r] \in ReportsOf /\ Tells(reports[r], Evaluating!Mode)
  BY <1>0, <1>1, <1>2 DEF ReportsTell
<1>4. Evaluating!CaseStatus \in Statuses
  BY DEF Evaluating!CaseStatus, Statuses
<1> DEFINE main == reports[Len(reports)]
<1>5. /\ Evaluating!CaseStatus = "passed" =>
            /\ \A r \in 1 .. Len(reports) : reports[r].status \in {"passed", "failed"}
            /\ main.status = "passed"
            /\ Evaluating!Required(Evaluating!Mode) \cup Evaluating!Exercised(Evaluating!Mode) \subseteq main.shown
      /\ Evaluating!CaseStatus = "failed" =>
            \A r \in 1 .. Len(reports) : reports[r].status \in {"passed", "failed"}
      /\ Evaluating!CaseStatus = "infra_error" =>
            \E r \in 1 .. Len(reports) : reports[r].status = "infra_error"
  <2>1. DOMAIN reports = 1 .. Len(reports)
    BY <1>2
  <2>2. \A r \in 1 .. Len(reports) : reports[r].status \in Statuses
    BY <1>3 DEF ReportsOf
  <2>3. /\ Evaluating!CaseStatus \in {"passed", "failed"} =>
              \A r \in 1 .. Len(reports) : reports[r].status \in {"passed", "failed"}
        /\ Evaluating!CaseStatus = "infra_error" =>
              \E r \in 1 .. Len(reports) : reports[r].status = "infra_error"
    BY <2>1, <2>2 DEF Evaluating!CaseStatus, Statuses
  <2>4. Evaluating!CaseStatus = "passed" =>
            main.status = "passed" /\ Evaluating!Required(Evaluating!Mode) \cup Evaluating!Exercised(Evaluating!Mode) \subseteq main.shown
    BY DEF Evaluating!CaseStatus
  <2> QED
    BY <2>3, <2>4
<1>6. Len(reports) \in 1 .. Len(reports)
  BY <1>2
<1>7. Evaluating!CaseStatus = "passed" =>
          \A r \in 1 .. Len(reports) : reports[r].truth.flawless
  <2> SUFFICES ASSUME Evaluating!CaseStatus = "passed", NEW r \in 1 .. Len(reports)
               PROVE  reports[r].truth.flawless
    OBVIOUS
  <2>1. Evaluating!Mode # "task-state" \/ "workflow" \in reports[r].shown
    <3> SUFFICES ASSUME Evaluating!Mode = "task-state" PROVE "workflow" \in reports[r].shown
      OBVIOUS
    <3>1. r = Len(reports)
      BY <1>2
    <3>2. "workflow" \in Evaluating!Required(Evaluating!Mode)
      BY DEF Evaluating!Required
    <3> QED
      BY <1>5, <3>1, <3>2
  <2>2. reports[r].status \in {"passed", "failed"} /\ Tells(reports[r], Evaluating!Mode)
    BY <1>3, <1>5
  <2> QED
    BY <2>1, <2>2, Zenon DEF Tells
<1>8. Evaluating!CaseStatus = "passed" => main.truth.earned
  BY <1>3, <1>5, <1>6, Zenon DEF Tells
<1>9. Evaluating!CaseStatus = "failed" =>
          \A r \in 1 .. Len(reports) : reports[r].truth.fair
  BY <1>3, <1>5, Zenon DEF Tells
<1>10. Evaluating!CaseStatus = "infra_error" =>
           \E r \in 1 .. Len(reports) : reports[r].truth.disturbed
  BY <1>3, <1>5, Zenon DEF Tells
<1>11. ScoreTells'
  <2>1. /\ scored'.status = Evaluating!CaseStatus /\ scored'.mode = Evaluating!Mode
        /\ scored'.reports = reports
        /\ DOMAIN reports = 1 .. Len(reports)
    BY <1>1, <1>2
  <2>2. Evaluating!Last' = main /\ Evaluating!Truths' = {reports[r].truth : r \in 1 .. Len(reports)}
    BY <2>1 DEF Evaluating!Last, Evaluating!Truths
  <2> HIDE DEF main
  <2>3. scored'.status = "passed" =>
            /\ \A truth \in Evaluating!Truths' : truth.flawless
            /\ Evaluating!Last'.truth.earned
            /\ Evaluating!Required(scored'.mode) \cup Evaluating!Exercised(scored'.mode) \subseteq Evaluating!Last'.shown
    <3>1. Evaluating!CaseStatus = "passed" =>
              Evaluating!Required(Evaluating!Mode) \cup Evaluating!Exercised(Evaluating!Mode) \subseteq main.shown
      BY <1>5 DEF main
    <3>2. Evaluating!CaseStatus = "passed" =>
              \A truth \in Evaluating!Truths' : truth.flawless
      BY <1>7, <2>2, Zenon
    <3>3. Evaluating!CaseStatus = "passed" => Evaluating!Last'.truth.earned
      BY <1>8, <2>2, Zenon
    <3> QED
      BY <2>1, <2>2, <3>1, <3>2, <3>3, Zenon
  <2>4. scored'.status = "failed" => \A truth \in Evaluating!Truths' : truth.fair
    BY <1>9, <2>1, <2>2, Zenon
  <2>5. scored'.status = "infra_error" =>
            \E truth \in Evaluating!Truths' : truth.disturbed
    BY <1>10, <2>1, <2>2, Zenon
  <2> QED
    BY <2>3, <2>4, <2>5, Zenon DEF ScoreTells
<1>12. CaseUnderWay'
  BY <1>1 DEF CaseUnderWay
<1>13. SuiteType'
  <2>1. Evaluating!Fresh \in Executions
    BY DEF Evaluating!Fresh, Executions, Evidence, Kinds
  <2>2. cases' \in Seq(Statuses) /\ <<>> \in Seq(ReportsOf)
    BY <1>0, <1>1, <1>4 DEF SuiteType
  <2>3. phase' \in {"next", "script", "executed", "score"} \cup Tidying
    BY <1>1
  <2>4. execution' \in Executions /\ reports' \in Seq(ReportsOf)
    BY <1>1, <2>1, <2>2
  <2>5. suitePlan' \in Seq(Evaluating!Modes) /\ runs' \in Seq(RunStatuses) /\ step' \in Nat
    BY <1>0, <1>1 DEF SuiteType
  <2> QED
    BY <2>2, <2>3, <2>4, <2>5 DEF SuiteType
<1>14. ScriptGoesOn' /\ TroubleIsKnown' /\ ReportsTell' /\ SuiteIsWhole'
  BY <1>0, <1>1 DEF ScriptGoesOn, TroubleIsKnown, ReportsTell, SuiteIsWhole, Tidying
<1>15. RuntimeIsClosed'
  <2>1. execution'.open = FALSE
    BY <1>1 DEF Evaluating!Fresh
  <2> QED
    BY <2>1 DEF RuntimeIsClosed
<1> QED
  BY <1>11, <1>12, <1>13, <1>14, <1>15 DEF ScoresInv

\* A run is over.
LEMMA RunEnds == ScoresInv /\ Evaluating!EndRun => ScoresInv'
<1> SUFFICES ASSUME ScoresInv, Evaluating!EndRun PROVE ScoresInv'
  OBVIOUS
<1>0. /\ SuiteType /\ CaseUnderWay /\ RuntimeIsClosed
  BY DEF ScoresInv
<1>1. /\ suite = "running" /\ phase = "next" /\ Len(runs) < Len(suitePlan)
      /\ Len(cases) = TasksOf[Evaluating!Mode]
      /\ runs' = Append(runs, Evaluating!RunStatus) /\ cases' = <<>>
      /\ scored' = Evaluating!NotScored
      /\ suite' = IF Len(runs') < Len(suitePlan) THEN suite
                  ELSE IF \E r \in DOMAIN runs' : runs'[r] # "completed"
                       THEN "completed_with_infra_errors" ELSE "completed"
      /\ UNCHANGED <<suitePlan, reports, phase, step, execution>>
  BY DEF Evaluating!EndRun
<1>2. reports = <<>>
  <2>1. Len(cases) \in Nat
    BY <1>0 DEF SuiteType
  <2> QED
    BY <1>0, <1>1, <2>1 DEF CaseUnderWay
<1>3. Evaluating!RunStatus \in RunStatuses
  BY DEF Evaluating!RunStatus, RunStatuses
<1>4. /\ runs' \in Seq(RunStatuses) /\ Len(runs') = Len(runs) + 1
      /\ Len(runs) \in Nat /\ Len(suitePlan) \in Nat /\ <<>> \in Seq(Statuses)
  BY <1>0, <1>1, <1>3 DEF SuiteType
<1>5. SuiteType'
  BY <1>0, <1>1, <1>4 DEF SuiteType
<1>6. CaseUnderWay' /\ ScriptGoesOn' /\ TroubleIsKnown'
  BY <1>1, <1>2 DEF CaseUnderWay, ScriptGoesOn, TroubleIsKnown, Tidying
<1>7. RuntimeIsClosed'
  BY <1>0, <1>1 DEF RuntimeIsClosed
<1>8. ReportsTell'
  BY <1>1, <1>2 DEF ReportsTell
<1>9. ScoreTells'
  BY <1>1 DEF ScoreTells, Evaluating!NotScored
<1>10. SuiteIsWhole'
  <2> SUFFICES ASSUME suite' = "completed"
               PROVE  Len(runs') = Len(suitePlan) /\ \A r \in DOMAIN runs' :
                          runs'[r] = "completed"
    BY <1>1 DEF SuiteIsWhole
  <2>1. ~(Len(runs') < Len(suitePlan)) /\ ~(\E r \in DOMAIN runs' : runs'[r] # "completed")
    BY <1>1
  <2> QED
    BY <1>1, <1>4, <2>1
<1> QED
  BY <1>5, <1>6, <1>7, <1>8, <1>9, <1>10 DEF ScoresInv

\* The suite breaks off.
LEMMA SuiteBreaks == ScoresInv /\ (Evaluating!CaptureFails \/ Evaluating!Interrupted) =>
          ScoresInv'
<1> SUFFICES ASSUME ScoresInv,
                    Evaluating!CaptureFails \/ Evaluating!Interrupted PROVE ScoresInv'
  OBVIOUS
<1>0. /\ SuiteType /\ RuntimeIsClosed /\ ScoreTells
  BY DEF ScoresInv
<1>1. /\ suite' \in {"crashed", "interrupted"}
      /\ runs' = runs \/ runs' = Append(runs, "interrupted")
      /\ UNCHANGED <<suitePlan, cases, reports, phase, step, execution, scored>>
  BY DEF Evaluating!CaptureFails, Evaluating!Interrupted
<1>2. runs' \in Seq(RunStatuses)
  <2>1. "interrupted" \in RunStatuses
    BY DEF RunStatuses
  <2>2. runs \in Seq(RunStatuses)
    BY <1>0 DEF SuiteType
  <2>3. Append(runs, "interrupted") \in Seq(RunStatuses)
    BY <2>1, <2>2
  <2> QED
    BY <1>1, <2>2, <2>3
<1>3. SuiteType'
  BY <1>0, <1>1, <1>2 DEF SuiteType
<1>4. /\ CaseUnderWay' /\ ScriptGoesOn' /\ TroubleIsKnown' /\ ReportsTell'
      /\ SuiteIsWhole'
  BY <1>1 DEF CaseUnderWay, ScriptGoesOn, TroubleIsKnown, ReportsTell, SuiteIsWhole
<1>5. RuntimeIsClosed'
  BY <1>0, <1>1 DEF RuntimeIsClosed
<1>6. ScoreTells'
  BY <1>0, <1>1 DEF ScoreTells, Evaluating!Truths, Evaluating!Last
<1> QED
  BY <1>3, <1>4, <1>5, <1>6 DEF ScoresInv

LEMMA ScoresStep == ScoresInv /\ [Evaluating!Next]_(Evaluating!vars) => ScoresInv'
<1> SUFFICES ASSUME ScoresInv, [Evaluating!Next]_(Evaluating!vars) PROVE ScoresInv'
  OBVIOUS
<1>1. CASE Evaluating!Begin
  BY <1>1, Begins
<1>2. CASE Evaluating!Succeed
  BY <1>2, Succeeds
<1>3. CASE Evaluating!Fail \/ Evaluating!Cancel
  BY <1>3, Breaks
<1>4. CASE Evaluating!Close \/ Evaluating!CopyTrace \/ Evaluating!CloseClients \/ Evaluating!Flush
  <2>1. \/ Evaluating!TidyUp("close", "copy") \/ Evaluating!TidyUp("copy", "clients")
        \/ Evaluating!TidyUp("clients", "flush") \/ Evaluating!TidyUp("flush", "executed")
    BY <1>4 DEF Evaluating!Close, Evaluating!CopyTrace, Evaluating!CloseClients,
       Evaluating!Flush
  <2>2. {"close", "copy", "clients", "flush"} \subseteq Tidying
    BY DEF Tidying
  <2> QED
    BY <2>1, <2>2, Tidies
<1>5. CASE Evaluating!Judge
  BY <1>5, Judges
<1>6. CASE Evaluating!CaptureFails \/ Evaluating!Interrupted
  BY <1>6, SuiteBreaks
<1>7. CASE Evaluating!Score
  BY <1>7, Scores
<1>8. CASE Evaluating!EndRun
  BY <1>8, RunEnds
<1>9. CASE UNCHANGED Evaluating!vars
  <2>1. UNCHANGED <<suitePlan, runs, cases, reports, phase, step, execution, scored, suite>>
    BY <1>9 DEF Evaluating!vars
  <2>2. /\ SuiteType' /\ RuntimeIsClosed' /\ ScoreTells' /\ SuiteIsWhole'
    BY <2>1 DEF ScoresInv, SuiteType, RuntimeIsClosed, ScoreTells, SuiteIsWhole,
       Evaluating!Truths, Evaluating!Last
  <2>3. /\ CaseUnderWay' /\ ScriptGoesOn' /\ TroubleIsKnown' /\ ReportsTell'
    BY <2>1 DEF ScoresInv, CaseUnderWay, ScriptGoesOn, TroubleIsKnown, ReportsTell,
       Evaluating!Mode, Evaluating!Script
  <2> QED
    BY <2>2, <2>3 DEF ScoresInv
<1> QED
  BY <1>1, <1>2, <1>3, <1>4, <1>5, <1>6, <1>7, <1>8, <1>9 DEF Evaluating!Next

LEMMA ScoresHonest == ScoresInv => Evaluating!ScoresAreHonest
<1> SUFFICES ASSUME ScoresInv PROVE Evaluating!ScoresAreHonest
  OBVIOUS
<1>1. ScoreTells /\ RuntimeIsClosed /\ SuiteIsWhole
  BY DEF ScoresInv
<1>2. phase \in {"executed", "score", "next"} /\ execution.open =>
          execution.raised # "none"
  BY <1>1 DEF RuntimeIsClosed
<1>3. suite = "completed" =>
          Len(runs) = Len(suitePlan) /\ \A r \in DOMAIN runs : runs[r] = "completed"
  BY <1>1 DEF SuiteIsWhole
<1> QED
  BY <1>1, <1>2, <1>3, Zenon DEF ScoreTells, Evaluating!ScoresAreHonest

\* Whatever step of whichever candidate fails, the clean-up included: a case passes
\* only by a completed turn, a right solution and all the evidence its mode asks
\* for, it counts as failed only when the harness did its part, no runtime outlives
\* its candidate unless its closing failed, and a suite that is called completed
\* had nothing but such cases (ScoresAreHonest: _run_once, _score_candidate, the
\* modes' score, run_suite).
THEOREM ScoresHonestly == Spec => []ScoresAreHonest
<1>1. Init => ScoresInv
  BY ScoresInit DEF Init
<1>2. ScoresInv /\ [Next]_vars => ScoresInv'
  BY ScoresStep, Moving
<1>3. ScoresInv => ScoresAreHonest
  BY ScoresHonest DEF ScoresAreHonest
<1> QED
  BY <1>1, <1>2, <1>3, PTL DEF Spec

-----------------------------------------------------------------------------
(* The check of a solution.                                                *)

Messages == {"start", "end", "error"} \X Nat
Outcomes == {"pass", "fail", "timeout"}

ChecksType ==
    /\ tries \in Nat
    /\ verdicts \in Seq(Outcomes)
    /\ evaluation \in {"none", "passed", "failed", "error"}
    /\ runner.at \in {"none", "between", "trying", "over", "closed", "dead"}
    /\ runner = [at |-> runner.at, exit |-> runner.exit]
    /\ marks \in Seq(BOOLEAN)
    /\ pipe \in Seq(Messages)
    /\ supervisor \in {"idle", "look", "poll", "read", "join"}
    /\ watching \in Nat

\* An end is sent behind its beginning, which the supervisor knows first.
EndsFollow ==
    /\ \A k \in 1 .. Len(pipe) :
          /\ pipe[k][1] = "start" => pipe[k][2] # 0
          /\ pipe[k][1] = "end" =>
                /\ pipe[k][2] <= Len(marks)
                /\ IF k = 1 THEN watching # 0 ELSE pipe[k - 1][1] = "start"
    /\ runner.at = "trying" =>
          IF Len(pipe) = 0 THEN watching # 0 ELSE pipe[Len(pipe)][1] = "start"

\* Of what was heard nothing was late, unless the group has failed by it.
HeardInTime ==
    /\ \A input \in heard : input \in Nat /\ input <= Len(marks)
    /\ supervisor # "idle" => heard \cap late = {}

RunnerIsWatched ==
    /\ supervisor = "idle" => ~Checking!Alive
    /\ supervisor = "join" => ~Checking!Alive
    /\ supervisor # "idle" => evaluation = "none"

PassedIsEarned ==
    supervisor = "idle" /\ verdicts # <<>> /\ verdicts[Len(verdicts)] = "pass" =>
        marks = Checking!All /\ heard \cap late = {}

TriesAreCounted ==
    /\ evaluation = "none" => Len(verdicts) < Checking!Groups
    /\ evaluation = "passed" =>
          Len(verdicts) = Checking!Groups /\ \A g \in 1 .. Checking!Groups :
              verdicts[g] = "pass"
    /\ tries <= MaxAttempts
    /\ evaluation = "none" /\ supervisor = "idle" /\ verdicts = <<>> =>
           tries < MaxAttempts
    /\ evaluation = "error" => tries = MaxAttempts

ChecksInv ==
    /\ ChecksType /\ EndsFollow /\ HeardInTime /\ RunnerIsWatched
    /\ PassedIsEarned /\ TriesAreCounted

LEMMA ChecksInit == Checking!Init => ChecksInv
<1> SUFFICES ASSUME Checking!Init
             PROVE  ChecksInv
  OBVIOUS
<1> USE BoundAssumption
<1>1. ChecksType
  BY DEF Checking!Init, ChecksType, Checking!NoRunner
<1>2. EndsFollow /\ HeardInTime /\ RunnerIsWatched
  BY DEF Checking!Init, EndsFollow, HeardInTime, RunnerIsWatched, Checking!NoRunner,
     Checking!Alive
<1>3. PassedIsEarned /\ TriesAreCounted
  BY DEF Checking!Init, PassedIsEarned, TriesAreCounted, Checking!Groups
<1> QED
  BY <1>1, <1>2, <1>3 DEF ChecksInv

\* A message is sent.
LEMMA MessageSent ==
    ASSUME NEW s \in Seq(Messages), NEW m \in Messages
    PROVE  /\ Append(s, m) \in Seq(Messages) /\ Len(s) \in Nat
           /\ Len(Append(s, m)) = Len(s) + 1
           /\ \A k \in 1 .. Len(s) : Append(s, m)[k] = s[k]
           /\ Append(s, m)[Len(s) + 1] = m
           /\ \A k \in 1 .. (Len(s) + 1) : k \in 1 .. Len(s) \/ k = Len(s) + 1
  OBVIOUS

\* A step of the process: what it has sent is in order, and the supervisor waits.
LEMMA RunnerMoves ==
    ASSUME ChecksInv, Checking!Alive,
           UNCHANGED <<Checking!checkVars, supervisor, watching, heard>>,
           runner'.at \in {"none", "between", "trying", "over", "closed", "dead"},
           runner' = [at |-> runner'.at, exit |-> runner'.exit],
           marks' \in Seq(BOOLEAN), Len(marks) <= Len(marks'),
           pipe' \in Seq(Messages), EndsFollow',
           late' \ late \subseteq {n \in Nat : n > Len(marks)}
    PROVE  ChecksInv'
<1>0. /\ ChecksType /\ HeardInTime /\ RunnerIsWatched /\ PassedIsEarned
      /\ TriesAreCounted
      /\ UNCHANGED <<tries, verdicts, evaluation>>
  BY DEF ChecksInv, Checking!checkVars
<1>1. supervisor \notin {"idle", "join"} /\ evaluation = "none"
  BY <1>0 DEF RunnerIsWatched
<1>2. ChecksType'
  BY <1>0 DEF ChecksType
<1>3. HeardInTime'
  <2>1. Len(marks) \in Nat /\ Len(marks') \in Nat
    BY <1>0 DEF ChecksType
  <2>2. \A input \in heard : input \in Nat /\ input <= Len(marks)
    BY <1>0 DEF HeardInTime
  <2>3. \A input \in heard : input \notin late'
    BY <1>0, <1>1, <2>1, <2>2 DEF HeardInTime
  <2>4. \A input \in heard : input <= Len(marks')
    BY <2>1, <2>2
  <2> QED
    BY <2>2, <2>3, <2>4 DEF HeardInTime
<1>4. RunnerIsWatched' /\ PassedIsEarned'
  BY <1>0, <1>1 DEF RunnerIsWatched, PassedIsEarned
<1>5. TriesAreCounted'
  BY <1>0 DEF TriesAreCounted
<1> QED
  BY <1>2, <1>3, <1>4, <1>5 DEF ChecksInv

LEMMA RunnerSteps ==
    ASSUME ChecksInv,
           \/ Checking!Try \/ Checking!AllTried \/ Checking!Unloadable \/ Checking!Raise \/ Checking!ClosePipe \/ Checking!Exit
           \/ \E right \in BOOLEAN : Checking!Answer(right)
           \/ \E code \in 0 .. 1 : Checking!Die(code)
    PROVE  ChecksInv'
<1> USE DEF Checking!checkVars
<1>0. ChecksType /\ EndsFollow
  BY DEF ChecksInv
<1>t. /\ marks \in Seq(BOOLEAN) /\ Len(marks) \in Nat /\ pipe \in Seq(Messages)
      /\ Len(pipe) \in Nat
      /\ Checking!Trying \in Nat /\ Checking!Trying # 0
  BY <1>0 DEF ChecksType, Checking!Trying
<1>1. ASSUME UNCHANGED <<Checking!checkVars, marks, pipe, late, supervisor, watching, heard>>, Checking!Alive,
             runner' = [at |-> runner'.at, exit |-> runner'.exit],
             runner'.at \in {"over", "closed", "dead"}
      PROVE  ChecksInv'
  <2>1. EndsFollow'
    BY <1>0, <1>1 DEF EndsFollow
  <2> QED
    BY <1>1, <1>t, <2>1, RunnerMoves
<1>2. CASE Checking!AllTried \/ Checking!Unloadable \/ Checking!ClosePipe \/ Checking!Exit
  BY <1>0, <1>1, <1>2 DEF Checking!AllTried, Checking!Unloadable, Checking!ClosePipe,
     Checking!Exit, Checking!Alive, ChecksType
<1>3. ASSUME NEW code \in 0 .. 1, Checking!Die(code)
      PROVE  ChecksInv'
  BY <1>1, <1>3 DEF Checking!Die, Checking!Alive
<1>4. CASE Checking!Raise
  <2> DEFINE m == <<"error", 0>>
  <2>1. /\ runner.at = "between" /\ runner' = [at |-> "over", exit |-> 1]
        /\ pipe' = Append(pipe, m)
        /\ UNCHANGED <<tries, verdicts, evaluation, marks, late, supervisor, watching, heard>>
    BY <1>4 DEF Checking!Raise
  <2>2. m \in Messages /\ m[1] = "error"
    BY DEF Messages
  <2> HIDE DEF m
  <2>3. /\ pipe' \in Seq(Messages) /\ Len(pipe') = Len(pipe) + 1
        /\ \A k \in 1 .. Len(pipe) : pipe'[k] = pipe[k]
        /\ pipe'[Len(pipe) + 1] = m
        /\ \A k \in 1 .. (Len(pipe) + 1) : k \in 1 .. Len(pipe) \/ k = Len(pipe) + 1
    BY <1>t, <2>1, <2>2, MessageSent
  <2>4. ASSUME NEW k \in 1 .. Len(pipe')
        PROVE  /\ pipe'[k][1] = "start" => pipe'[k][2] # 0
               /\ pipe'[k][1] = "end" =>
                     /\ pipe'[k][2] <= Len(marks)
                     /\ IF k = 1 THEN watching # 0 ELSE pipe'[k - 1][1] = "start"
    <3>1. CASE k \in 1 .. Len(pipe)
      <4>1. k # 1 => k - 1 \in 1 .. Len(pipe)
        BY <1>t, <3>1
      <4> QED
        BY <1>0, <2>3, <3>1, <4>1 DEF EndsFollow
    <3>2. CASE k = Len(pipe) + 1
      BY <2>2, <2>3, <3>2
    <3> QED
      BY <2>3, <3>1, <3>2
  <2>5. EndsFollow'
    BY <2>1, <2>4 DEF EndsFollow
  <2> QED
    BY <1>t, <2>1, <2>3, <2>5, RunnerMoves DEF Checking!Alive
<1>5. CASE Checking!Try
  <2> DEFINE m == <<"start", Checking!Trying>>
  <2>1. /\ runner.at = "between" /\ runner' = [runner EXCEPT !.at = "trying"]
        /\ pipe' = Append(pipe, m)
        /\ UNCHANGED <<tries, verdicts, evaluation, marks, late, supervisor, watching, heard>>
    BY <1>5 DEF Checking!Try
  <2>2. m \in Messages /\ m[1] = "start" /\ m[2] # 0
    BY <1>t DEF Messages
  <2> HIDE DEF m
  <2>3. /\ pipe' \in Seq(Messages) /\ Len(pipe') = Len(pipe) + 1
        /\ \A k \in 1 .. Len(pipe) : pipe'[k] = pipe[k]
        /\ pipe'[Len(pipe) + 1] = m
        /\ \A k \in 1 .. (Len(pipe) + 1) : k \in 1 .. Len(pipe) \/ k = Len(pipe) + 1
    BY <1>t, <2>1, <2>2, MessageSent
  <2>4. ASSUME NEW k \in 1 .. Len(pipe')
        PROVE  /\ pipe'[k][1] = "start" => pipe'[k][2] # 0
               /\ pipe'[k][1] = "end" =>
                     /\ pipe'[k][2] <= Len(marks)
                     /\ IF k = 1 THEN watching # 0 ELSE pipe'[k - 1][1] = "start"
    <3>1. CASE k \in 1 .. Len(pipe)
      <4>1. k # 1 => k - 1 \in 1 .. Len(pipe)
        BY <1>t, <3>1
      <4> QED
        BY <1>0, <2>3, <3>1, <4>1 DEF EndsFollow
    <3>2. CASE k = Len(pipe) + 1
      BY <2>2, <2>3, <3>2
    <3> QED
      BY <2>3, <3>1, <3>2
  <2>5. Len(pipe') # 0 /\ pipe'[Len(pipe')][1] = "start"
    BY <1>t, <2>2, <2>3
  <2>6. EndsFollow'
    BY <2>1, <2>4, <2>5 DEF EndsFollow
  <2>7. runner'.at = "trying" /\ runner' = [at |-> runner'.at, exit |-> runner'.exit]
    BY <1>0, <2>1 DEF ChecksType
  <2> QED
    BY <1>t, <2>1, <2>3, <2>6, <2>7, RunnerMoves DEF Checking!Alive
<1>6. ASSUME NEW right \in BOOLEAN, Checking!Answer(right)
      PROVE  ChecksInv'
  <2> DEFINE m == <<"end", Checking!Trying>>
  <2>1. /\ runner.at = "trying"
        /\ runner' = [runner EXCEPT !.at = IF right THEN "between" ELSE "over"]
        /\ pipe' = Append(pipe, m) /\ marks' = Append(marks, right)
        /\ late' =
               IF Checking!Trying \in overtime THEN late \cup {Checking!Trying} ELSE late
        /\ UNCHANGED <<tries, verdicts, evaluation, supervisor, watching, heard>>
    BY <1>6 DEF Checking!Answer
  <2>2. m \in Messages /\ m[1] = "end" /\ m[2] = Checking!Trying
    BY <1>t DEF Messages
  <2> HIDE DEF m
  <2>3. /\ pipe' \in Seq(Messages) /\ Len(pipe') = Len(pipe) + 1
        /\ \A k \in 1 .. Len(pipe) : pipe'[k] = pipe[k]
        /\ pipe'[Len(pipe) + 1] = m
        /\ \A k \in 1 .. (Len(pipe) + 1) : k \in 1 .. Len(pipe) \/ k = Len(pipe) + 1
    BY <1>t, <2>1, <2>2, MessageSent
  <2>m. marks' \in Seq(BOOLEAN) /\ Len(marks') = Len(marks) + 1 /\ Checking!Trying = Len(marks')
    BY <1>t, <2>1 DEF Checking!Trying
  <2>4. ASSUME NEW k \in 1 .. Len(pipe')
        PROVE  /\ pipe'[k][1] = "start" => pipe'[k][2] # 0
               /\ pipe'[k][1] = "end" =>
                     /\ pipe'[k][2] <= Len(marks')
                     /\ IF k = 1 THEN watching # 0 ELSE pipe'[k - 1][1] = "start"
    <3>1. CASE k \in 1 .. Len(pipe)
      <4>1. k # 1 => k - 1 \in 1 .. Len(pipe)
        BY <1>t, <3>1
      <4>2. /\ pipe[k][1] = "start" => pipe[k][2] # 0
            /\ pipe[k][1] = "end" =>
                  /\ pipe[k][2] <= Len(marks)
                  /\ IF k = 1 THEN watching # 0 ELSE pipe[k - 1][1] = "start"
        BY <1>0, <3>1 DEF EndsFollow
      <4>3. pipe[k][2] \in Nat
        BY <1>t, <3>1 DEF Messages
      <4>4. pipe[k][2] <= Len(marks) => pipe[k][2] <= Len(marks')
        BY <1>t, <2>m, <4>3
      <4> QED
        BY <2>3, <3>1, <4>1, <4>2, <4>4
    <3>2. CASE k = Len(pipe) + 1
      <4>1. IF Len(pipe) = 0 THEN watching # 0 ELSE pipe[Len(pipe)][1] = "start"
        BY <1>0, <2>1 DEF EndsFollow
      <4>2. pipe'[k][1] = "end" /\ pipe'[k][2] = Len(marks')
        BY <2>2, <2>3, <2>m, <3>2
      <4>3. Len(marks') <= Len(marks')
        BY <1>t, <2>m
      <4>4. k - 1 = Len(pipe) /\ (k = 1 <=> Len(pipe) = 0) /\ (k # 1 => Len(pipe) \in 1 .. Len(pipe))
        BY <1>t, <3>2
      <4> QED
        BY <2>3, <4>1, <4>2, <4>3, <4>4
    <3> QED
      BY <2>3, <3>1, <3>2
  <2>7. runner'.at \in {"between", "over"} /\ runner' = [at |-> runner'.at, exit |-> runner'.exit]
    BY <1>0, <2>1 DEF ChecksType
  <2>6. EndsFollow'
    BY <2>1, <2>4, <2>7 DEF EndsFollow
  <2>8. Len(marks) <= Len(marks') /\ late' \ late \subseteq {n \in Nat : n > Len(marks)}
    BY <1>t, <2>1, <2>m
  <2> QED
    BY <1>t, <2>1, <2>3, <2>m, <2>6, <2>7, <2>8, RunnerMoves DEF Checking!Alive
<1> QED
  BY <1>2, <1>3, <1>4, <1>5, <1>6

\* The group has a verdict, and its process is gone.
LEMMA GroupEnds ==
    ASSUME ChecksInv, supervisor # "idle",
           NEW judged \in Outcomes, Checking!NextGroup(judged),
           runner' = IF Checking!Alive THEN [at |-> "dead", exit |-> 1] ELSE runner,
           supervisor' = "idle",
           marks' = marks, pipe' \in Seq(Messages), watching' \in Nat, late' = late,
           EndsFollow', \A input \in heard' : input \in Nat /\ input <= Len(marks),
           judged = "pass" => marks = Checking!All /\ heard' \cap late = {}
    PROVE  ChecksInv'
<1>0. /\ ChecksType /\ HeardInTime /\ RunnerIsWatched /\ PassedIsEarned
      /\ TriesAreCounted
  BY DEF ChecksInv
<1>1. evaluation = "none" /\ Len(verdicts) < Checking!Groups /\ verdicts \in Seq(Outcomes) /\ Len(verdicts) \in Nat
  BY <1>0 DEF RunnerIsWatched, TriesAreCounted, ChecksType
<1>2. /\ verdicts' = Append(verdicts, judged)
      /\ evaluation' = IF Len(verdicts') < Checking!Groups THEN evaluation
                    ELSE IF \A g \in 1 .. Checking!Groups :
                             verdicts'[g] = "pass" THEN "passed"
                    ELSE "failed"
      /\ tries' = tries
  BY DEF Checking!NextGroup
<1>3. /\ verdicts' \in Seq(Outcomes) /\ Len(verdicts') = Len(verdicts) + 1
      /\ verdicts'[Len(verdicts')] = judged /\ verdicts' # <<>>
  BY <1>1, <1>2
<1>4. runner'.at \in {"none", "dead"} /\ runner' = [at |-> runner'.at, exit |-> runner'.exit]
  BY <1>0 DEF ChecksType, Checking!Alive
<1>5. ChecksType'
  BY <1>0, <1>1, <1>2, <1>3, <1>4 DEF ChecksType
<1>6. HeardInTime'
  BY DEF HeardInTime
<1>7. RunnerIsWatched'
  BY <1>4 DEF RunnerIsWatched, Checking!Alive
<1>8. PassedIsEarned'
  BY <1>3 DEF PassedIsEarned, Checking!All
<1>9. TriesAreCounted'
  <2>1. evaluation' # "error"
    BY <1>1, <1>2
  <2>2. evaluation' = "none" => Len(verdicts') < Checking!Groups
    BY <1>2
  <2>3. evaluation' = "passed" =>
            Len(verdicts') = Checking!Groups /\ \A g \in 1 .. Checking!Groups :
                verdicts'[g] = "pass"
    BY <1>1, <1>2, <1>3 DEF Checking!Groups
  <2> QED
    BY <1>0, <1>2, <1>3, <2>1, <2>2, <2>3 DEF TriesAreCounted
<1> QED
  BY <1>5, <1>6, <1>7, <1>8, <1>9 DEF ChecksInv

\* There is no verdict.
LEMMA GivenUp ==
    ASSUME ChecksInv, supervisor # "idle", Checking!NoVerdict, Checking!Gone
    PROVE  ChecksInv'
<1>0. /\ ChecksType /\ EndsFollow /\ HeardInTime /\ RunnerIsWatched /\ PassedIsEarned
      /\ TriesAreCounted
  BY DEF ChecksInv
<1>1. /\ evaluation = "none" /\ verdicts' = <<>> /\ tries' = tries
      /\ evaluation' = IF tries < MaxAttempts THEN evaluation ELSE "error"
      /\ supervisor' = "idle"
      /\ runner' = IF Checking!Alive THEN [at |-> "dead", exit |-> 1] ELSE runner
      /\ UNCHANGED <<marks, finished, pipe, overtime, late, watching, heard>>
  BY <1>0 DEF Checking!NoVerdict, Checking!Gone, RunnerIsWatched
<1>2. runner'.at \in {"none", "dead"} /\ runner' = [at |-> runner'.at, exit |-> runner'.exit]
  BY <1>0, <1>1 DEF ChecksType, Checking!Alive
<1>3. ChecksType'
  BY <1>0, <1>1, <1>2 DEF ChecksType
<1>4. EndsFollow'
  BY <1>0, <1>1, <1>2 DEF EndsFollow
<1>5. HeardInTime' /\ RunnerIsWatched' /\ PassedIsEarned'
  BY <1>0, <1>1, <1>2 DEF HeardInTime, RunnerIsWatched, PassedIsEarned, Checking!Alive
<1>6. TriesAreCounted'
  <2>1. tries \in Nat /\ tries <= MaxAttempts /\ MaxAttempts \in Nat
    BY <1>0, BoundAssumption DEF ChecksType, TriesAreCounted
  <2>2. tries < MaxAttempts \/ tries = MaxAttempts
    BY <2>1
  <2>3. Len(verdicts') < Checking!Groups
    BY <1>1 DEF Checking!Groups
  <2> QED
    BY <1>1, <2>1, <2>2, <2>3 DEF TriesAreCounted
<1> QED
  BY <1>3, <1>4, <1>5, <1>6 DEF ChecksInv

LEMMA Goes ==
    ASSUME ChecksInv, supervisor # "idle", NEW next \in {"look", "poll", "read", "join"},
           Checking!GoesOn(next),
           next = "join" => ~Checking!Alive
    PROVE  ChecksInv'
<1>0. /\ ChecksType /\ EndsFollow /\ HeardInTime /\ RunnerIsWatched /\ PassedIsEarned
      /\ TriesAreCounted
  BY DEF ChecksInv
<1>1. /\ supervisor' = next
      /\ UNCHANGED <<tries, verdicts, evaluation, runner, marks, finished, pipe, overtime, late, watching, heard>>
  BY DEF Checking!GoesOn, Checking!checkVars, Checking!runnerVars
<1>2. ChecksType' /\ EndsFollow'
  BY <1>0, <1>1 DEF ChecksType, EndsFollow
<1>3. HeardInTime' /\ RunnerIsWatched' /\ PassedIsEarned' /\ TriesAreCounted'
  BY <1>0, <1>1 DEF HeardInTime, RunnerIsWatched, PassedIsEarned, TriesAreCounted,
     Checking!Alive
<1> QED
  BY <1>2, <1>3 DEF ChecksInv

LEMMA ChecksStep == ChecksInv /\ [Checking!Next]_(Checking!vars) => ChecksInv'
<1> SUFFICES ASSUME ChecksInv, [Checking!Next]_(Checking!vars)
             PROVE  ChecksInv'
  OBVIOUS
<1> USE DEF Checking!checkVars, Checking!runnerVars
<1>0. /\ ChecksType /\ EndsFollow /\ HeardInTime /\ RunnerIsWatched /\ PassedIsEarned
      /\ TriesAreCounted
  BY DEF ChecksInv
<1>1. CASE UNCHANGED Checking!vars
  <2>1. ChecksType' /\ EndsFollow'
    BY <1>0, <1>1 DEF Checking!vars, ChecksType, EndsFollow
  <2>2. HeardInTime' /\ RunnerIsWatched' /\ PassedIsEarned' /\ TriesAreCounted'
    BY <1>0, <1>1 DEF Checking!vars, HeardInTime, RunnerIsWatched, PassedIsEarned,
       TriesAreCounted, Checking!Alive
  <2> QED
    BY <2>1, <2>2 DEF ChecksInv
<1>2. CASE \/ Checking!Try \/ Checking!AllTried \/ Checking!Unloadable \/ Checking!Raise \/ Checking!ClosePipe \/ Checking!Exit
           \/ \E right \in BOOLEAN : Checking!Answer(right)
           \/ \E code \in 0 .. 1 : Checking!Die(code)
  BY <1>2, RunnerSteps
<1>3. ASSUME NEW limit \in 0 .. Inputs, Checking!Elapse(limit)
      PROVE  ChecksInv'
  <2>1. /\ Checking!Alive
        /\ UNCHANGED <<tries, verdicts, evaluation, runner, marks, finished, pipe, late, supervisor, watching, heard>>
    BY <1>3 DEF Checking!Elapse
  <2>2. EndsFollow'
    BY <1>0, <2>1 DEF EndsFollow
  <2>3. ChecksType' /\ HeardInTime'
    BY <1>0, <2>1 DEF ChecksType, HeardInTime
  <2>4. RunnerIsWatched' /\ PassedIsEarned' /\ TriesAreCounted'
    BY <1>0, <2>1 DEF RunnerIsWatched, PassedIsEarned, TriesAreCounted, Checking!Alive
  <2> QED
    BY <2>2, <2>3, <2>4 DEF ChecksInv
<1>4. CASE Checking!StartRunner
  <2>1. /\ supervisor = "idle" /\ evaluation = "none"
        /\ tries' = IF verdicts = <<>> THEN tries + 1 ELSE tries
        /\ runner' = [at |-> "between", exit |-> 0]
        /\ marks' = <<>> /\ pipe' = <<>> /\ late' = {} /\ watching' = 0 /\ heard' = {}
        /\ supervisor' = "look"
        /\ UNCHANGED <<verdicts, evaluation>>
    BY <1>4 DEF Checking!StartRunner
  <2>2. ChecksType'
    BY <1>0, <2>1 DEF ChecksType
  <2>3. EndsFollow' /\ HeardInTime' /\ RunnerIsWatched' /\ PassedIsEarned'
    BY <2>1 DEF EndsFollow, HeardInTime, RunnerIsWatched, PassedIsEarned
  <2>4. TriesAreCounted'
    <3>1. tries \in Nat /\ MaxAttempts \in Nat /\ (verdicts = <<>> => tries < MaxAttempts) /\ tries <= MaxAttempts
      BY <1>0, <2>1, BoundAssumption DEF ChecksType, TriesAreCounted
    <3>2. tries' <= MaxAttempts
      BY <2>1, <3>1
    <3> QED
      BY <1>0, <2>1, <3>2 DEF TriesAreCounted
  <2> QED
    BY <2>2, <2>3, <2>4 DEF ChecksInv
<1>5. CASE Checking!StartFails
  <2>1. /\ supervisor = "idle" /\ evaluation = "none"
        /\ tries' = IF verdicts = <<>> THEN tries + 1 ELSE tries
        /\ verdicts' = <<>>
        /\ evaluation' = IF tries' < MaxAttempts THEN evaluation ELSE "error"
        /\ UNCHANGED <<runner, marks, finished, pipe, overtime, late, supervisor, watching, heard>>
    BY <1>5 DEF Checking!StartFails
  <2>2. tries \in Nat /\ MaxAttempts \in Nat /\ (verdicts = <<>> => tries < MaxAttempts) /\ tries <= MaxAttempts
    BY <1>0, <2>1, BoundAssumption DEF ChecksType, TriesAreCounted
  <2>3. tries' \in Nat /\ tries' <= MaxAttempts /\ (tries' < MaxAttempts \/ tries' = MaxAttempts)
    BY <2>1, <2>2
  <2>4. ChecksType'
    BY <1>0, <2>1, <2>3 DEF ChecksType
  <2>5. EndsFollow'
    BY <1>0, <2>1 DEF EndsFollow
  <2>6. HeardInTime' /\ RunnerIsWatched' /\ PassedIsEarned'
    BY <1>0, <2>1 DEF HeardInTime, RunnerIsWatched, PassedIsEarned, Checking!Alive
  <2>7. TriesAreCounted'
    BY <2>1, <2>3 DEF TriesAreCounted, Checking!Groups
  <2> QED
    BY <2>4, <2>5, <2>6, <2>7 DEF ChecksInv
<1>g. ASSUME Checking!Gone
      PROVE  /\ runner' = (IF Checking!Alive THEN [at |-> "dead", exit |-> 1] ELSE runner)
             /\ supervisor' = "idle"
             /\ UNCHANGED <<marks, finished, pipe, overtime, late, watching, heard>>
             /\ EndsFollow' /\ pipe' \in Seq(Messages) /\ watching' \in Nat
             /\ \A input \in heard' : input \in Nat /\ input <= Len(marks)
  <2>1. /\ runner' = (IF Checking!Alive THEN [at |-> "dead", exit |-> 1] ELSE runner)
        /\ supervisor' = "idle"
        /\ UNCHANGED <<marks, finished, pipe, overtime, late, watching, heard>>
    BY <1>g DEF Checking!Gone
  <2>2. runner'.at \in {"none", "dead"}
    BY <1>0, <2>1 DEF Checking!Alive, ChecksType
  <2>3. EndsFollow'
    BY <1>0, <2>1, <2>2 DEF EndsFollow
  <2> QED
    BY <1>0, <2>1, <2>3 DEF ChecksType, HeardInTime
<1>6. CASE Checking!Look
  <2>1. supervisor = "look"
    BY <1>6 DEF Checking!Look
  <2>2. CASE Checking!GoesOn("join") /\ ~Checking!Alive
    BY <2>1, <2>2, Goes
  <2>3. CASE Checking!GoesOn("poll")
    BY <2>1, <2>3, Goes
  <2>4. ASSUME NEW judged \in {"fail", "timeout"}, Checking!NextGroup(judged),
               Checking!Gone
        PROVE  ChecksInv'
    BY <1>g, <2>1, <2>4, GroupEnds DEF Outcomes
  <2> QED
    BY <1>6, <2>2, <2>3, <2>4 DEF Checking!Look
<1>7. CASE Checking!Poll
  <2>1. supervisor = "poll" /\ (Checking!GoesOn("read") \/ Checking!GoesOn("look"))
    BY <1>7 DEF Checking!Poll
  <2> QED
    BY <2>1, Goes
<1>8. CASE Checking!Read
  <2> DEFINE m == pipe[1]
  <2>1. /\ supervisor = "read" /\ pipe # <<>> /\ pipe' = Tail(pipe)
        /\ heard' = IF m[1] = "end" THEN heard \cup {m[2]} ELSE heard
        /\ watching' = CASE m[1] = "start" -> m[2]
                         [] m[1] = "end" -> 0
                         [] OTHER -> watching
        /\ UNCHANGED <<marks, finished, overtime, late>>
    BY <1>8 DEF Checking!Read
  <2>2. /\ pipe \in Seq(Messages) /\ Len(pipe) \in Nat /\ Len(pipe) # 0
        /\ 1 \in 1 .. Len(pipe)
        /\ pipe' \in Seq(Messages) /\ Len(pipe') = Len(pipe) - 1
        /\ \A k \in 1 .. Len(pipe') : k + 1 \in 1 .. Len(pipe) /\ pipe'[k] = pipe[k + 1]
    BY <1>0, <2>1 DEF ChecksType
  <2>3. m \in Messages /\ m[1] \in {"start", "end", "error"} /\ m[2] \in Nat
    BY <2>2 DEF Messages
  <2>4. /\ m[1] = "start" => m[2] # 0
        /\ m[1] = "end" => m[2] <= Len(marks) /\ watching # 0
    BY <1>0, <2>2 DEF EndsFollow
  <2> HIDE DEF m
  <2>5. /\ m[1] = "start" => watching' = m[2] /\ watching' # 0
        /\ m[1] = "end" => watching' = 0
        /\ m[1] = "error" => watching' = watching
        /\ watching' \in Nat
    BY <1>0, <2>1, <2>3, <2>4 DEF ChecksType
  <2>6. \A input \in heard' : input \in Nat /\ input <= Len(marks)
    BY <1>0, <2>1, <2>3, <2>4 DEF HeardInTime
  <2>7. ASSUME NEW k \in 1 .. Len(pipe')
        PROVE  /\ pipe'[k][1] = "start" => pipe'[k][2] # 0
               /\ pipe'[k][1] = "end" =>
                     /\ pipe'[k][2] <= Len(marks)
                     /\ IF k = 1 THEN watching' # 0 ELSE pipe'[k - 1][1] = "start"
    <3>1. pipe'[k] = pipe[k + 1] /\ k + 1 \in 1 .. Len(pipe) /\ k + 1 # 1 /\ (k + 1) - 1 = k
      BY <2>2
    <3>2. /\ pipe[k + 1][1] = "start" => pipe[k + 1][2] # 0
          /\ pipe[k + 1][1] = "end" =>
                 pipe[k + 1][2] <= Len(marks) /\ pipe[k][1] = "start"
      BY <1>0, <3>1 DEF EndsFollow
    <3>3. k = 1 => pipe[k] = m
      BY DEF m
    <3>4. k # 1 => k - 1 \in 1 .. Len(pipe') /\ (k - 1) + 1 = k
      BY <2>2
    <3>5. k # 1 => pipe'[k - 1] = pipe[k]
      BY <2>2, <3>4
    <3> QED
      BY <2>5, <3>1, <3>2, <3>3, <3>5
  <2>8. runner.at = "trying" =>
            IF Len(pipe') = 0 THEN watching' # 0 ELSE pipe'[Len(pipe')][1] = "start"
    <3>1. SUFFICES ASSUME runner.at = "trying"
                   PROVE  IF Len(pipe') = 0 THEN watching' # 0 ELSE pipe'[Len(pipe')][1] =
                              "start"
      OBVIOUS
    <3>2. pipe[Len(pipe)][1] = "start"
      BY <1>0, <2>2, <3>1 DEF EndsFollow
    <3>3. CASE Len(pipe') = 0
      <4>1. pipe[Len(pipe)] = m
        <5>1. Len(pipe) = 1
          BY <2>2, <3>3
        <5> QED
          BY <5>1 DEF m
      <4> QED
        BY <2>5, <3>2, <3>3, <4>1
    <3>4. CASE Len(pipe') # 0
      <4>1. Len(pipe') \in 1 .. Len(pipe') /\ Len(pipe') + 1 = Len(pipe)
        BY <2>2, <3>4
      <4>2. pipe'[Len(pipe')] = pipe[Len(pipe)]
        BY <2>2, <4>1
      <4> QED
        BY <3>2, <3>4, <4>2
    <3> QED
      BY <3>3, <3>4
  <2>9. CASE m[1] = "end" /\ Checking!TooLate(m[2])
    <3>1. /\ Checking!NextGroup("fail") /\ supervisor' = "idle"
          /\ runner' = IF Checking!Alive THEN [at |-> "dead", exit |-> 1] ELSE runner
      BY <1>8, <2>9 DEF Checking!Read, m
    <3>2. runner'.at \in {"none", "dead"}
      BY <1>0, <3>1 DEF Checking!Alive, ChecksType
    <3>3. EndsFollow'
      BY <2>1, <2>7, <3>2 DEF EndsFollow
    <3>4. "fail" \in Outcomes
      BY DEF Outcomes
    <3> QED
      BY <2>1, <2>2, <2>5, <2>6, <3>1, <3>3, <3>4, GroupEnds
  <2>10. CASE ~(m[1] = "end" /\ Checking!TooLate(m[2]))
    <3>1. supervisor' \in {"read", "look"} /\ UNCHANGED <<tries, verdicts, evaluation, runner>>
      BY <1>8, <2>10 DEF Checking!Read, m
    <3>2. EndsFollow'
      BY <2>1, <2>7, <2>8, <3>1 DEF EndsFollow
    <3>3. heard' \cap late' = {}
      <4>1. heard \cap late = {}
        BY <1>0, <2>1 DEF HeardInTime
      <4>2. m[1] = "end" => m[2] \notin late
        BY <2>4, <2>10 DEF Checking!TooLate
      <4> QED
        BY <2>1, <4>1, <4>2
    <3>4. ChecksType'
      BY <1>0, <2>1, <2>2, <2>5, <3>1 DEF ChecksType
    <3>5. HeardInTime'
      BY <2>1, <2>6, <3>3 DEF HeardInTime
    <3>6. RunnerIsWatched' /\ PassedIsEarned' /\ TriesAreCounted'
      BY <1>0, <2>1, <3>1 DEF RunnerIsWatched, PassedIsEarned, TriesAreCounted
    <3> QED
      BY <3>2, <3>4, <3>5, <3>6 DEF ChecksInv
  <2> QED
    BY <2>9, <2>10
<1>9. CASE Checking!ReadClosed
  <2>1. supervisor = "read"
    BY <1>9 DEF Checking!ReadClosed
  <2>2. CASE Checking!NoVerdict /\ Checking!Gone
    BY <2>1, <2>2, GivenUp
  <2>3. CASE Checking!GoesOn("join") /\ ~Checking!Alive
    BY <2>1, <2>3, Goes
  <2> QED
    BY <1>9, <2>2, <2>3 DEF Checking!ReadClosed
<1>10. CASE Checking!Conclude
  <2>1. supervisor = "join" /\ Checking!Gone
    BY <1>10 DEF Checking!Conclude
  <2>2. CASE Checking!NoVerdict
    BY <2>1, <2>2, GivenUp
  <2>3. ASSUME NEW judged \in {"pass", "fail"},
               Checking!NextGroup(judged), judged = "pass" => marks = Checking!All
        PROVE  ChecksInv'
    <3>1. heard \cap late = {}
      BY <1>0, <2>1 DEF HeardInTime
    <3> QED
      BY <1>g, <2>1, <2>3, <3>1, GroupEnds DEF Outcomes
  <2> QED
    BY <1>10, <2>2, <2>3 DEF Checking!Conclude
<1> QED
  BY <1>1, <1>2, <1>3, <1>4, <1>5, <1>6, <1>7, <1>8, <1>9, <1>10 DEF Checking!Next

LEMMA ChecksEarned == ChecksInv => Checking!VerdictsAreEarned
<1> SUFFICES ASSUME ChecksInv
             PROVE  Checking!VerdictsAreEarned
  OBVIOUS
<1>1. evaluation = "passed" => verdicts = [g \in 1 .. Checking!Groups |-> "pass"]
  <2>1. SUFFICES ASSUME evaluation = "passed"
                 PROVE  verdicts = [g \in 1 .. Checking!Groups |-> "pass"]
    OBVIOUS
  <2>2. /\ verdicts \in Seq(Outcomes) /\ Len(verdicts) = Checking!Groups
        /\ \A g \in 1 .. Checking!Groups : verdicts[g] = "pass"
    BY <2>1 DEF ChecksInv, ChecksType, TriesAreCounted
  <2> QED
    BY <2>2
<1> QED
  BY <1>1 DEF ChecksInv, PassedIsEarned, RunnerIsWatched, TriesAreCounted,
     Checking!VerdictsAreEarned

\* However the runner, the pipe and the clock race with the supervisor, a group of
\* inputs passes only when each was tried and answered right, none too late, and
\* nothing is concluded while the runner lives (VerdictsAreEarned:
\* _windows_untrusted_check and EvalPlusValidator.validate).
THEOREM VerdictsEarned == Spec => []VerdictsAreEarned
<1>1. Init => ChecksInv
  BY ChecksInit DEF Init
<1>2. ChecksInv /\ [Next]_vars => ChecksInv'
  BY ChecksStep, Moving
<1>3. ChecksInv => VerdictsAreEarned
  BY ChecksEarned DEF VerdictsAreEarned
<1> QED
  BY <1>1, <1>2, <1>3, PTL DEF Spec

=============================================================================
