---------------------------- MODULE CopiesProofs ----------------------------
(* What the copies of a service may rely on, for any copies, any queue of     *)
(* deployments and any number of faults.                                      *)
EXTENDS Copies, TLAPS

USE DEF Actor

LEMMA ActorsDiffer ==
    /\ "boot" \in Actor /\ "watch" \in Actor /\ "stop" \in Actor
    /\ Job \subseteq Actor
    /\ "boot" \notin Job /\ "watch" \notin Job /\ "stop" \notin Job /\ "nobody" \notin Actor
  BY JobAssumption

LEMMA IdleIsATask == Idle \in Task
  BY CopyAssumption DEF Idle, Task, Step

-----------------------------------------------------------------------------
(* Type correctness, one lemma for each actor.                                *)

LEMMA DeploymentsKeepTypes ==
    ASSUME CopiesTypeOK, NEW a \in Actor, Deploys(a)
    PROVE  CopiesTypeOK'
  <1>1. CASE Acquire(a)
    BY <1>1 DEF CopiesTypeOK, Acquire, counters, Task, Step
  <1>2. CASE Create(a)
    BY <1>2, BoundAssumption DEF CopiesTypeOK, Create, rows, Faulty, Task, Step
  <1>3. CASE Record(a)
    <2> DEFINE ok == task[a].ok \/ (At(a, "took") /\ (a = "watch" \/ task[a].copy = First))
               t == [task[a] EXCEPT
                        !.todo = @ \ {task[a].copy},
                        !.at = IF task[a].todo \ {task[a].copy} = {} THEN "read" ELSE "remove",
                        !.copy = IF a = "watch" THEN @ ELSE First,
                        !.ok = ok]
    <2>1. task[a] \in Task
      BY DEF CopiesTypeOK
    <2>2. ok \in BOOLEAN
      OBVIOUS
    <2>3. task' = [task EXCEPT ![a] = t]
      BY <1>3, Zenon DEF Record
    <2> HIDE DEF ok
    <2>4. t \in Task
      BY <2>1, <2>2, CopyAssumption DEF Task, Step
    <2> HIDE DEF t
    <2>5. task' \in [Actor -> Task]
      BY <2>3, <2>4 DEF CopiesTypeOK
    <2>6. /\ wanted' = wanted /\ container' = container /\ route' = route
          /\ episode' = episode /\ tries' = tries /\ answered' = answered
          /\ presses' = presses /\ stops' = stops /\ exits' = exits /\ faults' = faults
          /\ address' \subseteq Copy
          /\ reason' \in [Copy -> {"none", "note", "failure"}]
          /\ lock' \in Actor \cup {"nobody"}
      BY <1>3, <2>1 DEF Record, CopiesTypeOK, counters, Task
    <2> QED  BY <2>5, <2>6 DEF CopiesTypeOK
  <1>4. CASE ReadRows(a)
    <2>1. /\ address \in SUBSET Copy /\ "write" \in Step
          /\ task \in [Actor -> Task] /\ task[a] \in Task
      BY DEF CopiesTypeOK, Step
    <2>2. task' = [task EXCEPT ![a] = [task[a] EXCEPT !.at = "write", !.rows = address]]
      BY <1>4, Zenon DEF ReadRows
    <2>3. [task[a] EXCEPT !.at = "write", !.rows = address] \in Task
      BY <2>1 DEF Task
    <2>4. task' \in [Actor -> Task]
      BY <2>1, <2>2, <2>3
    <2> QED  BY <1>4, <2>4 DEF CopiesTypeOK, ReadRows, rows, counters
  <1>5. ASSUME NEW c \in Copy, Remove(a, c) PROVE CopiesTypeOK'
    BY <1>5, BoundAssumption DEF CopiesTypeOK, Remove, rows, Faulty, PartlyRemoved, Task, Step
  <1> QED  BY <1>1, <1>2, <1>3, <1>4, <1>5 DEF Deploys

LEMMA JobsKeepTypes ==
    ASSUME CopiesTypeOK, NEW j \in Job, Press(j) \/ JobWrites(j)
    PROVE  CopiesTypeOK'
  <1>1. [Idle EXCEPT !.at = "lock"] \in Task /\ [Idle EXCEPT !.at = "idle"] \in Task
    BY IdleIsATask DEF Task, Step
  <1>2. CASE Press(j)
    <2>1. task' \in [Actor -> Task]
      BY <1>1, <1>2 DEF CopiesTypeOK, Press
    <2>2. presses' \in 0..MaxPresses
      BY <1>2, BoundAssumption DEF CopiesTypeOK, Press
    <2> QED  BY <1>2, <2>1, <2>2 DEF CopiesTypeOK, Press, rows
  <1>3. CASE JobWrites(j)
    <2>1. task' \in [Actor -> Task]
      BY <1>1, <1>3 DEF CopiesTypeOK, JobWrites
    <2>2. route' \subseteq Copy
      BY <1>3, ActorsDiffer DEF CopiesTypeOK, JobWrites, Task
    <2>3. tries' \in [Job -> 0..Retries]
      BY <1>3 DEF CopiesTypeOK, JobWrites, Retries
    <2> QED  BY <1>3, <2>1, <2>2, <2>3 DEF CopiesTypeOK, JobWrites, rows, counters
  <1> QED  BY <1>2, <1>3

LEMMA BootKeepsTypes ==
    ASSUME CopiesTypeOK, BootSyncs \/ BootWrites \/ \E c \in Copy : BootLooks(c)
    PROVE  CopiesTypeOK'
  <1> DEFINE b == task["boot"]
  <1>1. b \in Task /\ task \in [Actor -> Task]
    BY ActorsDiffer DEF CopiesTypeOK
  <1>2. CASE BootSyncs
    <2>1. task' \in [Actor -> Task]
      BY <1>1, <1>2 DEF BootSyncs, Task, Step
    <2> QED  BY <1>2, <2>1 DEF CopiesTypeOK, BootSyncs, rows, counters
  <1>3. CASE BootWrites
    <2>1. [b EXCEPT !.at = "look", !.rows = {}, !.ok = FALSE] \in Task
      BY <1>1 DEF Task, Step
    <2>2. \/ task' = [task EXCEPT !["boot"] = [b EXCEPT !.at = "look", !.rows = {}, !.ok = FALSE]]
          \/ task' = [task EXCEPT !["boot"] = Idle]
      BY <1>3, Zenon DEF BootWrites
    <2> HIDE DEF b
    <2>3. task' \in [Actor -> Task]
      BY <1>1, <2>1, <2>2, IdleIsATask
    <2>4. route' \subseteq Copy
      BY <1>1, <1>3 DEF BootWrites, Task, b
    <2>5. lock' \in Actor \cup {"nobody"}
      BY <1>3 DEF BootWrites, CopiesTypeOK
    <2> QED  BY <1>3, <2>3, <2>4, <2>5 DEF CopiesTypeOK, BootWrites, rows, counters
  <1>4. ASSUME NEW c \in Copy, BootLooks(c) PROVE CopiesTypeOK'
    <2>1. [b EXCEPT !.left = @ \ {c}] \in Task /\ [b EXCEPT !.left = @ \ {c}, !.at = "lock"] \in Task
      BY <1>1 DEF Task, Step
    <2>2. \/ task' = [task EXCEPT !["boot"] = [b EXCEPT !.left = @ \ {c}]]
          \/ task' = [task EXCEPT !["boot"] = [b EXCEPT !.left = @ \ {c}, !.at = "lock"]]
      BY <1>4, Zenon DEF BootLooks
    <2> HIDE DEF b
    <2>3. task' \in [Actor -> Task]
      BY <1>1, <2>1, <2>2
    <2>4. faults' \in 0..MaxFaults
      BY <1>4, BoundAssumption DEF BootLooks, Faulty, CopiesTypeOK
    <2> QED  BY <1>4, <2>3, <2>4 DEF CopiesTypeOK, BootLooks, rows
  <1> QED  BY <1>2, <1>3, <1>4

LEMMA StopKeepsTypes ==
    ASSUME CopiesTypeOK,
           StopBegins \/ ClearRow \/ StopWrites \/ \E c \in Copy : TakeDown(c)
    PROVE  CopiesTypeOK'
  <1> DEFINE d == task["stop"]
  <1>1. d \in Task /\ task \in [Actor -> Task]
    BY ActorsDiffer DEF CopiesTypeOK
  <1>2. CASE StopBegins
    <2>1. [Idle EXCEPT !.at = "down", !.todo = Copy] \in Task
      BY IdleIsATask DEF Task, Step
    <2>2. task' \in [Actor -> Task]
      BY <1>1, <1>2, <2>1 DEF StopBegins
    <2>3. stops' \in 0..MaxStops
      BY <1>2, BoundAssumption DEF CopiesTypeOK, StopBegins
    <2> QED  BY <1>2, <2>2, <2>3 DEF CopiesTypeOK, StopBegins
  <1>3. CASE ClearRow
    <2> DEFINE rest == d.todo \ {d.copy}
               t == [d EXCEPT !.todo = rest, !.copy = First,
                              !.at = IF rest = {} THEN "read" ELSE "down"]
    <2>1. t \in Task
      BY <1>1, CopyAssumption DEF Task, Step
    <2>2. task' = [task EXCEPT !["stop"] = t]
      BY <1>3, Zenon DEF ClearRow
    <2>3. task' \in [Actor -> Task]
      <3> HIDE DEF t
      <3> QED  BY <1>1, <2>1, <2>2
    <2>4. d.copy \in Copy
      BY <1>1 DEF Task
    <2>5. address' \subseteq Copy /\ reason' \in [Copy -> {"none", "note", "failure"}]
      BY <1>3, <2>4 DEF ClearRow, CopiesTypeOK
    <2> QED  BY <1>3, <2>3, <2>5 DEF CopiesTypeOK, ClearRow, counters
  <1>4. CASE StopWrites
    <2>1. route' \subseteq Copy
      BY <1>1, <1>4 DEF StopWrites, Task
    <2>2. task' \in [Actor -> Task]
      BY <1>1, <1>4, IdleIsATask DEF StopWrites
    <2> QED  BY <1>4, <2>1, <2>2 DEF CopiesTypeOK, StopWrites, rows, counters
  <1>5. ASSUME NEW c \in Copy, TakeDown(c) PROVE CopiesTypeOK'
    <2>1. [d EXCEPT !.at = "row", !.copy = c] \in Task
      BY <1>1 DEF Task, Step
    <2>2. \/ task' = [task EXCEPT !["stop"] = [d EXCEPT !.at = "row", !.copy = c]]
          \/ task' = [task EXCEPT !["stop"] = Idle]
      BY <1>5, Zenon DEF TakeDown
    <2> HIDE DEF d
    <2>3. task' \in [Actor -> Task]
      BY <1>1, <2>1, <2>2, IdleIsATask
    <2>4. container' \in [Copy -> {"absent", "running", "exited"}]
      BY <1>5 DEF TakeDown, PartlyRemoved, CopiesTypeOK
    <2>5. faults' \in 0..MaxFaults
      BY <1>5, BoundAssumption DEF TakeDown, Faulty, CopiesTypeOK
    <2> QED  BY <1>5, <2>3, <2>4, <2>5 DEF CopiesTypeOK, TakeDown, rows
  <1> QED  BY <1>2, <1>3, <1>4, <1>5

LEMMA WatchKeepsTypes ==
    ASSUME CopiesTypeOK,
           \/ WatchBegins \/ WatchWrites \/ Annotate \/ WatchEnds
           \/ \E c \in Copy : Forget(c) \/ Leave(c) \/ Settle(c) \/ StartAgain(c)
    PROVE  CopiesTypeOK'
  <1> DEFINE w == task["watch"]
  <1>1. w \in Task /\ task \in [Actor -> Task]
    BY ActorsDiffer DEF CopiesTypeOK
  <1>2. ASSUME GoesOn PROVE task' \in [Actor -> Task]
    <2> DEFINE t == [w EXCEPT !.at = "look", !.copy = First, !.todo = {}, !.rows = {}, !.ok = FALSE]
    <2>1. t \in Task
      BY <1>1, CopyAssumption DEF Task, Step
    <2>2. task' = [task EXCEPT !["watch"] = t]
      BY <1>2, Zenon DEF GoesOn
    <2> HIDE DEF t
    <2> QED  BY <1>1, <2>1, <2>2
  <1>3. ASSUME NEW c \in Copy PROVE LookedAt(c) \in Task
    BY <1>1 DEF LookedAt, Task
  <1>4. ASSUME NEW c \in Copy, PassesOver(c) PROVE task' \in [Actor -> Task]
    BY <1>1, <1>3, <1>4 DEF PassesOver
  <1>5. ASSUME NEW c \in Copy, NEW step \in Step, TakesUp(c, step) PROVE task' \in [Actor -> Task]
    <2> DEFINE t == [LookedAt(c) EXCEPT !.at = step, !.copy = c, !.todo = {c}]
    <2>1. t \in Task
      <3>1. LookedAt(c) \in Task /\ {c} \in SUBSET Copy
        BY <1>3
      <3> QED  BY <3>1 DEF Task
    <2>2. task' = [task EXCEPT !["watch"] = t]
      BY <1>5, Zenon DEF TakesUp
    <2> HIDE DEF t
    <2> QED  BY <1>1, <2>1, <2>2
  <1>6. "clear" \in Step /\ "lock" \in Step /\ "note" \in Step
    BY DEF Step
  <1>7. CASE WatchBegins
    <2> DEFINE noted == {c \in Copy : reason[c] = "note"}
               t == [Idle EXCEPT !.at = "look", !.left = Copy, !.meant = wanted,
                                 !.deployed = address, !.noted = noted]
    <2>1. /\ noted \in SUBSET Copy /\ address \in SUBSET Copy
          /\ wanted \in {"running", "stopped"} /\ "look" \in Step
      BY DEF CopiesTypeOK, Step
    <2>2. task' = [task EXCEPT !["watch"] = t]
      BY <1>7, Zenon DEF WatchBegins
    <2> HIDE DEF noted
    <2>3. t \in Task
      <3> DEFINE s == [Idle EXCEPT !.at = "look", !.left = Copy, !.meant = wanted]
      <3>1. s \in Task
        BY <2>1, IdleIsATask DEF Task
      <3>2. t = [s EXCEPT !.deployed = address, !.noted = noted]
        BY Zenon
      <3> HIDE DEF s, t
      <3>3. [s EXCEPT !.deployed = address, !.noted = noted] \in Task
        BY <2>1, <3>1 DEF Task
      <3> QED  BY <3>2, <3>3
    <2> HIDE DEF t
    <2>4. task' \in [Actor -> Task]
      BY <1>1, <2>2, <2>3
    <2> QED  BY <1>7, <2>4 DEF CopiesTypeOK, WatchBegins, rows, counters
  <1>8. CASE WatchWrites
    <2>1. route' \subseteq Copy
      BY <1>1, <1>8 DEF WatchWrites, Task
    <2>2. CASE GoesOn
      BY <1>2, <1>8, <2>1, <2>2 DEF CopiesTypeOK, WatchWrites, rows, counters
    <2>3. CASE task' = [task EXCEPT !["watch"].at = "note", !["watch"].rows = {}]
      <3>1. task' \in [Actor -> Task]
        BY <1>1, <1>6, <2>3 DEF Task
      <3> QED  BY <1>8, <2>1, <3>1 DEF CopiesTypeOK, WatchWrites, rows, counters
    <2> QED  BY <1>8, <2>2, <2>3 DEF WatchWrites
  <1>9. CASE Annotate
    <2>1. w.copy \in Copy
      BY <1>1 DEF Task
    <2>2. reason' \in [Copy -> {"none", "note", "failure"}]
      BY <1>9, <2>1 DEF Annotate, CopiesTypeOK
    <2>3. task' \in [Actor -> Task]
      BY <1>2, <1>9 DEF Annotate
    <2> QED  BY <1>9, <2>2, <2>3 DEF CopiesTypeOK, Annotate, counters
  <1>10. CASE WatchEnds
    BY <1>1, <1>10, IdleIsATask DEF CopiesTypeOK, WatchEnds, rows, counters
  <1>11. ASSUME NEW c \in Copy, Forget(c) PROVE CopiesTypeOK'
    BY <1>4, <1>11 DEF CopiesTypeOK, Forget, rows, counters
  <1>12. ASSUME NEW c \in Copy, Leave(c) PROVE CopiesTypeOK'
    BY <1>4, <1>12 DEF CopiesTypeOK, Leave, rows, counters
  <1>13. ASSUME NEW c \in Copy, Settle(c) PROVE CopiesTypeOK'
    <2>1. task' \in [Actor -> Task]
      BY <1>4, <1>5, <1>6, <1>13 DEF Settle
    <2> QED  BY <1>13, <2>1 DEF CopiesTypeOK, Settle, rows, counters
  <1>14. ASSUME NEW c \in Copy, StartAgain(c) PROVE CopiesTypeOK'
    <2>1. task' \in [Actor -> Task]
      BY <1>5, <1>6, <1>14 DEF StartAgain
    <2> QED  BY <1>14, <2>1 DEF CopiesTypeOK, StartAgain, rows, counters
  <1> QED  BY <1>7, <1>8, <1>9, <1>10, <1>11, <1>12, <1>13, <1>14

LEMMA OthersKeepTypes ==
    ASSUME CopiesTypeOK, Crash \/ \E c \in Copy : Exits(c)
    PROVE  CopiesTypeOK'
  <1>1. CASE Crash
    <2> DEFINE t == [Idle EXCEPT !.at = "look", !.left = Copy, !.meant = wanted]
               q == [Idle EXCEPT !.at = "lock"]
    <2>1. t \in Task /\ q \in Task
      BY IdleIsATask DEF CopiesTypeOK, Task, Step
    <2>2. task' = [a \in Actor |-> IF a = "boot" THEN t
                                   ELSE IF a \in Job /\ Busy(a) THEN q ELSE Idle]
      BY <1>1, Zenon DEF Crash
    <2> HIDE DEF t, q
    <2>3. task' \in [Actor -> Task]
      BY <2>1, <2>2, IdleIsATask
    <2>4. faults' \in 0..MaxFaults
      BY <1>1, BoundAssumption DEF Crash, Faulty, CopiesTypeOK
    <2> QED  BY <1>1, <2>3, <2>4 DEF CopiesTypeOK, Crash, rows
  <1>2. ASSUME NEW c \in Copy, Exits(c) PROVE CopiesTypeOK'
    <2>1. exits' \in 0..MaxExits
      BY <1>2, BoundAssumption DEF Exits, CopiesTypeOK
    <2> QED  BY <1>2, <2>1 DEF CopiesTypeOK, Exits, rows
  <1> QED  BY <1>1, <1>2

LEMMA StepsKeepTypes ==
    ASSUME CopiesTypeOK, [CopiesNext]_vars
    PROVE  CopiesTypeOK'
  <1>1. CASE UNCHANGED vars
    BY <1>1 DEF CopiesTypeOK, vars, rows, counters
  <1>2. ASSUME NEW a \in Actor, Proceeds(a) PROVE CopiesTypeOK'
    BY <1>2, DeploymentsKeepTypes, JobsKeepTypes, BootKeepsTypes, WatchKeepsTypes, StopKeepsTypes
    DEF Proceeds
  <1>3. ASSUME NEW j \in Job, Press(j) PROVE CopiesTypeOK'
    BY <1>3, JobsKeepTypes
  <1>4. CASE StopBegins
    BY <1>4, StopKeepsTypes
  <1>5. ASSUME Crash \/ \E c \in Copy : Exits(c) PROVE CopiesTypeOK'
    BY <1>5, OthersKeepTypes
  <1> QED  BY <1>1, <1>2, <1>3, <1>4, <1>5 DEF CopiesNext

LEMMA TypesBegin ==
    ASSUME CopiesInit
    PROVE  CopiesTypeOK
  <1>1. /\ task \in [Actor -> Task] /\ lock \in Actor \cup {"nobody"}
        /\ container \in [Copy -> {"absent", "running", "exited"}]
        /\ reason \in [Copy -> {"none", "note", "failure"}]
    BY IdleIsATask DEF CopiesInit
  <1>2. tries \in [Job -> 0..Retries]
    BY DEF CopiesInit, Retries
  <1>3. /\ presses \in 0..MaxPresses /\ stops \in 0..MaxStops
        /\ exits \in 0..MaxExits /\ faults \in 0..MaxFaults
    BY BoundAssumption DEF CopiesInit
  <1> QED  BY <1>1, <1>2, <1>3 DEF CopiesInit, CopiesTypeOK

(* The variables keep their types: the bounded counters stay in their bounds, *)
(* and every actor's task is a task.                                          *)
THEOREM CopiesTypesHold == CopiesSpec => []CopiesTypeOK
  <1>1. CopiesInit => CopiesTypeOK
    BY TypesBegin
  <1>2. CopiesTypeOK /\ [CopiesNext]_vars => CopiesTypeOK'
    BY StepsKeepTypes
  <1> QED  BY <1>1, <1>2, PTL DEF CopiesSpec

-----------------------------------------------------------------------------
(* Taking turns.                                                              *)

Moving == {"remove", "create", "took", "failed"}

(* What one actor's step has to respect: it moves containers only with the    *)
(* lock, takes it only from nobody, and leaves it to whoever else has it.     *)
LEMMA OneActorKeepsTurns ==
    ASSUME CopiesTypeOK, LockHeld, NameIsFree, NEW a \in Actor,
           \A b \in Actor \ {a} : task'[b] = task[b],
           lock' = lock \/ lock \in {a, "nobody"},
           task'[a].at \in Moving => lock' = a,
           a \in Job /\ task'[a].at \in {"read", "write"} => lock' = a,
           a = "watch" /\ task'[a].at \in {"lock"} \cup Moving => task'[a].todo = {task'[a].copy},
           task'[a].at = "create" => container'[task'[a].copy] = "absent",
           \A c \in Copy : container[c] = "absent" /\ lock # a => container'[c] = "absent"
    PROVE  (LockHeld /\ NameIsFree)'
  <1>1. ASSUME NEW b \in Actor, task'[b].at \in Moving PROVE lock' = b
    <2>1. CASE b # a
      <3>1. lock = b
        BY <1>1, <2>1 DEF LockHeld, Moving
      <3> QED  BY <2>1, <3>1, JobAssumption
    <2> QED  BY <1>1, <2>1
  <1>2. ASSUME NEW j \in Job, task'[j].at \in {"read", "write"} PROVE lock' = j
    <2>1. CASE j # a
      <3>1. lock = j
        BY <1>2, <2>1 DEF LockHeld
      <3> QED  BY <2>1, <3>1, JobAssumption
    <2> QED  BY <1>2, <2>1
  <1>3. ASSUME task'["watch"].at \in {"lock"} \cup Moving
        PROVE  task'["watch"].todo = {task'["watch"].copy}
    BY <1>3 DEF LockHeld, Moving
  <1>4. ASSUME NEW b \in Actor, task'[b].at = "create"
        PROVE  container'[task'[b].copy] = "absent"
    <2>1. CASE b # a
      <3>1. task'[b] = task[b] /\ lock = b /\ task[b].copy \in Copy
        BY <1>4, <2>1 DEF LockHeld, CopiesTypeOK, Task
      <3>2. container[task[b].copy] = "absent"
        BY <1>4, <3>1 DEF NameIsFree, At
      <3> QED  BY <2>1, <3>1, <3>2
    <2> QED  BY <1>4, <2>1
  <1>5. LockHeld'
    BY <1>1, <1>2, <1>3 DEF LockHeld, Moving
  <1>6. NameIsFree'
    BY <1>4 DEF NameIsFree, At
  <1> QED  BY <1>5, <1>6

LEMMA DeploymentsKeepTurns ==
    ASSUME CopiesTypeOK, LockHeld, NameIsFree, NEW a \in Actor, Deploys(a)
    PROVE  (LockHeld /\ NameIsFree)'
  <1>1. task \in [Actor -> Task] /\ task[a] \in Task /\ task[a].copy \in Copy
    BY DEF CopiesTypeOK, Task
  <1>2. task[a].at \in Moving => lock = a
    BY DEF LockHeld, Moving
  <1>3. CASE Acquire(a)
    <2>1. /\ \A b \in Actor \ {a} : task'[b] = task[b]
          /\ task'[a].at = "remove" /\ lock = "nobody" /\ lock' = a
          /\ a = "watch" => task'[a].todo = task[a].todo /\ task'[a].copy = task[a].copy
          /\ container' = container /\ task[a].at = "lock"
      BY <1>1, <1>3 DEF Acquire, At, Task
    <2>2. a = "watch" => task[a].todo = {task[a].copy}
      BY <2>1 DEF LockHeld
    <2> QED  BY <2>1, <2>2, OneActorKeepsTurns
  <1>4. CASE Create(a)
    <2>1. /\ \A b \in Actor \ {a} : task'[b] = task[b]
          /\ task'[a].at \in {"took", "failed"} /\ task[a].at = "create" /\ lock' = lock
          /\ task'[a].todo = task[a].todo /\ task'[a].copy = task[a].copy
      BY <1>1, <1>4 DEF Create, At, Task
    <2>2. lock = a /\ (a = "watch" => task[a].todo = {task[a].copy})
      BY <1>2, <2>1 DEF LockHeld, Moving
    <2> QED  BY <2>1, <2>2, JobAssumption, OneActorKeepsTurns
  <1>5. CASE Record(a)
    <2>1. /\ \A b \in Actor \ {a} : task'[b] = task[b]
          /\ task[a].at \in {"took", "failed"} /\ container' = container
          /\ task'[a].at = IF task[a].todo \ {task[a].copy} = {} THEN "read" ELSE "remove"
          /\ lock' = IF a = "watch" THEN "nobody" ELSE lock
      BY <1>1, <1>5 DEF Record, At, Task
    <2>2. lock = a /\ (a = "watch" => task[a].todo = {task[a].copy})
      BY <1>2, <2>1 DEF LockHeld, Moving
    <2>3. a = "watch" => task'[a].at = "read" /\ a \notin Job
      BY <2>1, <2>2, ActorsDiffer
    <2> QED  BY <2>1, <2>2, <2>3, OneActorKeepsTurns DEF Moving
  <1>6. CASE ReadRows(a)
    <2>1. /\ \A b \in Actor \ {a} : task'[b] = task[b]
          /\ task[a].at = "read" /\ task'[a].at = "write"
          /\ container' = container /\ lock' = lock
      BY <1>1, <1>6 DEF ReadRows, At, Task, rows
    <2>2. a \in Job => lock = a
      BY <2>1 DEF LockHeld
    <2> QED  BY <2>1, <2>2, OneActorKeepsTurns DEF Moving
  <1>7. ASSUME NEW c \in Copy, Remove(a, c) PROVE (LockHeld /\ NameIsFree)'
    <2>1. /\ \A b \in Actor \ {a} : task'[b] = task[b]
          /\ task'[a].at \in {"create", "failed"} /\ task[a].at = "remove" /\ lock' = lock
          /\ task'[a].todo = task[a].todo /\ task'[a].copy = c /\ c \in task[a].todo
          /\ task'[a].at = "create" => container' = [container EXCEPT ![c] = "absent"]
      BY <1>1, <1>7 DEF Remove, At, Task
    <2>2. lock = a /\ (a = "watch" => task[a].todo = {task[a].copy})
      BY <1>2, <2>1 DEF LockHeld, Moving
    <2>3. task'[a].at = "create" => container'[c] = "absent"
      BY <2>1 DEF CopiesTypeOK
    <2>4. a = "watch" => task'[a].todo = {c}
      BY <2>1, <2>2
    <2> QED  BY <2>1, <2>2, <2>3, <2>4, JobAssumption, OneActorKeepsTurns
  <1> QED  BY <1>3, <1>4, <1>5, <1>6, <1>7 DEF Deploys

LEMMA JobsKeepTurns ==
    ASSUME CopiesTypeOK, LockHeld, NameIsFree, NEW j \in Job, Press(j) \/ JobWrites(j)
    PROVE  (LockHeld /\ NameIsFree)'
  <1>1. j \in Actor /\ j # "watch" /\ task \in [Actor -> Task]
    BY ActorsDiffer DEF CopiesTypeOK
  <1>2. \A b \in Actor \ {j} : task'[b] = task[b]
    BY <1>1 DEF Press, JobWrites
  <1>3. task'[j].at \in {"lock", "idle"} /\ container' = container
    BY <1>1 DEF Press, JobWrites, Idle
  <1>4. lock' = lock \/ lock = j
    BY DEF Press, JobWrites, LockHeld, At
  <1> QED  BY <1>1, <1>2, <1>3, <1>4, OneActorKeepsTurns DEF Moving

LEMMA BootKeepsTurns ==
    ASSUME CopiesTypeOK, LockHeld, NameIsFree,
           BootSyncs \/ BootWrites \/ \E c \in Copy : BootLooks(c)
    PROVE  (LockHeld /\ NameIsFree)'
  <1>1. /\ "boot" \in Actor /\ "boot" # "watch" /\ "boot" \notin Job
        /\ task \in [Actor -> Task] /\ task["boot"] \in Task
    BY ActorsDiffer DEF CopiesTypeOK
  <1>2. \A b \in Actor \ {"boot"} : task'[b] = task[b]
    BY <1>1 DEF BootSyncs, BootWrites, BootLooks
  <1>3. task'["boot"].at \in {"read", "look", "idle", "lock"} /\ container' = container
    <2>1. CASE BootSyncs
      BY <1>1, <2>1 DEF BootSyncs, Task
    <2>2. CASE BootWrites
      <3>1. CASE task' = [task EXCEPT !["boot"] = Idle]
        BY <1>1, <2>2, <3>1 DEF BootWrites, Idle
      <3>2. CASE task' = [task EXCEPT !["boot"].at = "look", !["boot"].rows = {}, !["boot"].ok = FALSE]
        BY <1>1, <2>2, <3>2 DEF BootWrites, Task
      <3> QED  BY <2>2, <3>1, <3>2 DEF BootWrites
    <2>3. ASSUME NEW c \in Copy, BootLooks(c)
          PROVE  task'["boot"].at \in {"look", "lock"} /\ container' = container
      BY <1>1, <2>3 DEF BootLooks, At, Task
    <2> QED  BY <2>1, <2>2, <2>3
  <1>4. lock' = lock \/ lock = "boot"
    BY DEF BootSyncs, BootWrites, BootLooks
  <1> QED  BY <1>1, <1>2, <1>3, <1>4, OneActorKeepsTurns DEF Moving

LEMMA WatchKeepsTurns ==
    ASSUME CopiesTypeOK, LockHeld, NameIsFree,
           \/ WatchBegins \/ WatchWrites \/ Annotate \/ WatchEnds
           \/ \E c \in Copy : Forget(c) \/ Leave(c) \/ Settle(c) \/ StartAgain(c)
    PROVE  (LockHeld /\ NameIsFree)'
  <1>1. /\ "watch" \in Actor /\ "watch" \notin Job
        /\ task \in [Actor -> Task] /\ task["watch"] \in Task
    BY ActorsDiffer DEF CopiesTypeOK
  <1>2. /\ \A b \in Actor \ {"watch"} : task'[b] = task[b]
        /\ container' = container /\ lock' = lock
    BY <1>1 DEF WatchBegins, WatchWrites, Annotate, WatchEnds, Forget, Leave, Settle,
                StartAgain, GoesOn, PassesOver, TakesUp
  <1>3. \/ task'["watch"].at \in {"look", "note", "clear", "idle"}
        \/ task'["watch"].at = "lock" /\ task'["watch"].todo = {task'["watch"].copy}
    <2>1. ASSUME NEW c \in Copy, Looking(c) PROVE LookedAt(c).at = "look" /\ LookedAt(c) \in Task
      BY <1>1, <2>1 DEF Looking, LookedAt, At, Task
    <2>2. ASSUME NEW c \in Copy, NEW step \in Step, Looking(c), TakesUp(c, step)
          PROVE  task'["watch"].at = step /\ task'["watch"].todo = {task'["watch"].copy}
      BY <1>1, <2>1, <2>2 DEF TakesUp, Task
    <2>3. ASSUME NEW c \in Copy, Looking(c), PassesOver(c) PROVE task'["watch"].at = "look"
      BY <1>1, <2>1, <2>3 DEF PassesOver
    <2>4. ASSUME NEW c \in Copy, Forget(c) \/ Leave(c) \/ Settle(c) \/ StartAgain(c)
          PROVE  \/ task'["watch"].at \in {"look", "clear"}
                 \/ task'["watch"].at = "lock" /\ task'["watch"].todo = {task'["watch"].copy}
      <3>1. Looking(c) /\ "clear" \in Step /\ "lock" \in Step
        BY <2>4 DEF Forget, Leave, Settle, StartAgain, Observing, Step
      <3>2. PassesOver(c) \/ TakesUp(c, "clear") \/ TakesUp(c, "lock")
        BY <2>4 DEF Forget, Leave, Settle, StartAgain
      <3> QED  BY <2>2, <2>3, <3>1, <3>2
    <2>5. CASE WatchBegins
      BY <1>1, <2>5 DEF WatchBegins, Idle
    <2>6. CASE WatchWrites
      <3>1. CASE GoesOn
        BY <1>1, <3>1 DEF GoesOn, Task
      <3>2. CASE task' = [task EXCEPT !["watch"].at = "note", !["watch"].rows = {}]
        BY <1>1, <3>2 DEF Task
      <3> QED  BY <2>6, <3>1, <3>2 DEF WatchWrites
    <2>7. CASE Annotate
      BY <1>1, <2>7 DEF Annotate, GoesOn, Task
    <2>8. CASE WatchEnds
      BY <1>1, <2>8 DEF WatchEnds, Idle
    <2> QED  BY <2>4, <2>5, <2>6, <2>7, <2>8
  <1> QED  BY <1>1, <1>2, <1>3, OneActorKeepsTurns DEF Moving

LEMMA StopKeepsTurns ==
    ASSUME CopiesTypeOK, LockHeld, NameIsFree,
           StopBegins \/ ClearRow \/ StopWrites \/ \E c \in Copy : TakeDown(c)
    PROVE  (LockHeld /\ NameIsFree)'
  <1>1. /\ "stop" \in Actor /\ "stop" # "watch" /\ "stop" \notin Job
        /\ task \in [Actor -> Task] /\ task["stop"] \in Task
        /\ container \in [Copy -> {"absent", "running", "exited"}]
    BY ActorsDiffer DEF CopiesTypeOK
  <1>2. (\A b \in Actor \ {"stop"} : task'[b] = task[b]) /\ lock' = lock
    BY <1>1 DEF StopBegins, ClearRow, StopWrites, TakeDown
  <1>3. task'["stop"].at \in {"down", "row", "read", "idle"}
    <2>1. CASE StopBegins
      BY <1>1, <2>1 DEF StopBegins, Idle
    <2>2. CASE ClearRow
      BY <1>1, <2>2 DEF ClearRow, Task
    <2>3. CASE StopWrites
      BY <1>1, <2>3 DEF StopWrites, Idle
    <2>4. ASSUME NEW c \in Copy, TakeDown(c) PROVE task'["stop"].at \in {"row", "idle"}
      <3>1. CASE task' = [task EXCEPT !["stop"] = Idle]
        BY <1>1, <3>1 DEF Idle
      <3>2. CASE task' = [task EXCEPT !["stop"].at = "row", !["stop"].copy = c]
        BY <1>1, <3>2 DEF Task
      <3> QED  BY <2>4, <3>1, <3>2 DEF TakeDown
    <2> QED  BY <2>1, <2>2, <2>3, <2>4
  <1>4. \A c \in Copy : container[c] = "absent" => container'[c] = "absent"
    BY <1>1 DEF StopBegins, ClearRow, StopWrites, TakeDown, PartlyRemoved
  <1> QED  BY <1>1, <1>2, <1>3, <1>4, OneActorKeepsTurns DEF Moving

LEMMA OthersKeepTurns ==
    ASSUME CopiesTypeOK, LockHeld, NameIsFree, Crash \/ \E c \in Copy : Exits(c)
    PROVE  (LockHeld /\ NameIsFree)'
  <1>1. CASE Crash
    <2>1. \A a \in Actor : task'[a].at \in {"look", "lock", "idle"}
      BY <1>1 DEF Crash, Idle
    <2>2. task'["watch"].at = "idle"
      BY <1>1, ActorsDiffer DEF Crash, Idle
    <2> QED  BY <2>1, <2>2, ActorsDiffer DEF LockHeld, NameIsFree, At
  <1>2. ASSUME NEW c \in Copy, Exits(c) PROVE (LockHeld /\ NameIsFree)'
    <2>1. LockHeld'
      BY <1>2 DEF Exits, LockHeld
    <2>2. ASSUME NEW a \in Actor, task'[a].at = "create"
          PROVE  container'[task'[a].copy] = "absent"
      BY <1>2, <2>2 DEF Exits, NameIsFree, At, CopiesTypeOK, Task
    <2> QED  BY <2>1, <2>2 DEF NameIsFree, At
  <1> QED  BY <1>1, <1>2

LEMMA StepsKeepTurns ==
    ASSUME CopiesTypeOK, LockHeld, NameIsFree, [CopiesNext]_vars
    PROVE  (LockHeld /\ NameIsFree)'
  <1>1. CASE UNCHANGED vars
    BY <1>1 DEF LockHeld, NameIsFree, At, vars
  <1>2. ASSUME NEW a \in Actor, Proceeds(a) PROVE (LockHeld /\ NameIsFree)'
    BY <1>2, DeploymentsKeepTurns, JobsKeepTurns, BootKeepsTurns, WatchKeepsTurns, StopKeepsTurns
    DEF Proceeds
  <1>3. ASSUME NEW j \in Job, Press(j) PROVE (LockHeld /\ NameIsFree)'
    BY <1>3, JobsKeepTurns
  <1>4. CASE StopBegins
    BY <1>4, StopKeepsTurns
  <1>5. ASSUME Crash \/ \E c \in Copy : Exits(c) PROVE (LockHeld /\ NameIsFree)'
    BY <1>5, OthersKeepTurns
  <1> QED  BY <1>1, <1>2, <1>3, <1>4, <1>5 DEF CopiesNext

(* Two deployments of a service never meet at a container: when one of them   *)
(* creates a copy's container its name is free, whoever else is at work.      *)
THEOREM NamesAreFree == CopiesSpec => []NameIsFree
  <1>1. CopiesInit => LockHeld /\ NameIsFree
    BY ActorsDiffer DEF CopiesInit, LockHeld, NameIsFree, At, Idle
  <1>2. CopiesTypeOK /\ (LockHeld /\ NameIsFree) /\ [CopiesNext]_vars => (LockHeld /\ NameIsFree)'
    BY StepsKeepTurns
  <1> QED  BY <1>1, <1>2, CopiesTypesHold, PTL DEF CopiesSpec

-----------------------------------------------------------------------------
(* A stop, when nobody is at work beside it.                                  *)

LEMMA OthersAreLeftAlone ==
    ASSUME CopiesTypeOK, NEW a \in Actor, Proceeds(a)
    PROVE  /\ \A b \in Actor \ {a} : task'[b] = task[b]
           /\ a # "stop" => answered' = answered
  <1>1. task \in [Actor -> Task]
    BY DEF CopiesTypeOK
  <1>2. CASE Deploys(a)
    BY <1>1, <1>2 DEF Deploys, Acquire, Create, Record, ReadRows, Remove
  <1>3. CASE a \in Job /\ JobWrites(a)
    BY <1>1, <1>3 DEF JobWrites
  <1>4. CASE a = "boot" /\ (BootSyncs \/ BootWrites \/ \E c \in Copy : BootLooks(c))
    BY <1>1, <1>4 DEF BootSyncs, BootWrites, BootLooks
  <1>5. CASE a = "watch" /\ (\/ WatchBegins \/ WatchWrites \/ Annotate \/ WatchEnds
                             \/ \E c \in Copy : Forget(c) \/ Leave(c) \/ Settle(c) \/ StartAgain(c))
    BY <1>1, <1>5 DEF WatchBegins, WatchWrites, Annotate, WatchEnds, Forget, Leave, Settle,
                      StartAgain, GoesOn, PassesOver, TakesUp
  <1>6. CASE a = "stop" /\ (ClearRow \/ StopWrites \/ \E c \in Copy : TakeDown(c))
    BY <1>1, <1>6 DEF ClearRow, StopWrites, TakeDown
  <1> QED  BY <1>2, <1>3, <1>4, <1>5, <1>6 DEF Proceeds

StopKept == Calm /\ Stopping /\ Stopped /\ StopHolds

(* Before a stop, nothing but its beginning matters.                          *)
LEMMA NoStopYet ==
    ASSUME CopiesTypeOK, ~answered, ~Busy("stop"), CopiesNext, ~StopBegins
    PROVE  ~answered' /\ ~Busy("stop")'
  <1>1. task \in [Actor -> Task] /\ task["stop"].at = "idle"
    BY DEF CopiesTypeOK, Busy, At
  <1>2. ASSUME NEW a \in Actor, Proceeds(a) PROVE ~answered' /\ ~Busy("stop")'
    <2>1. a # "stop"
      <3>1. ASSUME a = "stop", NEW c \in Copy, Remove(a, c) \/ TakeDown(c) PROVE FALSE
        BY <1>1, <3>1 DEF Remove, TakeDown, At
      <3> QED  BY <1>1, <1>2, <3>1, ActorsDiffer
               DEF Proceeds, Deploys, Acquire, Create, Record, ReadRows, ClearRow, StopWrites, At
    <2> QED  BY <1>2, <2>1, OthersAreLeftAlone DEF Busy, At
  <1>3. ASSUME NEW j \in Job, Press(j) PROVE ~answered' /\ ~Busy("stop")'
    BY <1>1, <1>3, ActorsDiffer DEF Press, Busy, At
  <1>4. ASSUME NEW c \in Copy, Exits(c) PROVE ~answered' /\ ~Busy("stop")'
    BY <1>4 DEF Exits, Busy, At
  <1>5. CASE Crash
    BY <1>5, ActorsDiffer DEF Crash, Busy, At, Idle
  <1> QED  BY <1>2, <1>3, <1>4, <1>5 DEF CopiesNext

LEMMA BeginningKeepsStop ==
    ASSUME CopiesTypeOK, Beside = {}, StopBegins
    PROVE  StopKept'
  <1>1. task \in [Actor -> Task] /\ \A a \in Actor : task[a].at = "idle"
    BY DEF CopiesTypeOK, StopBegins, Busy, At
  <1>2. /\ task'["stop"].at = "down" /\ task'["stop"].todo = Copy
        /\ \A a \in Actor \ {"stop"} : task'[a].at = "idle"
        /\ wanted' = "stopped" /\ ~answered'
    BY <1>1 DEF StopBegins, Idle
  <1>3. Calm' /\ Stopping'
    BY <1>2, ActorsDiffer DEF Calm, Stopping, Busy, At
  <1> QED  BY <1>2, <1>3 DEF StopKept, Stopped, StopHolds

(* From a stop's beginning nobody starts anything.                            *)
LEMMA NobodyStarts ==
    ASSUME CopiesTypeOK, StopKept, answered \/ Busy("stop"), NEW a \in Actor, Proceeds(a)
    PROVE  \/ a = "boot" /\ (ReadRows(a) \/ BootSyncs \/ BootWrites \/ \E c \in Copy : BootLooks(c))
           \/ a = "watch" /\ (WatchBegins \/ WatchEnds \/ \E c \in Copy : Forget(c))
           \/ a = "stop" /\ (ReadRows(a) \/ ClearRow \/ StopWrites \/ \E c \in Copy : TakeDown(c))
  <1>1. /\ \A j \in Job : task[j].at = "idle"
        /\ task["boot"].at \in {"idle", "look", "read", "write"}
        /\ task["watch"].at \in {"idle", "look"}
        /\ task["stop"].at \in {"idle", "down", "row", "read", "write"}
        /\ task["watch"].at # "idle" => task["watch"].meant = "stopped"
    BY DEF StopKept, Calm, Stopping, Busy, At
  <1>2. task[a].at \notin {"lock", "remove", "create", "took", "failed"}
    BY <1>1
  <1>3. Deploys(a) => ReadRows(a)
    BY <1>2 DEF Deploys, Acquire, Create, Record, Remove, At
  <1>4. a \notin Job
    BY <1>1, <1>3, ActorsDiffer DEF Proceeds, JobWrites, ReadRows, At
  <1>5. a = "watch" => ~ReadRows(a) /\ ~WatchWrites /\ ~Annotate
    BY <1>1 DEF ReadRows, WatchWrites, Annotate, At
  <1>6. \A c \in Copy : ~Leave(c) /\ ~Settle(c) /\ ~StartAgain(c)
    BY <1>1 DEF Leave, Settle, StartAgain, Observing, Looking, At
  <1> QED  BY <1>3, <1>4, <1>5, <1>6 DEF Proceeds

LEMMA BootKeepsStop ==
    ASSUME CopiesTypeOK, StopKept, answered \/ Busy("stop"),
           ReadRows("boot") \/ BootSyncs \/ BootWrites \/ \E c \in Copy : BootLooks(c)
    PROVE  StopKept'
  <1> DEFINE b == task["boot"]
  <1>1. /\ "boot" \in Actor /\ "watch" \in Actor /\ "stop" \in Actor /\ "boot" \notin Job
        /\ Job \subseteq Actor /\ task \in [Actor -> Task] /\ b \in Task
    BY ActorsDiffer DEF CopiesTypeOK
  <1>2. b.at # "idle"
    BY DEF ReadRows, BootSyncs, BootWrites, BootLooks, At
  <1>3. answered /\ ~Busy("stop") /\ b.meant = "stopped" /\ address = {} /\ wanted = "stopped"
    BY <1>2 DEF StopKept, Calm, Stopping, StopHolds, Busy, At
  <1>4. /\ \A a \in Actor \ {"boot"} : task'[a] = task[a]
        /\ wanted' = wanted /\ container' = container /\ address' = address /\ answered' = answered
    BY <1>1 DEF ReadRows, BootSyncs, BootWrites, BootLooks, rows
  <1>5. /\ task'["boot"].at \in {"idle", "look", "read", "write"}
        /\ task'["boot"].at # "idle" => task'["boot"].meant = "stopped"
        /\ task'["boot"].at = "write" => task'["boot"].rows = {}
        /\ route' = {}
    <2>1. route = {}
      BY <1>3 DEF StopKept, StopHolds
    <2>2. CASE ReadRows("boot")
      BY <1>1, <1>3, <2>1, <2>2 DEF ReadRows, Task
    <2>3. CASE BootSyncs
      BY <1>1, <1>3, <2>1, <2>3 DEF BootSyncs, Task
    <2>4. CASE BootWrites
      <3>1. route' = {}
        BY <1>3, <2>4 DEF BootWrites, StopKept, Stopped
      <3>2. CASE task' = [task EXCEPT !["boot"] = Idle]
        BY <1>1, <3>1, <3>2 DEF Idle
      <3>3. CASE task' = [task EXCEPT !["boot"].at = "look", !["boot"].rows = {}, !["boot"].ok = FALSE]
        BY <1>1, <1>3, <3>1, <3>3 DEF Task
      <3> QED  BY <2>4, <3>2, <3>3 DEF BootWrites
    <2>5. ASSUME NEW c \in Copy, BootLooks(c)
          PROVE  /\ task'["boot"].at = "look" /\ task'["boot"].meant = "stopped"
                 /\ route' = route
      BY <1>1, <1>3, <2>5 DEF BootLooks, At, Task
    <2> QED  BY <2>1, <2>2, <2>3, <2>4, <2>5
  <1>6. Calm'
    BY <1>1, <1>3, <1>4, <1>5 DEF StopKept, Calm, Busy, At
  <1>7. Stopping' /\ Stopped'
    BY <1>1, <1>3, <1>4, <1>5 DEF Stopping, Stopped, Busy, At
  <1>8. StopHolds'
    BY <1>3, <1>4, <1>5 DEF StopKept, StopHolds
  <1> QED  BY <1>6, <1>7, <1>8 DEF StopKept

LEMMA WatchKeepsStop ==
    ASSUME CopiesTypeOK, StopKept, answered \/ Busy("stop"),
           WatchBegins \/ WatchEnds \/ \E c \in Copy : Forget(c)
    PROVE  StopKept'
  <1>1. /\ "boot" \in Actor /\ "watch" \in Actor /\ "stop" \in Actor /\ "watch" \notin Job
        /\ Job \subseteq Actor /\ task \in [Actor -> Task] /\ task["watch"] \in Task
    BY ActorsDiffer DEF CopiesTypeOK
  <1>2. /\ \A a \in Actor \ {"watch"} : task'[a] = task[a]
        /\ wanted' = wanted /\ container' = container /\ address' = address
        /\ route' = route /\ answered' = answered
    BY <1>1 DEF WatchBegins, WatchEnds, Forget, PassesOver, rows
  <1>3. /\ task'["watch"].at \in {"idle", "look"}
        /\ task'["watch"].at # "idle" => task'["watch"].meant = "stopped"
    <2>1. wanted = "stopped"
      BY DEF StopKept, Calm
    <2>2. CASE WatchBegins
      <3>1. task' = [task EXCEPT !["watch"] = [Idle EXCEPT
                       !.at = "look", !.left = Copy, !.meant = wanted,
                       !.deployed = address, !.noted = {c \in Copy : reason[c] = "note"}]]
        BY <2>2, Zenon DEF WatchBegins
      <3> QED  BY <1>1, <2>1, <3>1 DEF Idle
    <2>3. CASE WatchEnds
      BY <1>1, <2>3 DEF WatchEnds, Idle
    <2>4. ASSUME NEW c \in Copy, Forget(c)
          PROVE  task'["watch"].at = "look" /\ task'["watch"].meant = "stopped"
      BY <1>1, <2>4 DEF Forget, Looking, At, PassesOver, LookedAt, Task
    <2> QED  BY <2>2, <2>3, <2>4
  <1>4. Calm'
    BY <1>1, <1>2, <1>3 DEF StopKept, Calm, Busy, At
  <1>5. Stopping' /\ Stopped' /\ StopHolds'
    BY <1>1, <1>2 DEF StopKept, Stopping, Stopped, StopHolds, Taken, Busy, At
  <1> QED  BY <1>4, <1>5 DEF StopKept

LEMMA StopKeepsStop ==
    ASSUME CopiesTypeOK, StopKept, answered \/ Busy("stop"),
           ReadRows("stop") \/ ClearRow \/ StopWrites \/ \E c \in Copy : TakeDown(c)
    PROVE  StopKept'
  <1> DEFINE d == task["stop"]
  <1>1. /\ "boot" \in Actor /\ "watch" \in Actor /\ "stop" \in Actor /\ "stop" \notin Job
        /\ Job \subseteq Actor /\ task \in [Actor -> Task]
        /\ d \in Task /\ d.todo \in SUBSET Copy /\ d.copy \in Copy
        /\ container \in [Copy -> {"absent", "running", "exited"}]
    BY ActorsDiffer DEF CopiesTypeOK, Task
  <1>2. Busy("stop")
    BY DEF ReadRows, ClearRow, StopWrites, TakeDown, Busy, At
  <1>3. /\ ~answered /\ task["boot"].at = "idle"
        /\ \A c \in Copy \ d.todo : Taken(c)
    BY <1>2 DEF StopKept, Stopping, At
  <1>4. /\ \A a \in Actor \ {"stop"} : task'[a] = task[a]
        /\ wanted' = wanted
    BY <1>1 DEF ReadRows, ClearRow, StopWrites, TakeDown, rows
  <1>5. Calm'
    BY <1>1, <1>2, <1>4 DEF StopKept, Calm, Busy, At
  <1>6. CASE ReadRows("stop")
    <2>1. /\ task'["stop"].at = "write" /\ task'["stop"].todo = d.todo
          /\ task'["stop"].rows = address
          /\ ~answered' /\ container' = container /\ address' = address
      BY <1>1, <1>3, <1>6 DEF ReadRows, rows, Task
    <2>2. d.todo = {}
      BY <1>2, <1>6 DEF StopKept, Stopping, ReadRows, At
    <2>3. address = {}
      BY <1>3, <2>2 DEF Taken, CopiesTypeOK
    <2>4. Stopping'
      BY <1>1, <1>3, <1>4, <2>1, <2>2, <2>3 DEF Stopping, Taken, Busy, At
    <2> QED  BY <1>5, <2>1, <2>4 DEF StopKept, Stopped, StopHolds
  <1>7. CASE ClearRow
    <2>1. /\ task'["stop"].todo = d.todo \ {d.copy}
          /\ task'["stop"].at = IF d.todo \ {d.copy} = {} THEN "read" ELSE "down"
          /\ ~answered' /\ container' = container /\ address' = address \ {d.copy}
          /\ d.at = "row"
      BY <1>1, <1>3, <1>7 DEF ClearRow, At, Task
    <2>2. container[d.copy] # "running"
      BY <1>2, <2>1 DEF StopKept, Stopping, At
    <2>3. \A c \in Copy \ task'["stop"].todo : Taken(c)'
      BY <1>3, <2>1, <2>2 DEF Taken
    <2>4. Stopping'
      BY <1>1, <1>3, <1>4, <2>1, <2>3 DEF Stopping, Busy, At
    <2> QED  BY <1>5, <2>1, <2>4 DEF StopKept, Stopped, StopHolds
  <1>8. CASE StopWrites
    <2>1. /\ task'["stop"].at = "idle" /\ route' = d.rows
          /\ container' = container /\ address' = address
          /\ d.at = "write"
      BY <1>1, <1>8 DEF StopWrites, At, Idle, rows
    <2>2. d.todo = {} /\ d.rows = {}
      BY <1>2, <2>1 DEF StopKept, Stopping, At
    <2>3. StopHolds'
      BY <1>3, <2>1, <2>2 DEF StopHolds, Taken, CopiesTypeOK
    <2>4. Stopping' /\ Stopped'
      BY <1>1, <1>3, <1>4, <2>1 DEF Stopping, Stopped, Busy, At
    <2> QED  BY <1>5, <2>3, <2>4 DEF StopKept
  <1>9. ASSUME NEW c \in Copy, TakeDown(c) PROVE StopKept'
    <2>1. ~answered' /\ address' = address /\ d.at = "down"
      BY <1>3, <1>9 DEF TakeDown, At, rows
    <2>2. CASE task' = [task EXCEPT !["stop"] = Idle]
      <3>1. task'["stop"].at = "idle"
        BY <1>1, <2>2 DEF Idle
      <3> QED  BY <1>5, <2>1, <3>1 DEF StopKept, Stopping, Stopped, StopHolds, Busy, At
    <2>3. CASE /\ task' = [task EXCEPT !["stop"].at = "row", !["stop"].copy = c]
               /\ container' = [container EXCEPT ![c] = "absent"]
      <3>1. /\ task'["stop"].at = "row" /\ task'["stop"].todo = d.todo
            /\ task'["stop"].copy = c /\ container'[c] # "running"
            /\ \A x \in Copy : container[x] # "running" => container'[x] # "running"
        BY <1>1, <2>3 DEF Task
      <3>2. \A x \in Copy \ task'["stop"].todo : Taken(x)'
        BY <1>3, <2>1, <3>1 DEF Taken
      <3>3. Stopping'
        BY <1>1, <1>3, <1>4, <2>1, <3>1, <3>2 DEF Stopping, Busy, At
      <3> QED  BY <1>5, <2>1, <3>3 DEF StopKept, Stopped, StopHolds
    <2> QED  BY <1>9, <2>2, <2>3 DEF TakeDown
  <1> QED  BY <1>6, <1>7, <1>8, <1>9

LEMMA OthersKeepStop ==
    ASSUME CopiesTypeOK, StopKept, answered \/ Busy("stop"), Crash \/ \E c \in Copy : Exits(c)
    PROVE  StopKept'
  <1>1. ASSUME NEW c \in Copy, Exits(c) PROVE StopKept'
    <2>1. /\ wanted' = wanted /\ address' = address /\ route' = route
          /\ task' = task /\ answered' = answered
          /\ \A x \in Copy : container[x] # "running" => container'[x] # "running"
      BY <1>1 DEF Exits, CopiesTypeOK, rows
    <2>2. Calm' /\ Stopped'
      BY <2>1 DEF StopKept, Calm, Stopped, Busy, At
    <2>3. Stopping' /\ StopHolds'
      <3>1. task["stop"].copy \in Copy
        BY ActorsDiffer DEF CopiesTypeOK, Task
      <3> QED  BY <2>1, <3>1 DEF StopKept, Stopping, StopHolds, Taken, Busy, At
    <2> QED  BY <2>2, <2>3 DEF StopKept
  <1>2. CASE Crash
    <2> DEFINE t == [Idle EXCEPT !.at = "look", !.left = Copy, !.meant = wanted]
    <2>1. wanted = "stopped" /\ \A j \in Job : ~Busy(j)
      BY DEF StopKept, Calm, Busy
    <2>2. t.at = "look" /\ t.meant = "stopped" /\ Idle.at = "idle"
      BY <2>1 DEF Idle
    <2>3. task' = [a \in Actor |-> IF a = "boot" THEN t
                                   ELSE IF a \in Job /\ Busy(a) THEN [Idle EXCEPT !.at = "lock"]
                                   ELSE Idle]
      BY <1>2, Zenon DEF Crash
    <2> HIDE DEF t
    <2>4. task'["boot"] = t /\ \A a \in Actor \ {"boot"} : task'[a].at = "idle"
      BY <2>1, <2>2, <2>3, ActorsDiffer
    <2>5. /\ wanted' = wanted /\ address' = address /\ route' = route
          /\ answered' = answered /\ container' = container
      BY <1>2 DEF Crash, rows
    <2>6. Calm' /\ Stopping' /\ Stopped'
      BY <2>1, <2>2, <2>4, <2>5, ActorsDiffer DEF Calm, Stopping, Stopped, Busy, At
    <2> QED  BY <2>5, <2>6 DEF StopKept, StopHolds
  <1> QED  BY <1>1, <1>2

LEMMA StepsKeepStop ==
    ASSUME CopiesTypeOK, Beside = {}, StopKept, [CopiesNext]_vars
    PROVE  StopKept'
  <1>1. CASE UNCHANGED vars
    BY <1>1 DEF StopKept, Calm, Stopping, Stopped, StopHolds, Taken, Busy, At, vars, rows
  <1>2. CASE StopBegins
    BY <1>2, BeginningKeepsStop
  <1>3. CASE CopiesNext /\ ~StopBegins /\ ~answered /\ ~Busy("stop")
    BY <1>3, NoStopYet DEF StopKept, Calm, Stopping, Stopped, StopHolds
  <1>4. CASE CopiesNext /\ ~StopBegins /\ (answered \/ Busy("stop"))
    <2>1. ASSUME NEW a \in Actor, Proceeds(a) PROVE StopKept'
      BY <1>4, <2>1, NobodyStarts, BootKeepsStop, WatchKeepsStop, StopKeepsStop
    <2>2. ASSUME NEW j \in Job, Press(j) PROVE StopKept'
      <3>1. ~answered' /\ ~Busy("stop")'
        BY <2>2, ActorsDiffer DEF Press, Busy, At, CopiesTypeOK
      <3> QED  BY <3>1 DEF StopKept, Calm, Stopping, Stopped, StopHolds
    <2> QED  BY <1>4, <2>1, <2>2, OthersKeepStop DEF CopiesNext
  <1> QED  BY <1>1, <1>2, <1>3, <1>4

(* A stop that was answered holds, through exits, the passes of the watch and *)
(* any number of starts, as long as stops and deployments do not overlap. The *)
(* assumption is needed: with `Beside` a pass TLC finds the stop undone.      *)
THEOREM AnsweredStopsHold ==
    ASSUME Beside = {}
    PROVE  CopiesSpec => []StopHolds
  <1>1. CopiesInit => StopKept
    BY ActorsDiffer DEF CopiesInit, StopKept, Calm, Stopping, Stopped, StopHolds, Busy, At, Idle
  <1>2. CopiesTypeOK /\ StopKept /\ [CopiesNext]_vars => StopKept'
    BY StepsKeepStop
  <1>3. StopKept => StopHolds
    BY DEF StopKept
  <1> QED  BY <1>1, <1>2, <1>3, CopiesTypesHold, PTL DEF CopiesSpec
=============================================================================
