------------------------------- MODULE Copies -------------------------------
(* The copies of one service on one node, and everything that moves them:    *)
(* the deployments queued as jobs, the pass over the rows at a start, the    *)
(* watch that starts again what stopped on its own, and a stop. All but the  *)
(* stop take turns on the service's lock while they move a container.        *)
(*                                                                           *)
(* The service is not a database, has an image, and is placed here. Calls to *)
(* containerd may fail; the node's own database does not.                    *)
EXTENDS Naturals, FiniteSets

CONSTANTS
    Copy,           \* the service's copies here
    First,          \* the one in the lowest slot
    Job,            \* deployments that may be queued at once
    Pinned,         \* those of them that name a release
    MaxPresses,     \* bound: deployments asked for
    MaxStops,       \* bound: stops asked for
    MaxExits,       \* bound: containers that end on their own
    MaxFaults,      \* bound: calls containerd refuses and processes that end
    Beside          \* who may be at work while a stop is

ASSUME CopyAssumption == First \in Copy /\ IsFiniteSet(Copy)
ASSUME JobAssumption ==
    /\ Pinned \subseteq Job
    /\ Job \cap {"boot", "watch", "stop", "nobody"} = {}

ASSUME BoundAssumption ==
    /\ MaxPresses \in Nat /\ MaxStops \in Nat /\ MaxExits \in Nat /\ MaxFaults \in Nat

Retries == 2
Actor == Job \cup {"boot", "watch", "stop"}

VARIABLES
    wanted,         \* service.desired_state
    container,      \* what containerd holds of each copy
    address,        \* the copies whose row has an address
    reason,         \* replica.last_error
    route,          \* the copies the edge sends requests to
    lock,           \* who holds the service's lock
    episode,        \* Restarts.episodes: copies being started again
    tries,          \* how often a queued deployment failed
    task,           \* what each actor is doing
    answered,       \* history: a stop was answered, and no deployment
                    \* or stop was asked for since
    presses, stops, exits, faults

rows == <<wanted, address, reason>>
counters == <<presses, stops, exits, faults>>
vars == <<rows, container, route, lock, episode, tries, task, answered, counters>>

(* A task: where it is; the copies a pass has still to look at and those a   *)
(* deployment has still to put up; the one in hand; what was read, once,     *)
(* when it began; the rows it read for the routes; and how it went.          *)
Step == {"idle", "look", "lock", "remove", "create", "took", "failed",
         "read", "write", "note", "clear", "down", "row"}
Task == [at : Step, left : SUBSET Copy, todo : SUBSET Copy, copy : Copy,
         meant : {"running", "stopped"}, deployed : SUBSET Copy, noted : SUBSET Copy,
         rows : SUBSET Copy, ok : BOOLEAN]
Idle == [at |-> "idle", left |-> {}, todo |-> {}, copy |-> First, meant |-> "stopped",
         deployed |-> {}, noted |-> {}, rows |-> {}, ok |-> FALSE]

CopiesInit ==
    /\ wanted = "running"
    /\ container = [c \in Copy |-> "absent"]
    /\ address = {}
    /\ reason = [c \in Copy |-> "none"]
    /\ route = {}
    /\ lock = "nobody"
    /\ episode = {}
    /\ tries = [j \in Job |-> 0]
    /\ task = [a \in Actor |-> Idle]
    /\ answered = FALSE
    /\ presses = 0 /\ stops = 0 /\ exits = 0 /\ faults = 0

At(a, step) == task[a].at = step
Busy(a) == ~At(a, "idle")

(* Faults are counted; without one the step succeeds. *)
Faulty == faults < MaxFaults /\ faults' = faults + 1

(* A removal goes task, container, snapshot, and may end anywhere between.   *)
PartlyRemoved(c) ==
    \/ UNCHANGED container
    \/ /\ container[c] # "absent"
       /\ \E left \in {"exited", "absent"} : container' = [container EXCEPT ![c] = left]

-----------------------------------------------------------------------------
(* A deployment, whoever makes it.                                           *)

(* Somebody asks for one; the job waits in the database.                     *)
Press(j) ==
    /\ At(j, "idle") /\ presses < MaxPresses
    /\ j \in Beside \/ ~Busy("stop")
    /\ presses' = presses + 1
    /\ answered' = FALSE
    /\ task' = [task EXCEPT ![j] = [Idle EXCEPT !.at = "lock"]]
    /\ UNCHANGED <<rows, container, route, lock, episode, tries, stops, exits, faults>>

(* Faulty: the lock is taken without waiting for it. *)
AcquireAnyway(a) ==
    /\ At(a, "lock")
    /\ lock' = a
    /\ task' = [task EXCEPT ![a].at = "remove", ![a].todo = IF a = "watch" THEN @ ELSE Copy]
    /\ wanted' = IF a = "watch" THEN wanted ELSE "running"
    /\ UNCHANGED <<container, address, reason, route, episode, tries, answered, counters>>

(* The lock, and the intent with it. The watch restarts one copy and states  *)
(* none.                                                                     *)
Acquire(a) ==
    /\ At(a, "lock") /\ lock = "nobody"
    /\ lock' = a
    /\ IF a = "watch"
       THEN /\ task' = [task EXCEPT ![a].at = "remove"]
            /\ UNCHANGED wanted
       ELSE /\ task' = [task EXCEPT ![a].at = "remove", ![a].todo = Copy, ![a].ok = FALSE]
            /\ wanted' = "running"
    /\ UNCHANGED <<container, address, reason, route, episode, tries, answered, counters>>

(* What was there goes first: its task, its container, its snapshot.         *)
Remove(a, c) ==
    /\ At(a, "remove") /\ c \in task[a].todo
    /\ \/ /\ container' = [container EXCEPT ![c] = "absent"]
          /\ task' = [task EXCEPT ![a].at = "create", ![a].copy = c]
          /\ UNCHANGED faults
       \/ /\ Faulty
          /\ task' = [task EXCEPT ![a].at = "failed", ![a].copy = c]
          /\ PartlyRemoved(c)
    /\ UNCHANGED <<rows, route, lock, episode, tries, answered, presses, stops, exits>>

(* containerd refuses a container whose name is taken. A failure leaves what *)
(* came before it: nothing, a container that never started, or one that runs *)
(* and could not be asked about.                                             *)
Create(a) ==
    LET c == task[a].copy IN
    /\ At(a, "create")
    /\ \/ /\ container[c] = "absent"
          /\ container' = [container EXCEPT ![c] = "running"]
          /\ task' = [task EXCEPT ![a].at = "took"]
          /\ UNCHANGED faults
       \/ /\ container[c] = "absent" /\ Faulty
          /\ \E left \in {"absent", "exited", "running"} :
                 container' = [container EXCEPT ![c] = left]
          /\ task' = [task EXCEPT ![a].at = "failed"]
       \/ /\ container[c] # "absent"
          /\ task' = [task EXCEPT ![a].at = "failed"]
          /\ UNCHANGED <<container, faults>>
    /\ UNCHANGED <<rows, route, lock, episode, tries, answered, presses, stops, exits>>

(* How it went, on the copy's row. A deployment went well when its first     *)
(* copy is up; the watch lets go of the lock here, before the routes.        *)
Record(a) ==
    LET c == task[a].copy
        up == At(a, "took")
        rest == task[a].todo \ {c}
    IN
    /\ At(a, "took") \/ At(a, "failed")
    /\ address' = IF up THEN address \cup {c} ELSE address \ {c}
    /\ reason' = [reason EXCEPT ![c] = IF up THEN "none" ELSE "failure"]
    /\ lock' = IF a = "watch" THEN "nobody" ELSE lock
    /\ task' = [task EXCEPT
                   ![a].todo = rest,
                   ![a].at = IF rest = {} THEN "read" ELSE "remove",
                   ![a].copy = IF a = "watch" THEN c ELSE First,
                   ![a].ok = @ \/ (up /\ (a = "watch" \/ c = First))]
    /\ UNCHANGED <<wanted, container, route, episode, tries, answered, counters>>

(* The routes are made from rows read a moment earlier.                      *)
ReadRows(a) ==
    /\ At(a, "read")
    /\ task' = [task EXCEPT ![a].at = "write", ![a].rows = address]
    /\ UNCHANGED <<rows, container, route, lock, episode, tries, answered, counters>>

(* A job that failed is tried again, unless it names a release.              *)
JobWrites(j) ==
    LET again == ~task[j].ok /\ j \notin Pinned /\ tries[j] < Retries IN
    /\ At(j, "write")
    /\ route' = task[j].rows
    /\ lock' = "nobody"
    /\ tries' = [tries EXCEPT ![j] = IF again THEN @ + 1 ELSE 0]
    /\ task' = [task EXCEPT ![j] = [Idle EXCEPT !.at = IF again THEN "lock" ELSE "idle"]]
    /\ UNCHANGED <<rows, container, episode, answered, counters>>

-----------------------------------------------------------------------------
(* The pass at a start: `reconcile`. It looks without the lock.              *)

(* Faulty: the start's pass does not ask what the service should be. *)
BootLooksAtAll(c) ==
    /\ At("boot", "look") /\ c \in task["boot"].left
    /\ task' = [task EXCEPT !["boot"].left = @ \ {c}, !["boot"].at = "lock"]
    /\ UNCHANGED <<rows, container, route, lock, episode, tries, answered, counters>>

(* The service is what it was when the pass began.                           *)
BootLooks(c) ==
    /\ At("boot", "look") /\ c \in task["boot"].left
    /\ \/ \* Not wanted, running as the rows say, or containerd cannot say.
          /\ \/ (task["boot"].meant = "stopped" \/ container[c] = "running") /\ UNCHANGED faults
             \/ Faulty
          /\ task' = [task EXCEPT !["boot"].left = @ \ {c}]
       \/ \* Not running, or running with what the rows no longer say.
          /\ task["boot"].meant = "running" /\ UNCHANGED faults
          /\ task' = [task EXCEPT !["boot"].left = @ \ {c}, !["boot"].at = "lock"]
    /\ UNCHANGED <<rows, container, route, lock, episode, tries, answered,
                   presses, stops, exits>>

(* Always, not only when something was started.                              *)
BootSyncs ==
    /\ At("boot", "look") /\ task["boot"].left = {}
    /\ task' = [task EXCEPT !["boot"].at = "read"]
    /\ UNCHANGED <<rows, container, route, lock, episode, tries, answered, counters>>

BootWrites ==
    /\ At("boot", "write")
    /\ route' = task["boot"].rows
    /\ IF lock = "boot"
       THEN /\ lock' = "nobody"
            /\ task' = [task EXCEPT !["boot"].at = "look", !["boot"].rows = {}, !["boot"].ok = FALSE]
       ELSE lock' = lock /\ task' = [task EXCEPT !["boot"] = Idle]
    /\ UNCHANGED <<rows, container, episode, tries, answered, counters>>

-----------------------------------------------------------------------------
(* The watch: every ten seconds, one pass.                                   *)

(* Reads everything once. It waits thirty seconds for the start's pass,      *)
(* which may take longer.                                                    *)
WatchBegins ==
    /\ At("watch", "idle")
    /\ task' = [task EXCEPT !["watch"] =
                  [Idle EXCEPT !.at = "look", !.left = Copy, !.meant = wanted,
                               !.deployed = address,
                               !.noted = {c \in Copy : reason[c] = "note"}]]
    /\ UNCHANGED <<rows, container, route, lock, episode, tries, answered, counters>>

Looking(c) == At("watch", "look") /\ c \in task["watch"].left
Observing(c) == Looking(c) /\ task["watch"].meant = "running" /\ lock = "nobody"

(* On to the next copy, or first to do something about this one.             *)
LookedAt(c) == [task["watch"] EXCEPT !.left = @ \ {c}, !.deployed = @ \ {c}, !.noted = @ \ {c}]
PassesOver(c) == task' = [task EXCEPT !["watch"] = LookedAt(c)]
TakesUp(c, step) ==
    task' = [task EXCEPT !["watch"] = [LookedAt(c) EXCEPT !.at = step, !.copy = c, !.todo = {c}]]
GoesOn == task' = [task EXCEPT !["watch"] =
                     [@ EXCEPT !.at = "look", !.copy = First, !.todo = {}, !.rows = {}, !.ok = FALSE]]

Forget(c) ==
    /\ Looking(c) /\ task["watch"].meant = "stopped"
    /\ episode' = episode \ {c}
    /\ PassesOver(c)
    /\ UNCHANGED <<rows, container, route, lock, tries, answered, counters>>

(* A deployment has the lock, containerd does not answer, the copy is not up *)
(* for long enough, its wait is not over, or its last deployment failed.     *)
Leave(c) ==
    /\ Looking(c) /\ task["watch"].meant = "running"
    /\ PassesOver(c)
    /\ UNCHANGED <<rows, container, route, lock, episode, tries, answered, counters>>

(* Faulty: only a copy whose restart is remembered is settled. *)
SettleIfRemembered(c) ==
    /\ Observing(c) /\ container[c] = "running" /\ c \in episode
    /\ episode' = episode \ {c}
    /\ IF c \in task["watch"].noted THEN TakesUp(c, "clear") ELSE PassesOver(c)
    /\ UNCHANGED <<rows, container, route, lock, tries, answered, counters>>

(* Up for ten minutes: its stops are forgotten, and so is their note.        *)
Settle(c) ==
    /\ Observing(c) /\ container[c] = "running"
    /\ episode' = episode \ {c}
    /\ IF c \in task["watch"].noted THEN TakesUp(c, "clear") ELSE PassesOver(c)
    /\ UNCHANGED <<rows, container, route, lock, tries, answered, counters>>

(* Faulty: a start that failed ends the episode it was part of. *)
RestartableIfDeployed(c) == c \in task["watch"].deployed

(* What a copy's last deployment left is asked of the rows as they were when *)
(* the pass began.                                                           *)
Restartable(c) == c \in task["watch"].deployed \/ c \in episode
StartAgain(c) ==
    /\ Observing(c) /\ container[c] # "running" /\ Restartable(c)
    /\ episode' = episode \cup {c}
    /\ TakesUp(c, "lock")
    /\ UNCHANGED <<rows, container, route, lock, tries, answered, counters>>

WatchWrites ==
    /\ At("watch", "write")
    /\ route' = task["watch"].rows
    /\ IF task["watch"].ok
       THEN task' = [task EXCEPT !["watch"].at = "note", !["watch"].rows = {}]
       ELSE GoesOn
    /\ UNCHANGED <<rows, container, lock, episode, tries, answered, counters>>

Annotate ==
    /\ At("watch", "note") \/ At("watch", "clear")
    /\ reason' = [reason EXCEPT ![task["watch"].copy] =
                     IF At("watch", "note") THEN "note" ELSE "none"]
    /\ GoesOn
    /\ UNCHANGED <<wanted, address, container, route, lock, episode, tries, answered, counters>>

WatchEnds ==
    /\ At("watch", "look") /\ task["watch"].left = {}
    /\ task' = [task EXCEPT !["watch"] = Idle]
    /\ UNCHANGED <<rows, container, route, lock, episode, tries, answered, counters>>

-----------------------------------------------------------------------------
(* A stop: the intent first, then each copy, without the lock.               *)

StopBegins ==
    /\ At("stop", "idle") /\ stops < MaxStops
    /\ \A a \in Actor \ Beside : ~Busy(a)
    /\ stops' = stops + 1
    /\ wanted' = "stopped"
    /\ answered' = FALSE
    /\ task' = [task EXCEPT !["stop"] = [Idle EXCEPT !.at = "down", !.todo = Copy]]
    /\ UNCHANGED <<address, reason, container, route, lock, episode, tries,
                   presses, exits, faults>>

(* Stopped and removed. The first refusal ends the stop, with an error.      *)
TakeDown(c) ==
    /\ At("stop", "down") /\ c \in task["stop"].todo
    /\ \/ /\ container' = [container EXCEPT ![c] = "absent"]
          /\ task' = [task EXCEPT !["stop"].at = "row", !["stop"].copy = c]
          /\ UNCHANGED faults
       \/ /\ Faulty
          /\ task' = [task EXCEPT !["stop"] = Idle]
          /\ PartlyRemoved(c)
    /\ UNCHANGED <<rows, route, lock, episode, tries, answered, presses, stops, exits>>

ClearRow ==
    LET c == task["stop"].copy
        rest == task["stop"].todo \ {c}
    IN
    /\ At("stop", "row")
    /\ address' = address \ {c}
    /\ reason' = [reason EXCEPT ![c] = "none"]
    /\ task' = [task EXCEPT !["stop"].todo = rest, !["stop"].copy = First,
                            !["stop"].at = IF rest = {} THEN "read" ELSE "down"]
    /\ UNCHANGED <<wanted, container, route, lock, episode, tries, answered, counters>>

StopWrites ==
    /\ At("stop", "write")
    /\ route' = task["stop"].rows
    /\ answered' = TRUE
    /\ task' = [task EXCEPT !["stop"] = Idle]
    /\ UNCHANGED <<rows, container, lock, episode, tries, counters>>

-----------------------------------------------------------------------------
(* A container ends; the process ends and starts. Containers outlive it,     *)
(* what it was doing does not, except the jobs: they are in the database.    *)

Exits(c) ==
    /\ container[c] = "running" /\ exits < MaxExits
    /\ exits' = exits + 1
    /\ container' = [container EXCEPT ![c] = "exited"]
    /\ UNCHANGED <<rows, route, lock, episode, tries, task, answered, presses, stops, faults>>

Crash ==
    /\ Faulty
    /\ lock' = "nobody"
    /\ episode' = {}
    /\ task' = [a \in Actor |->
                  IF a = "boot" THEN [Idle EXCEPT !.at = "look", !.left = Copy, !.meant = wanted]
                  ELSE IF a \in Job /\ Busy(a) THEN [Idle EXCEPT !.at = "lock"]
                  ELSE Idle]
    /\ UNCHANGED <<rows, container, route, tries, answered, presses, stops, exits>>

-----------------------------------------------------------------------------
Deploys(a) ==
    \/ Acquire(a) \/ Create(a) \/ Record(a) \/ ReadRows(a)
    \/ \E c \in Copy : Remove(a, c)

Proceeds(a) ==
    \/ Deploys(a)
    \/ a \in Job /\ JobWrites(a)
    \/ a = "boot" /\ (BootSyncs \/ BootWrites \/ \E c \in Copy : BootLooks(c))
    \/ a = "watch" /\ (\/ WatchBegins \/ WatchWrites \/ Annotate \/ WatchEnds
                       \/ \E c \in Copy : Forget(c) \/ Leave(c) \/ Settle(c) \/ StartAgain(c))
    \/ a = "stop" /\ (ClearRow \/ StopWrites \/ \E c \in Copy : TakeDown(c))

CopiesNext ==
    \/ \E a \in Actor : Proceeds(a)
    \/ \E j \in Job : Press(j)
    \/ StopBegins
    \/ \E c \in Copy : Exits(c)
    \/ Crash

CopiesSpec == CopiesInit /\ [][CopiesNext]_vars

(* Every task goes on. A copy that is seen down again and again has its wait *)
(* over in some pass, and one that stays up is seen up for long enough.      *)
CopiesFairness ==
    /\ \A a \in Actor : WF_vars(Proceeds(a))
    /\ \A c \in Copy : SF_vars(StartAgain(c)) /\ SF_vars(Settle(c))

CopiesFairSpec == CopiesSpec /\ CopiesFairness

-----------------------------------------------------------------------------
CopiesTypeOK ==
    /\ wanted \in {"running", "stopped"}
    /\ container \in [Copy -> {"absent", "running", "exited"}]
    /\ address \subseteq Copy /\ route \subseteq Copy /\ episode \subseteq Copy
    /\ reason \in [Copy -> {"none", "note", "failure"}]
    /\ lock \in Actor \cup {"nobody"}
    /\ tries \in [Job -> 0..Retries]
    /\ task \in [Actor -> Task]
    /\ answered \in BOOLEAN
    /\ presses \in 0..MaxPresses /\ stops \in 0..MaxStops
    /\ exits \in 0..MaxExits /\ faults \in 0..MaxFaults

(* Two deployments of a service take turns: nobody finds the name of the     *)
(* container it creates taken.                                               *)
NameIsFree == \A a \in Actor : At(a, "create") => container[task[a].copy] = "absent"

(* What that rests on: whoever moves a container has the lock, a job keeps   *)
(* it until the routes are written, and the watch, which lets go of it at    *)
(* the first row it writes, has one copy in hand.                            *)
LockHeld ==
    /\ \A a \in Actor : task[a].at \in {"remove", "create", "took", "failed"} => lock = a
    /\ \A j \in Job : task[j].at \in {"read", "write"} => lock = j
    /\ task["watch"].at \in {"lock", "remove", "create", "took", "failed"} =>
           task["watch"].todo = {task["watch"].copy}

(* A stop that was answered holds until a deployment is asked for: no        *)
(* container runs, no copy has an address, no request is sent to one,        *)
(* whatever ends and starts after it.                                        *)
StopHolds ==
    answered =>
        /\ \A c \in Copy : container[c] # "running"
        /\ address = {} /\ route = {}

(* What that rests on when nobody is at work beside a stop. From its         *)
(* beginning nobody will start anything: no job is there, and the passes     *)
(* that begin see that nothing is wanted. What it went over stays down.      *)
Calm ==
    answered \/ Busy("stop") =>
        /\ wanted = "stopped"
        /\ \A j \in Job : At(j, "idle")
        /\ task["boot"].at \in {"idle", "look", "read", "write"}
        /\ task["watch"].at \in {"idle", "look"}
        /\ \A a \in {"boot", "watch"} : Busy(a) => task[a].meant = "stopped"

Taken(c) == container[c] # "running" /\ c \notin address
Stopping ==
    Busy("stop") =>
        /\ ~answered /\ At("boot", "idle")
        /\ task["stop"].at \in {"down", "row", "read", "write"}
        /\ \A c \in Copy \ task["stop"].todo : Taken(c)
        /\ At("stop", "row") => container[task["stop"].copy] # "running"
        /\ At("stop", "read") \/ At("stop", "write") => task["stop"].todo = {}
        /\ At("stop", "write") => task["stop"].rows = {}
Stopped == answered /\ At("boot", "write") => task["boot"].rows = {}

(* A copy that a deployment put up, or that the watch began to start again,  *)
(* comes back when it stops on its own, unless the service is stopped or a   *)
(* deployment of it failed.                                                  *)
ComesBack ==
    \A c \in Copy :
        (wanted = "running" /\ container[c] # "running" /\ (c \in address \/ c \in episode))
        ~> (wanted = "stopped" \/ container[c] = "running" \/ c \notin address \cup episode)

(* The note a restart leaves on a row does not outlive the trouble, not even *)
(* when the process that wrote it is gone.                                   *)
NoteClears ==
    \A c \in Copy : reason[c] = "note" ~> (reason[c] # "note" \/ wanted = "stopped")
=============================================================================
