---------------------------- MODULE EdgeNamesProofs ----------------------------
(* Who answers for a name: what an owner's forms and deployments begin to   *)
(* say is said, nothing it says names more than its rows do, and a node     *)
(* serves what the node it holds the name for asked, for any network, any   *)
(* owners and any places.                                                   *)
EXTENDS NamesHeard, ErrandsProofs

------------------------------------------------------------------------------
(* What an owner's state is                                                 *)

Thing == {"tell", "telling", "sync", "withdrawing", "dropping"}
Later == {"tell", "sync", "dropping"}
Says == Place \cup {Nowhere}
Named == Hostname \X Node
Telling == Hostname \X Node \X Says

\* A task: what it has still to do, whom it is telling and whom it is to drop.
Work ==
    [todo : Seq(Thing), tell : SUBSET (Named \cup Telling), drop : SUBSET Named]

\* The thing a task is at, and whether it has still to come to another.
At(w) == IF w.todo = << >> THEN "nothing" ELSE Head(w.todo)
Has(w, b) == \E k \in DOMAIN w.todo : w.todo[k] = b

\* Only the first thing of a task can be half done.
Orderly(w) ==
    /\ w \in Work
    /\ \A k \in DOMAIN w.todo : k # 1 => w.todo[k] \in Later
    /\ At(w) = "telling" => w.tell \subseteq Telling
    /\ At(w) = "withdrawing" => w.tell \subseteq Named

OwnersAreTyped ==
    /\ chosen \in [Node -> SUBSET Named]
    /\ where \in [Node -> [Hostname -> Says]]
    /\ untold \in [Node -> SUBSET Hostname]
    /\ allows \in [Node -> SUBSET Node]
    /\ task \in [Node -> [Task -> Work]]
    /\ \A n \in Node, t \in Task : Orderly(task[n][t])

------------------------------------------------------------------------------
(* What an owner keeps true while it has something left to do               *)

\* One of the form's handler and the deployer waits for the other.
Alone(o, t) == \A u \in Task \ {t} : task[o][u] = Idle
OneAtATime(o) == \E t \in Task : Alone(o, t)

\* A list read before is still what the rows say.
TruthIn(o, t) ==
    At(task[o][t]) = "telling" =>
        \A x \in task[o][t].tell :
            <<x[1], x[2]>> \in chosen[o] /\ x[2] # o /\ x[3] = where[o][x[1]]

TellsTheTruth(o) == \A t \in Task : TruthIn(o, t)

WillWithdraw(o, t, p) ==
    \/ Has(task[o][t], "sync")
    \/ At(task[o][t]) = "withdrawing" /\ p \in task[o][t].tell

WillTell(o, t, p) ==
    \/ Has(task[o][t], "tell")
    \/ /\ At(task[o][t]) = "telling"
       /\ <<p[1], p[2], where[o][p[1]]>> \in task[o][t].tell

ToBeWithdrawn(o, p) == \E t \in Task : WillWithdraw(o, t, p)
ToBeTold(o, p) == \E t \in Task : WillTell(o, t, p)

\* Who was last told to serve and is not chosen will be told to stop.
OthersWillStop(o) ==
    \A p \in NamesTold(o) : p[2] # o /\ p \notin chosen[o] => ToBeWithdrawn(o, p)

\* The last instruction about the name says where the copies are.
KnowsWhere(o, p) ==
    LET i == LastAbout(o, p[1], p[2]) IN i # 0 /\ table[o][i].order.says = where[o][p[1]]

Related(o, x) == <<o, x>> \in Enrolled \/ <<x, o>> \in Enrolled

\* A node that never changed what it grants is allowed from the first on.
SteadyAreAllowed(o) ==
    \A x \in Node \ wavered : x # o => (x \in allows[o] <=> Related(o, x))

\* Who is to know where a name's copies are: not of those that moved since
\* by a report or a drain.
Owed(o) == {p \in Agreeing(o) : p[1] \notin untold[o]}

ChosenWillKnow(o) == \A p \in Owed(o) : KnowsWhere(o, p) \/ ToBeTold(o, p)

SteadyGrant ==
    /\ wavered \subseteq Node
    /\ \A x \in Node \ wavered : grants[x] = Node \ {x}
    /\ \A n \in Node : \A a \in authority[n] : <<n, a>> \in Enrolled

OwnerHolds(o) ==
    /\ OneAtATime(o) /\ TellsTheTruth(o) /\ OthersWillStop(o)
    /\ SteadyAreAllowed(o) /\ ChosenWillKnow(o)

OwnersInvariant ==
    /\ OwnersAreTyped /\ TypeOK /\ Bookkeeping /\ SteadyGrant
    /\ \A o \in Owner : OwnerHolds(o)

------------------------------------------------------------------------------
(* What a node that serves keeps true                                       *)

ServersAreTyped ==
    /\ claim \in [Node -> [Hostname -> Node \cup {Nobody}]]
    /\ route \in [Node -> [Hostname -> Says]]
    /\ step \in [Node -> {"unread", "claimed", "forgotten"}]
    /\ boot \in [Node -> SUBSET Named]
    /\ grants \in [Node -> SUBSET Node]
    /\ wavered \subseteq Node

\* Nobody looks to itself to answer for a name, and no row or late request
\* asks that of who wrote it.
LooksToOthers(n) ==
    /\ n \notin allows[n]
    /\ \A p \in chosen[n] : p[2] # n
    /\ \A t \in Task : /\ \A x \in task[n][t].tell : x[2] # n
                      /\ \A p \in task[n][t].drop : p[2] # n

RowsAreOfOthers(n) ==
    \A i \in DOMAIN table[n] : table[n][i].to = n => table[n][i].from # n

LateAreOfOthers == \A m \in flight : m.kind = "ask" => m.owner # m.by

NoneAsksItself ==
    /\ \A n \in Node : LooksToOthers(n) /\ RowsAreOfOthers(n)
    /\ LateAreOfOthers

HoldsForOthers(m) ==
    /\ \A h \in Hostname : claim[m][h] # m
    /\ \A c \in boot[m] : c[2] # m

\* Half way through an errand a node holds the name for who asked.
HoldsWhatItServes(m) ==
    /\ step[m] # "unread" => pass[m].stage = "obeying"
    /\ m \notin wavered => grants[m] = Node \ {m}
    /\ m \notin wavered /\ step[m] # "unread" =>
         claim[m][Asked(m).order.name] = AskedBy(m)
    /\ step[m] = "forgotten" => route[m][Asked(m).order.name] = Nowhere

\* What it routes, who it holds the name for asked for.
RoutesAreHolders(m) ==
    m \notin wavered => \A h \in Hostname :
        route[m][h] # Nowhere =>
            claim[m][h] # Nobody /\ route[m][h] \in Instructions(claim[m][h], m, h)

ServerHolds(m) == HoldsForOthers(m) /\ HoldsWhatItServes(m) /\ RoutesAreHolders(m)

RoutesInvariant ==
    /\ OwnersAreTyped /\ TypeOK /\ Bookkeeping /\ ServersAreTyped
    /\ NoneAsksItself
    /\ \A m \in Node : ServerHolds(m)

------------------------------------------------------------------------------
(* A task goes on from one thing to the next *)

\* What it still had to come to, it has still to come to.
Keeps(w, v) == \A b \in Later : b # At(w) /\ Has(w, b) => Has(v, b)

\* From w a task comes to v: it is at b now, or has nothing half done.
Goes(w, v, b) ==
    /\ Orderly(v) /\ Keeps(w, v)
    /\ \/ At(v) = b
       \/ /\ At(v) \notin {"telling", "withdrawing"}
          /\ b \in {"telling", "withdrawing"} => v.tell = {}

\* A task with nothing to do is one.
LEMMA IdleIsOrderly == Orderly(Idle) /\ At(Idle) = "nothing" /\ \A b \in Later : ~Has(Idle, b)
  BY DEF Orderly, Idle, Work, At, Has

\* What is left once a thing is done, and what that looks like.
LEMMA TailIsLater ==
    ASSUME NEW w, Orderly(w), w.todo # << >>
    PROVE  /\ w.todo \in Seq(Thing) /\ Len(w.todo) \in Nat \ {0}
           /\ Tail(w.todo) \in Seq(Thing) /\ Len(Tail(w.todo)) = Len(w.todo) - 1
           /\ \A k \in 1 .. Len(w.todo) - 1 : Tail(w.todo)[k] = w.todo[k + 1]
  BY DEF Orderly, Work

\* The thing it was at is done, and what comes next is not begun.
LEMMA GoingOn ==
    ASSUME NEW w, NEW v, NEW b, Orderly(w), w.todo # << >>, v \in Work,
           v.todo = Tail(w.todo), b \in {"telling", "withdrawing"} => v.tell = {}
    PROVE  Goes(w, v, b)
  <1>1. \A k \in DOMAIN v.todo : v.todo[k] \in Later
    BY TailIsLater DEF Orderly
  <1>2. At(v) \in Later \cup {"nothing"}
    BY <1>1, TailIsLater DEF At
  <1>3. At(v) \notin {"telling", "withdrawing"}
    BY <1>2 DEF Later
  <1>4. ASSUME NEW c \in Later, c # At(w), Has(w, c) PROVE Has(v, c)
    <2>1. PICK k \in DOMAIN w.todo : w.todo[k] = c
      BY <1>4 DEF Has
    <2>2. k # 1
      BY <2>1, <1>4, TailIsLater DEF At
    <2>3. k - 1 \in DOMAIN v.todo /\ v.todo[k - 1] = c
      BY <2>1, <2>2, TailIsLater
    <2> QED  BY <2>3 DEF Has
  <1>5. Orderly(v)
    BY <1>1, <1>3 DEF Orderly
  <1> QED  BY <1>3, <1>4, <1>5 DEF Goes, Keeps

\* A thing put in the place of the one a task was at.
LEMMA HeadIsNew ==
    ASSUME NEW w, Orderly(w), w.todo # << >>, NEW b \in Thing
    PROVE  LET q == <<b>> \o Tail(w.todo) IN
           /\ q \in Seq(Thing) /\ q # << >> /\ Head(q) = b /\ Tail(q) = Tail(w.todo)
           /\ Len(q) = Len(w.todo) /\ \A k \in 2 .. Len(q) : q[k] = w.todo[k]
  <1> DEFINE q == <<b>> \o Tail(w.todo)
  <1>1. /\ q \in Seq(Thing) /\ Len(q) = Len(w.todo) /\ q[1] = b
        /\ \A k \in 2 .. Len(q) : q[k] = w.todo[k]
    BY TailIsLater
  <1>2. q # << >> /\ Head(q) = b
    BY <1>1, TailIsLater
  <1>3. /\ Tail(q) \in Seq(Thing) /\ Len(Tail(q)) = Len(Tail(w.todo))
        /\ \A k \in 1 .. Len(Tail(q)) : Tail(q)[k] = Tail(w.todo)[k]
    BY <1>1, <1>2, TailIsLater
  <1>4. Tail(q) = Tail(w.todo)
    BY <1>3, TailIsLater, SeqEqual
  <1> QED  BY <1>1, <1>2, <1>4

\* The thing it was at becomes one that takes its time.
LEMMA SettingOut ==
    ASSUME NEW w, NEW v, NEW b \in {"telling", "withdrawing"}, Orderly(w), w.todo # << >>,
           v \in Work, v.todo = <<b>> \o Tail(w.todo),
           b = "telling" => v.tell \subseteq Telling,
           b = "withdrawing" => v.tell \subseteq Named
    PROVE  Goes(w, v, b) /\ At(v) = b /\ v.todo # << >>
  <1>1. b \in Thing
    BY DEF Thing
  <1>2. At(v) = b /\ v.todo # << >>
    BY <1>1, HeadIsNew DEF At
  <1>3. ASSUME NEW k \in DOMAIN v.todo, k # 1 PROVE v.todo[k] \in Later
    <2>1. k \in 2 .. Len(v.todo) /\ k \in DOMAIN w.todo /\ v.todo[k] = w.todo[k]
      BY <1>1, <1>3, HeadIsNew, TailIsLater
    <2> QED  BY <2>1, <1>3 DEF Orderly
  <1>4. ASSUME NEW c \in Later, c # At(w), Has(w, c) PROVE Has(v, c)
    <2>1. PICK k \in DOMAIN w.todo : w.todo[k] = c
      BY <1>4 DEF Has
    <2>2. k # 1
      BY <2>1, <1>4, TailIsLater DEF At
    <2>3. k \in DOMAIN v.todo /\ v.todo[k] = c
      BY <1>1, <2>1, <2>2, HeadIsNew, TailIsLater
    <2> QED  BY <2>3 DEF Has
  <1>5. Orderly(v)
    BY <1>2, <1>3 DEF Orderly
  <1> QED  BY <1>2, <1>4, <1>5 DEF Goes, Keeps

\* Some of what it is at is done, and some is left.
LEMMA StayingAt ==
    ASSUME NEW w, NEW v, Orderly(w), v \in Work, v.todo = w.todo, v.tell \subseteq w.tell
    PROVE  Goes(w, v, At(w))
  <1>1. At(v) = At(w) /\ Keeps(w, v)
    BY DEF At, Has, Keeps
  <1>2. Orderly(v)
    BY <1>1 DEF Orderly
  <1> QED  BY <1>1, <1>2 DEF Goes

\* Either way, it is still at that or has gone on.
LEMMA OnwardsGoes ==
    ASSUME NEW w, NEW v, NEW T, NEW D, Orderly(w), w.todo # << >>,
           v = Onwards(w.todo, T, D), T \subseteq w.tell, D \subseteq w.drop
    PROVE  Goes(w, v, At(w)) /\ v.tell = T /\ v.drop = D
  <1>1. v.tell = T /\ v.drop = D
    BY DEF Onwards
  <1>2. /\ Tail(w.todo) \in Seq(Thing) /\ w.todo \in Seq(Thing)
        /\ T \in SUBSET (Named \cup Telling) /\ D \in SUBSET Named
    BY TailIsLater DEF Orderly, Work
  <1>3. \/ v = [todo |-> w.todo, tell |-> T, drop |-> D]
        \/ /\ v = [todo |-> Tail(w.todo), tell |-> T, drop |-> D]
           /\ \/ Head(w.todo) \in {"telling", "withdrawing"} /\ T = {}
              \/ Head(w.todo) = "dropping"
    BY DEF Onwards
  <1>4. At(w) = Head(w.todo)
    BY DEF At
  <1>5. CASE v = [todo |-> w.todo, tell |-> T, drop |-> D]
    <2>1. v \in Work /\ v.todo = w.todo
      BY <1>2, <1>5 DEF Work
    <2> QED  BY <1>1, <2>1, StayingAt
  <1>6. CASE /\ v = [todo |-> Tail(w.todo), tell |-> T, drop |-> D]
             /\ \/ Head(w.todo) \in {"telling", "withdrawing"} /\ T = {}
                \/ Head(w.todo) = "dropping"
    <2>1. v \in Work /\ v.todo = Tail(w.todo)
      BY <1>2, <1>6 DEF Work
    <2>2. At(w) \in {"telling", "withdrawing"} => v.tell = {}
      BY <1>1, <1>4, <1>6
    <2> QED  BY <1>1, <2>1, <2>2, GoingOn
  <1> QED  BY <1>3, <1>5, <1>6

------------------------------------------------------------------------------
(* What each of the owner's steps does to its tasks                         *)

\* One task of one owner changes, and stays one.
OnlyTask(n, t) ==
    /\ task' \in [Node -> [Task -> Work]]
    /\ \A o \in Node, u \in Task : Orderly(task[o][u]')
    /\ \A u \in Task \ {t} : task'[n][u] = task[n][u]
    /\ \A o \in Node \ {n} : task'[o] = task[o]

\* A task that is given a new list is the only one that changes.
LEMMA OneTaskChanges ==
    ASSUME OwnersAreTyped, NEW n \in Node, NEW t \in Task, NEW v, Orderly(v),
           task' = [task EXCEPT ![n][t] = v]
    PROVE  OnlyTask(n, t) /\ task'[n][t] = v
  <1>1. task \in [Node -> [Task -> Work]] /\ v \in Work
    BY DEF OwnersAreTyped, Orderly
  <1>2. /\ task' \in [Node -> [Task -> Work]] /\ task'[n][t] = v
        /\ \A u \in Task \ {t} : task'[n][u] = task[n][u]
        /\ \A o \in Node \ {n} : task'[o] = task[o]
    BY <1>1
  <1>3. ASSUME NEW o \in Node, NEW u \in Task PROVE Orderly(task'[o][u])
    <2>1. task'[o][u] = v \/ task'[o][u] = task[o][u]
      BY <1>2
    <2>2. Orderly(task[o][u])
      BY DEF OwnersAreTyped
    <2> QED  BY <2>1, <2>2
  <1> QED  BY <1>2, <1>3 DEF OnlyTask

\* Whoever does something has it to do.
LEMMA DoesWhatItIsAt ==
    ASSUME OwnersAreTyped, NEW n \in Node, NEW t \in Task, Doing(n, t) # "nothing"
    PROVE  /\ Orderly(task[n][t]) /\ task[n][t].todo # << >>
           /\ At(task[n][t]) = Doing(n, t) /\ task[n][t] # Idle
           /\ task[n][t].tell \subseteq Named \cup Telling /\ task[n][t].drop \subseteq Named
           /\ Tail(task[n][t].todo) \in Seq(Thing) /\ task[n][t].todo \in Seq(Thing)
  <1>1. Orderly(task[n][t]) /\ task[n][t].todo # << >>
    BY DEF OwnersAreTyped, Doing
  <1>2. At(task[n][t]) = Doing(n, t) /\ task[n][t] # Idle
    BY <1>1 DEF Doing, At, Idle
  <1>3. task[n][t].tell \subseteq Named \cup Telling /\ task[n][t].drop \subseteq Named
    BY <1>1 DEF Orderly, Work
  <1> QED  BY <1>1, <1>2, <1>3, TailIsLater

\* Whom tell_edges tells, and what.
Tellings(n) ==
    {<<p[1], p[2], where[n][p[1]]>> : p \in {q \in chosen[n] : q[2] # n /\ q[2] \in allows[n]}}

\* What it tells is a name, a node and where the copies are.
LEMMA TellingsAreTyped ==
    ASSUME OwnersAreTyped, NEW n \in Node
    PROVE  Tellings(n) \subseteq Telling
  <1>1. ASSUME NEW p \in chosen[n]
        PROVE  p[1] \in Hostname /\ p[2] \in Node /\ where[n][p[1]] \in Says
    BY DEF OwnersAreTyped, Named
  <1> QED  BY <1>1 DEF Tellings, Telling

\* tell_edges reads the rows, and goes on to tell what they say.
LEMMA BeginTellWorks ==
    ASSUME OwnersAreTyped, NEW n \in Node, NEW t \in Task, BeginTell(n, t)
    PROVE  /\ OnlyTask(n, t) /\ At(task[n][t]) = "tell"
           /\ Goes(task[n][t], task'[n][t], "telling")
           /\ task'[n][t].tell = Tellings(n) /\ task'[n][t].drop = task[n][t].drop
  <1> DEFINE w == task[n][t]
             q == <<"telling">> \o Tail(w.todo)
             u == [todo |-> q, tell |-> Tellings(n), drop |-> w.drop]
             v == Onwards(q, Tellings(n), w.drop)
  <1>1. Doing(n, t) = "tell" /\ task' = [task EXCEPT ![n][t] = v]
    BY DEF BeginTell, Tellings
  <1>2. /\ Orderly(w) /\ w.todo # << >> /\ At(w) = "tell" /\ w.drop \subseteq Named
        /\ Tail(w.todo) \in Seq(Thing)
    BY <1>1, DoesWhatItIsAt
  <1>3. u.todo = q /\ u.tell = Tellings(n) /\ u.drop = w.drop
    OBVIOUS
  <1>4. u \in Work
    <2>1. q \in Seq(Thing)
      BY <1>2, HeadIsNew DEF Thing
    <2> QED  BY <1>2, <2>1, TellingsAreTyped DEF Work
  <1> HIDE DEF u
  <1>5. Goes(w, u, "telling") /\ At(u) = "telling" /\ u.todo # << >>
    <2> HIDE DEF w
    <2>1. "telling" \in {"telling", "withdrawing"} /\ "telling" # "withdrawing"
      OBVIOUS
    <2> QED  BY <1>2, <1>3, <1>4, <2>1, TellingsAreTyped, SettingOut
  <1>6. Orderly(u) /\ v = Onwards(u.todo, Tellings(n), w.drop)
    BY <1>3, <1>5 DEF Goes
  <1> HIDE DEF v
  <1>7. Goes(u, v, At(u)) /\ v.tell = Tellings(n) /\ v.drop = w.drop
    <2>1. Tellings(n) \subseteq u.tell /\ w.drop \subseteq u.drop
      BY <1>3
    <2> HIDE DEF w
    <2> QED  BY <1>5, <1>6, <2>1, OnwardsGoes
  <1> HIDE DEF w
  <1>8. Goes(w, v, "telling")
    <2>1. "telling" \notin Later
      BY DEF Later
    <2> QED  BY <1>2, <1>5, <1>7, <2>1 DEF Goes, Keeps
  <1>9. Orderly(v) /\ task' = [task EXCEPT ![n][t] = v]
    BY <1>1, <1>8 DEF Goes
  <1>10. OnlyTask(n, t) /\ task'[n][t] = v
    BY <1>9, OneTaskChanges
  <1> QED  BY <1>2, <1>7, <1>8, <1>10 DEF w

\* sync_routes asks who was told too much, and goes on to tell them so.
LEMMA BeginSyncWorks ==
    ASSUME OwnersAreTyped, NEW n \in Node, NEW t \in Task, BeginSync(n, t)
    PROVE  /\ OnlyTask(n, t) /\ At(task[n][t]) = "sync"
           /\ Goes(task[n][t], task'[n][t], "withdrawing")
           /\ task'[n][t].tell = Unwanted(n) /\ task'[n][t].drop = task[n][t].drop
  <1> DEFINE w == task[n][t]
             q == IF Unwanted(n) = {} THEN Tail(w.todo) ELSE <<"withdrawing">> \o Tail(w.todo)
             v == [todo |-> q, tell |-> Unwanted(n), drop |-> w.drop]
  <1>1. Doing(n, t) = "sync" /\ task' = [task EXCEPT ![n][t] = v]
    BY DEF BeginSync
  <1>2. /\ Orderly(w) /\ w.todo # << >> /\ At(w) = "sync" /\ w.drop \subseteq Named
        /\ Tail(w.todo) \in Seq(Thing)
    BY <1>1, DoesWhatItIsAt
  <1>3. v.todo = q /\ v.tell = Unwanted(n) /\ v.drop = w.drop
    OBVIOUS
  <1>4. Unwanted(n) \subseteq Named
    BY DEF Unwanted, NamesTold, Named
  <1>5. v \in Work
    <2>1. q \in Seq(Thing)
      BY <1>2, HeadIsNew DEF Thing
    <2> HIDE DEF q
    <2> QED  BY <1>2, <1>4, <2>1 DEF Work
  <1> HIDE DEF v
  <1>6. Goes(w, v, "withdrawing")
    <2>1. CASE Unwanted(n) = {}
      <3>1. v.todo = Tail(w.todo) /\ v.tell = {}
        BY <1>3, <2>1
      <3> HIDE DEF w
      <3> QED  BY <1>2, <1>5, <3>1, GoingOn
    <2>2. CASE Unwanted(n) # {}
      <3>1. v.todo = <<"withdrawing">> \o Tail(w.todo) /\ v.tell \subseteq Named
        BY <1>3, <1>4, <2>2
      <3>2. "withdrawing" \in {"telling", "withdrawing"} /\ "withdrawing" # "telling"
        OBVIOUS
      <3> HIDE DEF w
      <3> QED  BY <1>2, <1>5, <3>1, <3>2, SettingOut
    <2> QED  BY <2>1, <2>2
  <1> HIDE DEF w
  <1>7. Orderly(v) /\ task' = [task EXCEPT ![n][t] = v]
    BY <1>1, <1>6 DEF Goes
  <1>8. OnlyTask(n, t) /\ task'[n][t] = v
    BY <1>7, OneTaskChanges
  <1> QED  BY <1>2, <1>3, <1>6, <1>8 DEF w

\* One node of the list is told.
LEMMA TellOneWorks ==
    ASSUME OwnersAreTyped, NEW n \in Node, NEW t \in Task, NEW x \in task[n][t].tell,
           TellOne(n, t, x)
    PROVE  /\ OnlyTask(n, t) /\ At(task[n][t]) = "telling" /\ x \in Telling
           /\ Goes(task[n][t], task'[n][t], "telling")
           /\ task'[n][t].tell = task[n][t].tell \ {x}
           /\ task'[n][t].drop = task[n][t].drop
  <1> DEFINE w == task[n][t]
             v == Onwards(w.todo, w.tell \ {x}, w.drop)
  <1>1. Doing(n, t) = "telling" /\ task' = [task EXCEPT ![n][t] = v]
    BY DEF TellOne
  <1>2. Orderly(w) /\ w.todo # << >> /\ At(w) = "telling"
    BY <1>1, DoesWhatItIsAt
  <1>3. v = Onwards(w.todo, w.tell \ {x}, w.drop) /\ w.tell \ {x} \subseteq w.tell
    OBVIOUS
  <1>4. x \in Telling
    BY <1>2 DEF Orderly
  <1> HIDE DEF v, w
  <1>5. Goes(w, v, At(w)) /\ v.tell = w.tell \ {x} /\ v.drop = w.drop
    <2> DEFINE T == w.tell \ {x}
    <2>1. v = Onwards(w.todo, T, w.drop) /\ T \subseteq w.tell /\ w.drop \subseteq w.drop
      BY <1>3
    <2> HIDE DEF T
    <2>2. Goes(w, v, At(w)) /\ v.tell = T /\ v.drop = w.drop
      BY <1>2, <2>1, OnwardsGoes
    <2> QED  BY <2>2 DEF T
  <1>6. Orderly(v) /\ task' = [task EXCEPT ![n][t] = v]
    BY <1>1, <1>5 DEF Goes
  <1>7. OnlyTask(n, t) /\ task'[n][t] = v
    BY <1>6, OneTaskChanges
  <1> QED  BY <1>2, <1>4, <1>5, <1>7 DEF w

\* One node of the list is told to stop.
LEMMA WithdrawOneWorks ==
    ASSUME OwnersAreTyped, NEW n \in Node, NEW t \in Task, NEW p \in task[n][t].tell,
           WithdrawOne(n, t, p)
    PROVE  /\ OnlyTask(n, t) /\ At(task[n][t]) = "withdrawing" /\ p \in Named
           /\ Goes(task[n][t], task'[n][t], "withdrawing")
           /\ task'[n][t].tell = task[n][t].tell \ {p}
           /\ task'[n][t].drop = task[n][t].drop
  <1> DEFINE w == task[n][t]
             q == IF w.tell = {p} THEN Tail(w.todo) ELSE w.todo
             v == [todo |-> q, tell |-> w.tell \ {p}, drop |-> w.drop]
  <1>1. Doing(n, t) = "withdrawing" /\ task' = [task EXCEPT ![n][t] = v]
    BY DEF WithdrawOne
  <1>2. /\ Orderly(w) /\ w.todo # << >> /\ At(w) = "withdrawing" /\ w.drop \subseteq Named
        /\ w.tell \subseteq Named \cup Telling
        /\ Tail(w.todo) \in Seq(Thing) /\ w.todo \in Seq(Thing)
    BY <1>1, DoesWhatItIsAt
  <1>3. v.todo = q /\ v.tell = w.tell \ {p} /\ v.drop = w.drop
    OBVIOUS
  <1>4. p \in Named
    BY <1>2 DEF Orderly
  <1>5. v \in Work
    <2>1. q \in Seq(Thing) /\ w.tell \ {p} \subseteq Named \cup Telling
      BY <1>2
    <2> HIDE DEF q
    <2> QED  BY <1>2, <2>1 DEF Work
  <1> HIDE DEF v
  <1>6. Goes(w, v, "withdrawing")
    <2>1. CASE w.tell = {p}
      <3>1. v.todo = Tail(w.todo) /\ v.tell = {}
        BY <1>3, <2>1
      <3> HIDE DEF w
      <3> QED  BY <1>2, <1>5, <3>1, GoingOn
    <2>2. CASE w.tell # {p}
      <3>1. v.todo = w.todo /\ v.tell \subseteq w.tell
        BY <1>3, <2>2
      <3> HIDE DEF w
      <3>2. Goes(w, v, At(w))
        BY <1>2, <1>5, <3>1, StayingAt
      <3> QED  BY <1>2, <3>2
    <2> QED  BY <2>1, <2>2
  <1> HIDE DEF w
  <1>7. Orderly(v) /\ task' = [task EXCEPT ![n][t] = v]
    BY <1>1, <1>6 DEF Goes
  <1>8. OnlyTask(n, t) /\ task'[n][t] = v
    BY <1>7, OneTaskChanges
  <1> QED  BY <1>2, <1>3, <1>4, <1>6, <1>8 DEF w

\* One unticked node is told to stop.
LEMMA DropOneWorks ==
    ASSUME OwnersAreTyped, NEW n \in Node, NEW t \in Task, NEW p \in task[n][t].drop,
           DropOne(n, t, p)
    PROVE  /\ OnlyTask(n, t) /\ At(task[n][t]) = "dropping" /\ p \in Named
           /\ Goes(task[n][t], task'[n][t], "dropping")
           /\ task'[n][t].tell = task[n][t].tell
           /\ task'[n][t].drop = task[n][t].drop \ {p}
  <1> DEFINE w == task[n][t]
             v == Onwards(w.todo, w.tell, w.drop \ {p})
  <1>1. Doing(n, t) = "dropping" /\ task' = [task EXCEPT ![n][t] = v]
    BY DEF DropOne
  <1>2. /\ Orderly(w) /\ w.todo # << >> /\ At(w) = "dropping" /\ w.drop \subseteq Named
    BY <1>1, DoesWhatItIsAt
  <1>3. /\ v = Onwards(w.todo, w.tell, w.drop \ {p}) /\ w.drop \ {p} \subseteq w.drop
        /\ p \in Named
    BY <1>2
  <1> HIDE DEF v, w
  <1>4. Goes(w, v, At(w)) /\ v.tell = w.tell /\ v.drop = w.drop \ {p}
    <2> DEFINE D == w.drop \ {p}
    <2>1. v = Onwards(w.todo, w.tell, D) /\ D \subseteq w.drop /\ w.tell \subseteq w.tell
      BY <1>3
    <2> HIDE DEF D
    <2>2. Goes(w, v, At(w)) /\ v.tell = w.tell /\ v.drop = D
      BY <1>2, <2>1, OnwardsGoes
    <2> QED  BY <2>2 DEF D
  <1>5. Orderly(v) /\ task' = [task EXCEPT ![n][t] = v]
    BY <1>1, <1>4 DEF Goes
  <1>6. OnlyTask(n, t) /\ task'[n][t] = v
    BY <1>5, OneTaskChanges
  <1> QED  BY <1>2, <1>3, <1>4, <1>6 DEF w

\* The lists a task begins with.
LEMMA BeginningsAreOrderly ==
    ASSUME NEW D \in SUBSET Named
    PROVE  /\ LET v == [todo |-> <<"tell", "sync">>, tell |-> {}, drop |-> D] IN
              Orderly(v) /\ At(v) = "tell" /\ Has(v, "tell") /\ Has(v, "sync")
           /\ LET v == [todo |-> <<"tell", "sync", "dropping">>, tell |-> {}, drop |-> D] IN
              Orderly(v) /\ At(v) = "tell" /\ Has(v, "tell") /\ Has(v, "sync")
           /\ LET v == [todo |-> <<"sync", "tell">>, tell |-> {}, drop |-> D] IN
              Orderly(v) /\ At(v) = "sync" /\ Has(v, "tell") /\ Has(v, "sync")
           /\ LET v == [todo |-> <<"tell", "sync", "tell">>, tell |-> {}, drop |-> D] IN
              Orderly(v) /\ At(v) = "tell" /\ Has(v, "tell") /\ Has(v, "sync")
           /\ LET v == [todo |-> <<"sync", "tell", "sync">>, tell |-> {}, drop |-> D] IN
              Orderly(v) /\ At(v) = "sync" /\ Has(v, "tell") /\ Has(v, "sync")
           /\ LET v == [todo |-> <<"sync">>, tell |-> {}, drop |-> D] IN
              Orderly(v) /\ At(v) = "sync" /\ Has(v, "sync")
  <1>1. ASSUME NEW q \in Seq(Thing), NEW v, v = [todo |-> q, tell |-> {}, drop |-> D],
               q # << >>, \A k \in DOMAIN q : k # 1 => q[k] \in Later,
               Head(q) \in {"tell", "sync"}
        PROVE  Orderly(v) /\ At(v) = Head(q) /\ \A b : Has(v, b) <=> \E k \in DOMAIN q : q[k] = b
    <2>1. v \in Work /\ v.todo = q
      BY <1>1 DEF Work
    <2>2. At(v) = Head(q)
      BY <1>1, <2>1 DEF At
    <2>3. Orderly(v)
      BY <1>1, <2>1, <2>2 DEF Orderly
    <2> QED  BY <2>1, <2>2, <2>3 DEF Has
  <1>2. LET q == <<"tell", "sync">> IN
        /\ q \in Seq(Thing) /\ q # << >> /\ Head(q) = "tell"
        /\ \A k \in DOMAIN q : k # 1 => q[k] \in Later
        /\ \E k \in DOMAIN q : q[k] = "tell"
        /\ \E k \in DOMAIN q : q[k] = "sync"
    BY DEF Thing, Later
  <1>3. LET q == <<"tell", "sync", "dropping">> IN
        /\ q \in Seq(Thing) /\ q # << >> /\ Head(q) = "tell"
        /\ \A k \in DOMAIN q : k # 1 => q[k] \in Later
        /\ \E k \in DOMAIN q : q[k] = "tell"
        /\ \E k \in DOMAIN q : q[k] = "sync"
    BY DEF Thing, Later
  <1>4. LET q == <<"sync", "tell">> IN
        /\ q \in Seq(Thing) /\ q # << >> /\ Head(q) = "sync"
        /\ \A k \in DOMAIN q : k # 1 => q[k] \in Later
        /\ \E k \in DOMAIN q : q[k] = "tell"
        /\ \E k \in DOMAIN q : q[k] = "sync"
    BY DEF Thing, Later
  <1>5. LET q == <<"tell", "sync", "tell">> IN
        /\ q \in Seq(Thing) /\ q # << >> /\ Head(q) = "tell"
        /\ \A k \in DOMAIN q : k # 1 => q[k] \in Later
        /\ \E k \in DOMAIN q : q[k] = "tell"
        /\ \E k \in DOMAIN q : q[k] = "sync"
    BY DEF Thing, Later
  <1>10. LET q == <<"sync", "tell", "sync">> IN
         /\ q \in Seq(Thing) /\ q # << >> /\ Head(q) = "sync"
         /\ \A k \in DOMAIN q : k # 1 => q[k] \in Later
         /\ \E k \in DOMAIN q : q[k] = "tell"
         /\ \E k \in DOMAIN q : q[k] = "sync"
    BY DEF Thing, Later
  <1>11. LET q == <<"sync">> IN
         /\ q \in Seq(Thing) /\ q # << >> /\ Head(q) = "sync"
         /\ \A k \in DOMAIN q : k # 1 => q[k] \in Later
         /\ \E k \in DOMAIN q : q[k] = "sync"
    BY DEF Thing, Later
  <1> DEFINE Two == <<"tell", "sync">>
             Three == <<"tell", "sync", "dropping">>
             Moved == <<"sync", "tell">>
             Started == <<"tell", "sync", "tell">>
             Placed == <<"sync", "tell", "sync">>
             Recording == <<"sync">>
  <1>6. LET v == [todo |-> Two, tell |-> {}, drop |-> D] IN
        Orderly(v) /\ At(v) = "tell" /\ Has(v, "tell") /\ Has(v, "sync")
    <2> HIDE DEF Two
    <2> QED  BY <1>1, <1>2 DEF Two
  <1>7. LET v == [todo |-> Three, tell |-> {}, drop |-> D] IN
        Orderly(v) /\ At(v) = "tell" /\ Has(v, "tell") /\ Has(v, "sync")
    <2> HIDE DEF Three
    <2> QED  BY <1>1, <1>3 DEF Three
  <1>8. LET v == [todo |-> Moved, tell |-> {}, drop |-> D] IN
        Orderly(v) /\ At(v) = "sync" /\ Has(v, "tell") /\ Has(v, "sync")
    <2> HIDE DEF Moved
    <2> QED  BY <1>1, <1>4 DEF Moved
  <1>9. LET v == [todo |-> Started, tell |-> {}, drop |-> D] IN
        Orderly(v) /\ At(v) = "tell" /\ Has(v, "tell") /\ Has(v, "sync")
    <2> HIDE DEF Started
    <2> QED  BY <1>1, <1>5 DEF Started
  <1>12. LET v == [todo |-> Placed, tell |-> {}, drop |-> D] IN
         Orderly(v) /\ At(v) = "sync" /\ Has(v, "tell") /\ Has(v, "sync")
    <2> HIDE DEF Placed
    <2> QED  BY <1>1, <1>10 DEF Placed
  <1>13. LET v == [todo |-> Recording, tell |-> {}, drop |-> D] IN
         Orderly(v) /\ At(v) = "sync" /\ Has(v, "sync")
    <2> HIDE DEF Recording
    <2> QED  BY <1>1, <1>11 DEF Recording
  <1> QED  BY <1>6, <1>7, <1>8, <1>9, <1>12, <1>13

\* A task that has just begun has everything to tell and to ask.
Begun(v) == Orderly(v) /\ At(v) \in {"tell", "sync"} /\ Has(v, "tell") /\ Has(v, "sync")

\* A form that changes the rows begins to tell and to ask.
LEMMA SetEdgesWorks ==
    ASSUME OwnersAreTyped, NEW n \in Node, NEW h \in Hostname, NEW nodes \in SUBSET Node,
           SetEdges(n, h, nodes)
    PROVE  /\ OnlyTask(n, "form") /\ Begun(task'[n]["form"]) /\ task[n]["form"] = Idle
           /\ task'[n]["form"].tell = {} /\ (Concurrent \/ AllIdle(n))
           /\ \A p \in task'[n]["form"].drop : p \in chosen[n]
           /\ chosen' \in [Node -> SUBSET Named]
           /\ \A o \in Node \ {n} : chosen'[o] = chosen[o]
           /\ \A p \in chosen'[n] : p \in chosen[n] \/ p[2] \in allows[n]
           /\ UNCHANGED <<channel, where, untold, allows, edge>>
  <1> DEFINE before == {x \in Node : <<h, x>> \in chosen[n]}
             D == {<<h, x>> : x \in before \ nodes}
             v == [todo |-> IF before \subseteq nodes
                            THEN <<"tell", "sync">> ELSE <<"tell", "sync", "dropping">>,
                   tell |-> {}, drop |-> D]
             C == {p \in chosen[n] : p[1] # h} \cup {<<h, x>> : x \in nodes}
  <1>1. /\ task' = [task EXCEPT ![n]["form"] = v] /\ chosen' = [chosen EXCEPT ![n] = C]
        /\ task[n]["form"] = Idle /\ (Concurrent \/ AllIdle(n)) /\ nodes \subseteq allows[n]
        /\ UNCHANGED <<channel, where, untold, allows, edge>>
    BY DEF SetEdges, MayStart
  <1>2. D \in SUBSET Named /\ \A p \in D : p \in chosen[n]
    <2>1. ASSUME NEW p \in D PROVE p \in Named /\ p \in chosen[n]
      <3>1. PICK x \in before \ nodes : p = <<h, x>>
        BY <2>1
      <3>2. x \in Node /\ <<h, x>> \in chosen[n]
        OBVIOUS
      <3> QED  BY <3>1, <3>2 DEF Named
    <2> QED  BY <2>1
  <1>3. v.tell = {} /\ v.drop = D
    OBVIOUS
  <1>4. Begun(v)
    <2>1. CASE before \subseteq nodes
      <3>1. v = [todo |-> <<"tell", "sync">>, tell |-> {}, drop |-> D]
        BY <2>1
      <3> HIDE DEF v, D
      <3> QED  BY <1>2, <3>1, BeginningsAreOrderly DEF Begun
    <2>2. CASE ~(before \subseteq nodes)
      <3>1. v = [todo |-> <<"tell", "sync", "dropping">>, tell |-> {}, drop |-> D]
        BY <2>2
      <3> HIDE DEF v, D
      <3> QED  BY <1>2, <3>1, BeginningsAreOrderly DEF Begun
    <2> QED  BY <2>1, <2>2
  <1>5. "form" \in Task
    BY DEF Task
  <1>6. Orderly(v) /\ task' = [task EXCEPT ![n]["form"] = v]
    BY <1>1, <1>4 DEF Begun
  <1>7. C \subseteq Named /\ \A p \in C : p \in chosen[n] \/ p[2] \in allows[n]
    BY <1>1 DEF OwnersAreTyped, Named
  <1> HIDE DEF v, D, C
  <1>8. OnlyTask(n, "form") /\ task'[n]["form"] = v
    BY <1>5, <1>6, OneTaskChanges
  <1>9. /\ chosen' \in [Node -> SUBSET Named] /\ chosen'[n] = C
        /\ \A o \in Node \ {n} : chosen'[o] = chosen[o]
    BY <1>1, <1>7 DEF OwnersAreTyped
  <1> QED  BY <1>1, <1>2, <1>3, <1>4, <1>7, <1>8, <1>9

\* A task that may start begins at the list it is given.
LEMMA BeginsWorks ==
    ASSUME OwnersAreTyped, NEW n \in Node, NEW t \in Task, NEW todo, Begins(n, t, todo),
           Orderly([todo |-> todo, tell |-> {}, drop |-> {}])
    PROVE  /\ OnlyTask(n, t) /\ (Concurrent \/ AllIdle(n))
           /\ task'[n][t] = [todo |-> todo, tell |-> {}, drop |-> {}]
           /\ task'[n][t].tell \subseteq task[n][t].tell
           /\ task'[n][t].drop \subseteq task[n][t].drop
  <1> DEFINE v == [todo |-> todo, tell |-> {}, drop |-> {}]
  <1>1. task' = [task EXCEPT ![n][t] = v] /\ (Concurrent \/ AllIdle(n))
    BY DEF Begins, MayStart
  <1>2. v.tell = {} /\ v.drop = {}
    OBVIOUS
  <1>3. Orderly(v)
    OBVIOUS
  <1> HIDE DEF v
  <1>4. OnlyTask(n, t) /\ task'[n][t] = v
    BY <1>1, <1>3, OneTaskChanges
  <1> QED  BY <1>1, <1>2, <1>4 DEF v

\* What every move does: the copies of one name are elsewhere.
LEMMA CopiesMove ==
    ASSUME OwnersAreTyped, NEW n \in Node, NEW h \in Hostname, NEW p \in Says, Moves(n, h, p)
    PROVE  /\ where' \in [Node -> [Hostname -> Says]]
           /\ \A o \in Node \ {n} : where'[o] = where[o]
           /\ \A g \in Hostname \ {h} : where'[n][g] = where[n][g]
  BY DEF Moves, OwnersAreTyped

\* And the names nobody was told of grow by it, or stay.
LEMMA UntoldGrows ==
    ASSUME OwnersAreTyped, NEW n \in Node, NEW h \in Hostname,
           \/ UNCHANGED untold
           \/ untold' = [untold EXCEPT ![n] = @ \cup {h}]
    PROVE  /\ untold' \in [Node -> SUBSET Hostname]
           /\ \A o \in Node \ {n} : untold'[o] = untold[o]
  <1>1. CASE UNCHANGED untold
    BY <1>1 DEF OwnersAreTyped
  <1>2. CASE untold' = [untold EXCEPT ![n] = @ \cup {h}]
    <2> DEFINE u == untold[n] \cup {h}
    <2>1. u \in SUBSET Hostname /\ untold' = [untold EXCEPT ![n] = u]
      BY <1>2 DEF OwnersAreTyped
    <2> HIDE DEF u
    <2> QED  BY <2>1 DEF OwnersAreTyped
  <1> QED  BY <1>1, <1>2

\* A deployment or a placement begins to ask and to tell.
LEMMA MoveBegins ==
    ASSUME OwnersAreTyped, NEW n \in Node, NEW h \in Hostname, NEW p \in Says,
           Deploy(n, h, p) \/ \E here \in BOOLEAN : SetPlacement(n, h, p, here)
    PROVE  \E t \in Task :
             /\ OnlyTask(n, t) /\ Begun(task'[n][t]) /\ (Concurrent \/ AllIdle(n))
             /\ task'[n][t].tell \subseteq task[n][t].tell
             /\ task'[n][t].drop \subseteq task[n][t].drop
  <1>1. {} \in SUBSET Named /\ "form" \in Task /\ "deployer" \in Task
    BY DEF Task
  <1>2. ASSUME NEW t \in Task, NEW todo, Begins(n, t, todo),
               Begun([todo |-> todo, tell |-> {}, drop |-> {}])
        PROVE  /\ OnlyTask(n, t) /\ Begun(task'[n][t]) /\ (Concurrent \/ AllIdle(n))
               /\ task'[n][t].tell \subseteq task[n][t].tell
               /\ task'[n][t].drop \subseteq task[n][t].drop
    <2>1. Orderly([todo |-> todo, tell |-> {}, drop |-> {}])
      BY <1>2 DEF Begun
    <2> QED  BY <1>2, <2>1, BeginsWorks
  <1>3. CASE Deploy(n, h, p)
    <2> DEFINE q == <<"sync", "tell">>
    <2>1. Begun([todo |-> q, tell |-> {}, drop |-> {}])
      BY <1>1, BeginningsAreOrderly DEF Begun
    <2>2. Begins(n, "deployer", q)
      BY <1>3 DEF Deploy
    <2> HIDE DEF q
    <2> QED  BY <1>1, <1>2, <2>1, <2>2
  <1>4. ASSUME NEW here \in BOOLEAN, SetPlacement(n, h, p, here)
        PROVE  \E t \in Task :
                 /\ OnlyTask(n, t) /\ Begun(task'[n][t]) /\ (Concurrent \/ AllIdle(n))
                 /\ task'[n][t].tell \subseteq task[n][t].tell
                 /\ task'[n][t].drop \subseteq task[n][t].drop
    <2> DEFINE q == IF here THEN <<"tell", "sync">> ELSE <<"sync", "tell", "sync">>
    <2>1. Begun([todo |-> q, tell |-> {}, drop |-> {}])
      <3>1. CASE here
        <4>1. q = <<"tell", "sync">>
          BY <3>1
        <4> HIDE DEF q
        <4> QED  BY <1>1, <4>1, BeginningsAreOrderly DEF Begun
      <3>2. CASE ~here
        <4>1. q = <<"sync", "tell", "sync">>
          BY <3>2
        <4> HIDE DEF q
        <4> QED  BY <1>1, <4>1, BeginningsAreOrderly DEF Begun
      <3> QED  BY <3>1, <3>2
    <2>2. Begins(n, "form", q)
      BY <1>4 DEF SetPlacement
    <2> HIDE DEF q
    <2> QED  BY <1>1, <1>2, <2>1, <2>2
  <1> QED  BY <1>3, <1>4

\* A report begins to ask, and tells nobody.
LEMMA RecordedWorks ==
    ASSUME OwnersAreTyped, NEW n \in Node, NEW h \in Hostname, NEW p \in Says,
           Recorded(n, h, p)
    PROVE  /\ OnlyTask(n, "form") /\ (Concurrent \/ AllIdle(n))
           /\ At(task'[n]["form"]) = "sync" /\ Has(task'[n]["form"], "sync")
           /\ task'[n]["form"].tell \subseteq task[n]["form"].tell
           /\ task'[n]["form"].drop \subseteq task[n]["form"].drop
  <1> DEFINE q == <<"sync">>
             v == [todo |-> q, tell |-> {}, drop |-> {}]
  <1>1. Begins(n, "form", q) /\ "form" \in Task
    BY DEF Recorded, Task
  <1>2. Orderly(v) /\ At(v) = "sync" /\ Has(v, "sync")
    <2>1. {} \in SUBSET Named
      OBVIOUS
    <2> QED  BY <2>1, BeginningsAreOrderly
  <1> HIDE DEF q
  <1>3. /\ OnlyTask(n, "form") /\ (Concurrent \/ AllIdle(n)) /\ task'[n]["form"] = v
        /\ task'[n]["form"].tell \subseteq task[n]["form"].tell
        /\ task'[n]["form"].drop \subseteq task[n]["form"].drop
    BY <1>1, <1>2, BeginsWorks
  <1> HIDE DEF v
  <1> QED  BY <1>2, <1>3

\* However the copies move, one task at most begins, and nobody is on its
\* lists that was not.
LEMMA MoveWorks ==
    ASSUME OwnersAreTyped, NEW n \in Node, NEW h \in Hostname, NEW p \in Says, Move(n, h, p)
    PROVE  /\ \E t \in Task : /\ OnlyTask(n, t)
                              /\ task'[n][t].tell \subseteq task[n][t].tell
                              /\ task'[n][t].drop \subseteq task[n][t].drop
           /\ where' \in [Node -> [Hostname -> Says]]
           /\ \A o \in Node \ {n} : where'[o] = where[o]
           /\ untold' \in [Node -> SUBSET Hostname]
           /\ \A o \in Node \ {n} : untold'[o] = untold[o]
           /\ UNCHANGED <<channel, chosen, allows, edge>>
  <1>1. Moves(n, h, p) /\ UNCHANGED <<channel, chosen, allows, edge>>
    BY DEF Move, Deploy, SetPlacement, Recorded, Drained
  <1>2. \/ UNCHANGED untold
        \/ untold' = [untold EXCEPT ![n] = @ \cup {h}]
    BY DEF Move, Deploy, SetPlacement, Recorded, Drained
  <1>3. \E t \in Task : /\ OnlyTask(n, t)
                        /\ task'[n][t].tell \subseteq task[n][t].tell
                        /\ task'[n][t].drop \subseteq task[n][t].drop
    <2>1. CASE Deploy(n, h, p) \/ \E here \in BOOLEAN : SetPlacement(n, h, p, here)
      BY <2>1, MoveBegins
    <2>2. CASE Recorded(n, h, p)
      BY <2>2, RecordedWorks DEF Task
    <2>3. CASE Drained(n, h, p)
      <3>1. task' = task /\ "form" \in Task
        BY <2>3 DEF Drained, Task
      <3>2. OnlyTask(n, "form")
        BY <3>1 DEF OwnersAreTyped, OnlyTask
      <3> QED  BY <3>1, <3>2
    <2> QED  BY <2>1, <2>2, <2>3 DEF Move
  <1> QED  BY <1>1, <1>2, <1>3, CopiesMove, UntoldGrows

\* A start-up forgets what was under way, and begins to tell and to ask.
LEMMA RestartWorks ==
    ASSUME OwnersAreTyped, NEW n \in Node, Restart(n)
    PROVE  /\ task' \in [Node -> [Task -> Work]]
           /\ \A o \in Node, u \in Task : Orderly(task[o][u]')
           /\ \A o \in Node \ {n} : task'[o] = task[o]
           /\ task'[n]["form"] = Idle
           /\ n \in Owner => Begun(task'[n]["deployer"])
           /\ \A u \in Task : /\ task'[n][u].tell = {} /\ task'[n][u].drop = {}
                              /\ At(task'[n][u]) \notin {"telling", "withdrawing"}
  <1> DEFINE r == [form |-> Idle, deployer |-> Boot(n)]
  <1>1. task' = [task EXCEPT ![n] = r]
    BY DEF Restart
  <1>2. {} \in SUBSET Named
    OBVIOUS
  <1>3. Boot(n) = Idle \/ Boot(n) = [todo |-> <<"tell", "sync", "tell">>, tell |-> {}, drop |-> {}]
    BY DEF Boot
  <1>4. /\ Orderly(Boot(n)) /\ Boot(n).tell = {} /\ Boot(n).drop = {}
        /\ At(Boot(n)) \in {"nothing", "tell"}
    <2>1. CASE Boot(n) = Idle
      BY <2>1, IdleIsOrderly DEF Idle
    <2>2. CASE Boot(n) = [todo |-> <<"tell", "sync", "tell">>, tell |-> {}, drop |-> {}]
      <3>1. Orderly(Boot(n)) /\ At(Boot(n)) = "tell"
        BY <1>2, <2>2, BeginningsAreOrderly
      <3> QED  BY <2>2, <3>1
    <2> QED  BY <1>3, <2>1, <2>2
  <1>5. n \in Owner => Begun(Boot(n))
    BY <1>2, BeginningsAreOrderly DEF Boot, Begun
  <1>6. r["form"] = Idle /\ r["deployer"] = Boot(n) /\ DOMAIN r = Task
    BY DEF Task
  <1>7. r \in [Task -> Work]
    BY <1>4, <1>6, IdleIsOrderly DEF Orderly, Task
  <1> HIDE DEF r
  <1>8. /\ task' \in [Node -> [Task -> Work]] /\ task'[n] = r
        /\ \A o \in Node \ {n} : task'[o] = task[o]
    BY <1>1, <1>7 DEF OwnersAreTyped
  <1>9. ASSUME NEW u \in Task
        PROVE  /\ Orderly(task'[n][u])
               /\ task'[n][u].tell = {} /\ task'[n][u].drop = {}
               /\ At(task'[n][u]) \notin {"telling", "withdrawing"}
    <2>1. task'[n][u] = Idle \/ task'[n][u] = Boot(n)
      BY <1>6, <1>8 DEF Task
    <2>2. Idle.tell = {} /\ Idle.drop = {}
      BY DEF Idle
    <2> QED  BY <2>1, <2>2, <1>4, IdleIsOrderly
  <1>10. ASSUME NEW o \in Node, NEW u \in Task PROVE Orderly(task'[o][u])
    <2>1. CASE o = n
      BY <2>1, <1>9
    <2>2. CASE o # n
      BY <2>2, <1>8 DEF OwnersAreTyped
    <2> QED  BY <2>1, <2>2
  <1> QED  BY <1>5, <1>6, <1>8, <1>9, <1>10

------------------------------------------------------------------------------
(* The steps, by what they change                                           *)

\* A step of the queue that carries nothing out and stops nobody.
Wire ==
    \/ \E n \in Node :
         \/ \E a \in Node : Begin(n, a)
         \/ HandOver(n) \/ HandOverRefused(n) \/ HandOverTimesOut(n)
         \/ Collect(n) \/ CollectFails(n) \/ SettleArrives(n) \/ SettleTimesOut(n)
         \/ BeginHere(n)
    \/ \E m \in flight : LateAsk(m) \/ LateSettle(m) \/ Lose(m)

WireStep ==
    /\ Wire /\ UNCHANGED <<chosen, where, untold, task, edge>>
    /\ UNCHANGED allows \/ \E n, a \in Node : Begin(n, a) /\ Report(n, a)

\* Every step is an owner's, a server's, a start-up or the wire's.
LEMMA StepsAreOfAKind ==
    ASSUME EdgeSpecNext
    PROVE  \/ \E n \in Node : OwnerNext(n) \/ EdgeNext(n) \/ Restart(n)
           \/ WireStep
  <1>1. ASSUME NEW n \in Node, WireNext(n) PROVE Restart(n) \/ WireStep
    <2>1. ASSUME NEW a \in Node, BeginLeg(n, a) PROVE WireStep
      BY <2>1 DEF BeginLeg, WireStep, Wire
    <2>2. ASSUME NEW a \in Node, BeginLegUnheard(n, a) PROVE WireStep
      BY <2>2 DEF BeginLegUnheard, WireStep, Wire, owner
    <2>3. CASE HandUp(n) \/ HandUpRefused(n)
      BY <2>3 DEF HandUp, HandUpRefused, WireStep, Wire, owner
    <2>4. CASE /\ \/ HandOverTimesOut(n) \/ Collect(n) \/ CollectFails(n)
                  \/ SettleArrives(n) \/ SettleTimesOut(n) \/ BeginHere(n)
               /\ UNCHANGED <<owner, edge>>
      BY <2>4 DEF WireStep, Wire, owner
    <2> QED  BY <1>1, <2>1, <2>2, <2>3, <2>4 DEF WireNext
  <1>2. ASSUME NEW m \in flight, LateNext(m) PROVE WireStep
    BY <1>2 DEF LateNext, LateHandUp, WireStep, Wire, owner
  <1> QED  BY <1>1, <1>2 DEF EdgeSpecNext

\* A report changes what its two ends have heard, and of nobody else.
LEMMA HeardIsTyped ==
    ASSUME OwnersAreTyped, NEW n \in Node, NEW a \in Node, Report(n, a)
    PROVE  /\ allows' \in [Node -> SUBSET Node]
           /\ \A o \in Node : \/ allows'[o] = allows[o]
                              \/ o = a /\ allows'[o] = Heard(n, a)
                              \/ o = n /\ allows'[o] = Heard(a, n)
  <1>1. Heard(n, a) \in SUBSET Node /\ Heard(a, n) \in SUBSET Node
    BY DEF Heard, OwnersAreTyped
  <1>2. allows' = [allows EXCEPT ![a] = Heard(n, a), ![n] = Heard(a, n)]
    BY DEF Report
  <1> QED  BY <1>1, <1>2 DEF OwnersAreTyped

\* Owners stay of their types.
LEMMA StepTypesOwners ==
    ASSUME OwnersAreTyped, [EdgeSpecNext]_all
    PROVE  OwnersAreTyped'
  <1>1. ASSUME UNCHANGED <<chosen, where, untold, allows, task>> PROVE OwnersAreTyped'
    BY <1>1 DEF OwnersAreTyped
  <1>2. ASSUME NEW n \in Node, NEW t \in Task, OnlyTask(n, t),
               UNCHANGED <<chosen, where, allows>>,
               untold' = untold \/ untold' = [untold EXCEPT ![n] = {}]
        PROVE  OwnersAreTyped'
    BY <1>2 DEF OwnersAreTyped, OnlyTask
  <1>3. ASSUME NEW n \in Node, OwnerNext(n) PROVE OwnersAreTyped'
    <2>1. ASSUME NEW h \in Hostname, NEW nodes \in SUBSET Node, SetEdges(n, h, nodes)
          PROVE  OwnersAreTyped'
      BY <2>1, SetEdgesWorks DEF OwnersAreTyped, OnlyTask
    <2>2. ASSUME NEW h \in Hostname, NEW p \in Says, Move(n, h, p)
          PROVE  OwnersAreTyped'
      BY <2>2, MoveWorks DEF OwnersAreTyped, OnlyTask
    <2>3. ASSUME NEW t \in Task, BeginTell(n, t) PROVE OwnersAreTyped'
      BY <2>3, <1>2, BeginTellWorks DEF BeginTell
    <2>4. ASSUME NEW t \in Task, BeginSync(n, t) PROVE OwnersAreTyped'
      BY <2>4, <1>2, BeginSyncWorks DEF BeginSync
    <2>5. ASSUME NEW t \in Task, NEW x \in task[n][t].tell, TellOne(n, t, x)
          PROVE  OwnersAreTyped'
      BY <2>5, <1>2, TellOneWorks DEF TellOne
    <2>6. ASSUME NEW t \in Task, NEW x \in task[n][t].tell, WithdrawOne(n, t, x)
          PROVE  OwnersAreTyped'
      BY <2>6, <1>2, WithdrawOneWorks DEF WithdrawOne
    <2>7. ASSUME NEW t \in Task, NEW p \in task[n][t].drop, DropOne(n, t, p)
          PROVE  OwnersAreTyped'
      BY <2>7, <1>2, DropOneWorks DEF DropOne
    <2> QED  BY <1>3, <2>1, <2>2, <2>3, <2>4, <2>5, <2>6, <2>7 DEF OwnerNext, Says
  <1>4. ASSUME NEW n \in Node, EdgeNext(n) PROVE OwnersAreTyped'
    <2>1. UNCHANGED owner
      BY <1>4 DEF EdgeNext, Refuse, TakeName, Serve, ForgetRoute, ReleaseName, SetGrants,
         ReleaseUngranted
    <2> QED  BY <2>1, <1>1 DEF owner
  <1>5. ASSUME NEW n \in Node, Restart(n) PROVE OwnersAreTyped'
    BY <1>5, RestartWorks DEF OwnersAreTyped, Restart
  <1>6. CASE WireStep
    <2>1. CASE UNCHANGED allows
      BY <1>6, <2>1, <1>1 DEF WireStep
    <2>2. ASSUME NEW n \in Node, NEW a \in Node, Report(n, a) PROVE OwnersAreTyped'
      BY <1>6, <2>2, HeardIsTyped DEF OwnersAreTyped, WireStep
    <2> QED  BY <1>6, <2>1, <2>2 DEF WireStep
  <1>7. CASE UNCHANGED all
    BY <1>7, <1>1 DEF all, owner
  <1> QED  BY <1>3, <1>4, <1>5, <1>6, <1>7, StepsAreOfAKind

\* And start of them.
LEMMA OwnersStartTyped == EdgeInit => OwnersAreTyped
  <1> SUFFICES ASSUME EdgeInit PROVE OwnersAreTyped
    OBVIOUS
  <1>1. chosen \in [Node -> SUBSET Named] /\ allows \in [Node -> SUBSET Node]
    BY DEF EdgeInit
  <1>2. where \in [Node -> [Hostname -> Says]] /\ untold \in [Node -> SUBSET Hostname]
    BY DEF EdgeInit, Says
  <1>3. Idle \in Work
    BY IdleIsOrderly DEF Orderly
  <1>4. task \in [Node -> [Task -> Work]] /\ \A n \in Node, t \in Task : task[n][t] = Idle
    BY <1>3 DEF EdgeInit
  <1> QED  BY <1>1, <1>2, <1>4, IdleIsOrderly DEF OwnersAreTyped

------------------------------------------------------------------------------
(* Every step is a step of the errand queue                                 *)

LEMMA QueueingIsAStep ==
    ASSUME NEW n \in Node, NEW to \in Node, NEW s \in Subject \cup {NoSubject},
           NEW h \in Hostname, NEW says \in Says,
           Queue(n, to, s, [name |-> h, says |-> says])
    PROVE  Next
  <1>1. [name |-> h, says |-> says] \in Order
    BY OrdersAreOfEdges DEF EdgeOrder, Says
  <1> QED  BY <1>1 DEF Next

\* A step of the names is a step of the queue, or leaves it alone.
LEMMA StepIsOfTheQueue ==
    ASSUME OwnersAreTyped, [EdgeSpecNext]_all
    PROVE  [Next]_vars
  <1>1. ASSUME UNCHANGED channel PROVE [Next]_vars
    BY <1>1 DEF channel
  <1>2. ASSUME NEW n \in Node, OwnerNext(n) PROVE [Next]_vars
    <2>1. ASSUME NEW h \in Hostname, NEW nodes \in SUBSET Node, SetEdges(n, h, nodes)
          PROVE  UNCHANGED channel
      BY <2>1 DEF SetEdges
    <2>2. ASSUME NEW h \in Hostname, NEW p \in Says, Move(n, h, p)
          PROVE  UNCHANGED channel
      BY <2>2, MoveWorks
    <2>3. ASSUME NEW t \in Task, BeginTell(n, t) \/ BeginSync(n, t) PROVE UNCHANGED channel
      BY <2>3 DEF BeginTell, BeginSync
    <2>4. ASSUME NEW t \in Task, NEW x \in task[n][t].tell, TellOne(n, t, x)
          PROVE  [Next]_vars
      <3>1. x \in Telling
        BY <2>4, TellOneWorks
      <3>2. x[1] \in Hostname /\ x[2] \in Node /\ x[3] \in Says /\ x[1] \in Subject \cup {NoSubject}
        BY <3>1 DEF Telling, Hostname
      <3>3. \/ UNCHANGED channel
            \/ Queue(n, x[2], x[1], [name |-> x[1], says |-> x[3]])
        BY <2>4 DEF TellOne
      <3> QED  BY <3>2, <3>3, <1>1, QueueingIsAStep
    <2>5. ASSUME NEW t \in Task, NEW p, Withdraw(n, p), p \in Named
          PROVE  [Next]_vars
      <3>1. p[1] \in Hostname /\ p[2] \in Node /\ Nowhere \in Says
            /\ NoSubject \in Subject \cup {NoSubject}
        BY <2>5 DEF Named, Says
      <3>2. Queue(n, p[2], NoSubject, [name |-> p[1], says |-> Nowhere])
        BY <2>5 DEF Withdraw, Untagged
      <3> QED  BY <3>1, <3>2, QueueingIsAStep
    <2>6. ASSUME NEW t \in Task, NEW p \in task[n][t].tell, WithdrawOne(n, t, p)
          PROVE  [Next]_vars
      BY <2>5, <2>6, WithdrawOneWorks DEF WithdrawOne
    <2>7. ASSUME NEW t \in Task, NEW p \in task[n][t].drop, DropOne(n, t, p)
          PROVE  [Next]_vars
      BY <2>5, <2>7, DropOneWorks DEF DropOne
    <2> QED  BY <1>1, <1>2, <2>1, <2>2, <2>3, <2>4, <2>6, <2>7 DEF OwnerNext, Says
  <1>3. ASSUME NEW n \in Node, EdgeNext(n) PROVE [Next]_vars
    <2>1. UNCHANGED channel \/ \E failed \in BOOLEAN : CarryOut(n, failed)
      BY <1>3 DEF EdgeNext, Refuse, TakeName, Serve, ForgetRoute, ReleaseName, SetGrants,
         ReleaseUngranted
    <2> QED  BY <2>1, <1>1 DEF Next, Calls
  <1>4. ASSUME NEW n \in Node, Restart(n) PROVE [Next]_vars
    BY <1>4 DEF Restart, Next
  <1>5. CASE WireStep
    BY <1>5 DEF WireStep, Wire, Next, Calls
  <1>6. CASE UNCHANGED all
    BY <1>6, <1>1 DEF all
  <1> QED  BY <1>2, <1>3, <1>4, <1>5, <1>6, StepsAreOfAKind

(* The names' owners and the nodes that serve them use the errand queue as   *)
(* it is: whatever they do, its rows, legs and late requests only take       *)
(* steps of `Spec` (tell_edges, withdraw_name and serve_name call            *)
(* errand::queue and answer through collect.rs).                             *)
THEOREM NamesUseTheQueue == EdgeSpec => Spec
  <1>1. EdgeInit => OwnersAreTyped /\ Init
    BY OwnersStartTyped DEF EdgeInit
  <1>2. OwnersAreTyped /\ [EdgeSpecNext]_all => OwnersAreTyped' /\ [Next]_vars
    BY StepTypesOwners, StepIsOfTheQueue
  <1> QED  BY <1>1, <1>2, PTL DEF EdgeSpec, Spec

------------------------------------------------------------------------------
(* Reading the newest row                                                   *)

LEMMA NewestIsOfThem ==
    ASSUME NEW n, NEW L \in Nat, NEW rows \in SUBSET (1 .. L), rows # {}
    PROVE  Newest(n, rows) \in rows /\ \A j \in rows : Newest(n, rows) >= j
  <1> DEFINE S == {L - i : i \in rows}
  <1>1. S \in SUBSET Nat /\ S # {} /\ \A i \in rows : i \in Nat /\ L - i \in Nat
    <2>1. \A i \in rows : i \in Nat /\ L - i \in Nat
      OBVIOUS
    <2> QED  BY <2>1
  <1>2. Oldest(S) \in S /\ \A j \in S : Oldest(S) <= j
    BY <1>1, OldestIsLeast
  <1>3. PICK i \in rows : Oldest(S) = L - i
    BY <1>2
  <1>4. ASSUME NEW j \in rows PROVE i >= j
    <2>1. L - j \in S
      OBVIOUS
    <2>2. L - i <= L - j
      BY <1>2, <1>3, <2>1
    <2>3. i \in Nat /\ j \in Nat
      BY <1>1
    <2> HIDE DEF S
    <2> QED  BY <2>2, <2>3
  <1>5. \E k \in rows : \A j \in rows : k >= j
    BY <1>4
  <1> QED  BY <1>5 DEF Newest

\* A row after all the others is the newest with them.
LEMMA TheLastIsNewest ==
    ASSUME NEW n, NEW L \in Nat, NEW rows \in SUBSET (1 .. L), NEW R, R = rows \cup {L + 1}
    PROVE  Newest(n, R) = L + 1
  <1>1. R \in SUBSET (1 .. L + 1) /\ R # {} /\ L + 1 \in Nat /\ L + 1 \in R
    OBVIOUS
  <1>2. Newest(n, R) \in R /\ Newest(n, R) >= L + 1
    BY <1>1, NewestIsOfThem
  <1>3. \A i \in rows : i \in Nat /\ i <= L
    OBVIOUS
  <1>4. ASSUME Newest(n, R) \in rows PROVE FALSE
    <2>1. Newest(n, R) \in Nat /\ Newest(n, R) <= L /\ Newest(n, R) >= L + 1
      BY <1>2, <1>3, <1>4
    <2> QED  BY <2>1
  <1> QED  BY <1>2, <1>4

\* The rows that are read for what was last said, and for who was last told.
About(n, h, x) == {i \in DOMAIN table[n] : table[n][i].to = x /\ table[n][i].subject = h}
Naming(n, h, x) == {i \in DOMAIN table[n] : table[n][i].to = x /\ table[n][i].order.name = h}

\* What is read is one of the rows it is read from.
LEMMA ReadingThem ==
    ASSUME TypeOK, NEW n \in Node, NEW h, NEW x
    PROVE  /\ About(n, h, x) \in SUBSET (1 .. Len(table[n])) /\ Len(table[n]) \in Nat
           /\ Naming(n, h, x) \in SUBSET (1 .. Len(table[n]))
           /\ LastAbout(n, h, x) = Newest(n, About(n, h, x))
           /\ LastNaming(n, h, x) = Newest(n, Naming(n, h, x))
           /\ LastAbout(n, h, x) # 0 => LastAbout(n, h, x) \in About(n, h, x)
           /\ LastNaming(n, h, x) # 0 => LastNaming(n, h, x) \in Naming(n, h, x)
           /\ LastAbout(n, h, x) # 0 => LastAbout(n, h, x) \in DOMAIN table[n]
           /\ LastNaming(n, h, x) # 0 => LastNaming(n, h, x) \in DOMAIN table[n]
  <1>1. /\ About(n, h, x) \in SUBSET (1 .. Len(table[n])) /\ Len(table[n]) \in Nat
        /\ Naming(n, h, x) \in SUBSET (1 .. Len(table[n]))
    BY DEF TypeOK, About, Naming
  <1>2. /\ LastAbout(n, h, x) = Newest(n, About(n, h, x))
        /\ LastNaming(n, h, x) = Newest(n, Naming(n, h, x))
    BY DEF LastAbout, LastNaming, About, Naming
  <1>3. \A R : R = {} => Newest(n, R) = 0
    BY DEF Newest
  <1>4. /\ LastAbout(n, h, x) # 0 => LastAbout(n, h, x) \in About(n, h, x)
        /\ LastNaming(n, h, x) # 0 => LastNaming(n, h, x) \in Naming(n, h, x)
    BY <1>1, <1>2, <1>3, NewestIsOfThem
  <1>5. About(n, h, x) \subseteq DOMAIN table[n] /\ Naming(n, h, x) \subseteq DOMAIN table[n]
    BY DEF About, Naming
  <1> QED  BY <1>1, <1>2, <1>4, <1>5

------------------------------------------------------------------------------
(* What a step of another leaves of what an owner reads                     *)

\* What arrives in o's table unasked is addressed to o.
QuietAt(o) == \A i \in DOMAIN table'[o] : i \notin DOMAIN table[o] => table'[o][i].to = o

\* So the rows an owner reads about others stay the same rows.
LEMMA QuietKeepsRows ==
    ASSUME Grows(table, table'), NEW o \in Node, QuietAt(o), NEW h, NEW x, x # o
    PROVE  /\ About(o, h, x)' = About(o, h, x) /\ Naming(o, h, x)' = Naming(o, h, x)
           /\ \A i \in DOMAIN table[o] : table'[o][i].order = table[o][i].order
  <1>1. \A i \in DOMAIN table[o] :
          /\ i \in DOMAIN table'[o] /\ table'[o][i].to = table[o][i].to
          /\ table'[o][i].subject = table[o][i].subject
          /\ table'[o][i].order = table[o][i].order
    BY DEF Grows, SameErrand
  <1> QED  BY <1>1 DEF QuietAt, About, Naming

\* And say the same.
LEMMA QuietKeepsReading ==
    ASSUME TypeOK, TypeOK', Grows(table, table'), NEW o \in Node, QuietAt(o),
           where'[o] = where[o], NEW p \in Named, p[2] # o
    PROVE  /\ (p \in NamesTold(o))' <=> p \in NamesTold(o)
           /\ KnowsWhere(o, p)' <=> KnowsWhere(o, p)
  <1>1. /\ About(o, p[1], p[2])' = About(o, p[1], p[2])
        /\ Naming(o, p[1], p[2])' = Naming(o, p[1], p[2])
        /\ \A i \in DOMAIN table[o] : table'[o][i].order = table[o][i].order
    BY QuietKeepsRows
  <1>2. /\ LastAbout(o, p[1], p[2]) = Newest(o, About(o, p[1], p[2]))
        /\ LastNaming(o, p[1], p[2]) = Newest(o, Naming(o, p[1], p[2]))
        /\ LastAbout(o, p[1], p[2]) # 0 => LastAbout(o, p[1], p[2]) \in DOMAIN table[o]
        /\ LastNaming(o, p[1], p[2]) # 0 => LastNaming(o, p[1], p[2]) \in DOMAIN table[o]
    BY ReadingThem
  <1>3. /\ LastAbout(o, p[1], p[2])' = Newest(o, About(o, p[1], p[2]))'
        /\ LastNaming(o, p[1], p[2])' = Newest(o, Naming(o, p[1], p[2]))'
    BY DEF LastAbout, LastNaming, About, Naming
  <1>4. /\ LastAbout(o, p[1], p[2])' = LastAbout(o, p[1], p[2])
        /\ LastNaming(o, p[1], p[2])' = LastNaming(o, p[1], p[2])
    BY <1>1, <1>2, <1>3
  <1> QED  BY <1>1, <1>2, <1>4 DEF NamesTold, KnowsWhere, Named

\* What an instruction of its own makes of it.
LEMMA QueueingIsRead ==
    ASSUME TypeOK, NEW n \in Node, NEW to \in Node, NEW s \in Subject \cup {NoSubject},
           NEW h \in Hostname, NEW says \in Says,
           Queue(n, to, s, [name |-> h, says |-> says]), where'[n] = where[n],
           NEW p \in Named
    PROVE  /\ p = <<h, to>> => ((p \in NamesTold(n))' <=> says # Nowhere)
           /\ p # <<h, to>> => ((p \in NamesTold(n))' <=> p \in NamesTold(n))
           /\ p = <<s, to>> => (KnowsWhere(n, p)' <=> says = where[n][p[1]])
           /\ p # <<s, to>> => (KnowsWhere(n, p)' <=> KnowsWhere(n, p))
           /\ \A o \in Node \ {n} : table'[o] = table[o]
  <1> DEFINE r == NewRow(to, n, s, [name |-> h, says |-> says])
             L == Len(table[n])
  <1>1. /\ table' = [table EXCEPT ![n] = Append(@, r)] /\ table \in Tables
        /\ r.to = to /\ r.subject = s /\ r.order.name = h /\ r.order.says = says
    BY DEF Queue, NewRow, TypeOK, Tables
  <1>2. r \in Row
    BY RowsAreNew, OrdersAreOfEdges DEF EdgeOrder, Says
  <1> HIDE DEF r
  <1>3. /\ \A o \in Node : o # n => table'[o] = table[o]
        /\ Len(table'[n]) = L + 1 /\ table'[n] \in Seq(Row) /\ table[n] \in Seq(Row)
        /\ \A i \in DOMAIN table[n] : i \in DOMAIN table'[n] /\ table'[n][i] = table[n][i]
        /\ table'[n][L + 1] = r
    BY <1>1, <1>2, AppendingARow DEF Tables
  <1>4. L \in Nat /\ DOMAIN table[n] = 1 .. L /\ DOMAIN table'[n] = 1 .. L + 1
    BY <1>3
  <1> HIDE DEF L
  <1>5. DOMAIN table'[n] = DOMAIN table[n] \cup {L + 1}
    BY <1>4
  <1>6. p = <<p[1], p[2]>>
    BY DEF Named
  <1>7. /\ LastAbout(n, p[1], p[2]) = Newest(n, About(n, p[1], p[2]))
        /\ LastNaming(n, p[1], p[2]) = Newest(n, Naming(n, p[1], p[2]))
        /\ LastAbout(n, p[1], p[2]) # 0 => LastAbout(n, p[1], p[2]) \in DOMAIN table[n]
        /\ LastNaming(n, p[1], p[2]) # 0 => LastNaming(n, p[1], p[2]) \in DOMAIN table[n]
        /\ About(n, p[1], p[2]) \in SUBSET (1 .. L)
        /\ Naming(n, p[1], p[2]) \in SUBSET (1 .. L)
    BY ReadingThem DEF L
  <1>8. /\ LastAbout(n, p[1], p[2])' = Newest(n, About(n, p[1], p[2]))'
        /\ LastNaming(n, p[1], p[2])' = Newest(n, Naming(n, p[1], p[2]))'
    BY DEF LastAbout, LastNaming, About, Naming
  <1>9. (p \in NamesTold(n))' <=>
          /\ LastNaming(n, p[1], p[2])' # 0
          /\ table'[n][LastNaming(n, p[1], p[2])'].order.says # Nowhere
    BY DEF NamesTold, Named
  <1>10. p \in NamesTold(n) <=>
          /\ LastNaming(n, p[1], p[2]) # 0
          /\ table[n][LastNaming(n, p[1], p[2])].order.says # Nowhere
    BY DEF NamesTold, Named
  <1>11. ASSUME p = <<h, to>> PROVE (p \in NamesTold(n))' <=> says # Nowhere
    <2>1. Naming(n, p[1], p[2])' = Naming(n, p[1], p[2]) \cup {L + 1}
      BY <1>1, <1>3, <1>5, <1>11 DEF Naming
    <2>2. Newest(n, Naming(n, p[1], p[2])') = L + 1
      <3> DEFINE R == Naming(n, p[1], p[2])'
                 rows == Naming(n, p[1], p[2])
      <3>1. rows \in SUBSET (1 .. L) /\ R = rows \cup {L + 1}
        BY <1>7, <2>1
      <3> HIDE DEF R, rows
      <3>2. Newest(n, R) = L + 1
        BY <1>4, <3>1, TheLastIsNewest
      <3> QED  BY <3>2 DEF R
    <2>3. LastNaming(n, p[1], p[2])' = L + 1 /\ L + 1 # 0
      BY <1>4, <1>8, <2>2
    <2> QED  BY <1>1, <1>3, <1>9, <2>3
  <1>12. ASSUME p # <<h, to>> PROVE (p \in NamesTold(n))' <=> p \in NamesTold(n)
    <2>1. ~ (p[1] = h /\ p[2] = to)
      BY <1>6, <1>12
    <2>2. Naming(n, p[1], p[2])' = Naming(n, p[1], p[2])
      BY <1>1, <1>3, <1>5, <2>1 DEF Naming
    <2>3. LastNaming(n, p[1], p[2])' = LastNaming(n, p[1], p[2])
      BY <1>7, <1>8, <2>2
    <2> QED  BY <1>3, <1>7, <1>9, <1>10, <2>3
  <1>13. ASSUME p = <<s, to>> PROVE KnowsWhere(n, p)' <=> says = where[n][p[1]]
    <2>1. About(n, p[1], p[2])' = About(n, p[1], p[2]) \cup {L + 1}
      BY <1>1, <1>3, <1>5, <1>13 DEF About
    <2>2. Newest(n, About(n, p[1], p[2])') = L + 1
      <3> DEFINE R == About(n, p[1], p[2])'
                 rows == About(n, p[1], p[2])
      <3>1. rows \in SUBSET (1 .. L) /\ R = rows \cup {L + 1}
        BY <1>7, <2>1
      <3> HIDE DEF R, rows
      <3>2. Newest(n, R) = L + 1
        BY <1>4, <3>1, TheLastIsNewest
      <3> QED  BY <3>2 DEF R
    <2>3. LastAbout(n, p[1], p[2])' = L + 1 /\ L + 1 # 0
      BY <1>4, <1>8, <2>2
    <2> QED  BY <1>1, <1>3, <2>3 DEF KnowsWhere
  <1>14. ASSUME p # <<s, to>> PROVE KnowsWhere(n, p)' <=> KnowsWhere(n, p)
    <2>1. ~ (p[1] = s /\ p[2] = to)
      BY <1>6, <1>14
    <2>2. About(n, p[1], p[2])' = About(n, p[1], p[2])
      BY <1>1, <1>3, <1>5, <2>1 DEF About
    <2>3. LastAbout(n, p[1], p[2])' = LastAbout(n, p[1], p[2])
      BY <1>7, <1>8, <2>2
    <2> QED  BY <1>3, <1>7, <2>3 DEF KnowsWhere
  <1> QED  BY <1>3, <1>11, <1>12, <1>13, <1>14

------------------------------------------------------------------------------
(* What agreeing and enrolling leave of it                                  *)

\* U has at most one row that T has not: r, in a's table.
OnlyNew(T, U, a, r) ==
    /\ \A o \in Node : o # a => DOMAIN U[o] = DOMAIN T[o]
    /\ \A k \in DOMAIN U[a] : k \notin DOMAIN T[a] => U[a][k] = r

\* A row handed over is the only one that is new where it goes.
LEMMA HandingOverAddsOne ==
    ASSUME NEW T \in Tables, NEW n \in Node, NEW a \in Node, a # n,
           NEW i \in DOMAIN T[n], NEW r \in Row, NEW failed \in BOOLEAN
    PROVE  OnlyNew(T, [T EXCEPT ![n][i] = SettledRow(@, a, failed), ![a] = Append(@, r)], a, r)
  <1> DEFINE S == [T EXCEPT ![n][i] = SettledRow(@, a, failed)]
             U == [S EXCEPT ![a] = Append(@, r)]
  <1>1. /\ S \in Tables
        /\ \A o \in Node : o # n => S[o] = T[o]
        /\ DOMAIN S[n] = DOMAIN T[n]
        /\ \A j \in DOMAIN T[n] : j # i => S[n][j] = T[n][j]
        /\ S[n][i] = SettledRow(T[n][i], a, failed)
    BY SettlingARow
  <1>2. U = [T EXCEPT ![n][i] = SettledRow(@, a, failed), ![a] = Append(@, r)]
    BY DEF S, U, Tables
  <1> HIDE DEF S
  <1>3. /\ U \in Tables
        /\ \A o \in Node : o # a => U[o] = S[o]
        /\ Len(U[a]) = Len(S[a]) + 1
        /\ \A j \in DOMAIN S[a] : j \in DOMAIN U[a] /\ U[a][j] = S[a][j]
        /\ U[a][Len(S[a]) + 1] = r
    BY <1>1, AppendingARow
  <1> HIDE DEF U
  <1>4. \A o \in Node : DOMAIN S[o] = DOMAIN T[o]
    BY <1>1
  <1>5. U[a] \in Seq(Row) /\ S[a] \in Seq(Row)
    BY <1>1, <1>3 DEF Tables
  <1>6. \A k \in DOMAIN U[a] : k \notin DOMAIN S[a] => k = Len(S[a]) + 1
    BY <1>3, <1>5
  <1>7. OnlyNew(T, U, a, r)
    BY <1>3, <1>4, <1>6 DEF OnlyNew
  <1> QED  BY <1>2, <1>7

\* Who asks on the wire: a leg that hands over, or a request that is late.
AsksOf(n, a) ==
    \/ HandOver(n) /\ a = pass[n].with /\ a # n
    \/ \E m \in flight : m.kind = "ask" /\ m.owner = a /\ m.by = n

\* One row, of somebody who asks for it, or none.
WireAdds ==
    \/ \A k \in Node : DOMAIN table'[k] = DOMAIN table[k]
    \/ \E n, a \in Node : \E r \in Row :
         AsksOf(n, a) /\ OnlyNew(table, table', a, r) /\ r.to = a /\ r.from = n

\* A step of the wire writes a row that somebody asked for, or none.
LEMMA WireAddsWhatIsAsked ==
    ASSUME TypeOK, Bookkeeping, Wire
    PROVE  WireAdds
  <1>1. ASSUME UNCHANGED table PROVE WireAdds
    BY <1>1 DEF WireAdds
  <1>2. table \in Tables
    BY DEF TypeOK, Tables
  <1>3. ASSUME NEW n \in Node, HandOver(n) PROVE WireAdds
    <2> DEFINE a == pass[n].with
               i == Oldest(pass[n].batch)
               r == Accepted(a, n, table[n][i].order)
               U == [table EXCEPT ![n][i] = SettledRow(@, a, FALSE), ![a] = Append(@, r)]
    <2>1. a \in Node /\ a # n /\ i \in DOMAIN table[n] /\ AsksOf(n, a)
      BY <1>3, OldestInHand DEF HandOver, TypeOK, Leg, Bookkeeping, ReachesOthers, HoldsRows,
         AsksOf
    <2>2. table[n][i] \in Row
      BY <2>1 DEF TypeOK
    <2>3. r \in Row /\ r.to = a /\ r.from = n
      BY <2>1, <2>2, AcceptedIsNew
    <2>4. table' = U
      BY <1>3 DEF HandOver
    <2> HIDE DEF a, i, r
    <2>5. OnlyNew(table, U, a, r)
      BY <1>2, <2>1, <2>3, HandingOverAddsOne
    <2> HIDE DEF U
    <2> QED  BY <2>1, <2>3, <2>4, <2>5 DEF WireAdds
  <1>4. ASSUME NEW n \in Node, SettleArrives(n) PROVE WireAdds
    <2> DEFINE a == pass[n].with
               i == Oldest(pass[n].batch)
    <2>1. a \in Node /\ i \in DOMAIN table[a] /\ pass[n].failed \in BOOLEAN
      BY <1>4, OldestInHand DEF SettleArrives, TypeOK, Leg, Bookkeeping, HoldsRows
    <2>2. table' = [table EXCEPT ![a][i] = SettledRow(@, n, pass[n].failed)]
      BY <1>4 DEF SettleArrives, Settle
    <2> HIDE DEF a, i
    <2>3. \A k \in Node : DOMAIN table'[k] = DOMAIN table[k]
      BY <1>2, <2>1, <2>2, SettlingARow
    <2> QED  BY <2>3 DEF WireAdds
  <1>5. ASSUME NEW m \in flight, LateAsk(m) PROVE WireAdds
    <2> DEFINE a == m.owner
               n == m.by
               r == Accepted(a, n, table[m.by][m.row].order)
               V == [table EXCEPT ![a] = Append(@, r)]
    <2>1. /\ a \in Node /\ n \in Node /\ m.row \in DOMAIN table[m.by]
          /\ table[m.by] \in Seq(Row) /\ AsksOf(n, a)
      BY <1>5 DEF LateAsk, TypeOK, Flight, Bookkeeping, ArrivesTrue, AsksOf
    <2>2. table[m.by][m.row] \in Row
      BY <2>1
    <2>3. r \in Row /\ r.to = a /\ r.from = n
      BY <2>1, <2>2, AcceptedIsNew
    <2>4. table' = V
      BY <1>5 DEF LateAsk
    <2> HIDE DEF r, a, n
    <2>5. /\ \A k \in Node : k # a => V[k] = table[k]
          /\ Len(V[a]) = Len(table[a]) + 1 /\ V \in Tables
          /\ V[a][Len(table[a]) + 1] = r
      BY <1>2, <2>1, <2>3, AppendingARow
    <2> HIDE DEF V
    <2>6. ASSUME NEW k \in DOMAIN V[a], k \notin DOMAIN table[a]
          PROVE  k = Len(table[a]) + 1
      <3>1. V[a] \in Seq(Row) /\ table[a] \in Seq(Row)
        BY <1>2, <2>1, <2>5 DEF Tables
      <3> QED  BY <2>5, <2>6, <3>1
    <2>7. OnlyNew(table, V, a, r)
      BY <2>5, <2>6 DEF OnlyNew
    <2> QED  BY <2>1, <2>3, <2>4, <2>7 DEF WireAdds
  <1>6. ASSUME NEW m \in flight, LateSettle(m) PROVE WireAdds
    <2>1. m.owner \in Node /\ m.row \in DOMAIN table[m.owner] /\ m.failed \in BOOLEAN
      BY <1>6 DEF LateSettle, TypeOK, Flight, Bookkeeping, ArrivesTrue
    <2>2. table' = [table EXCEPT ![m.owner][m.row] = SettledRow(@, m.by, m.failed)]
      BY <1>6 DEF LateSettle, Settle
    <2>3. \A k \in Node : DOMAIN table'[k] = DOMAIN table[k]
      BY <1>2, <2>1, <2>2, SettlingARow
    <2> QED  BY <2>3 DEF WireAdds
  <1>7. ASSUME NEW n \in Node,
               \/ \E a \in Node : Begin(n, a)
               \/ HandOverRefused(n) \/ HandOverTimesOut(n) \/ Collect(n)
               \/ CollectFails(n) \/ SettleTimesOut(n) \/ BeginHere(n)
        PROVE  UNCHANGED table
    BY <1>7 DEF Begin, HandOverRefused, HandOverTimesOut, Collect, CollectFails,
       SettleTimesOut, BeginHere
  <1>8. ASSUME NEW m \in flight, Lose(m) PROVE UNCHANGED table
    BY <1>8 DEF Lose
  <1> QED  BY <1>1, <1>3, <1>4, <1>5, <1>6, <1>7, <1>8 DEF Wire

\* So it leaves what an owner told others alone.
LEMMA WireIsQuiet ==
    ASSUME TypeOK, Bookkeeping, Wire, NEW o \in Node
    PROVE  QuietAt(o)
  BY WireAddsWhatIsAsked DEF WireAdds, OnlyNew, QuietAt

\* Authority is only taken from nodes that are enrolled.
LEMMA EnrolledStay ==
    ASSUME TypeOK, [Next]_vars, \A n \in Node : \A a \in authority[n] : <<n, a>> \in Enrolled
    PROVE  \A n \in Node : \A a \in authority'[n] : <<n, a>> \in Enrolled
  <1>1. ASSUME UNCHANGED authority
        PROVE  \A n \in Node : \A a \in authority'[n] : <<n, a>> \in Enrolled
    BY <1>1
  <1>2. ASSUME NEW k \in Node, NEW b \in Node, Revoke(k, b) \/ Grant(k, b)
        PROVE  \A n \in Node : \A a \in authority'[n] : <<n, a>> \in Enrolled
    <2>1. authority \in [Node -> SUBSET Node]
      BY DEF TypeOK
    <2>2. \A n \in Node : \A a \in authority'[n] :
            a \in authority[n] \/ (n = k /\ a = b /\ Grant(k, b))
      <3>1. CASE Revoke(k, b)
        <4>1. authority' = [authority EXCEPT ![k] = authority[k] \ {b}]
          BY <3>1 DEF Revoke
        <4> QED  BY <2>1, <4>1
      <3>2. CASE Grant(k, b)
        <4>1. authority' = [authority EXCEPT ![k] = authority[k] \cup {b}]
          BY <3>2 DEF Grant
        <4> QED  BY <2>1, <3>2, <4>1
      <3> QED  BY <1>2, <3>1, <3>2
    <2>3. Grant(k, b) => <<k, b>> \in Enrolled
      BY DEF Grant
    <2> QED  BY <2>2, <2>3
  <1>3. ASSUME NEW n \in Node, Calls(n) PROVE UNCHANGED authority
    BY <1>3 DEF Calls, HandOver, HandOverRefused, HandOverTimesOut, Collect, CollectFails,
       CarryOut, SettleArrives, SettleTimesOut
  <1> QED
    BY <1>1, <1>2, <1>3 DEF vars, Next, Queue, Begin, BeginHere, Crash, LateAsk,
       LateSettle, Lose

\* Grants change by the operator's hand only, and that is written down.
LEMMA GrantsAreSteady ==
    ASSUME [EdgeSpecNext]_all, OwnersAreTyped
    PROVE  \/ UNCHANGED consent
           \/ \E m \in Node : /\ wavered' = wavered \cup {m} /\ UNCHANGED <<channel, owner>>
                              /\ \A x \in Node \ {m} : grants'[x] = grants[x]
  <1>1. ASSUME NEW n \in Node, OwnerNext(n) PROVE UNCHANGED consent
    BY <1>1 DEF OwnerNext, SetEdges, Move, Deploy, SetPlacement, Recorded, Drained,
       BeginTell, BeginSync, TellOne, WithdrawOne,
       DropOne, edge
  <1>2. ASSUME NEW n \in Node, EdgeNext(n)
        PROVE  \/ UNCHANGED consent
               \/ \E a \in Node : SetGrants(n, a)
    BY <1>2 DEF EdgeNext, Refuse, TakeName, Serve, ForgetRoute, ReleaseName,
       ReleaseUngranted, edge
  <1>3. ASSUME NEW n \in Node, Restart(n) PROVE UNCHANGED consent
    BY <1>3 DEF Restart
  <1>4. CASE WireStep
    BY <1>4 DEF WireStep, edge
  <1>5. CASE UNCHANGED all
    BY <1>5 DEF all, edge
  <1>6. ASSUME NEW n \in Node, NEW a \in Node, SetGrants(n, a)
        PROVE  /\ wavered' = wavered \cup {n} /\ UNCHANGED <<channel, owner>>
               /\ \A x \in Node \ {n} : grants'[x] = grants[x]
    <2> DEFINE g == IF a \in grants[n] THEN grants[n] \ {a} ELSE grants[n] \cup {a}
    <2>1. /\ grants' = [grants EXCEPT ![n] = g]
          /\ wavered' = wavered \cup {n} /\ UNCHANGED <<channel, owner>>
      BY <1>6 DEF SetGrants
    <2> HIDE DEF g
    <2> QED  BY <2>1
  <1> QED  BY <1>1, <1>2, <1>3, <1>4, <1>5, <1>6, StepsAreOfAKind

\* So a node that never changed its mind still agrees to everybody.
LEMMA SteadyGrantStays ==
    ASSUME TypeOK, OwnersAreTyped, SteadyGrant, [EdgeSpecNext]_all
    PROVE  SteadyGrant' /\ wavered \subseteq wavered'
  <1>1. \A n \in Node : \A a \in authority'[n] : <<n, a>> \in Enrolled
    BY StepIsOfTheQueue, EnrolledStay DEF SteadyGrant
  <1>2. CASE UNCHANGED consent
    BY <1>1, <1>2 DEF consent, SteadyGrant
  <1>3. ASSUME NEW m \in Node, wavered' = wavered \cup {m},
               \A x \in Node \ {m} : grants'[x] = grants[x]
        PROVE  SteadyGrant' /\ wavered \subseteq wavered'
    BY <1>1, <1>3 DEF SteadyGrant
  <1> QED  BY <1>2, <1>3, GrantsAreSteady DEF consent

\* Nor does hearing change who is allowed, of those that are steady.
LEMMA AllowedAreSteady ==
    ASSUME TypeOK, Bookkeeping, OwnersAreTyped, SteadyGrant, [EdgeSpecNext]_all,
           NEW o \in Node, SteadyAreAllowed(o)
    PROVE  SteadyAreAllowed(o)'
  <1>1. wavered \subseteq wavered'
    BY SteadyGrantStays
  <1>2. ASSUME UNCHANGED allows PROVE SteadyAreAllowed(o)'
    BY <1>1, <1>2 DEF SteadyAreAllowed
  <1>3. ASSUME NEW n \in Node, OwnerNext(n) PROVE UNCHANGED allows
    BY <1>3 DEF OwnerNext, SetEdges, Move, Deploy, SetPlacement, Recorded, Drained,
       BeginTell, BeginSync, TellOne, WithdrawOne, DropOne
  <1>4. ASSUME NEW n \in Node, EdgeNext(n) PROVE UNCHANGED allows
    BY <1>4 DEF EdgeNext, Refuse, TakeName, Serve, ForgetRoute, ReleaseName, SetGrants,
       ReleaseUngranted, owner
  <1>5. ASSUME NEW n \in Node, Restart(n) PROVE UNCHANGED allows
    BY <1>5 DEF Restart
  <1>6. CASE UNCHANGED all
    BY <1>2, <1>6 DEF all, owner
  <1>7. ASSUME NEW n \in Node, NEW a \in Node, Begin(n, a), Report(n, a), WireStep
        PROVE  SteadyAreAllowed(o)'
    <2>1. wavered' = wavered /\ <<n, a>> \in Enrolled
      BY <1>7 DEF WireStep, edge, consent, Begin, SteadyGrant
    <2>2. n # a
      BY <2>1, NobodyJoinsItself
    <2>3. ASSUME NEW x \in Node \ wavered, x # o PROVE x \in allows'[o] <=> Related(o, x)
      <3>1. x \in allows[o] <=> Related(o, x)
        BY <2>3 DEF SteadyAreAllowed
      <3>2. grants[x] = Node \ {x}
        BY <2>3 DEF SteadyGrant
      <3>3. \/ allows'[o] = allows[o]
            \/ o = a /\ allows'[o] = Heard(n, a)
            \/ o = n /\ allows'[o] = Heard(a, n)
        BY <1>7, HeardIsTyped
      <3>4. CASE o = a /\ allows'[o] = Heard(n, a)
        <4>1. CASE x = n
          BY <2>1, <2>2, <3>2, <3>4, <4>1 DEF Heard, Related
        <4>2. CASE x # n
          BY <3>1, <3>4, <4>2 DEF Heard
        <4> QED  BY <4>1, <4>2
      <3>5. CASE o = n /\ allows'[o] = Heard(a, n)
        <4>1. CASE x = a
          BY <2>1, <2>2, <3>2, <3>5, <4>1 DEF Heard, Related
        <4>2. CASE x # a
          BY <3>1, <3>5, <4>2 DEF Heard
        <4> QED  BY <4>1, <4>2
      <3> QED  BY <3>1, <3>3, <3>4, <3>5
    <2> QED  BY <2>1, <2>3 DEF SteadyAreAllowed
  <1>8. CASE WireStep
    BY <1>2, <1>7, <1>8 DEF WireStep
  <1> QED  BY <1>2, <1>3, <1>4, <1>5, <1>6, <1>8, StepsAreOfAKind

\* So an owner that nobody disturbs keeps what it keeps.
LEMMA UndisturbedOwnerHolds ==
    ASSUME TypeOK, TypeOK', Grows(table, table'), OwnersAreTyped, NEW o \in Node,
           OwnerHolds(o), QuietAt(o), wavered \subseteq wavered', wavered' \subseteq Node,
           task'[o] = task[o], chosen'[o] = chosen[o], where'[o] = where[o],
           untold'[o] = untold[o], SteadyAreAllowed(o)'
    PROVE  OwnerHolds(o)'
  <1>1. OneAtATime(o)' /\ TellsTheTruth(o)'
    BY DEF OwnerHolds, OneAtATime, Alone, TellsTheTruth, TruthIn
  <1>2. ASSUME NEW p PROVE /\ ToBeWithdrawn(o, p)' <=> ToBeWithdrawn(o, p)
                           /\ ToBeTold(o, p)' <=> ToBeTold(o, p)
    BY DEF ToBeWithdrawn, ToBeTold, WillWithdraw, WillTell
  <1>3. OthersWillStop(o)'
    <2> SUFFICES ASSUME NEW p \in NamesTold(o)', p[2] # o, p \notin chosen'[o]
                 PROVE  ToBeWithdrawn(o, p)'
      BY DEF OthersWillStop
    <2>1. p \in Named
      BY DEF NamesTold, Named
    <2>2. p \in NamesTold(o)
      BY <2>1, QuietKeepsReading
    <2> QED  BY <1>2, <2>2 DEF OwnerHolds, OthersWillStop
  <1>4. ChosenWillKnow(o)'
    <2> SUFFICES ASSUME NEW p \in Owed(o)'
                 PROVE  KnowsWhere(o, p)' \/ ToBeTold(o, p)'
      BY DEF ChosenWillKnow
    <2>0. /\ p \in chosen'[o] /\ p[2] \in allows'[o] \ ({o} \cup wavered')
          /\ p[1] \notin untold'[o]
      BY DEF Owed, Agreeing
    <2>1. p \in Named /\ p[2] \in Node /\ p \in chosen[o]
      BY <2>0 DEF OwnersAreTyped, Named
    <2>2. p[2] \in allows[o] \ ({o} \cup wavered)
      BY <2>0, <2>1 DEF OwnerHolds, SteadyAreAllowed
    <2>3. KnowsWhere(o, p) \/ ToBeTold(o, p)
      BY <2>0, <2>1, <2>2 DEF OwnerHolds, ChosenWillKnow, Owed, Agreeing
    <2>4. KnowsWhere(o, p)' <=> KnowsWhere(o, p)
      BY <2>1, <2>2, QuietKeepsReading
    <2> QED  BY <1>2, <2>3, <2>4
  <1> QED  BY <1>1, <1>3, <1>4 DEF OwnerHolds

------------------------------------------------------------------------------
(* What its own steps leave of it                                           *)

\* With nothing to do there is nobody to tell anything.
LEMMA IdleOwesNothing ==
    ASSUME NEW o, NEW t \in Task, task[o][t] = Idle
    PROVE  \A p : ~WillWithdraw(o, t, p) /\ ~WillTell(o, t, p)
  <1>1. /\ At(task[o][t]) = "nothing"
        /\ ~Has(task[o][t], "sync") /\ ~Has(task[o][t], "tell")
    BY IdleIsOrderly DEF Later
  <1> QED  BY <1>1 DEF WillWithdraw, WillTell

\* Who does something is the one that owes.
LEMMA TheBusyOneOwes ==
    ASSUME NEW o, OneAtATime(o), NEW t \in Task, task[o][t] # Idle
    PROVE  /\ Alone(o, t)
           /\ \A p : ToBeWithdrawn(o, p) => WillWithdraw(o, t, p)
           /\ \A p : ToBeTold(o, p) => WillTell(o, t, p)
  <1>1. Alone(o, t)
    BY DEF OneAtATime, Alone
  <1>2. \A u \in Task \ {t} : \A p : ~WillWithdraw(o, u, p) /\ ~WillTell(o, u, p)
    BY <1>1, IdleOwesNothing DEF Alone
  <1> QED  BY <1>1, <1>2 DEF ToBeWithdrawn, ToBeTold

\* It is enough that the one that does something keeps it.
LEMMA TheBusyOneHolds ==
    ASSUME NEW o, NEW t \in Task, Alone(o, t)', TruthIn(o, t)', SteadyAreAllowed(o)',
           \A p \in NamesTold(o)' : p[2] # o /\ p \notin chosen'[o] => WillWithdraw(o, t, p)',
           \A p \in Owed(o)' : KnowsWhere(o, p)' \/ WillTell(o, t, p)'
    PROVE  OwnerHolds(o)'
  <1>1. OneAtATime(o)'
    BY DEF OneAtATime
  <1>2. TellsTheTruth(o)'
    <2>1. ASSUME NEW u \in Task, u # t PROVE TruthIn(o, u)'
      <3>1. At(task'[o][u]) = "nothing"
        BY <2>1, IdleIsOrderly DEF Alone
      <3> QED  BY <3>1 DEF TruthIn
    <2> QED  BY <2>1 DEF TellsTheTruth
  <1>3. OthersWillStop(o)'
    BY DEF OthersWillStop, ToBeWithdrawn
  <1>4. ChosenWillKnow(o)'
    BY DEF ChosenWillKnow, ToBeTold
  <1> QED  BY <1>1, <1>2, <1>3, <1>4 DEF OwnerHolds

\* Who has just begun has everything to do.
LEMMA BegunHolds ==
    ASSUME NEW o, NEW t \in Task, Alone(o, t)', Begun(task'[o][t]), SteadyAreAllowed(o)'
    PROVE  OwnerHolds(o)'
  <1>1. TruthIn(o, t)'
    BY DEF TruthIn, Begun
  <1>2. \A p : WillWithdraw(o, t, p)' /\ WillTell(o, t, p)'
    BY DEF WillWithdraw, WillTell, Begun
  <1> QED  BY <1>1, <1>2, TheBusyOneHolds

\* What is read does not change with the tasks.
LEMMA ReadingIsOfTheTable ==
    ASSUME NEW o, table' = table, where'[o] = where[o]
    PROVE  /\ NamesTold(o)' = NamesTold(o)
           /\ \A p : KnowsWhere(o, p)' <=> KnowsWhere(o, p)
  <1>1. \A h, x : LastNaming(o, h, x)' = LastNaming(o, h, x)
    BY DEF LastNaming, Newest
  <1>2. \A h, x : LastAbout(o, h, x)' = LastAbout(o, h, x)
    BY DEF LastAbout, Newest
  <1>3. NamesTold(o)' = NamesTold(o)
    BY <1>1 DEF NamesTold
  <1>4. ASSUME NEW p PROVE KnowsWhere(o, p)' <=> KnowsWhere(o, p)
    BY <1>2 DEF KnowsWhere
  <1> QED  BY <1>3, <1>4

\* The parts of the thing at hand that an owner's step may not disturb.
Steady(o, t) ==
    /\ Alone(o, t)' /\ SteadyAreAllowed(o)'
    /\ chosen' = chosen /\ where' = where /\ allows' = allows /\ wavered' = wavered

\* A step of one task disturbs no other, and owes what is owed.
LEMMA ABusyStepIsSteady ==
    ASSUME OwnersAreTyped, NEW o \in Node, NEW t \in Task, OneAtATime(o),
           Doing(o, t) # "nothing", OnlyTask(o, t), SteadyAreAllowed(o)',
           UNCHANGED <<chosen, where, allows, edge>>
    PROVE  /\ Steady(o, t)
           /\ \A p : ToBeWithdrawn(o, p) => WillWithdraw(o, t, p)
           /\ \A p : ToBeTold(o, p) => WillTell(o, t, p)
  <1>1. task[o][t] # Idle
    BY DoesWhatItIsAt
  <1>2. Alone(o, t)
    BY <1>1, TheBusyOneOwes
  <1>3. Alone(o, t)'
    BY <1>2 DEF Alone, OnlyTask
  <1> QED  BY <1>1, <1>3, TheBusyOneOwes DEF Steady, edge, consent

\* Once the rows are read, who is owed an instruction is on the list.
LEMMA BeginTellHolds ==
    ASSUME OwnersAreTyped, NEW o \in Node, NEW t \in Task, OwnerHolds(o), BeginTell(o, t),
           SteadyAreAllowed(o)'
    PROVE  OwnerHolds(o)'
  <1> DEFINE w == task[o][t]
             v == task'[o][t]
  <1>1. /\ OnlyTask(o, t) /\ At(w) = "tell" /\ Goes(w, v, "telling") /\ v.tell = Tellings(o)
        /\ Doing(o, t) # "nothing" /\ UNCHANGED <<channel, chosen, where, allows, edge>>
    BY BeginTellWorks DEF BeginTell
  <1>2. /\ Steady(o, t)
        /\ \A p : ToBeWithdrawn(o, p) => WillWithdraw(o, t, p)
    BY <1>1, ABusyStepIsSteady DEF OwnerHolds
  <1>3. /\ NamesTold(o)' = NamesTold(o) /\ \A p : KnowsWhere(o, p)' <=> KnowsWhere(o, p)
    BY <1>1, ReadingIsOfTheTable DEF channel, vars
  <1>4. TruthIn(o, t)'
    <2>1. ASSUME NEW x \in Tellings(o)
          PROVE  <<x[1], x[2]>> \in chosen[o] /\ x[2] # o /\ x[3] = where[o][x[1]]
      <3>1. PICK p \in {q \in chosen[o] : q[2] # o /\ q[2] \in allows[o]} :
              x = <<p[1], p[2], where[o][p[1]]>>
        BY DEF Tellings
      <3>2. p \in Named
        BY DEF OwnersAreTyped
      <3>3. p = <<p[1], p[2]>>
        BY <3>2 DEF Named
      <3> QED  BY <3>1, <3>3
    <2> QED  BY <1>1, <1>2, <2>1 DEF TruthIn, Steady
  <1>5. ASSUME NEW p \in NamesTold(o)', p[2] # o, p \notin chosen'[o]
        PROVE  WillWithdraw(o, t, p)'
    <2>1. WillWithdraw(o, t, p)
      BY <1>2, <1>3, <1>5 DEF OwnerHolds, OthersWillStop, Steady
    <2>2. Has(w, "sync")
      BY <1>1, <2>1 DEF WillWithdraw
    <2>3. Has(v, "sync")
      BY <1>1, <2>2 DEF Goes, Keeps, Later
    <2> QED  BY <2>3 DEF WillWithdraw
  <1>6. ASSUME NEW p \in Owed(o)'
        PROVE  WillTell(o, t, p)'
    <2>3. p \in chosen'[o] /\ p[2] \in allows'[o] \ ({o} \cup wavered')
      BY <1>6 DEF Owed, Agreeing
    <2>1. <<p[1], p[2], where[o][p[1]]>> \in v.tell
      BY <1>1, <1>2, <2>3 DEF Tellings, Steady
    <2>2. At(v) = "telling"
      BY <1>1, <2>1 DEF Goes
    <2> QED  BY <1>2, <2>1, <2>2 DEF WillTell, Steady
  <1> QED  BY <1>2, <1>4, <1>5, <1>6, TheBusyOneHolds DEF Steady

\* Once it has asked, who is owed a withdrawal is on the list.
LEMMA BeginSyncHolds ==
    ASSUME OwnersAreTyped, NEW o \in Node, NEW t \in Task, OwnerHolds(o), BeginSync(o, t),
           SteadyAreAllowed(o)'
    PROVE  OwnerHolds(o)'
  <1> DEFINE w == task[o][t]
             v == task'[o][t]
  <1>1. /\ OnlyTask(o, t) /\ At(w) = "sync" /\ Goes(w, v, "withdrawing")
        /\ v.tell = Unwanted(o) /\ untold' = untold
        /\ Doing(o, t) # "nothing" /\ UNCHANGED <<channel, chosen, where, allows, edge>>
    BY BeginSyncWorks DEF BeginSync
  <1>2. /\ Steady(o, t)
        /\ \A p : ToBeTold(o, p) => WillTell(o, t, p)
    BY <1>1, ABusyStepIsSteady DEF OwnerHolds
  <1>3. /\ NamesTold(o)' = NamesTold(o) /\ \A p : KnowsWhere(o, p)' <=> KnowsWhere(o, p)
    BY <1>1, ReadingIsOfTheTable DEF channel, vars
  <1>4. TruthIn(o, t)'
    BY <1>1 DEF TruthIn, Goes
  <1>5. ASSUME NEW p \in NamesTold(o)', p[2] # o, p \notin chosen'[o]
        PROVE  WillWithdraw(o, t, p)'
    <2>1. p \in v.tell
      BY <1>1, <1>2, <1>3, <1>5 DEF Unwanted, Steady
    <2>2. At(v) = "withdrawing"
      BY <1>1, <2>1 DEF Goes
    <2> QED  BY <2>1, <2>2 DEF WillWithdraw
  <1>6. ASSUME NEW p \in Owed(o)'
        PROVE  KnowsWhere(o, p)' \/ WillTell(o, t, p)'
    <2>4. p \in Owed(o)
      BY <1>1, <1>2, <1>6 DEF Owed, Agreeing, Steady
    <2>1. KnowsWhere(o, p) \/ WillTell(o, t, p)
      BY <1>2, <2>4 DEF OwnerHolds, ChosenWillKnow
    <2>2. WillTell(o, t, p) => Has(w, "tell")
      BY <1>1 DEF WillTell
    <2>3. Has(w, "tell") => Has(v, "tell")
      BY <1>1 DEF Goes, Keeps, Later
    <2> QED  BY <1>3, <2>1, <2>2, <2>3 DEF WillTell
  <1> QED  BY <1>2, <1>4, <1>5, <1>6, TheBusyOneHolds DEF Steady

\* Who is told knows where, whether or not a row had to be written.
LEMMA TellOneHolds ==
    ASSUME TypeOK, OwnersAreTyped, NEW o \in Node, NEW t \in Task, NEW x \in task[o][t].tell,
           OwnerHolds(o), TellOne(o, t, x), SteadyAreAllowed(o)'
    PROVE  OwnerHolds(o)'
  <1> DEFINE w == task[o][t]
             v == task'[o][t]
  <1>1. /\ OnlyTask(o, t) /\ At(w) = "telling" /\ x \in Telling /\ Goes(w, v, "telling")
        /\ v.tell = w.tell \ {x} /\ untold' = untold
        /\ Doing(o, t) # "nothing" /\ UNCHANGED <<chosen, where, allows, edge>>
    BY TellOneWorks DEF TellOne
  <1>2. /\ Steady(o, t)
        /\ \A p : ToBeWithdrawn(o, p) => WillWithdraw(o, t, p)
        /\ \A p : ToBeTold(o, p) => WillTell(o, t, p)
    BY <1>1, ABusyStepIsSteady DEF OwnerHolds
  <1>3. x[1] \in Hostname /\ x[2] \in Node /\ x[3] \in Says /\ x = <<x[1], x[2], x[3]>>
    BY <1>1 DEF Telling
  <1>4. <<x[1], x[2]>> \in chosen[o] /\ x[2] # o /\ x[3] = where[o][x[1]]
    BY <1>1 DEF OwnerHolds, TellsTheTruth, TruthIn
  <1>5. TruthIn(o, t)'
    BY <1>1, <1>2 DEF TruthIn, OwnerHolds, TellsTheTruth, Steady
  <1>6. ASSUME NEW p \in Named
        PROVE  /\ p = <<x[1], x[2]>> => KnowsWhere(o, p)'
               /\ p # <<x[1], x[2]>> => /\ (p \in NamesTold(o))' <=> p \in NamesTold(o)
                                        /\ KnowsWhere(o, p)' <=> KnowsWhere(o, p)
    <2>1. CASE WouldChange(o, x[1], x[2], x[3])
      <3>1. Queue(o, x[2], x[1], [name |-> x[1], says |-> x[3]])
        BY <2>1 DEF TellOne
      <3>2. x[1] \in Subject \cup {NoSubject} /\ where'[o] = where[o]
        BY <1>1, <1>3 DEF Hostname
      <3>3. p = <<x[1], x[2]>> => p[1] = x[1]
        OBVIOUS
      <3> QED  BY <1>3, <1>4, <3>1, <3>2, <3>3, QueueingIsRead
    <2>2. CASE ~WouldChange(o, x[1], x[2], x[3])
      <3>1. UNCHANGED channel
        BY <2>2 DEF TellOne
      <3>2. /\ NamesTold(o)' = NamesTold(o)
            /\ \A q : KnowsWhere(o, q)' <=> KnowsWhere(o, q)
        BY <1>1, <3>1, ReadingIsOfTheTable DEF channel, vars
      <3>3. LET i == LastAbout(o, x[1], x[2]) IN i # 0 /\ table[o][i].order.says = x[3]
        BY <2>2 DEF WouldChange
      <3>4. KnowsWhere(o, <<x[1], x[2]>>)
        BY <1>4, <3>3 DEF KnowsWhere
      <3> QED  BY <3>2, <3>4
    <2> QED  BY <2>1, <2>2
  <1>7. ASSUME NEW p \in NamesTold(o)', p[2] # o, p \notin chosen'[o]
        PROVE  WillWithdraw(o, t, p)'
    <2>1. p \in Named /\ p # <<x[1], x[2]>>
      BY <1>2, <1>4, <1>7 DEF NamesTold, Named, Steady
    <2>2. WillWithdraw(o, t, p)
      BY <1>2, <1>6, <1>7, <2>1 DEF OwnerHolds, OthersWillStop, Steady
    <2>3. Has(w, "sync")
      BY <1>1, <2>2 DEF WillWithdraw
    <2>4. Has(v, "sync")
      BY <1>1, <2>3 DEF Goes, Keeps, Later
    <2> QED  BY <2>4 DEF WillWithdraw
  <1>8. ASSUME NEW p \in Owed(o)'
        PROVE  KnowsWhere(o, p)' \/ WillTell(o, t, p)'
    <2>1. p \in Named /\ p \in Owed(o)
      BY <1>1, <1>2, <1>8 DEF OwnersAreTyped, Steady, Owed, Agreeing
    <2>2. CASE p = <<x[1], x[2]>>
      BY <1>6, <2>1, <2>2
    <2>3. CASE p # <<x[1], x[2]>>
      <3>1. KnowsWhere(o, p) \/ WillTell(o, t, p)
        BY <1>2, <2>1 DEF OwnerHolds, ChosenWillKnow
      <3>2. CASE KnowsWhere(o, p)
        BY <1>6, <2>1, <2>3, <3>2
      <3>3. CASE Has(w, "tell")
        <4>1. Has(v, "tell")
          BY <1>1, <3>3 DEF Goes, Keeps, Later
        <4> QED  BY <4>1 DEF WillTell
      <3>4. CASE <<p[1], p[2], where[o][p[1]]>> \in w.tell
        <4>1. p = <<p[1], p[2]>>
          BY <2>1 DEF Named
        <4>2. <<p[1], p[2], where[o][p[1]]>> # x
          BY <1>3, <2>3, <4>1
        <4>3. <<p[1], p[2], where[o][p[1]]>> \in v.tell
          BY <1>1, <3>4, <4>2
        <4>4. At(v) = "telling"
          BY <1>1, <4>3 DEF Goes
        <4> QED  BY <1>2, <4>3, <4>4 DEF WillTell, Steady
      <3> QED  BY <3>1, <3>2, <3>3, <3>4 DEF WillTell
    <2> QED  BY <2>2, <2>3
  <1> QED  BY <1>2, <1>5, <1>7, <1>8, TheBusyOneHolds DEF Steady

\* A withdrawal names nobody, and is about no name that is told.
LEMMA WithdrawalIsRead ==
    ASSUME TypeOK, NEW o \in Node, NEW q \in Named, Withdraw(o, q), where'[o] = where[o],
           NEW p \in Named
    PROVE  /\ (p \in NamesTold(o))' <=> (p \in NamesTold(o) /\ p # q)
           /\ KnowsWhere(o, p)' <=> KnowsWhere(o, p)
  <1>1. q[1] \in Hostname /\ q[2] \in Node /\ q = <<q[1], q[2]>> /\ Nowhere \in Says
    BY DEF Named, Says
  <1>2. p # <<NoSubject, q[2]>>
    <2>1. p[1] \in Hostname
      BY DEF Named
    <2> QED  BY <2>1, NoSubjectIsNone DEF Hostname
  <1>3. Queue(o, q[2], NoSubject, [name |-> q[1], says |-> Nowhere])
    BY DEF Withdraw, Untagged
  <1>4. /\ p = <<q[1], q[2]>> => ((p \in NamesTold(o))' <=> Nowhere # Nowhere)
        /\ p # <<q[1], q[2]>> => ((p \in NamesTold(o))' <=> p \in NamesTold(o))
        /\ KnowsWhere(o, p)' <=> KnowsWhere(o, p)
    BY <1>1, <1>2, <1>3, QueueingIsRead
  <1> QED  BY <1>1, <1>4

\* Who is told to stop is owed nothing more, and others are still owed.
LEMMA WithdrawingHolds ==
    ASSUME TypeOK, OwnersAreTyped, NEW o \in Node, NEW t \in Task, NEW q \in Named,
           OwnerHolds(o), Withdraw(o, q), SteadyAreAllowed(o)',
           OnlyTask(o, t), Doing(o, t) # "nothing", UNCHANGED <<chosen, where, allows, edge>>,
           NEW b \in {"withdrawing", "dropping"}, At(task[o][t]) = b,
           Goes(task[o][t], task'[o][t], b),
           b = "withdrawing" => task'[o][t].tell = task[o][t].tell \ {q}, untold' = untold
    PROVE  OwnerHolds(o)'
  <1> DEFINE w == task[o][t]
             v == task'[o][t]
  <1>1. /\ Steady(o, t)
        /\ \A p : ToBeWithdrawn(o, p) => WillWithdraw(o, t, p)
        /\ \A p : ToBeTold(o, p) => WillTell(o, t, p)
    BY ABusyStepIsSteady DEF OwnerHolds
  <1>2. ASSUME NEW p \in Named
        PROVE  /\ (p \in NamesTold(o))' <=> (p \in NamesTold(o) /\ p # q)
               /\ KnowsWhere(o, p)' <=> KnowsWhere(o, p)
    BY WithdrawalIsRead
  <1>3. TruthIn(o, t)'
    BY DEF TruthIn, Goes
  <1>4. ASSUME NEW p \in NamesTold(o)', p[2] # o, p \notin chosen'[o]
        PROVE  WillWithdraw(o, t, p)'
    <2>1. p \in Named
      BY DEF NamesTold, Named
    <2>2. p # q /\ WillWithdraw(o, t, p)
      BY <1>1, <1>2, <1>4, <2>1 DEF OwnerHolds, OthersWillStop, Steady
    <2>3. CASE Has(w, "sync")
      <3>1. Has(v, "sync")
        BY <2>3 DEF Goes, Keeps, Later
      <3> QED  BY <3>1 DEF WillWithdraw
    <2>4. CASE At(w) = "withdrawing" /\ p \in w.tell
      <3>1. p \in v.tell /\ b = "withdrawing"
        BY <2>2, <2>4
      <3>2. At(v) = "withdrawing"
        BY <3>1 DEF Goes
      <3> QED  BY <3>1, <3>2 DEF WillWithdraw
    <2> QED  BY <2>2, <2>3, <2>4 DEF WillWithdraw
  <1>5. ASSUME NEW p \in Owed(o)'
        PROVE  KnowsWhere(o, p)' \/ WillTell(o, t, p)'
    <2>1. p \in Named /\ p \in Owed(o)
      BY <1>1, <1>5 DEF OwnersAreTyped, Steady, Owed, Agreeing
    <2>2. KnowsWhere(o, p) \/ WillTell(o, t, p)
      BY <1>1, <2>1 DEF OwnerHolds, ChosenWillKnow
    <2>3. WillTell(o, t, p) => Has(w, "tell")
      BY DEF WillTell
    <2>4. Has(w, "tell") => Has(v, "tell")
      BY DEF Goes, Keeps, Later
    <2> QED  BY <1>2, <2>1, <2>2, <2>3, <2>4 DEF WillTell
  <1> QED  BY <1>1, <1>3, <1>4, <1>5, TheBusyOneHolds DEF Steady

\* That goes for the names sync_routes found.
LEMMA WithdrawOneHolds ==
    ASSUME TypeOK, OwnersAreTyped, NEW o \in Node, NEW t \in Task, NEW q \in task[o][t].tell,
           OwnerHolds(o), WithdrawOne(o, t, q), SteadyAreAllowed(o)'
    PROVE  OwnerHolds(o)'
  <1>1. /\ OnlyTask(o, t) /\ At(task[o][t]) = "withdrawing" /\ q \in Named
        /\ Goes(task[o][t], task'[o][t], "withdrawing")
        /\ task'[o][t].tell = task[o][t].tell \ {q}
    BY WithdrawOneWorks
  <1>2. /\ Withdraw(o, q) /\ Doing(o, t) # "nothing" /\ untold' = untold
        /\ UNCHANGED <<chosen, where, allows, edge>>
    BY DEF WithdrawOne
  <1>3. "withdrawing" \in {"withdrawing", "dropping"}
    OBVIOUS
  <1> QED  BY <1>1, <1>2, <1>3, WithdrawingHolds

\* And for the boxes unticked.
LEMMA DropOneHolds ==
    ASSUME TypeOK, OwnersAreTyped, NEW o \in Node, NEW t \in Task, NEW q \in task[o][t].drop,
           OwnerHolds(o), DropOne(o, t, q), SteadyAreAllowed(o)'
    PROVE  OwnerHolds(o)'
  <1>1. /\ OnlyTask(o, t) /\ At(task[o][t]) = "dropping" /\ q \in Named
        /\ Goes(task[o][t], task'[o][t], "dropping")
    BY DropOneWorks
  <1>2. /\ Withdraw(o, q) /\ Doing(o, t) # "nothing" /\ untold' = untold
        /\ UNCHANGED <<chosen, where, allows, edge>>
    BY DEF DropOne
  <1>3. "dropping" \in {"withdrawing", "dropping"} /\ "dropping" # "withdrawing"
    OBVIOUS
  <1> QED  BY <1>1, <1>2, <1>3, WithdrawingHolds

\* An owner with nothing to do owes nobody anything.
LEMMA NothingIsOwed ==
    ASSUME NEW o, AllIdle(o)
    PROVE  \A p : ~ToBeWithdrawn(o, p) /\ ~ToBeTold(o, p)
  BY IdleOwesNothing DEF AllIdle, ToBeWithdrawn, ToBeTold

\* Copies that move while nobody is told leave the other names as they were.
LEMMA MovingUntoldHolds ==
    ASSUME OwnersAreTyped, NEW o \in Node, NEW h \in Hostname, NEW q \in Says,
           OwnerHolds(o), AllIdle(o), Moves(o, h, q), SteadyAreAllowed(o)',
           untold' = [untold EXCEPT ![o] = @ \cup {h}],
           UNCHANGED <<channel, chosen, allows, edge>>,
           NEW t \in Task, Alone(o, t)', TruthIn(o, t)',
           task' = task \/ \A p : WillWithdraw(o, t, p)'
    PROVE  OwnerHolds(o)'
  <1>1. /\ UNCHANGED <<table, wavered>> /\ untold'[o] = untold[o] \cup {h}
        /\ \A g \in Hostname \ {h} : where'[o][g] = where[o][g]
    BY CopiesMove DEF channel, vars, edge, consent, OwnersAreTyped
  <1>2. \A g, x : LastNaming(o, g, x)' = LastNaming(o, g, x)
    BY <1>1 DEF LastNaming, Newest
  <1>3. \A g, x : LastAbout(o, g, x)' = LastAbout(o, g, x)
    BY <1>1 DEF LastAbout, Newest
  <1>4. NamesTold(o)' = NamesTold(o)
    BY <1>1, <1>2 DEF NamesTold
  <1>5. ASSUME NEW p \in NamesTold(o)', p[2] # o, p \notin chosen'[o]
        PROVE  WillWithdraw(o, t, p)'
    <2>1. ToBeWithdrawn(o, p)
      BY <1>4, <1>5 DEF OwnerHolds, OthersWillStop
    <2> QED  BY <2>1, NothingIsOwed
  <1>6. ASSUME NEW p \in Owed(o)' PROVE KnowsWhere(o, p)'
    <2>1. p \in Owed(o) /\ p[1] # h /\ p \in chosen[o]
      BY <1>1, <1>6 DEF Owed, Agreeing
    <2>2. KnowsWhere(o, p)
      BY <2>1, NothingIsOwed DEF OwnerHolds, ChosenWillKnow
    <2>3. p[1] \in Hostname
      BY <2>1 DEF OwnersAreTyped, Named
    <2> QED  BY <1>1, <1>3, <2>1, <2>2, <2>3 DEF KnowsWhere
  <1> QED  BY <1>5, <1>6, TheBusyOneHolds

\* What its own steps leave an owner.
LEMMA OwnStepHolds ==
    ASSUME ~Concurrent, TypeOK, OwnersAreTyped, NEW o \in Node, OwnerHolds(o), OwnerNext(o),
           SteadyAreAllowed(o)'
    PROVE  OwnerHolds(o)'
  <1>1. ASSUME NEW t \in Task, AllIdle(o), OnlyTask(o, t) PROVE Alone(o, t)'
    BY <1>1 DEF AllIdle, OnlyTask, Alone
  <1>2. "form" \in Task /\ "deployer" \in Task
    BY DEF Task
  <1>3. ASSUME NEW h \in Hostname, NEW nodes \in SUBSET Node, SetEdges(o, h, nodes)
        PROVE  OwnerHolds(o)'
    <2>1. OnlyTask(o, "form") /\ Begun(task'[o]["form"]) /\ AllIdle(o)
      BY <1>3, SetEdgesWorks
    <2> QED  BY <1>1, <1>2, <2>1, BegunHolds
  <1>4. ASSUME NEW h \in Hostname, NEW p \in Says, Move(o, h, p)
        PROVE  OwnerHolds(o)'
    <2>1. CASE Deploy(o, h, p) \/ \E here \in BOOLEAN : SetPlacement(o, h, p, here)
      <3>1. PICK t \in Task : OnlyTask(o, t) /\ Begun(task'[o][t]) /\ AllIdle(o)
        BY <2>1, MoveBegins
      <3> QED  BY <1>1, <3>1, BegunHolds
    <2>2. CASE Recorded(o, h, p)
      <3>1. /\ OnlyTask(o, "form") /\ AllIdle(o)
            /\ At(task'[o]["form"]) = "sync" /\ Has(task'[o]["form"], "sync")
        BY <2>2, RecordedWorks
      <3>2. Alone(o, "form")' /\ TruthIn(o, "form")' /\ \A q : WillWithdraw(o, "form", q)'
        BY <1>1, <1>2, <3>1 DEF TruthIn, WillWithdraw
      <3>3. /\ UNCHANGED <<channel, chosen, allows, edge>> /\ Moves(o, h, p)
            /\ untold' = [untold EXCEPT ![o] = @ \cup {h}]
        BY <2>2 DEF Recorded
      <3> QED  BY <1>2, <3>1, <3>2, <3>3, MovingUntoldHolds
    <2>3. CASE Drained(o, h, p)
      <3>1. /\ UNCHANGED <<channel, chosen, allows, edge>> /\ Moves(o, h, p)
            /\ untold' = [untold EXCEPT ![o] = @ \cup {h}]
            /\ AllIdle(o) /\ task' = task
        BY <2>3 DEF Drained, MayStart
      <3>2. Alone(o, "form")'
        BY <3>1 DEF AllIdle, Alone
      <3>3. TruthIn(o, "form")'
        BY <1>2, <3>1, IdleIsOrderly DEF AllIdle, TruthIn
      <3> QED  BY <1>2, <3>1, <3>2, <3>3, MovingUntoldHolds
    <2> QED  BY <1>4, <2>1, <2>2, <2>3 DEF Move
  <1>5. ASSUME NEW t \in Task, BeginTell(o, t) PROVE OwnerHolds(o)'
    BY <1>5, BeginTellHolds
  <1>6. ASSUME NEW t \in Task, BeginSync(o, t) PROVE OwnerHolds(o)'
    BY <1>6, BeginSyncHolds
  <1>7. ASSUME NEW t \in Task, NEW x \in task[o][t].tell, TellOne(o, t, x)
        PROVE  OwnerHolds(o)'
    BY <1>7, TellOneHolds
  <1>8. ASSUME NEW t \in Task, NEW x \in task[o][t].tell, WithdrawOne(o, t, x)
        PROVE  OwnerHolds(o)'
    BY <1>8, WithdrawOneHolds
  <1>9. ASSUME NEW t \in Task, NEW p \in task[o][t].drop, DropOne(o, t, p)
        PROVE  OwnerHolds(o)'
    BY <1>9, DropOneHolds
  <1> QED  BY <1>3, <1>4, <1>5, <1>6, <1>7, <1>8, <1>9 DEF OwnerNext, Says

\* What another owner's steps touch of it: nothing.
LEMMA OtherOwnersLeaveIt ==
    ASSUME TypeOK, OwnersAreTyped, NEW o \in Node, NEW n \in Node \ {o}, OwnerNext(n)
    PROVE  /\ table'[o] = table[o] /\ task'[o] = task[o]
           /\ chosen'[o] = chosen[o] /\ where'[o] = where[o] /\ untold'[o] = untold[o]
  <1>1. table \in [Node -> Seq(Row)]
    BY DEF TypeOK
  <1>2. ASSUME NEW to, NEW s, NEW m, Queue(n, to, s, m) PROVE table'[o] = table[o]
    BY <1>1, <1>2 DEF Queue
  <1>3. ASSUME UNCHANGED channel PROVE table'[o] = table[o]
    BY <1>3 DEF channel, vars
  <1>4. ASSUME NEW h \in Hostname, NEW nodes \in SUBSET Node, SetEdges(n, h, nodes)
        PROVE  /\ UNCHANGED channel /\ task'[o] = task[o]
               /\ chosen'[o] = chosen[o] /\ where'[o] = where[o] /\ untold'[o] = untold[o]
    BY <1>4, SetEdgesWorks DEF OnlyTask
  <1>5. ASSUME NEW h \in Hostname, NEW p \in Says, Move(n, h, p)
        PROVE  /\ UNCHANGED channel /\ task'[o] = task[o]
               /\ chosen'[o] = chosen[o] /\ where'[o] = where[o] /\ untold'[o] = untold[o]
    BY <1>5, MoveWorks DEF OnlyTask
  <1>6. ASSUME NEW t \in Task, BeginTell(n, t)
        PROVE  /\ UNCHANGED <<channel, chosen, where>> /\ task'[o] = task[o]
               /\ untold'[o] = untold[o]
    BY <1>6, BeginTellWorks DEF OnlyTask, BeginTell, OwnersAreTyped
  <1>7. ASSUME NEW t \in Task, BeginSync(n, t)
        PROVE  UNCHANGED <<channel, chosen, where, untold>> /\ task'[o] = task[o]
    BY <1>7, BeginSyncWorks DEF OnlyTask, BeginSync
  <1>8. ASSUME NEW t \in Task, NEW x \in task[n][t].tell, TellOne(n, t, x)
        PROVE  /\ UNCHANGED <<chosen, where, untold>> /\ task'[o] = task[o]
               /\ UNCHANGED channel \/ \E to, s, m : Queue(n, to, s, m)
    BY <1>8, TellOneWorks DEF OnlyTask, TellOne
  <1>9. ASSUME NEW t \in Task, NEW x \in task[n][t].tell, WithdrawOne(n, t, x)
        PROVE  /\ UNCHANGED <<chosen, where, untold>> /\ task'[o] = task[o]
               /\ \E to, s, m : Queue(n, to, s, m)
    BY <1>9, WithdrawOneWorks DEF OnlyTask, WithdrawOne, Withdraw
  <1>10. ASSUME NEW t \in Task, NEW p \in task[n][t].drop, DropOne(n, t, p)
         PROVE  /\ UNCHANGED <<chosen, where, untold>> /\ task'[o] = task[o]
                /\ \E to, s, m : Queue(n, to, s, m)
    BY <1>10, DropOneWorks DEF OnlyTask, DropOne, Withdraw
  <1> QED
    BY <1>2, <1>3, <1>4, <1>5, <1>6, <1>7, <1>8, <1>9, <1>10 DEF OwnerNext, Says

\* Every step keeps what owners keep.
LEMMA StepKeepsOwners ==
    ASSUME ~Concurrent, OwnersInvariant, [EdgeSpecNext]_all
    PROVE  OwnersInvariant'
  <1>1. [Next]_vars
    BY StepIsOfTheQueue DEF OwnersInvariant
  <1>2. TypeOK' /\ Bookkeeping' /\ Grows(table, table')
    BY <1>1, StepIsTyped, StepKeepsBooks, StepGrows DEF OwnersInvariant
  <1>3. OwnersAreTyped'
    BY StepTypesOwners DEF OwnersInvariant
  <1>4. SteadyGrant' /\ wavered \subseteq wavered'
    BY SteadyGrantStays DEF OwnersInvariant
  <1>5. TypeOK /\ Bookkeeping /\ OwnersAreTyped /\ SteadyGrant
    BY DEF OwnersInvariant
  <1>6. ASSUME NEW o \in Owner PROVE OwnerHolds(o)'
    <2>1. o \in Node
      BY OwnersAreNodes
    <2>2. OwnerHolds(o)
      BY DEF OwnersInvariant
    <2>3. SteadyAreAllowed(o)'
      BY <1>5, <2>1, <2>2, AllowedAreSteady DEF OwnerHolds
    <2>4. ASSUME QuietAt(o), task'[o] = task[o], chosen'[o] = chosen[o], where'[o] = where[o],
                 untold'[o] = untold[o]
          PROVE  OwnerHolds(o)'
      BY <1>2, <1>4, <1>5, <2>1, <2>2, <2>3, <2>4, UndisturbedOwnerHolds DEF SteadyGrant
    <2>5. table'[o] = table[o] => QuietAt(o)
      BY DEF QuietAt
    <2>6. CASE UNCHANGED all
      BY <2>4, <2>5, <2>6 DEF all, channel, vars, owner
    <2>7. CASE OwnerNext(o)
      BY <1>5, <2>1, <2>2, <2>3, <2>7, OwnStepHolds
    <2>8. ASSUME NEW n \in Node \ {o}, OwnerNext(n) PROVE OwnerHolds(o)'
      BY <1>5, <2>1, <2>4, <2>5, <2>8, OtherOwnersLeaveIt
    <2>9. ASSUME NEW n \in Node, EdgeNext(n) PROVE OwnerHolds(o)'
      <3>1. UNCHANGED <<table, owner>>
        BY <2>9 DEF EdgeNext, Refuse, TakeName, Serve, ForgetRoute, ReleaseName, SetGrants,
           ReleaseUngranted, channel, vars, CarryOut
      <3> QED  BY <2>4, <2>5, <3>1 DEF owner
    <2>10. ASSUME NEW n \in Node, Restart(n) PROVE OwnerHolds(o)'
      <3>1. UNCHANGED <<table, chosen, where, untold>>
        BY <2>10 DEF Restart, Crash
      <3>2. CASE n # o
        <4>1. task'[o] = task[o]
          BY <1>5, <2>1, <2>10, <3>2, RestartWorks
        <4> QED  BY <2>4, <2>5, <3>1, <4>1
      <3>3. CASE n = o
        <4>1. task'[o]["form"] = Idle /\ Begun(task'[o]["deployer"])
          BY <1>5, <2>10, <3>3, RestartWorks
        <4>2. Alone(o, "deployer")' /\ "deployer" \in Task
          BY <4>1 DEF Alone, Task
        <4> QED  BY <2>3, <4>1, <4>2, BegunHolds
      <3> QED  BY <3>2, <3>3
    <2>11. CASE WireStep
      <3>1. QuietAt(o)
        BY <1>5, <2>1, <2>11, WireIsQuiet DEF WireStep
      <3> QED  BY <2>4, <2>11, <3>1 DEF WireStep
    <2> QED  BY <2>6, <2>7, <2>8, <2>9, <2>10, <2>11, StepsAreOfAKind
  <1> QED  BY <1>2, <1>3, <1>4, <1>6 DEF OwnersInvariant

\* And they start with it.
LEMMA OwnersStart == EdgeInit => OwnersInvariant
  <1> SUFFICES ASSUME EdgeInit PROVE OwnersInvariant
    OBVIOUS
  <1>1. OwnersAreTyped /\ TypeOK /\ Bookkeeping
    BY OwnersStartTyped, InitIsTyped, InitKeepsBooks DEF EdgeInit
  <1>2. SteadyGrant
    BY DEF EdgeInit, Init, SteadyGrant
  <1>3. ASSUME NEW o \in Owner PROVE OwnerHolds(o)
    <2>1. o \in Node
      BY OwnersAreNodes
    <2>2. /\ table[o] = << >> /\ chosen[o] = {} /\ wavered = {}
          /\ \A t \in Task : task[o][t] = Idle
          /\ allows[o] = {x \in Node : x # o /\ (<<x, o>> \in Enrolled \/ <<o, x>> \in Enrolled)}
      BY <2>1 DEF EdgeInit, Init
    <2>3. OneAtATime(o)
      BY <2>2 DEF OneAtATime, Alone, Task
    <2>4. TellsTheTruth(o)
      BY <2>2, IdleIsOrderly DEF TellsTheTruth, TruthIn
    <2>5. NamesTold(o) = {}
      <3>1. \A R : R = {} => Newest(o, R) = 0
        BY DEF Newest
      <3>2. \A h, x : LastNaming(o, h, x) = 0
        BY <2>2, <3>1 DEF LastNaming
      <3> QED  BY <3>2 DEF NamesTold
    <2>6. OthersWillStop(o) /\ ChosenWillKnow(o) /\ SteadyAreAllowed(o)
      BY <2>2, <2>5 DEF OthersWillStop, ChosenWillKnow, Owed, Agreeing, SteadyAreAllowed, Related
    <2> QED  BY <2>3, <2>4, <2>6 DEF OwnerHolds
  <1> QED  BY <1>1, <1>2, <1>3 DEF OwnersInvariant

(* One thing at a time, what a form, a deployment, a placement or a start-up *)
(* began to say is not forgotten: who was told to serve and should not is    *)
(* still on the list of whatever is under way, and so is who should be told  *)
(* where a name's copies are, unless a report or a drain moved those since   *)
(* (tell_edges and sync_routes, as a deployment, the placement form and a    *)
(* start-up call them; a report calls only the second, Deployer::drain       *)
(* neither).                                                                 *)
THEOREM OwnersFinishWhatTheyBegin ==
    ASSUME ~Concurrent
    PROVE  EdgeSpec => []OwnersInvariant
  <1>1. OwnersInvariant /\ [EdgeSpecNext]_all => OwnersInvariant'
    BY StepKeepsOwners
  <1> QED  BY <1>1, OwnersStart, PTL DEF EdgeSpec

(* Every way a name loses a node ends in a withdrawal: an owner with nothing *)
(* left to do last told to serve only the nodes its rows choose, restarts,   *)
(* changed consents and nodes that left in between included.                 *)
THEOREM OnlyTheChosenAreTold ==
    ASSUME ~Concurrent
    PROVE  EdgeSpec => []OnlyChosenTold
  <1>1. OwnersInvariant => OnlyChosenTold
    BY NothingIsOwed DEF OwnersInvariant, OwnerHolds, OthersWillStop, OnlyChosenTold
  <1> QED  BY <1>1, OwnersFinishWhatTheyBegin, PTL

(* No move that a deployment or a placement made is lost: when an owner has  *)
(* nothing left to do, the last thing it told a chosen node to serve is where *)
(* the copies are now, of the names whose copies no report or drain moved    *)
(* since tell_edges last looked.                                             *)
THEOREM TheLastInstructionIsCurrent ==
    ASSUME ~Concurrent
    PROVE  EdgeSpec => []LastInstructionIsCurrent
  <1>1. OwnersInvariant => LastInstructionIsCurrent
    BY NothingIsOwed DEF OwnersInvariant, OwnerHolds, ChosenWillKnow, Owed, KnowsWhere,
       LastInstructionIsCurrent
  <1> QED  BY <1>1, OwnersFinishWhatTheyBegin, PTL

------------------------------------------------------------------------------
(* What a node that serves is asked                                         *)

\* The errand in hand is of another node, which asks for what it says.
AskedRightly(m) ==
    /\ AskedBy(m) \in Node \ {m}
    /\ Asked(m).order.name \in Hostname /\ Asked(m).order.says \in Says
    /\ Asked(m).order.says \in Instructions(AskedBy(m), m, Asked(m).order.name)

\* What a leg is at is such an errand.
LEMMA TheErrandInHand ==
    ASSUME TypeOK, Bookkeeping, NEW m \in Node, RowsAreOfOthers(m), pass[m].stage = "obeying"
    PROVE  AskedRightly(m)
  <1> DEFINE w == pass[m].with
             i == Oldest(pass[m].batch)
             r == table[w][i]
  <1>1. w \in Node /\ i \in DOMAIN table[w] /\ r.to = m
    BY OldestInHand DEF TypeOK, Leg, Bookkeeping, HoldsRows
  <1>2. r \in Row
    BY <1>1 DEF TypeOK
  <1>3. r.order \in EdgeOrder /\ r.from \in Node
    BY <1>2, OrdersAreOfEdges DEF Row
  <1>4. r.order.name \in Hostname /\ r.order.says \in Says
    BY <1>3 DEF EdgeOrder, Says
  <1>5. Asked(m) = r /\ AskedBy(m) = IF w = m THEN r.from ELSE w
    BY DEF Asked, AskedBy
  <1>6. AskedBy(m) \in Node \ {m}
    BY <1>1, <1>3, <1>5 DEF RowsAreOfOthers
  <1>7. /\ w \in {AskedBy(m), m}
        /\ i \in InstructionsIn(w, AskedBy(m), m, r.order.name)
    BY <1>1, <1>5 DEF InstructionsIn
  <1> HIDE DEF w, i, r
  <1>8. r.order.says \in Instructions(AskedBy(m), m, r.order.name)
    BY <1>7 DEF Instructions, r
  <1> QED  BY <1>4, <1>5, <1>6, <1>8 DEF AskedRightly

\* It stays the same errand while the node is at it.
LEMMA TheErrandStays ==
    ASSUME TypeOK, Bookkeeping, Grows(table, table'), NEW m \in Node,
           pass[m].stage = "obeying", pass'[m] = pass[m]
    PROVE  Asked(m)'.order = Asked(m).order /\ AskedBy(m)' = AskedBy(m)
  <1> DEFINE w == pass[m].with
             i == Oldest(pass[m].batch)
  <1>1. w \in Node /\ i \in DOMAIN table[w]
    BY OldestInHand DEF TypeOK, Leg, Bookkeeping, HoldsRows
  <1>2. SameErrand(table[w][i], table'[w][i])
    BY <1>1 DEF Grows
  <1>3. Oldest(pass[m].batch)' = Oldest(pass[m].batch)
    OBVIOUS
  <1>4. /\ Asked(m) = table[w][i] /\ AskedBy(m) = IF w = m THEN table[w][i].from ELSE w
        /\ Asked(m)' = table'[w][i] /\ AskedBy(m)' = IF w = m THEN table'[w][i].from ELSE w
    BY <1>3 DEF Asked, AskedBy
  <1> QED  BY <1>2, <1>4 DEF SameErrand

\* What was asked for once was asked for.
LEMMA InstructionsGrow ==
    ASSUME Grows(table, table'), NEW o \in Node, NEW m \in Node, NEW h
    PROVE  Instructions(o, m, h) \subseteq Instructions(o, m, h)'
  <1>1. ASSUME NEW says \in Instructions(o, m, h) PROVE says \in Instructions(o, m, h)'
    <2>1. PICK t \in {o, m} : \E i \in InstructionsIn(t, o, m, h) : says = table[t][i].order.says
      BY DEF Instructions
    <2>2. PICK i \in InstructionsIn(t, o, m, h) : says = table[t][i].order.says
      BY <2>1
    <2>3. i \in DOMAIN table[t] /\ t \in Node
      BY DEF InstructionsIn
    <2>4. i \in DOMAIN table'[t] /\ SameErrand(table[t][i], table'[t][i])
      BY <2>3 DEF Grows
    <2>5. i \in InstructionsIn(t, o, m, h)' /\ says = table'[t][i].order.says
      BY <2>2, <2>4 DEF InstructionsIn, SameErrand
    <2> QED  BY <2>5 DEF Instructions
  <1> QED  BY <1>1

\* A server that nobody touches keeps what it keeps.
LEMMA UntouchedServerHolds ==
    ASSUME TypeOK, Bookkeeping, ServersAreTyped, Grows(table, table'), NEW m \in Node,
           ServerHolds(m), claim'[m] = claim[m], route'[m] = route[m], step'[m] = step[m],
           boot'[m] \subseteq boot[m], grants'[m] = grants[m] \/ m \in wavered',
           wavered \subseteq wavered', pass[m].stage = "obeying" => pass'[m] = pass[m]
    PROVE  ServerHolds(m)'
  <1>1. HoldsForOthers(m)'
    BY DEF ServerHolds, HoldsForOthers
  <1>2. HoldsWhatItServes(m)'
    <2>1. CASE step[m] = "unread"
      BY <2>1 DEF ServerHolds, HoldsWhatItServes
    <2>2. CASE step[m] # "unread"
      <3>1. pass[m].stage = "obeying"
        BY <2>2 DEF ServerHolds, HoldsWhatItServes
      <3>2. Asked(m)'.order = Asked(m).order /\ AskedBy(m)' = AskedBy(m)
        BY <3>1, TheErrandStays
      <3> QED  BY <3>1, <3>2 DEF ServerHolds, HoldsWhatItServes
    <2> QED  BY <2>1, <2>2
  <1>3. RoutesAreHolders(m)'
    <2> SUFFICES ASSUME m \notin wavered', NEW h \in Hostname, route'[m][h] # Nowhere
                 PROVE  /\ claim'[m][h] # Nobody
                        /\ route'[m][h] \in Instructions(claim[m][h], m, h)'
      BY DEF RoutesAreHolders
    <2>1. claim[m][h] # Nobody /\ route[m][h] \in Instructions(claim[m][h], m, h)
      BY DEF ServerHolds, RoutesAreHolders
    <2>2. claim[m][h] \in Node
      BY <2>1 DEF ServersAreTyped
    <2>3. \A o \in Node : Instructions(o, m, h) \subseteq Instructions(o, m, h)'
      BY InstructionsGrow
    <2> QED  BY <2>1, <2>2, <2>3
  <1> QED  BY <1>1, <1>2, <1>3 DEF ServerHolds

\* The steps of the queue that touch no server.
LEMMA WireLeavesWorkInHand ==
    ASSUME TypeOK, Wire, NEW m \in Node, pass[m].stage = "obeying"
    PROVE  pass'[m] = pass[m]
  <1>1. ASSUME NEW n \in Node, n # m, NEW v, pass' = [pass EXCEPT ![n] = v]
        PROVE  pass'[m] = pass[m]
    BY <1>1 DEF TypeOK
  <1>2. ASSUME NEW n \in Node, NEW a \in Node, Begin(n, a) PROVE pass'[m] = pass[m]
    BY <1>1, <1>2 DEF Begin
  <1>3. ASSUME NEW n \in Node, HandOver(n) \/ HandOverRefused(n) \/ HandOverTimesOut(n)
        PROVE  pass'[m] = pass[m]
    BY <1>1, <1>3 DEF HandOver, HandOverRefused, HandOverTimesOut, HandedNext
  <1>4. ASSUME NEW n \in Node, Collect(n) \/ CollectFails(n) PROVE pass'[m] = pass[m]
    BY <1>1, <1>4 DEF Collect, CollectFails
  <1>5. ASSUME NEW n \in Node, SettleArrives(n) \/ SettleTimesOut(n) PROVE pass'[m] = pass[m]
    BY <1>1, <1>5 DEF SettleArrives, SettleTimesOut, AnsweredNext
  <1>6. ASSUME NEW n \in Node, BeginHere(n) PROVE pass'[m] = pass[m]
    BY <1>1, <1>6 DEF BeginHere
  <1>7. ASSUME NEW k \in flight, LateAsk(k) \/ LateSettle(k) \/ Lose(k) PROVE pass'[m] = pass[m]
    BY <1>7 DEF LateAsk, LateSettle, Lose
  <1> QED  BY <1>2, <1>3, <1>4, <1>5, <1>6, <1>7 DEF Wire

------------------------------------------------------------------------------
(* Nobody asks itself                                                       *)

LEMMA OwnersLookToOthers ==
    ASSUME OwnersAreTyped, NEW n \in Node, OwnerNext(n), \A k \in Node : LooksToOthers(k)
    PROVE  \A k \in Node : LooksToOthers(k)'
  <1>1. ASSUME NEW t \in Task, OnlyTask(n, t), allows' = allows,
               \A k \in Node \ {n} : chosen'[k] = chosen[k],
               \A p \in chosen'[n] : p \in chosen[n] \/ p[2] \in allows[n],
               \A x \in task'[n][t].tell : x \in task[n][t].tell \/ x[2] # n,
               \A p \in task'[n][t].drop : p \in task[n][t].drop \/ p \in chosen[n]
        PROVE  \A k \in Node : LooksToOthers(k)'
    <2>1. ASSUME NEW k \in Node, k # n PROVE LooksToOthers(k)'
      BY <1>1, <2>1 DEF LooksToOthers, OnlyTask
    <2>2. LooksToOthers(n)'
      <3>1. ASSUME NEW u \in Task
            PROVE  /\ \A x \in task'[n][u].tell : x[2] # n
                   /\ \A p \in task'[n][u].drop : p[2] # n
        <4>1. CASE u = t
          BY <1>1, <4>1 DEF LooksToOthers
        <4>2. CASE u # t
          BY <1>1, <4>2 DEF LooksToOthers, OnlyTask
        <4> QED  BY <4>1, <4>2
      <3>2. \A p \in chosen'[n] : p[2] # n
        BY <1>1 DEF LooksToOthers
      <3> QED  BY <1>1, <3>1, <3>2 DEF LooksToOthers
    <2> QED  BY <2>1, <2>2
  <1>2. "form" \in Task /\ "deployer" \in Task
    BY DEF Task
  <1>3. ASSUME NEW h \in Hostname, NEW nodes \in SUBSET Node, SetEdges(n, h, nodes)
        PROVE  \A k \in Node : LooksToOthers(k)'
    BY <1>1, <1>2, <1>3, SetEdgesWorks
  <1>4. ASSUME NEW h \in Hostname, NEW p \in Says, Move(n, h, p)
        PROVE  \A k \in Node : LooksToOthers(k)'
    <2>1. PICK t \in Task : /\ OnlyTask(n, t)
                            /\ task'[n][t].tell \subseteq task[n][t].tell
                            /\ task'[n][t].drop \subseteq task[n][t].drop
      BY <1>4, MoveWorks
    <2>2. UNCHANGED <<chosen, allows>>
      BY <1>4, MoveWorks
    <2> QED  BY <1>1, <2>1, <2>2
  <1>5. ASSUME NEW t \in Task, BeginTell(n, t) PROVE \A k \in Node : LooksToOthers(k)'
    <2>1. \A x \in Tellings(n) : x[2] # n
      BY DEF Tellings
    <2> QED  BY <1>1, <1>5, <2>1, BeginTellWorks DEF BeginTell
  <1>6. ASSUME NEW t \in Task, BeginSync(n, t) PROVE \A k \in Node : LooksToOthers(k)'
    <2>1. \A p \in Unwanted(n) : p[2] # n
      BY DEF Unwanted
    <2> QED  BY <1>1, <1>6, <2>1, BeginSyncWorks DEF BeginSync
  <1>7. ASSUME NEW t \in Task, NEW x \in task[n][t].tell, TellOne(n, t, x)
        PROVE  \A k \in Node : LooksToOthers(k)'
    BY <1>1, <1>7, TellOneWorks DEF TellOne
  <1>8. ASSUME NEW t \in Task, NEW x \in task[n][t].tell, WithdrawOne(n, t, x)
        PROVE  \A k \in Node : LooksToOthers(k)'
    BY <1>1, <1>8, WithdrawOneWorks DEF WithdrawOne
  <1>9. ASSUME NEW t \in Task, NEW p \in task[n][t].drop, DropOne(n, t, p)
        PROVE  \A k \in Node : LooksToOthers(k)'
    BY <1>1, <1>9, DropOneWorks DEF DropOne
  <1> QED  BY <1>3, <1>4, <1>5, <1>6, <1>7, <1>8, <1>9 DEF OwnerNext, Says

\* What an owner queues is for another.
LEMMA OwnersAskOthers ==
    ASSUME TypeOK, OwnersAreTyped, NEW n \in Node, OwnerNext(n), LooksToOthers(n),
           \A k \in Node : RowsAreOfOthers(k)
    PROVE  (\A k \in Node : RowsAreOfOthers(k)') /\ UNCHANGED <<pass, flight>>
  <1>1. ASSUME UNCHANGED channel
        PROVE  (\A k \in Node : RowsAreOfOthers(k)') /\ UNCHANGED <<pass, flight>>
    BY <1>1 DEF channel, vars, RowsAreOfOthers
  <1>2. ASSUME NEW to \in Node \ {n}, NEW s \in Subject \cup {NoSubject}, NEW h \in Hostname,
               NEW says \in Says, Queue(n, to, s, [name |-> h, says |-> says])
        PROVE  (\A k \in Node : RowsAreOfOthers(k)') /\ UNCHANGED <<pass, flight>>
    <2> DEFINE r == NewRow(to, n, s, [name |-> h, says |-> says])
               U == [table EXCEPT ![n] = Append(@, r)]
    <2>1. table' = U /\ r.to = to
      BY <1>2 DEF Queue, NewRow
    <2>2. r \in Row /\ table \in Tables
      BY <1>2, RowsAreNew, OrdersAreOfEdges DEF EdgeOrder, Says, TypeOK, Tables
    <2> HIDE DEF r
    <2>3. /\ U \in Tables
          /\ \A k \in Node : k # n => U[k] = table[k]
          /\ Len(U[n]) = Len(table[n]) + 1
          /\ \A i \in DOMAIN table[n] : i \in DOMAIN U[n] /\ U[n][i] = table[n][i]
          /\ U[n][Len(table[n]) + 1] = r
      BY <2>2, AppendingARow
    <2> HIDE DEF U
    <2>4. ASSUME NEW i \in DOMAIN U[n], i \notin DOMAIN table[n] PROVE i = Len(table[n]) + 1
      <3>1. U[n] \in Seq(Row) /\ table[n] \in Seq(Row)
        BY <2>2, <2>3 DEF Tables
      <3> QED  BY <2>3, <2>4, <3>1
    <2>5. ASSUME NEW k \in Node PROVE RowsAreOfOthers(k)'
      <3>1. CASE k # n
        BY <2>1, <2>3, <3>1 DEF RowsAreOfOthers
      <3>2. CASE k = n
        <4>1. ASSUME NEW i \in DOMAIN U[n], U[n][i].to = n PROVE U[n][i].from # n
          <5>1. i \in DOMAIN table[n]
            BY <2>1, <2>3, <2>4, <4>1
          <5> QED  BY <2>3, <4>1, <5>1 DEF RowsAreOfOthers
        <4> QED  BY <2>1, <3>2, <4>1 DEF RowsAreOfOthers
      <3> QED  BY <3>1, <3>2
    <2> QED  BY <1>2, <2>5 DEF Queue
  <1>3. ASSUME NEW q \in Named, q[2] # n, Withdraw(n, q)
        PROVE  (\A k \in Node : RowsAreOfOthers(k)') /\ UNCHANGED <<pass, flight>>
    <2>1. q[1] \in Hostname /\ q[2] \in Node \ {n} /\ Nowhere \in Says
      BY <1>3 DEF Named, Says
    <2>2. Queue(n, q[2], NoSubject, [name |-> q[1], says |-> Nowhere])
      BY <1>3 DEF Withdraw, Untagged
    <2>3. NoSubject \in Subject \cup {NoSubject}
      OBVIOUS
    <2> QED  BY <1>2, <2>1, <2>2, <2>3
  <1>4. ASSUME NEW h \in Hostname, NEW nodes \in SUBSET Node, SetEdges(n, h, nodes)
        PROVE  UNCHANGED channel
    BY <1>4 DEF SetEdges
  <1>5. ASSUME NEW h \in Hostname, NEW p \in Says, Move(n, h, p) PROVE UNCHANGED channel
    BY <1>5, MoveWorks
  <1>6. ASSUME NEW t \in Task, BeginTell(n, t) \/ BeginSync(n, t) PROVE UNCHANGED channel
    BY <1>6 DEF BeginTell, BeginSync
  <1>7. ASSUME NEW t \in Task, NEW x \in task[n][t].tell, TellOne(n, t, x)
        PROVE  (\A k \in Node : RowsAreOfOthers(k)') /\ UNCHANGED <<pass, flight>>
    <2>1. x \in Telling
      BY <1>7, TellOneWorks
    <2>2. /\ x[1] \in Hostname /\ x[2] \in Node \ {n} /\ x[3] \in Says
          /\ x[1] \in Subject \cup {NoSubject}
      BY <2>1 DEF Telling, Hostname, LooksToOthers
    <2>3. \/ UNCHANGED channel
          \/ Queue(n, x[2], x[1], [name |-> x[1], says |-> x[3]])
      BY <1>7 DEF TellOne
    <2> QED  BY <1>1, <1>2, <2>2, <2>3
  <1>8. ASSUME NEW t \in Task, NEW p \in task[n][t].tell, WithdrawOne(n, t, p)
        PROVE  (\A k \in Node : RowsAreOfOthers(k)') /\ UNCHANGED <<pass, flight>>
    BY <1>3, <1>8, WithdrawOneWorks DEF WithdrawOne, LooksToOthers
  <1>9. ASSUME NEW t \in Task, NEW p \in task[n][t].drop, DropOne(n, t, p)
        PROVE  (\A k \in Node : RowsAreOfOthers(k)') /\ UNCHANGED <<pass, flight>>
    BY <1>3, <1>9, DropOneWorks DEF DropOne, LooksToOthers
  <1> QED  BY <1>1, <1>4, <1>5, <1>6, <1>7, <1>8, <1>9 DEF OwnerNext, Says

\* A row that arrives over the wire is from another too.
LEMMA WireAsksOthers ==
    ASSUME TypeOK, Bookkeeping, Wire, Grows(table, table'), LateAreOfOthers,
           \A k \in Node : RowsAreOfOthers(k)
    PROVE  (\A k \in Node : RowsAreOfOthers(k)') /\ LateAreOfOthers'
  <1>1. ASSUME NEW k \in Node PROVE RowsAreOfOthers(k)'
    <2> SUFFICES ASSUME NEW i \in DOMAIN table'[k], table'[k][i].to = k
                 PROVE  table'[k][i].from # k
      BY DEF RowsAreOfOthers
    <2>1. CASE i \in DOMAIN table[k]
      BY <2>1 DEF Grows, SameErrand, RowsAreOfOthers
    <2>2. CASE i \notin DOMAIN table[k]
      <3>1. PICK n \in Node, a \in Node, r \in Row :
              AsksOf(n, a) /\ OnlyNew(table, table', a, r) /\ r.to = a /\ r.from = n
        BY <2>2, WireAddsWhatIsAsked DEF WireAdds
      <3>2. a # n
        BY <3>1 DEF AsksOf, LateAreOfOthers
      <3>3. k = a /\ table'[k][i] = r
        BY <2>2, <3>1 DEF OnlyNew
      <3> QED  BY <3>1, <3>2, <3>3
    <2> QED  BY <2>1, <2>2
  <1>2. LateAreOfOthers'
    <2>1. ASSUME flight' \subseteq flight PROVE LateAreOfOthers'
      BY <2>1 DEF LateAreOfOthers
    <2>2. ASSUME NEW n \in Node, HandOverTimesOut(n) PROVE LateAreOfOthers'
      <3>1. pass[n].with # n
        BY <2>2 DEF HandOverTimesOut, Bookkeeping, ReachesOthers
      <3> QED  BY <2>2, <3>1 DEF HandOverTimesOut, LateAreOfOthers
    <2>3. ASSUME NEW n \in Node, SettleTimesOut(n) PROVE LateAreOfOthers'
      BY <2>3 DEF SettleTimesOut, LateAreOfOthers
    <2>4. ASSUME NEW n \in Node,
                 \/ \E a \in Node : Begin(n, a)
                 \/ HandOver(n) \/ HandOverRefused(n) \/ Collect(n)
                 \/ CollectFails(n) \/ SettleArrives(n) \/ BeginHere(n)
          PROVE  flight' \subseteq flight
      BY <2>4 DEF Begin, HandOver, HandOverRefused, Collect, CollectFails, SettleArrives,
         BeginHere
    <2>5. ASSUME NEW m \in flight, LateAsk(m) \/ LateSettle(m) \/ Lose(m)
          PROVE  flight' \subseteq flight
      BY <2>5 DEF LateAsk, LateSettle, Lose
    <2> QED  BY <2>1, <2>2, <2>3, <2>4, <2>5 DEF Wire
  <1> QED  BY <1>1, <1>2

\* No step makes a node ask itself.
LEMMA StepAsksOthers ==
    ASSUME TypeOK, Bookkeeping, OwnersAreTyped, NoneAsksItself, Grows(table, table'),
           [EdgeSpecNext]_all
    PROVE  NoneAsksItself'
  <1>1. ASSUME NEW n \in Node, OwnerNext(n) PROVE NoneAsksItself'
    <2>1. \A k \in Node : LooksToOthers(k)'
      BY <1>1, OwnersLookToOthers DEF NoneAsksItself
    <2>2. (\A k \in Node : RowsAreOfOthers(k)') /\ UNCHANGED <<pass, flight>>
      BY <1>1, OwnersAskOthers DEF NoneAsksItself
    <2> QED  BY <2>1, <2>2 DEF NoneAsksItself, LateAreOfOthers
  <1>2. ASSUME UNCHANGED <<owner, table, flight>> PROVE NoneAsksItself'
    BY <1>2 DEF owner, NoneAsksItself, LooksToOthers, RowsAreOfOthers, LateAreOfOthers
  <1>3. ASSUME NEW n \in Node, EdgeNext(n) PROVE UNCHANGED <<owner, table, flight>>
    BY <1>3 DEF EdgeNext, Refuse, TakeName, Serve, ForgetRoute, ReleaseName, SetGrants,
       ReleaseUngranted, channel, vars, CarryOut
  <1>4. ASSUME NEW n \in Node, Restart(n) PROVE NoneAsksItself'
    <2>1. UNCHANGED <<table, flight, chosen, allows>>
      BY <1>4 DEF Restart, Crash
    <2>2. /\ \A o \in Node \ {n} : task'[o] = task[o]
          /\ \A u \in Task : task'[n][u].tell = {} /\ task'[n][u].drop = {}
      BY <1>4, RestartWorks
    <2>3. ASSUME NEW k \in Node PROVE LooksToOthers(k)'
      <3>1. LooksToOthers(k)
        BY DEF NoneAsksItself
      <3>2. CASE k # n
        BY <2>1, <2>2, <3>1, <3>2 DEF LooksToOthers
      <3>3. CASE k = n
        BY <2>1, <2>2, <3>1, <3>3 DEF LooksToOthers
      <3> QED  BY <3>2, <3>3
    <2> QED  BY <2>1, <2>3 DEF NoneAsksItself, RowsAreOfOthers, LateAreOfOthers
  <1>5. CASE WireStep
    <2>1. (\A k \in Node : RowsAreOfOthers(k)') /\ LateAreOfOthers'
      BY <1>5, WireAsksOthers DEF WireStep, NoneAsksItself
    <2>2. ASSUME NEW k \in Node PROVE k \notin allows'[k]
      <3>1. k \notin allows[k]
        BY DEF NoneAsksItself, LooksToOthers
      <3>2. ASSUME NEW n \in Node, NEW a \in Node, Begin(n, a), Report(n, a)
            PROVE  k \notin allows'[k]
        <4>1. n # a
          BY <3>2 DEF Begin, Bookkeeping, ReachesOthers
        <4>2. \/ allows'[k] = allows[k]
              \/ k = a /\ allows'[k] = Heard(n, a)
              \/ k = n /\ allows'[k] = Heard(a, n)
          BY <3>2, HeardIsTyped
        <4> QED  BY <3>1, <4>1, <4>2 DEF Heard
      <3> QED  BY <1>5, <3>1, <3>2 DEF WireStep
    <2>3. ASSUME NEW k \in Node PROVE LooksToOthers(k)'
      BY <1>5, <2>2 DEF WireStep, NoneAsksItself, LooksToOthers
    <2> QED  BY <2>1, <2>3 DEF NoneAsksItself
  <1>6. CASE UNCHANGED all
    BY <1>2, <1>6 DEF all, channel, vars
  <1> QED  BY <1>1, <1>2, <1>3, <1>4, <1>5, <1>6, StepsAreOfAKind

------------------------------------------------------------------------------
(* What the steps of a node that serves leave of it                         *)

ServersUntouched(m) ==
    \A x \in Node \ {m} :
        /\ claim'[x] = claim[x] /\ route'[x] = route[x] /\ step'[x] = step[x]
        /\ boot'[x] = boot[x] /\ grants'[x] = grants[x] /\ pass'[x] = pass[x]

\* What carrying an errand out leaves: the leg answers, nothing else moves.
LEMMA CarryingOutLeaves ==
    ASSUME TypeOK, NEW m \in Node, NEW failed \in BOOLEAN, CarryOut(m, failed)
    PROVE  /\ table' = table /\ \A x \in Node \ {m} : pass'[x] = pass[x]
           /\ pass[m].stage = "obeying"
  BY DEF CarryOut, TypeOK

\* m answers for the errand, holding the name as it held it, or for nobody.
LEMMA AnsweringServerHolds ==
    ASSUME TypeOK, ServersAreTyped, NEW m \in Node, ServerHolds(m), table' = table,
           step'[m] = "unread", boot'[m] = boot[m], grants'[m] = grants[m],
           wavered' = wavered,
           \A h \in Hostname : claim'[m][h] # m,
           RoutesAreHolders(m)'
    PROVE  ServerHolds(m)'
  BY DEF ServerHolds, HoldsForOthers, HoldsWhatItServes

\* A route stays right that stays, with its claim, or goes.
LEMMA RoutesStayOrGo ==
    ASSUME NEW m, table' = table, wavered' = wavered, RoutesAreHolders(m),
           \A h \in Hostname : \/ route'[m][h] = Nowhere
                               \/ route'[m][h] = route[m][h] /\ claim'[m][h] = claim[m][h]
    PROVE  RoutesAreHolders(m)'
  <1>1. \A o, h : Instructions(o, m, h)' = Instructions(o, m, h)
    BY DEF Instructions, InstructionsIn
  <1> QED  BY <1>1 DEF RoutesAreHolders

\* An errand in hand is the same while neither the tables nor the legs change.
LEMMA StillInHand ==
    ASSUME NEW m, table' = table, pass' = pass
    PROVE  Asked(m)' = Asked(m) /\ AskedBy(m)' = AskedBy(m)
  BY DEF Asked, AskedBy, Oldest

\* A refusal changes nothing but the answer.
LEMMA RefuseHolds ==
    ASSUME TypeOK, ServersAreTyped, NEW m \in Node, ServerHolds(m), Refuse(m)
    PROVE  ServerHolds(m)' /\ ServersUntouched(m)
  <1>1. CarryOut(m, TRUE) /\ UNCHANGED <<consent, claim, route, step, boot>> /\ step[m] = "unread"
    BY DEF Refuse, edge
  <1>2. table' = table /\ \A x \in Node \ {m} : pass'[x] = pass[x]
    BY <1>1, CarryingOutLeaves
  <1>3. RoutesAreHolders(m)'
    BY <1>1, <1>2, RoutesStayOrGo DEF consent, ServerHolds
  <1>4. \A h \in Hostname : claim'[m][h] # m
    BY <1>1 DEF ServerHolds, HoldsForOthers
  <1>5. ServerHolds(m)'
    BY <1>1, <1>2, <1>3, <1>4, AnsweringServerHolds DEF consent
  <1> QED  BY <1>1, <1>2, <1>5 DEF ServersUntouched, consent

\* A name is taken where nobody holds it, so nothing is routed for it yet.
LEMMA TakeNameHolds ==
    ASSUME TypeOK, ServersAreTyped, NEW m \in Node, ServerHolds(m), TakeName(m),
           AskedRightly(m)
    PROVE  ServerHolds(m)' /\ ServersUntouched(m)
  <1> DEFINE h0 == Asked(m).order.name
             a == AskedBy(m)
  <1>1. /\ pass[m].stage = "obeying" /\ claim[m][h0] \in {Nobody, a}
        /\ claim' = [claim EXCEPT ![m][h0] = a]
        /\ step' = [step EXCEPT ![m] = "claimed"]
        /\ UNCHANGED <<channel, consent, route, boot>>
    BY DEF TakeName, Claimable
  <1>2. /\ h0 \in Hostname /\ a \in Node \ {m} /\ table' = table /\ pass' = pass
        /\ Asked(m)' = Asked(m) /\ AskedBy(m)' = AskedBy(m)
    <2>1. h0 \in Hostname /\ a \in Node \ {m} /\ table' = table /\ pass' = pass
      BY <1>1 DEF AskedRightly, channel, vars
    <2> QED  BY <2>1, StillInHand
  <1> HIDE DEF h0, a
  <1>3. /\ claim'[m][h0] = a /\ \A h \in Hostname \ {h0} : claim'[m][h] = claim[m][h]
        /\ \A x \in Node \ {m} : claim'[x] = claim[x]
        /\ step'[m] = "claimed" /\ \A x \in Node \ {m} : step'[x] = step[x]
    BY <1>1, <1>2 DEF ServersAreTyped
  <1>4. HoldsForOthers(m)'
    BY <1>1, <1>2, <1>3 DEF ServerHolds, HoldsForOthers
  <1>5. HoldsWhatItServes(m)'
    BY <1>1, <1>2, <1>3 DEF ServerHolds, HoldsWhatItServes, consent, h0, a
  <1>6. RoutesAreHolders(m)'
    <2>1. CASE m \in wavered
      BY <1>1, <2>1 DEF RoutesAreHolders, consent
    <2>2. CASE m \notin wavered
      <3>1. ASSUME NEW h \in Hostname, route[m][h] # Nowhere PROVE claim'[m][h] = claim[m][h]
        <4>1. claim[m][h] # Nobody
          BY <2>2, <3>1 DEF ServerHolds, RoutesAreHolders
        <4> QED  BY <1>1, <1>3, <4>1
      <3> QED  BY <1>1, <1>2, <3>1, RoutesStayOrGo DEF ServerHolds, consent
    <2> QED  BY <2>1, <2>2
  <1> QED  BY <1>1, <1>2, <1>3, <1>4, <1>5, <1>6 DEF ServerHolds, ServersUntouched, consent

\* What is routed is what the holder of the name asked for.
LEMMA ServeHolds ==
    ASSUME TypeOK, ServersAreTyped, NEW m \in Node, ServerHolds(m), Serve(m), AskedRightly(m)
    PROVE  ServerHolds(m)' /\ ServersUntouched(m)
  <1> DEFINE h0 == Asked(m).order.name
             p0 == Asked(m).order.says
             a == AskedBy(m)
  <1>1. /\ step[m] = "claimed" /\ p0 # Nowhere
        /\ route' = [route EXCEPT ![m][h0] = p0]
        /\ step' = [step EXCEPT ![m] = "unread"]
        /\ CarryOut(m, FALSE) /\ UNCHANGED <<consent, claim, boot>>
    BY DEF Serve
  <1>2. h0 \in Hostname /\ a \in Node \ {m} /\ p0 \in Instructions(a, m, h0)
    BY DEF AskedRightly
  <1>3. m \notin wavered => claim[m][h0] = a
    BY <1>1 DEF ServerHolds, HoldsWhatItServes
  <1> HIDE DEF h0, p0, a
  <1>4. table' = table /\ \A x \in Node \ {m} : pass'[x] = pass[x]
    BY <1>1, CarryingOutLeaves
  <1>5. /\ route'[m][h0] = p0 /\ \A h \in Hostname \ {h0} : route'[m][h] = route[m][h]
        /\ \A x \in Node \ {m} : route'[x] = route[x]
        /\ step'[m] = "unread" /\ \A x \in Node \ {m} : step'[x] = step[x]
    BY <1>1, <1>2 DEF ServersAreTyped
  <1>6. RoutesAreHolders(m)'
    <2>1. \A o, h : Instructions(o, m, h)' = Instructions(o, m, h)
      BY <1>4 DEF Instructions, InstructionsIn
    <2>2. ASSUME m \notin wavered, NEW h \in Hostname, route'[m][h] # Nowhere
          PROVE  claim[m][h] # Nobody /\ route'[m][h] \in Instructions(claim[m][h], m, h)
      <3>1. CASE h = h0
        BY <1>2, <1>3, <1>5, <2>2, <3>1, EmptyIsNoPlace
      <3>2. CASE h # h0
        BY <1>5, <2>2, <3>2 DEF ServerHolds, RoutesAreHolders
      <3> QED  BY <3>1, <3>2
    <2> QED  BY <1>1, <2>1, <2>2 DEF RoutesAreHolders, consent
  <1>7. \A h \in Hostname : claim'[m][h] # m
    BY <1>1 DEF ServerHolds, HoldsForOthers
  <1>8. ServerHolds(m)'
    BY <1>1, <1>4, <1>5, <1>6, <1>7, AnsweringServerHolds DEF consent
  <1> QED  BY <1>1, <1>4, <1>5, <1>8 DEF ServersUntouched, consent

\* A route that is withdrawn goes first.
LEMMA ForgetRouteHolds ==
    ASSUME TypeOK, ServersAreTyped, NEW m \in Node, ServerHolds(m), ForgetRoute(m),
           AskedRightly(m)
    PROVE  ServerHolds(m)' /\ ServersUntouched(m)
  <1> DEFINE h0 == Asked(m).order.name
  <1>1. /\ step[m] = "claimed"
        /\ route' = [route EXCEPT ![m][h0] = Nowhere]
        /\ step' = [step EXCEPT ![m] = "forgotten"]
        /\ UNCHANGED <<channel, consent, claim, boot>>
    BY DEF ForgetRoute
  <1>2. /\ h0 \in Hostname /\ table' = table /\ pass' = pass
        /\ Asked(m)' = Asked(m) /\ AskedBy(m)' = AskedBy(m)
    <2>1. h0 \in Hostname /\ table' = table /\ pass' = pass
      BY <1>1 DEF AskedRightly, channel, vars
    <2> QED  BY <2>1, StillInHand
  <1> HIDE DEF h0
  <1>3. /\ route'[m][h0] = Nowhere /\ \A h \in Hostname \ {h0} : route'[m][h] = route[m][h]
        /\ \A x \in Node \ {m} : route'[x] = route[x]
        /\ step'[m] = "forgotten" /\ \A x \in Node \ {m} : step'[x] = step[x]
    BY <1>1, <1>2 DEF ServersAreTyped
  <1>4. HoldsForOthers(m)'
    BY <1>1 DEF ServerHolds, HoldsForOthers
  <1>5. HoldsWhatItServes(m)'
    BY <1>1, <1>2, <1>3 DEF ServerHolds, HoldsWhatItServes, consent, h0
  <1>6. RoutesAreHolders(m)'
    BY <1>1, <1>2, <1>3, RoutesStayOrGo DEF ServerHolds, consent
  <1> QED  BY <1>1, <1>2, <1>3, <1>4, <1>5, <1>6 DEF ServerHolds, ServersUntouched, consent

\* And the name after it, when nothing is routed for it.
LEMMA ReleaseNameHolds ==
    ASSUME TypeOK, ServersAreTyped, NEW m \in Node, ServerHolds(m), ReleaseName(m),
           AskedRightly(m)
    PROVE  ServerHolds(m)' /\ ServersUntouched(m)
  <1> DEFINE h0 == Asked(m).order.name
  <1>1. /\ step[m] = "forgotten"
        /\ claim' = [claim EXCEPT ![m][h0] = Nobody]
        /\ step' = [step EXCEPT ![m] = "unread"]
        /\ CarryOut(m, FALSE) /\ UNCHANGED <<consent, route, boot>>
    BY DEF ReleaseName
  <1>2. h0 \in Hostname /\ route[m][h0] = Nowhere
    BY <1>1 DEF AskedRightly, ServerHolds, HoldsWhatItServes
  <1> HIDE DEF h0
  <1>3. table' = table /\ \A x \in Node \ {m} : pass'[x] = pass[x]
    BY <1>1, CarryingOutLeaves
  <1>4. /\ claim'[m][h0] = Nobody /\ \A h \in Hostname \ {h0} : claim'[m][h] = claim[m][h]
        /\ \A x \in Node \ {m} : claim'[x] = claim[x]
        /\ step'[m] = "unread" /\ \A x \in Node \ {m} : step'[x] = step[x]
    BY <1>1, <1>2 DEF ServersAreTyped
  <1>5. RoutesAreHolders(m)'
    BY <1>1, <1>2, <1>3, <1>4, RoutesStayOrGo DEF ServerHolds, consent
  <1>6. \A h \in Hostname : claim'[m][h] # m
    BY <1>4, EmptyIsNoPlace DEF ServerHolds, HoldsForOthers
  <1>7. ServerHolds(m)'
    BY <1>1, <1>3, <1>4, <1>5, <1>6, AnsweringServerHolds DEF consent
  <1> QED  BY <1>1, <1>3, <1>4, <1>7 DEF ServersUntouched, consent

\* At boot only what a node that wavered holds is let go of.
LEMMA ReleaseUngrantedHolds ==
    ASSUME TypeOK, ServersAreTyped, NEW m \in Node, ServerHolds(m), NEW c \in boot[m],
           ReleaseUngranted(m, c)
    PROVE  ServerHolds(m)' /\ ServersUntouched(m)
  <1>1. /\ boot' = [boot EXCEPT ![m] = boot[m] \ {c}]
        /\ UNCHANGED <<channel, consent, step>>
    BY DEF ReleaseUngranted
  <1>2. /\ c \in Named /\ c[1] \in Hostname /\ c[2] \in Node \ {m}
        /\ table' = table /\ pass' = pass
    BY <1>1 DEF ServersAreTyped, Named, ServerHolds, HoldsForOthers, channel, vars
  <1>3. Asked(m)' = Asked(m) /\ AskedBy(m)' = AskedBy(m)
    BY <1>2, StillInHand
  <1>4. boot'[m] \subseteq boot[m] /\ \A x \in Node \ {m} : boot'[x] = boot[x]
    BY <1>1 DEF ServersAreTyped
  <1>5. CASE c[2] \in grants[m]
    <2>1. UNCHANGED <<claim, route>>
      BY <1>5 DEF ReleaseUngranted
    <2>2. HoldsForOthers(m)' /\ HoldsWhatItServes(m)'
      BY <1>1, <1>2, <1>3, <1>4, <2>1 DEF ServerHolds, HoldsForOthers, HoldsWhatItServes, consent
    <2>3. RoutesAreHolders(m)'
      BY <1>1, <1>2, <2>1, RoutesStayOrGo DEF ServerHolds, consent
    <2> QED  BY <1>1, <1>2, <1>4, <2>1, <2>2, <2>3 DEF ServerHolds, ServersUntouched, consent
  <1>6. CASE c[2] \notin grants[m]
    <2>1. /\ route' = [route EXCEPT ![m][c[1]] = Nowhere]
          /\ claim' = [claim EXCEPT ![m][c[1]] = Nobody]
      BY <1>6 DEF ReleaseUngranted
    <2>2. m \in wavered
      BY <1>2, <1>6 DEF ServerHolds, HoldsWhatItServes
    <2>3. /\ \A h \in Hostname : claim'[m][h] = claim[m][h] \/ claim'[m][h] = Nobody
          /\ \A h \in Hostname : route'[m][h] = route[m][h] \/ route'[m][h] = Nowhere
          /\ \A x \in Node \ {m} : claim'[x] = claim[x] /\ route'[x] = route[x]
      BY <1>2, <2>1 DEF ServersAreTyped
    <2>4. HoldsForOthers(m)'
      BY <1>4, <2>3, EmptyIsNoPlace DEF ServerHolds, HoldsForOthers
    <2>5. RoutesAreHolders(m)'
      BY <1>1, <2>2 DEF RoutesAreHolders, consent
    <2>6. ASSUME NEW h, route[m][h] = Nowhere PROVE route'[m][h] = Nowhere
      <3>1. route[m] \in [Hostname -> Says]
        BY DEF ServersAreTyped
      <3> QED  BY <1>2, <2>1, <2>6, <3>1 DEF ServersAreTyped
    <2>7. HoldsWhatItServes(m)'
      BY <1>1, <1>2, <1>3, <2>2, <2>6 DEF ServerHolds, HoldsWhatItServes, consent
    <2> QED
      BY <1>1, <1>2, <1>4, <2>3, <2>4, <2>5, <2>7 DEF ServerHolds, ServersUntouched, consent
  <1> QED  BY <1>5, <1>6

\* Servers stay of their types.
LEMMA StepTypesServers ==
    ASSUME TypeOK, Bookkeeping, ServersAreTyped, [EdgeSpecNext]_all,
           \A m \in Node : RowsAreOfOthers(m), \A m \in Node : ServerHolds(m)
    PROVE  ServersAreTyped'
  <1>1. ASSUME UNCHANGED edge PROVE ServersAreTyped'
    BY <1>1 DEF edge, consent, ServersAreTyped
  <1>2. ASSUME NEW n \in Node, OwnerNext(n) PROVE UNCHANGED edge
    BY <1>2 DEF OwnerNext, SetEdges, Move, Deploy, SetPlacement, Recorded, Drained,
       BeginTell, BeginSync, TellOne, WithdrawOne, DropOne
  <1>3. ASSUME NEW n \in Node, Restart(n) PROVE ServersAreTyped'
    <2>1. {<<h, claim[n][h]>> : h \in {g \in Hostname : claim[n][g] # Nobody}} \subseteq Named
      <3>1. \A h \in Hostname : claim[n][h] # Nobody => claim[n][h] \in Node
        BY DEF ServersAreTyped
      <3> QED  BY <3>1 DEF Named
    <2> DEFINE B == {<<h, claim[n][h]>> : h \in {g \in Hostname : claim[n][g] # Nobody}}
    <2>2. /\ step' = [step EXCEPT ![n] = "unread"] /\ boot' = [boot EXCEPT ![n] = B]
          /\ UNCHANGED <<consent, claim, route>>
      BY <1>3 DEF Restart
    <2>3. B \subseteq Named
      BY <2>1
    <2> HIDE DEF B
    <2> QED  BY <2>2, <2>3 DEF ServersAreTyped, consent
  <1>4. ASSUME NEW m \in Node, step[m] # "unread" \/ pass[m].stage = "obeying"
        PROVE  AskedRightly(m)
    <2>1. pass[m].stage = "obeying"
      BY <1>4 DEF ServerHolds, HoldsWhatItServes
    <2> QED  BY <2>1, TheErrandInHand
  <1>5. ASSUME NEW m \in Node, Refuse(m) PROVE UNCHANGED edge
    BY <1>5 DEF Refuse
  <1>6. ASSUME NEW m \in Node, TakeName(m) PROVE ServersAreTyped'
    <2> DEFINE h0 == Asked(m).order.name
               a == AskedBy(m)
    <2>1. h0 \in Hostname /\ a \in Node
      BY <1>4, <1>6 DEF TakeName, AskedRightly
    <2>2. /\ claim' = [claim EXCEPT ![m][h0] = a] /\ step' = [step EXCEPT ![m] = "claimed"]
          /\ UNCHANGED <<consent, route, boot>>
      BY <1>6 DEF TakeName
    <2> HIDE DEF h0, a
    <2> QED  BY <2>1, <2>2 DEF ServersAreTyped, consent
  <1>7. ASSUME NEW m \in Node, Serve(m) PROVE ServersAreTyped'
    <2> DEFINE h0 == Asked(m).order.name
               p0 == Asked(m).order.says
    <2>1. h0 \in Hostname /\ p0 \in Says
      BY <1>4, <1>7 DEF Serve, AskedRightly
    <2>2. /\ route' = [route EXCEPT ![m][h0] = p0] /\ step' = [step EXCEPT ![m] = "unread"]
          /\ UNCHANGED <<consent, claim, boot>>
      BY <1>7 DEF Serve
    <2> HIDE DEF h0, p0
    <2> QED  BY <2>1, <2>2 DEF ServersAreTyped, consent
  <1>8. ASSUME NEW m \in Node, ForgetRoute(m) PROVE ServersAreTyped'
    <2>1. Asked(m).order.name \in Hostname /\ Nowhere \in Says
      BY <1>4, <1>8 DEF ForgetRoute, AskedRightly, Says
    <2>2. /\ route' = [route EXCEPT ![m][Asked(m).order.name] = Nowhere]
          /\ step' = [step EXCEPT ![m] = "forgotten"]
          /\ UNCHANGED <<consent, claim, boot>>
      BY <1>8 DEF ForgetRoute
    <2> QED  BY <2>1, <2>2 DEF ServersAreTyped, consent
  <1>9. ASSUME NEW m \in Node, ReleaseName(m) PROVE ServersAreTyped'
    <2>1. Asked(m).order.name \in Hostname
      BY <1>4, <1>9 DEF ReleaseName, AskedRightly
    <2>2. /\ claim' = [claim EXCEPT ![m][Asked(m).order.name] = Nobody]
          /\ step' = [step EXCEPT ![m] = "unread"]
          /\ UNCHANGED <<consent, route, boot>>
      BY <1>9 DEF ReleaseName
    <2> QED  BY <2>1, <2>2 DEF ServersAreTyped, consent
  <1>10. ASSUME NEW m \in Node, NEW b \in Node, SetGrants(m, b) PROVE ServersAreTyped'
    <2> DEFINE g == IF b \in grants[m] THEN grants[m] \ {b} ELSE grants[m] \cup {b}
    <2>1. /\ grants' = [grants EXCEPT ![m] = g] /\ wavered' = wavered \cup {m}
          /\ UNCHANGED <<claim, route, step, boot>>
      BY <1>10 DEF SetGrants
    <2>2. g \subseteq Node
      BY DEF ServersAreTyped
    <2> HIDE DEF g
    <2> QED  BY <2>1, <2>2 DEF ServersAreTyped
  <1>11. ASSUME NEW m \in Node, NEW c \in boot[m], ReleaseUngranted(m, c)
         PROVE  ServersAreTyped'
    <2>1. c[1] \in Hostname /\ Nowhere \in Says
      BY DEF ServersAreTyped, Named, Says
    <2>2. boot' = [boot EXCEPT ![m] = boot[m] \ {c}] /\ UNCHANGED <<consent, step>>
      BY <1>11 DEF ReleaseUngranted
    <2>3. /\ \/ claim' = claim
             \/ claim' = [claim EXCEPT ![m][c[1]] = Nobody]
          /\ \/ route' = route
             \/ route' = [route EXCEPT ![m][c[1]] = Nowhere]
      BY <1>11 DEF ReleaseUngranted
    <2>4. claim' \in [Node -> [Hostname -> Node \cup {Nobody}]]
      <3>1. CASE claim' = claim
        BY <3>1 DEF ServersAreTyped
      <3>2. CASE claim' = [claim EXCEPT ![m][c[1]] = Nobody]
        BY <2>1, <3>2 DEF ServersAreTyped
      <3> QED  BY <2>3, <3>1, <3>2
    <2>5. route' \in [Node -> [Hostname -> Says]]
      <3>1. CASE route' = route
        BY <3>1 DEF ServersAreTyped
      <3>2. CASE route' = [route EXCEPT ![m][c[1]] = Nowhere]
        BY <2>1, <3>2 DEF ServersAreTyped
      <3> QED  BY <2>3, <3>1, <3>2
    <2>6. boot' \in [Node -> SUBSET Named]
      BY <2>2 DEF ServersAreTyped
    <2> QED  BY <2>2, <2>4, <2>5, <2>6 DEF ServersAreTyped, consent
  <1>12. ASSUME NEW m \in Node, EdgeNext(m) PROVE ServersAreTyped'
    BY <1>1, <1>5, <1>6, <1>7, <1>8, <1>9, <1>10, <1>11, <1>12 DEF EdgeNext
  <1>13. CASE WireStep
    BY <1>1, <1>13 DEF WireStep
  <1>14. CASE UNCHANGED all
    BY <1>1, <1>14 DEF all
  <1> QED  BY <1>1, <1>2, <1>3, <1>12, <1>13, <1>14, StepsAreOfAKind

\* Every step keeps what servers keep.
LEMMA StepKeepsServers ==
    ASSUME TypeOK, Bookkeeping, OwnersAreTyped, ServersAreTyped, NoneAsksItself,
           \A m \in Node : ServerHolds(m), Grows(table, table'), [EdgeSpecNext]_all,
           NEW m \in Node
    PROVE  ServerHolds(m)'
  <1>1. ServerHolds(m) /\ \A n \in Node : RowsAreOfOthers(n)
    BY DEF NoneAsksItself
  <1>2. ASSUME UNCHANGED edge, pass[m].stage = "obeying" => pass'[m] = pass[m]
        PROVE  ServerHolds(m)'
    BY <1>1, <1>2, UntouchedServerHolds DEF edge, consent
  <1>3. ASSUME NEW n \in Node \ {m}, ServersUntouched(n), wavered' = wavered
        PROVE  ServerHolds(m)'
    BY <1>1, <1>3, UntouchedServerHolds DEF ServersUntouched
  <1>4. ASSUME NEW n \in Node, OwnerNext(n) PROVE ServerHolds(m)'
    <2>1. UNCHANGED edge
      BY <1>4 DEF OwnerNext, SetEdges, Move, Deploy, SetPlacement, Recorded, Drained,
         BeginTell, BeginSync, TellOne, WithdrawOne, DropOne
    <2>2. UNCHANGED pass
      BY <1>1, <1>4, OwnersAskOthers DEF NoneAsksItself
    <2> QED  BY <1>2, <2>1, <2>2
  <1>5. ASSUME NEW n \in Node, step[n] # "unread" \/ pass[n].stage = "obeying"
        PROVE  AskedRightly(n)
    <2>1. pass[n].stage = "obeying"
      BY <1>5 DEF ServerHolds, HoldsWhatItServes
    <2> QED  BY <1>1, <2>1, TheErrandInHand
  <1>6. ASSUME NEW n \in Node,
               \/ Refuse(n) \/ TakeName(n) \/ Serve(n) \/ ForgetRoute(n) \/ ReleaseName(n)
               \/ \E c \in boot[n] : ReleaseUngranted(n, c)
        PROVE  ServerHolds(n)' /\ ServersUntouched(n) /\ wavered' = wavered
    <2>1. ServerHolds(n)
      OBVIOUS
    <2>2. CASE Refuse(n)
      BY <2>1, <2>2, RefuseHolds DEF Refuse, edge, consent
    <2>3. CASE TakeName(n)
      BY <1>5, <2>1, <2>3, TakeNameHolds DEF TakeName, consent
    <2>4. CASE Serve(n)
      BY <1>5, <2>1, <2>4, ServeHolds DEF Serve, consent
    <2>5. CASE ForgetRoute(n)
      BY <1>5, <2>1, <2>5, ForgetRouteHolds DEF ForgetRoute, consent
    <2>6. CASE ReleaseName(n)
      BY <1>5, <2>1, <2>6, ReleaseNameHolds DEF ReleaseName, consent
    <2>7. ASSUME NEW c \in boot[n], ReleaseUngranted(n, c)
          PROVE  ServerHolds(n)' /\ ServersUntouched(n) /\ wavered' = wavered
      BY <2>1, <2>7, ReleaseUngrantedHolds DEF ReleaseUngranted, consent
    <2> QED  BY <1>6, <2>2, <2>3, <2>4, <2>5, <2>6, <2>7
  <1>7. ASSUME NEW n \in Node, NEW a \in Node, SetGrants(n, a) PROVE ServerHolds(m)'
    <2>1. /\ UNCHANGED <<channel, claim, route, step, boot>> /\ wavered' = wavered \cup {n}
          /\ \A x \in Node \ {n} : grants'[x] = grants[x]
      <3> DEFINE g == IF a \in grants[n] THEN grants[n] \ {a} ELSE grants[n] \cup {a}
      <3>1. /\ grants' = [grants EXCEPT ![n] = g] /\ wavered' = wavered \cup {n}
            /\ UNCHANGED <<channel, claim, route, step, boot>>
        BY <1>7 DEF SetGrants
      <3> HIDE DEF g
      <3> QED  BY <3>1
    <2>2. grants'[m] = grants[m] \/ m \in wavered'
      BY <2>1
    <2> QED  BY <1>1, <2>1, <2>2, UntouchedServerHolds DEF channel, vars
  <1>8. ASSUME NEW n \in Node, EdgeNext(n) PROVE ServerHolds(m)'
    <2>1. CASE \E a \in Node : SetGrants(n, a)
      BY <1>7, <2>1
    <2>2. CASE \/ Refuse(n) \/ TakeName(n) \/ Serve(n) \/ ForgetRoute(n) \/ ReleaseName(n)
               \/ \E c \in boot[n] : ReleaseUngranted(n, c)
      <3>1. ServerHolds(n)' /\ ServersUntouched(n) /\ wavered' = wavered
        BY <1>6, <2>2
      <3> QED  BY <1>3, <3>1
    <2> QED  BY <1>8, <2>1, <2>2 DEF EdgeNext
  <1>9. ASSUME NEW n \in Node, Restart(n) PROVE ServerHolds(m)'
    <2> DEFINE B == {<<h, claim[n][h]>> : h \in {g \in Hostname : claim[n][g] # Nobody}}
    <2>1. /\ pass' = [pass EXCEPT ![n] = Resting(n)] /\ table' = table
          /\ step' = [step EXCEPT ![n] = "unread"]
          /\ boot' = [boot EXCEPT ![n] = B]
          /\ UNCHANGED <<consent, claim, route>>
      BY <1>9 DEF Restart, Crash
    <2>2. \A c \in B : c[2] # n
      BY <1>1 DEF ServerHolds, HoldsForOthers
    <2> HIDE DEF B
    <2>3. CASE m = n
      <3>1. step'[m] = "unread" /\ boot'[m] = B
        BY <2>1, <2>3 DEF ServersAreTyped
      <3>2. HoldsForOthers(m)'
        BY <1>1, <2>1, <2>2, <2>3, <3>1 DEF ServerHolds, HoldsForOthers
      <3>3. HoldsWhatItServes(m)'
        BY <1>1, <2>1, <3>1 DEF ServerHolds, HoldsWhatItServes, consent
      <3>4. RoutesAreHolders(m)'
        BY <1>1, <2>1, RoutesStayOrGo DEF ServerHolds, consent
      <3> QED  BY <3>2, <3>3, <3>4 DEF ServerHolds
    <2>4. CASE m # n
      <3>1. pass'[m] = pass[m] /\ step'[m] = step[m] /\ boot'[m] = boot[m]
        BY <2>1, <2>4 DEF TypeOK, ServersAreTyped
      <3> QED  BY <1>1, <2>1, <3>1, UntouchedServerHolds DEF consent
    <2> QED  BY <2>3, <2>4
  <1>10. CASE WireStep
    BY <1>2, <1>10, WireLeavesWorkInHand DEF WireStep
  <1>11. CASE UNCHANGED all
    BY <1>2, <1>11 DEF all, channel, vars
  <1> QED  BY <1>4, <1>8, <1>9, <1>10, <1>11, StepsAreOfAKind

\* And with it all that is kept.
LEMMA StepKeepsRoutes ==
    ASSUME RoutesInvariant, [EdgeSpecNext]_all
    PROVE  RoutesInvariant'
  <1>1. /\ OwnersAreTyped /\ TypeOK /\ Bookkeeping /\ ServersAreTyped /\ NoneAsksItself
        /\ \A m \in Node : ServerHolds(m) /\ RowsAreOfOthers(m)
    BY DEF RoutesInvariant, NoneAsksItself
  <1>2. [Next]_vars
    BY <1>1, StepIsOfTheQueue
  <1>3. TypeOK' /\ Bookkeeping' /\ Grows(table, table')
    BY <1>1, <1>2, StepIsTyped, StepKeepsBooks, StepGrows
  <1>4. OwnersAreTyped' /\ ServersAreTyped'
    BY <1>1, StepTypesOwners, StepTypesServers
  <1>5. NoneAsksItself'
    BY <1>1, <1>3, StepAsksOthers
  <1>6. ASSUME NEW m \in Node PROVE ServerHolds(m)'
    BY <1>1, <1>3, StepKeepsServers
  <1> QED  BY <1>3, <1>4, <1>5, <1>6 DEF RoutesInvariant

\* They start with it.
LEMMA RoutesStart == EdgeInit => RoutesInvariant
  <1> SUFFICES ASSUME EdgeInit PROVE RoutesInvariant
    OBVIOUS
  <1>1. OwnersAreTyped /\ TypeOK /\ Bookkeeping
    BY OwnersStartTyped, InitIsTyped, InitKeepsBooks DEF EdgeInit
  <1>2. ServersAreTyped
    BY DEF EdgeInit, ServersAreTyped, Says
  <1>3. NoneAsksItself
    BY DEF EdgeInit, Init, NoneAsksItself, LooksToOthers, RowsAreOfOthers, LateAreOfOthers, Idle
  <1>4. ASSUME NEW m \in Node PROVE ServerHolds(m)
    <2>1. HoldsForOthers(m)
      BY EmptyIsNoPlace DEF EdgeInit, HoldsForOthers
    <2>2. HoldsWhatItServes(m)
      BY DEF EdgeInit, HoldsWhatItServes
    <2>3. RoutesAreHolders(m)
      BY DEF EdgeInit, RoutesAreHolders
    <2> QED  BY <2>1, <2>2, <2>3 DEF ServerHolds
  <1> QED  BY <1>1, <1>2, <1>3, <1>4 DEF RoutesInvariant

(* Half way through an errand a node still holds the name for the node that  *)
(* asked, no errand is of the node that carries it out, and what start-up    *)
(* lets go of is held by nobody else (serve_name, release_ungranted).        *)
THEOREM ServersHoldWhatTheyServe == EdgeSpec => []RoutesInvariant
  <1>1. RoutesInvariant /\ [EdgeSpecNext]_all => RoutesInvariant'
    BY StepKeepsRoutes
  <1> QED  BY <1>1, RoutesStart, PTL DEF EdgeSpec

(* A node routes a name only on behalf of the node it holds the name for,    *)
(* and only to where that node said, whatever two owners of one name ask for *)
(* and whatever is lost, repeated or late.                                   *)
THEOREM RoutesAreTheHolders == EdgeSpec => []RouteIsHolders
  <1>1. RoutesInvariant => RouteIsHolders
    BY DEF RoutesInvariant, ServerHolds, RoutesAreHolders, RouteIsHolders
  <1> QED  BY <1>1, ServersHoldWhatTheyServe, PTL

------------------------------------------------------------------------------
(* One owner and one node that answers for its name, as a feed of their own *)

\* No call that says how an errand went is lost.
AnswersArrive == "settle" \notin FaultKinds

\* A node takes instructions from, calls and has heard of nodes of its network.
FollowsEnrolment(n) ==
    /\ \A a \in authority[n] : <<n, a>> \in Enrolled
    /\ pass[n].stage # "resting" /\ pass[n].with # n => <<n, pass[n].with>> \in Enrolled
    /\ \A x \in allows[n] : Related(n, x)

\* n asks the server for nothing, and is not about to.
LeavesAlone(n) ==
    /\ \A p \in chosen[n] : p[2] # server
    /\ \A t \in Task : /\ \A x \in task[n][t].tell : x[2] # server
                      /\ \A p \in task[n][t].drop : p[2] # server
    /\ \A i \in DOMAIN table[n] : table[n][i].to # server

\* What is late are requests, and of others.
NothingIsLate == \A m \in flight : m.kind = "ask" /\ m.owner # server

\* The server has all in hand that is as old as what it is at, and not settled.
ReadsAll ==
    pass[server].stage \in {"obeying", "answering"} =>
        /\ \A i \in pass[server].batch : ~table[teller][i].done
        /\ \A i \in DOMAIN table[teller], j \in pass[server].batch :
             table[teller][i].to = server /\ i < j /\ ~table[teller][i].done =>
                i \in pass[server].batch

\* It holds names for the teller only, and routes what it answers for.
ServesTheTeller ==
    /\ \A h \in Hostname : claim[server][h] \in {Nobody, teller}
    /\ step[server] = "forgotten" => Asked(server).order.says = Nowhere
    /\ server \notin wavered /\ pass[server].stage = "answering" =>
         route[server][Asked(server).order.name] = Asked(server).order.says

OthersKeepAway ==
    /\ \A n \in Node : FollowsEnrolment(n)
    /\ \A n \in Node \ {teller} : LeavesAlone(n)
    /\ NothingIsLate

HeardInvariant == RoutesInvariant /\ OthersKeepAway /\ ReadsAll /\ ServesTheTeller

\* A leg goes on with whom it was, or begins with an authority or at home.
LEMMA LegsGoOn ==
    ASSUME TypeOK, [Next]_vars, NEW n \in Node
    PROVE  \/ pass'[n].stage = "resting" \/ pass'[n].with = n
           \/ pass'[n].with = pass[n].with /\ pass[n].stage # "resting"
           \/ pass'[n].with \in authority[n]
  <1> DEFINE Kept == \/ pass'[n].stage = "resting" \/ pass'[n].with = n
                     \/ pass'[n].with = pass[n].with /\ pass[n].stage # "resting"
                     \/ pass'[n].with \in authority[n]
  <1>1. ASSUME pass'[n] = pass[n] PROVE Kept
    <2>1. pass[n].stage = "resting" \/ pass[n].stage # "resting"
      OBVIOUS
    <2> QED  BY <1>1, <2>1
  <1>2. ASSUME NEW k \in Node, k # n, NEW v, pass' = [pass EXCEPT ![k] = v] PROVE Kept
    BY <1>1, <1>2 DEF TypeOK
  <1>3. ASSUME NEW v, pass' = [pass EXCEPT ![n] = v] PROVE pass'[n] = v
    BY <1>3 DEF TypeOK
  <1>4. /\ \A b : Resting(n).stage = "resting" /\ Handing(b, {}).with = b
        /\ \A a, b : Handing(a, b).with = a
        /\ \A a, b : Obeying(n, a, b).with = a \/ Obeying(n, a, b).stage = "resting"
        /\ \A a, b, f : Answering(a, b, f).with = a
    BY DEF Resting, Handing, Obeying, Answering
  <1>5. ASSUME NEW a \in Node, Begin(n, a) PROVE Kept
    BY <1>3, <1>4, <1>5 DEF Begin
  <1>6. ASSUME BeginHere(n) PROVE Kept
    BY <1>3, <1>4, <1>6 DEF BeginHere
  <1>7. ASSUME HandOver(n) \/ HandOverRefused(n) \/ HandOverTimesOut(n) PROVE Kept
    <2>1. HandedNext(n) /\ pass[n].stage = "handing"
      BY <1>7 DEF HandOver, HandOverRefused, HandOverTimesOut
    <2>2. PICK b : pass' = [pass EXCEPT ![n] = Handing(pass[n].with, b)]
      BY <2>1 DEF HandedNext
    <2> QED  BY <1>3, <1>4, <2>1, <2>2
  <1>8. ASSUME Collect(n) PROVE Kept
    BY <1>3, <1>4, <1>8 DEF Collect
  <1>9. ASSUME CollectFails(n) \/ Crash(n) PROVE Kept
    BY <1>3, <1>4, <1>9 DEF CollectFails, Crash
  <1>10. ASSUME NEW failed \in BOOLEAN, CarryOut(n, failed) PROVE Kept
    BY <1>3, <1>4, <1>10 DEF CarryOut
  <1>11. ASSUME SettleArrives(n) \/ SettleTimesOut(n) PROVE Kept
    <2>1. AnsweredNext(n) /\ pass[n].stage = "answering"
      BY <1>11 DEF SettleArrives, SettleTimesOut
    <2>2. PICK b : pass' = [pass EXCEPT ![n] = Obeying(n, pass[n].with, b)]
      BY <2>1 DEF AnsweredNext
    <2> QED  BY <1>3, <1>4, <2>1, <2>2
  <1>12. ASSUME NEW k \in Node, k # n,
                (\E a \in Node : Begin(k, a)) \/ BeginHere(k) \/ Calls(k) \/ Crash(k)
         PROVE  Kept
    BY <1>2, <1>12 DEF Begin, BeginHere, Calls, Crash, HandOver, HandOverRefused,
       HandOverTimesOut, HandedNext, Collect, CollectFails, CarryOut, SettleArrives,
       SettleTimesOut, AnsweredNext
  <1>13. ASSUME UNCHANGED pass PROVE Kept
    BY <1>1, <1>13
  <1>14. ASSUME NEW k \in Node, NEW a \in Node, Revoke(k, a) \/ Grant(k, a)
         PROVE  UNCHANGED pass
    BY <1>14 DEF Revoke, Grant
  <1>15. ASSUME NEW k \in Node, NEW to \in Node, NEW s \in Subject \cup {NoSubject},
                NEW o \in Order, Queue(k, to, s, o)
         PROVE  UNCHANGED pass
    BY <1>15 DEF Queue
  <1>16. ASSUME NEW m \in flight, LateAsk(m) \/ LateSettle(m) \/ Lose(m) PROVE UNCHANGED pass
    BY <1>16 DEF LateAsk, LateSettle, Lose
  <1>17. CASE UNCHANGED vars
    BY <1>13, <1>17 DEF vars
  <1> HIDE DEF Kept
  <1>18. ASSUME NEW k \in Node,
                (\E a \in Node : Begin(k, a)) \/ BeginHere(k) \/ Calls(k) \/ Crash(k)
         PROVE  Kept
    <2>1. CASE k # n
      BY <1>12, <1>18, <2>1
    <2>2. CASE k = n
      BY <1>5, <1>6, <1>7, <1>8, <1>9, <1>10, <1>11, <1>18, <2>2 DEF Calls
    <2> QED  BY <2>1, <2>2
  <1>19. CASE Next
    <2>1. \A k \in Node, a \in Node : Revoke(k, a) \/ Grant(k, a) \/ Begin(k, a) => Kept
      BY <1>13, <1>14, <1>18
    <2>2. \A k \in Node : BeginHere(k) \/ Calls(k) \/ Crash(k) => Kept
      BY <1>18
    <2>3. \A m \in flight : LateAsk(m) \/ LateSettle(m) \/ Lose(m) => Kept
      BY <1>13, <1>16
    <2>4. \A k, to \in Node, s \in Subject \cup {NoSubject}, o \in Order :
            Queue(k, to, s, o) => Kept
      BY <1>13, <1>15
    <2>5. \/ \E k, to \in Node, s \in Subject \cup {NoSubject}, o \in Order :
              Queue(k, to, s, o)
          \/ \E k, a \in Node : Revoke(k, a) \/ Grant(k, a) \/ Begin(k, a)
          \/ \E k \in Node : BeginHere(k) \/ Calls(k) \/ Crash(k)
          \/ \E m \in flight : LateAsk(m) \/ LateSettle(m) \/ Lose(m)
      BY <1>19 DEF Next
    <2> QED  BY <2>1, <2>2, <2>3, <2>4, <2>5 DEF Kept
  <1> QED  BY <1>17, <1>19 DEF Kept

\* So whom a node calls, hears and heeds stays one of its network.
LEMMA NetworkIsFollowed ==
    ASSUME TypeOK, Bookkeeping, OwnersAreTyped, \A n \in Node : FollowsEnrolment(n),
           [EdgeSpecNext]_all
    PROVE  \A n \in Node : FollowsEnrolment(n)'
  <1>1. [Next]_vars
    BY StepIsOfTheQueue
  <1>2. \A n \in Node : \A a \in authority'[n] : <<n, a>> \in Enrolled
    <2>1. \A n \in Node : \A a \in authority[n] : <<n, a>> \in Enrolled
      BY DEF FollowsEnrolment
    <2> QED  BY <1>1, <2>1, EnrolledStay
  <1>3. ASSUME NEW n \in Node, pass'[n].stage # "resting", pass'[n].with # n
        PROVE  <<n, pass'[n].with>> \in Enrolled
    BY <1>1, <1>3, LegsGoOn DEF FollowsEnrolment
  <1>4. ASSUME UNCHANGED allows
        PROVE  \A n \in Node : \A x \in allows'[n] : Related(n, x)
    BY <1>4 DEF FollowsEnrolment
  <1>5. ASSUME NEW k \in Node, NEW a \in Node, Begin(k, a), Report(k, a)
        PROVE  \A n \in Node : \A x \in allows'[n] : Related(n, x)
    <2>1. <<k, a>> \in Enrolled
      BY <1>5 DEF Begin, FollowsEnrolment
    <2>2. ASSUME NEW n \in Node, NEW x \in allows'[n] PROVE Related(n, x)
      <3>1. \/ allows'[n] = allows[n]
            \/ n = a /\ allows'[n] = Heard(k, a)
            \/ n = k /\ allows'[n] = Heard(a, k)
        BY <1>5, HeardIsTyped
      <3>2. \/ x \in allows[n]
            \/ n = a /\ x = k
            \/ n = k /\ x = a
        BY <2>2, <3>1 DEF Heard
      <3> QED  BY <2>1, <3>2 DEF FollowsEnrolment, Related
    <2> QED  BY <2>2
  <1>6. \A n \in Node : \A x \in allows'[n] : Related(n, x)
    <2>1. ASSUME NEW n \in Node, OwnerNext(n) PROVE UNCHANGED allows
      BY <2>1 DEF OwnerNext, SetEdges, Move, Deploy, SetPlacement, Recorded, Drained,
         BeginTell, BeginSync, TellOne, WithdrawOne, DropOne
    <2>2. ASSUME NEW n \in Node, EdgeNext(n) PROVE UNCHANGED allows
      BY <2>2 DEF EdgeNext, Refuse, TakeName, Serve, ForgetRoute, ReleaseName, SetGrants,
         ReleaseUngranted, owner
    <2>3. ASSUME NEW n \in Node, Restart(n) PROVE UNCHANGED allows
      BY <2>3 DEF Restart
    <2>4. CASE WireStep
      BY <1>4, <1>5, <2>4 DEF WireStep
    <2>5. CASE UNCHANGED all
      BY <1>4, <2>5 DEF all, owner
    <2> QED  BY <1>4, <2>1, <2>2, <2>3, <2>4, <2>5, StepsAreOfAKind
  <1> QED  BY <1>2, <1>3, <1>6 DEF FollowsEnrolment

\* What an owner queues, it queues for somebody on a list of its own.
LEMMA OwnersQueueFromTheirLists ==
    ASSUME OwnersAreTyped, NEW n \in Node, OwnerNext(n)
    PROVE  \/ UNCHANGED channel
           \/ \E t \in Task, to \in Node, s \in Subject \cup {NoSubject},
                 h \in Hostname, says \in Says :
                /\ Queue(n, to, s, [name |-> h, says |-> says])
                /\ \/ \E x \in task[n][t].tell : x[2] = to
                   \/ \E p \in task[n][t].drop : p[2] = to
  <1> DEFINE Queues == \E t \in Task, to \in Node, s \in Subject \cup {NoSubject},
                          h \in Hostname, says \in Says :
                         /\ Queue(n, to, s, [name |-> h, says |-> says])
                         /\ \/ \E x \in task[n][t].tell : x[2] = to
                            \/ \E p \in task[n][t].drop : p[2] = to
  <1>1. ASSUME NEW t \in Task, NEW q \in Named, Withdraw(n, q),
               q \in task[n][t].tell \/ q \in task[n][t].drop
        PROVE  Queues
    <2>1. /\ q[1] \in Hostname /\ q[2] \in Node /\ Nowhere \in Says
          /\ NoSubject \in Subject \cup {NoSubject}
      BY DEF Named, Says
    <2>2. Queue(n, q[2], NoSubject, [name |-> q[1], says |-> Nowhere])
      BY <1>1 DEF Withdraw, Untagged
    <2> QED  BY <1>1, <2>1, <2>2
  <1>2. ASSUME NEW t \in Task, NEW x \in task[n][t].tell, TellOne(n, t, x)
        PROVE  UNCHANGED channel \/ Queues
    <2>1. x \in Telling
      BY <1>2, TellOneWorks
    <2>2. x[1] \in Hostname /\ x[2] \in Node /\ x[3] \in Says /\ x[1] \in Subject \cup {NoSubject}
      BY <2>1 DEF Telling, Hostname
    <2>3. \/ UNCHANGED channel
          \/ Queue(n, x[2], x[1], [name |-> x[1], says |-> x[3]])
      BY <1>2 DEF TellOne
    <2> QED  BY <2>2, <2>3
  <1>3. ASSUME NEW t \in Task, NEW p \in task[n][t].tell, WithdrawOne(n, t, p) PROVE Queues
    <2>1. p \in Named /\ Withdraw(n, p)
      BY <1>3, WithdrawOneWorks DEF WithdrawOne
    <2> QED  BY <1>1, <2>1
  <1>4. ASSUME NEW t \in Task, NEW p \in task[n][t].drop, DropOne(n, t, p) PROVE Queues
    <2>1. p \in Named /\ Withdraw(n, p)
      BY <1>4, DropOneWorks DEF DropOne
    <2> QED  BY <1>1, <2>1
  <1>5. ASSUME NEW h \in Hostname, NEW nodes \in SUBSET Node, SetEdges(n, h, nodes)
        PROVE  UNCHANGED channel
    BY <1>5 DEF SetEdges
  <1>6. ASSUME NEW h \in Hostname, NEW p \in Says, Move(n, h, p) PROVE UNCHANGED channel
    BY <1>6, MoveWorks
  <1>7. ASSUME NEW t \in Task, BeginTell(n, t) \/ BeginSync(n, t) PROVE UNCHANGED channel
    BY <1>7 DEF BeginTell, BeginSync
  <1> HIDE DEF Queues
  <1>8. UNCHANGED channel \/ Queues
    BY <1>2, <1>3, <1>4, <1>5, <1>6, <1>7 DEF OwnerNext, Says
  <1> QED  BY <1>8 DEF Queues

\* A row of one's own comes last, and is not settled.
LEMMA QueueingAddsARow ==
    ASSUME TypeOK, NEW n \in Node, NEW to \in Node, NEW s \in Subject \cup {NoSubject},
           NEW h \in Hostname, NEW says \in Says,
           Queue(n, to, s, [name |-> h, says |-> says])
    PROVE  LET k == Len(table[n]) + 1 IN
           /\ \A o \in Node \ {n} : table'[o] = table[o]
           /\ DOMAIN table'[n] = DOMAIN table[n] \cup {k}
           /\ k \in Nat /\ \A i \in DOMAIN table[n] : i < k /\ table'[n][i] = table[n][i]
           /\ table'[n][k].to = to /\ ~table'[n][k].done
           /\ table'[n][k].order.name = h /\ table'[n][k].order.says = says
  <1> DEFINE r == NewRow(to, n, s, [name |-> h, says |-> says])
             U == [table EXCEPT ![n] = Append(@, r)]
             k == Len(table[n]) + 1
  <1>1. /\ table' = U /\ r.to = to /\ ~r.done
        /\ r.order.name = h /\ r.order.says = says
    BY DEF Queue, NewRow
  <1>2. r \in Row /\ table \in Tables
    BY RowsAreNew, OrdersAreOfEdges DEF EdgeOrder, Says, TypeOK, Tables
  <1> HIDE DEF r
  <1>3. /\ U \in Tables
        /\ \A o \in Node : o # n => U[o] = table[o]
        /\ Len(U[n]) = k
        /\ \A i \in DOMAIN table[n] : i \in DOMAIN U[n] /\ U[n][i] = table[n][i]
        /\ U[n][k] = r
    BY <1>2, AppendingARow
  <1> HIDE DEF U
  <1>4. U[n] \in Seq(Row) /\ table[n] \in Seq(Row)
    BY <1>2, <1>3 DEF Tables
  <1>5. /\ k \in Nat /\ DOMAIN U[n] = DOMAIN table[n] \cup {k}
        /\ \A i \in DOMAIN table[n] : i < k
    BY <1>3, <1>4
  <1> QED  BY <1>1, <1>3, <1>5

\* Nobody hands the server anything: the teller does not call it, and the
\* others have nothing for it.
LEMMA NobodyCallsTheServer ==
    ASSUME OneTeller, TypeOK, Bookkeeping, OthersKeepAway, NEW n \in Node,
           pass[n].stage = "handing"
    PROVE  pass[n].with # server
  <1> SUFFICES ASSUME pass[n].with = server PROVE FALSE
    OBVIOUS
  <1>1. PICK i \in pass[n].batch : i \in DOMAIN table[n] /\ table[n][i].to = server
    BY DEF Bookkeeping, HoldsRows
  <1>2. CASE n = teller
    BY <1>2 DEF OneTeller, OthersKeepAway, FollowsEnrolment
  <1>3. CASE n # teller
    BY <1>1, <1>3 DEF OthersKeepAway, LeavesAlone
  <1> QED  BY <1>2, <1>3

\* What an owner that leaves it alone turns to next leaves it alone too.
LEMMA ListsLeaveItAlone ==
    ASSUME OneTeller, TypeOK, OwnersAreTyped, NEW n \in Node \ {teller}, OwnerNext(n),
           LeavesAlone(n), FollowsEnrolment(n)
    PROVE  /\ \A p \in chosen'[n] : p[2] # server
           /\ \A t \in Task : /\ \A x \in task'[n][t].tell : x[2] # server
                             /\ \A p \in task'[n][t].drop : p[2] # server
  <1> DEFINE Lists == /\ \A p \in chosen'[n] : p[2] # server
                      /\ \A t \in Task : /\ \A x \in task'[n][t].tell : x[2] # server
                                        /\ \A p \in task'[n][t].drop : p[2] # server
  <1>1. ASSUME NEW t \in Task, OnlyTask(n, t),
               \A p \in chosen'[n] : p[2] # server,
               \A x \in task'[n][t].tell : x \in task[n][t].tell \/ x[2] # server,
               \A p \in task'[n][t].drop : p \in task[n][t].drop \/ p \in chosen[n]
        PROVE  Lists
    <2>1. ASSUME NEW u \in Task
          PROVE  /\ \A x \in task'[n][u].tell : x[2] # server
                 /\ \A p \in task'[n][u].drop : p[2] # server
      <3>1. CASE u = t
        BY <1>1, <3>1 DEF LeavesAlone
      <3>2. CASE u # t
        BY <1>1, <3>2 DEF LeavesAlone, OnlyTask
      <3> QED  BY <3>1, <3>2
    <2> QED  BY <1>1, <2>1
  <1>2. "form" \in Task /\ "deployer" \in Task /\ \A p \in chosen[n] : p[2] # server
    BY DEF Task, LeavesAlone
  <1>3. ASSUME NEW h \in Hostname, NEW nodes \in SUBSET Node, SetEdges(n, h, nodes) PROVE Lists
    <2>1. n \in Owner \ {teller}
      BY <1>3 DEF SetEdges
    <2>2. server \notin allows[n]
      BY <2>1 DEF OneTeller, FollowsEnrolment, Related
    <2>3. \A p \in chosen'[n] : p[2] # server
      BY <1>2, <1>3, <2>2, SetEdgesWorks
    <2> QED  BY <1>1, <1>2, <1>3, <2>3, SetEdgesWorks
  <1>4. ASSUME NEW h \in Hostname, NEW p \in Says, Move(n, h, p) PROVE Lists
    <2>1. PICK t \in Task : /\ OnlyTask(n, t)
                            /\ task'[n][t].tell \subseteq task[n][t].tell
                            /\ task'[n][t].drop \subseteq task[n][t].drop
      BY <1>4, MoveWorks
    <2>2. UNCHANGED <<chosen, allows, edge>>
      BY <1>4, MoveWorks
    <2> QED  BY <1>1, <1>2, <2>1, <2>2
  <1>5. ASSUME NEW t \in Task, BeginTell(n, t) PROVE Lists
    <2>1. \A x \in Tellings(n) : x[2] # server
      BY <1>2 DEF Tellings
    <2> QED  BY <1>1, <1>2, <1>5, <2>1, BeginTellWorks DEF BeginTell
  <1>6. ASSUME NEW t \in Task, BeginSync(n, t) PROVE Lists
    <2>1. ASSUME NEW p \in Unwanted(n) PROVE p[2] # server
      <3>1. LastNaming(n, p[1], p[2]) # 0
        BY <2>1 DEF Unwanted, NamesTold
      <3>2. LastNaming(n, p[1], p[2]) \in Naming(n, p[1], p[2])
        BY <3>1, ReadingThem
      <3> QED  BY <3>2 DEF Naming, LeavesAlone
    <2> QED  BY <1>1, <1>2, <1>6, <2>1, BeginSyncWorks DEF BeginSync
  <1>7. ASSUME NEW t \in Task, NEW x \in task[n][t].tell, TellOne(n, t, x) PROVE Lists
    BY <1>1, <1>2, <1>7, TellOneWorks DEF TellOne
  <1>8. ASSUME NEW t \in Task, NEW x \in task[n][t].tell, WithdrawOne(n, t, x) PROVE Lists
    BY <1>1, <1>2, <1>8, WithdrawOneWorks DEF WithdrawOne
  <1>9. ASSUME NEW t \in Task, NEW p \in task[n][t].drop, DropOne(n, t, p) PROVE Lists
    BY <1>1, <1>2, <1>9, DropOneWorks DEF DropOne
  <1> HIDE DEF Lists
  <1>10. Lists
    BY <1>3, <1>4, <1>5, <1>6, <1>7, <1>8, <1>9 DEF OwnerNext, Says
  <1> QED  BY <1>10 DEF Lists

\* Nor do the rows that come to the tables of others ask it for anything.
LEMMA RowsLeaveItAlone ==
    ASSUME OneTeller, TypeOK, Bookkeeping, OthersKeepAway, Wire, Grows(table, table'),
           NEW n \in Node \ {teller}
    PROVE  \A i \in DOMAIN table'[n] : table'[n][i].to # server
  <1> SUFFICES ASSUME NEW i \in DOMAIN table'[n], table'[n][i].to = server PROVE FALSE
    OBVIOUS
  <1>1. \A j \in DOMAIN table[n] : table[n][j].to # server
    BY DEF OthersKeepAway, LeavesAlone
  <1>2. i \notin DOMAIN table[n]
    BY <1>1 DEF Grows, SameErrand
  <1>3. PICK k \in Node, a \in Node, r \in Row :
          AsksOf(k, a) /\ OnlyNew(table, table', a, r) /\ r.to = a /\ r.from = k
    BY <1>2, WireAddsWhatIsAsked DEF WireAdds
  <1>4. n = a /\ table'[n][i] = r
    BY <1>2, <1>3 DEF OnlyNew
  <1>5. CASE HandOver(k) /\ a = pass[k].with
    <2>1. pass[k].stage = "handing"
      BY <1>5 DEF HandOver
    <2> QED  BY <1>3, <1>4, <1>5, <2>1, NobodyCallsTheServer
  <1>6. CASE \E m \in flight : m.kind = "ask" /\ m.owner = a
    BY <1>3, <1>4, <1>6 DEF OthersKeepAway, NothingIsLate
  <1> QED  BY <1>3, <1>5, <1>6 DEF AsksOf

\* What is late stays requests of others.
LEMMA NothingComesLate ==
    ASSUME OneTeller, AnswersArrive, TypeOK, Bookkeeping, OthersKeepAway, Wire
    PROVE  NothingIsLate'
  <1>1. ASSUME flight' \subseteq flight PROVE NothingIsLate'
    BY <1>1 DEF OthersKeepAway, NothingIsLate
  <1>2. ASSUME NEW n \in Node, HandOverTimesOut(n) PROVE NothingIsLate'
    <2>1. pass[n].with # server
      BY <1>2, NobodyCallsTheServer DEF HandOverTimesOut
    <2> QED  BY <1>2, <2>1 DEF HandOverTimesOut, OthersKeepAway, NothingIsLate
  <1>3. ASSUME NEW n \in Node, SettleTimesOut(n) PROVE FALSE
    BY <1>3 DEF SettleTimesOut, Fault, AnswersArrive
  <1>4. ASSUME NEW n \in Node,
               \/ \E a \in Node : Begin(n, a)
               \/ HandOver(n) \/ HandOverRefused(n) \/ Collect(n)
               \/ CollectFails(n) \/ SettleArrives(n) \/ BeginHere(n)
        PROVE  flight' \subseteq flight
    BY <1>4 DEF Begin, HandOver, HandOverRefused, Collect, CollectFails, SettleArrives, BeginHere
  <1>5. ASSUME NEW m \in flight, LateAsk(m) \/ LateSettle(m) \/ Lose(m)
        PROVE  flight' \subseteq flight
    BY <1>5 DEF LateAsk, LateSettle, Lose
  <1> QED  BY <1>1, <1>2, <1>3, <1>4, <1>5 DEF Wire

\* The teller stays the only one that deals with the server.
LEMMA StepKeepsAway ==
    ASSUME OneTeller, AnswersArrive, TypeOK, Bookkeeping, OwnersAreTyped, OthersKeepAway,
           NoneAsksItself, Grows(table, table'), [EdgeSpecNext]_all
    PROVE  OthersKeepAway'
  <1>1. \A n \in Node : FollowsEnrolment(n)'
    BY NetworkIsFollowed DEF OthersKeepAway
  <1>2. ASSUME UNCHANGED <<owner, table>>, NEW n \in Node \ {teller} PROVE LeavesAlone(n)'
    BY <1>2 DEF owner, OthersKeepAway, LeavesAlone
  <1>3. ASSUME NEW k \in Node, OwnerNext(k) PROVE OthersKeepAway'
    <2>1. UNCHANGED <<pass, flight>>
      BY <1>3, OwnersAskOthers DEF NoneAsksItself
    <2>2. ASSUME NEW n \in Node \ {teller}, n # k PROVE LeavesAlone(n)'
      BY <1>3, <2>2, OtherOwnersLeaveIt DEF OthersKeepAway, LeavesAlone
    <2>3. ASSUME k # teller PROVE LeavesAlone(k)'
      <3>1. LeavesAlone(k) /\ FollowsEnrolment(k)
        BY <2>3 DEF OthersKeepAway
      <3>2. /\ \A p \in chosen'[k] : p[2] # server
            /\ \A t \in Task : /\ \A x \in task'[k][t].tell : x[2] # server
                              /\ \A p \in task'[k][t].drop : p[2] # server
        BY <1>3, <2>3, <3>1, ListsLeaveItAlone
      <3>3. CASE UNCHANGED channel
        BY <3>1, <3>2, <3>3 DEF channel, vars, LeavesAlone
      <3>4. ASSUME NEW t \in Task, NEW to \in Node, NEW s \in Subject \cup {NoSubject},
                   NEW h \in Hostname, NEW says \in Says,
                   Queue(k, to, s, [name |-> h, says |-> says]),
                   \/ \E x \in task[k][t].tell : x[2] = to
                   \/ \E p \in task[k][t].drop : p[2] = to
            PROVE  LeavesAlone(k)'
        <4>1. to # server
          BY <3>1, <3>4 DEF LeavesAlone
        <4>2. \A i \in DOMAIN table'[k] : table'[k][i].to # server
          BY <3>1, <3>4, <4>1, QueueingAddsARow DEF LeavesAlone
        <4> QED  BY <3>2, <4>2 DEF LeavesAlone
      <3> QED  BY <1>3, <3>3, <3>4, OwnersQueueFromTheirLists
    <2>4. NothingIsLate'
      BY <2>1 DEF OthersKeepAway, NothingIsLate
    <2> QED  BY <1>1, <2>2, <2>3, <2>4 DEF OthersKeepAway
  <1>4. ASSUME UNCHANGED <<owner, table, flight>> PROVE OthersKeepAway'
    BY <1>1, <1>2, <1>4 DEF OthersKeepAway, NothingIsLate
  <1>5. ASSUME NEW k \in Node, EdgeNext(k) PROVE UNCHANGED <<owner, table, flight>>
    BY <1>5 DEF EdgeNext, Refuse, TakeName, Serve, ForgetRoute, ReleaseName, SetGrants,
       ReleaseUngranted, channel, vars, CarryOut
  <1>6. ASSUME NEW k \in Node, Restart(k) PROVE OthersKeepAway'
    <2>1. UNCHANGED <<table, flight, chosen>>
      BY <1>6 DEF Restart, Crash
    <2>2. ASSUME NEW n \in Node \ {teller} PROVE LeavesAlone(n)'
      <3>1. LeavesAlone(n)
        BY DEF OthersKeepAway
      <3>2. CASE n # k
        BY <1>6, <2>1, <3>1, <3>2, RestartWorks DEF LeavesAlone
      <3>3. CASE n = k
        BY <1>6, <2>1, <3>1, <3>3, RestartWorks DEF LeavesAlone
      <3> QED  BY <3>2, <3>3
    <2> QED  BY <1>1, <2>1, <2>2 DEF OthersKeepAway, NothingIsLate
  <1>7. CASE WireStep
    <2>1. Wire /\ UNCHANGED <<chosen, task>>
      BY <1>7 DEF WireStep
    <2>2. ASSUME NEW n \in Node \ {teller} PROVE LeavesAlone(n)'
      <3>1. \A i \in DOMAIN table'[n] : table'[n][i].to # server
        BY <2>1, RowsLeaveItAlone
      <3> QED  BY <2>1, <3>1 DEF OthersKeepAway, LeavesAlone
    <2> QED  BY <1>1, <2>1, <2>2, NothingComesLate DEF OthersKeepAway
  <1>8. CASE UNCHANGED all
    BY <1>4, <1>8 DEF all, channel, vars
  <1> QED  BY <1>3, <1>4, <1>5, <1>6, <1>7, <1>8, StepsAreOfAKind

\* What the server has in hand is the teller's.
LEMMA TheTellersErrand ==
    ASSUME OneTeller, TypeOK, Bookkeeping, OthersKeepAway, ReadsAll,
           pass[server].stage \in {"obeying", "answering"}
    PROVE  LET i == Oldest(pass[server].batch) IN
           /\ pass[server].with = teller /\ AskedBy(server) = teller
           /\ Asked(server) = table[teller][i]
           /\ i \in DOMAIN table[teller] /\ i \in pass[server].batch
           /\ table[teller][i] \in Row /\ table[teller][i].to = server
           /\ table[teller][i].order.name \in Hostname
           /\ table[teller][i].order.says \in Says
           /\ ~table[teller][i].done
           /\ \A j \in DOMAIN table[teller] :
                table[teller][j].to = server /\ ~table[teller][j].done => i <= j
  <1> DEFINE w == pass[server].with
             B == pass[server].batch
             i == Oldest(B)
  <1>1. /\ w \in Node /\ i \in B /\ \A j \in B : i <= j
        /\ B \in SUBSET (Nat \ {0})
        /\ \A j \in B : j \in DOMAIN table[w] /\ table[w][j].to = server
    <2>1. server \in Node /\ HoldsRows(server)
      BY DEF OneTeller, Bookkeeping
    <2> QED  BY <2>1, OldestInHand DEF TypeOK, Leg, HoldsRows
  <1>2. w = teller
    BY <1>1 DEF OthersKeepAway, LeavesAlone
  <1>3. Asked(server) = table[teller][i] /\ AskedBy(server) = teller
    BY <1>2 DEF Asked, AskedBy, OneTeller
  <1>4. table[teller][i] \in Row
    BY <1>1, <1>2 DEF TypeOK
  <1>5. table[teller][i].order.name \in Hostname /\ table[teller][i].order.says \in Says
    BY <1>4, OrdersAreOfEdges DEF Row, EdgeOrder, Says
  <1>6. ~table[teller][i].done
    BY <1>1 DEF ReadsAll
  <1>7. ASSUME NEW j \in DOMAIN table[teller], table[teller][j].to = server,
               ~table[teller][j].done
        PROVE  i <= j
    <2>1. j \in Nat /\ i \in Nat
      BY <1>1 DEF TypeOK, OneTeller
    <2>2. CASE j < i
      <3>1. j \in B
        BY <1>1, <1>7, <2>2 DEF ReadsAll
      <3> QED  BY <1>1, <3>1
    <2> QED  BY <2>1, <2>2
  <1> QED  BY <1>1, <1>2, <1>3, <1>4, <1>5, <1>6, <1>7

\* Of the rows of T, U has all as they were but one: row i of n's table.
SameBut(T, U, n, i) ==
    \A o \in Node : \A k \in DOMAIN T[o] : ~ (o = n /\ k = i) => U[o][k] = T[o][k]

\* Handing a row over changes that one, and adds one.
LEMMA HandingOverLeaves ==
    ASSUME NEW T \in Tables, NEW n \in Node, NEW a \in Node, a # n,
           NEW i \in DOMAIN T[n], NEW r \in Row, NEW failed \in BOOLEAN
    PROVE  SameBut(T, [T EXCEPT ![n][i] = SettledRow(@, a, failed), ![a] = Append(@, r)], n, i)
  <1> DEFINE S == [T EXCEPT ![n][i] = SettledRow(@, a, failed)]
             U == [S EXCEPT ![a] = Append(@, r)]
  <1>1. /\ S \in Tables
        /\ \A o \in Node : o # n => S[o] = T[o]
        /\ DOMAIN S[n] = DOMAIN T[n]
        /\ \A j \in DOMAIN T[n] : j # i => S[n][j] = T[n][j]
    BY SettlingARow
  <1>2. U = [T EXCEPT ![n][i] = SettledRow(@, a, failed), ![a] = Append(@, r)]
    BY DEF S, U, Tables
  <1> HIDE DEF S
  <1>3. /\ \A o \in Node : o # a => U[o] = S[o]
        /\ \A j \in DOMAIN S[a] : j \in DOMAIN U[a] /\ U[a][j] = S[a][j]
    BY <1>1, AppendingARow
  <1> HIDE DEF U
  <1>4. SameBut(T, U, n, i)
    BY <1>1, <1>3 DEF SameBut
  <1> QED  BY <1>2, <1>4

\* The server's answer to that errand.
Answers ==
    /\ SettleArrives(server) /\ pass[server].with = teller

\* What the teller told the server only changes by the server's answer.
LEMMA OnlyTheServerSettles ==
    ASSUME OneTeller, TypeOK, Bookkeeping, OthersKeepAway, Wire,
           NEW i \in DOMAIN table[teller], table[teller][i].to = server
    PROVE  \/ table'[teller][i] = table[teller][i]
           \/ Answers /\ i = Oldest(pass[server].batch)
  <1> DEFINE Goal == \/ table'[teller][i] = table[teller][i]
                     \/ Answers /\ i = Oldest(pass[server].batch)
  <1>1. table \in Tables /\ teller \in Node /\ server \in Node
    BY DEF TypeOK, Tables, OneTeller
  <1>2. ASSUME NEW n \in Node, HandOver(n) PROVE Goal
    <2> DEFINE a == pass[n].with
               j == Oldest(pass[n].batch)
               r == Accepted(a, n, table[n][j].order)
               U == [table EXCEPT ![n][j] = SettledRow(@, a, FALSE), ![a] = Append(@, r)]
    <2>1. pass[n].stage = "handing"
      BY <1>2 DEF HandOver
    <2>2. a # server
      BY <2>1, NobodyCallsTheServer
    <2>3. a \in Node /\ a # n /\ j \in DOMAIN table[n] /\ table[n][j].to = a
      BY <2>1, OldestInHand DEF TypeOK, Leg, Bookkeeping, ReachesOthers, HoldsRows
    <2>4. table[n][j] \in Row
      BY <2>3 DEF TypeOK
    <2>5. r \in Row
      BY <2>3, <2>4, AcceptedIsNew
    <2>6. table' = U
      BY <1>2 DEF HandOver
    <2> HIDE DEF a, j, r
    <2>7. SameBut(table, U, n, j)
      BY <1>1, <2>3, <2>5, HandingOverLeaves
    <2> HIDE DEF U
    <2> QED  BY <1>1, <2>2, <2>3, <2>6, <2>7 DEF SameBut
  <1>3. ASSUME NEW n \in Node, SettleArrives(n) PROVE Goal
    <2> DEFINE a == pass[n].with
               j == Oldest(pass[n].batch)
    <2>1. a \in Node /\ j \in DOMAIN table[a] /\ table[a][j].to = n /\ pass[n].failed \in BOOLEAN
      BY <1>3, OldestInHand DEF SettleArrives, TypeOK, Leg, Bookkeeping, HoldsRows
    <2>2. table' = [table EXCEPT ![a][j] = SettledRow(@, n, pass[n].failed)]
      BY <1>3 DEF SettleArrives, Settle
    <2>3. CASE a = teller /\ j = i
      BY <1>3, <2>1, <2>3 DEF Answers
    <2>4. CASE ~ (a = teller /\ j = i)
      <3> HIDE DEF a, j
      <3>1. /\ \A o \in Node : o # a => table'[o] = table[o]
            /\ \A k \in DOMAIN table[a] : k # j => table'[a][k] = table[a][k]
        BY <1>1, <2>1, <2>2, SettlingARow
      <3> QED  BY <1>1, <2>4, <3>1
    <2> QED  BY <2>3, <2>4
  <1>4. ASSUME NEW m \in flight, LateAsk(m) PROVE Goal
    <2> DEFINE r == Accepted(m.owner, m.by, table[m.by][m.row].order)
    <2>1. m.owner \in Node /\ m.by \in Node /\ m.row \in DOMAIN table[m.by]
      BY <1>4 DEF LateAsk, TypeOK, Flight, Bookkeeping, ArrivesTrue
    <2>2. table[m.by][m.row] \in Row
      BY <2>1 DEF TypeOK
    <2>3. r \in Row
      BY <2>1, <2>2, AcceptedIsNew
    <2>4. table' = [table EXCEPT ![m.owner] = Append(@, r)]
      BY <1>4 DEF LateAsk
    <2> HIDE DEF r
    <2>5. /\ \A o \in Node : o # m.owner => table'[o] = table[o]
          /\ \A k \in DOMAIN table[m.owner] : table'[m.owner][k] = table[m.owner][k]
      BY <1>1, <2>1, <2>3, <2>4, AppendingARow
    <2> QED  BY <1>1, <2>5
  <1>5. ASSUME NEW m \in flight, LateSettle(m) PROVE FALSE
    BY <1>5 DEF LateSettle, OthersKeepAway, NothingIsLate
  <1>6. ASSUME UNCHANGED table PROVE Goal
    BY <1>6
  <1>7. ASSUME NEW n \in Node,
               \/ \E a \in Node : Begin(n, a)
               \/ HandOverRefused(n) \/ HandOverTimesOut(n) \/ Collect(n)
               \/ CollectFails(n) \/ SettleTimesOut(n) \/ BeginHere(n)
        PROVE  UNCHANGED table
    BY <1>7 DEF Begin, HandOverRefused, HandOverTimesOut, Collect, CollectFails,
       SettleTimesOut, BeginHere
  <1>8. ASSUME NEW m \in flight, Lose(m) PROVE UNCHANGED table
    BY <1>8 DEF Lose
  <1> HIDE DEF Goal
  <1>9. Goal
    BY <1>2, <1>3, <1>4, <1>5, <1>6, <1>7, <1>8 DEF Wire
  <1> QED  BY <1>9 DEF Goal

\* Nor does the wire tell the server anything.
LEMMA TheWireTellsNothing ==
    ASSUME OneTeller, TypeOK, Bookkeeping, Wire, NEW i \in DOMAIN table'[teller],
           i \notin DOMAIN table[teller]
    PROVE  table'[teller][i].to # server
  BY WireIsQuiet DEF QuietAt, OneTeller

\* In no step does what the teller told the server change otherwise.
LEMMA WhatIsToldStays ==
    ASSUME OneTeller, TypeOK, Bookkeeping, OwnersAreTyped, OthersKeepAway,
           [EdgeSpecNext]_all, NEW i \in DOMAIN table[teller], table[teller][i].to = server
    PROVE  \/ table'[teller][i] = table[teller][i]
           \/ Answers /\ i = Oldest(pass[server].batch)
  <1>1. teller \in Node
    BY DEF OneTeller
  <1>2. ASSUME NEW n \in Node, OwnerNext(n) PROVE table'[teller][i] = table[teller][i]
    <2>1. CASE UNCHANGED channel
      BY <2>1 DEF channel, vars
    <2>2. ASSUME NEW to \in Node, NEW s \in Subject \cup {NoSubject},
                 NEW h \in Hostname, NEW says \in Says,
                 Queue(n, to, s, [name |-> h, says |-> says])
          PROVE  table'[teller][i] = table[teller][i]
      BY <1>1, <2>2, QueueingAddsARow
    <2> QED  BY <1>2, <2>1, <2>2, OwnersQueueFromTheirLists
  <1>3. ASSUME NEW n \in Node, EdgeNext(n) PROVE UNCHANGED table
    BY <1>3 DEF EdgeNext, Refuse, TakeName, Serve, ForgetRoute, ReleaseName, SetGrants,
       ReleaseUngranted, channel, vars, CarryOut
  <1>4. ASSUME NEW n \in Node, Restart(n) PROVE UNCHANGED table
    BY <1>4 DEF Restart, Crash
  <1>5. CASE WireStep
    BY <1>5, OnlyTheServerSettles DEF WireStep
  <1>6. CASE UNCHANGED all
    BY <1>6 DEF all, channel, vars
  <1> QED  BY <1>2, <1>3, <1>4, <1>5, <1>6, StepsAreOfAKind

\* What is new comes after what was there.
LEMMA WhatIsNewIsLast ==
    ASSUME TypeOK, Grows(table, table'), NEW o \in Node, NEW i \in DOMAIN table'[o],
           i \notin DOMAIN table[o]
    PROVE  i \in Nat /\ \A j \in DOMAIN table[o] : j < i
  <1>1. table[o] \in Seq(Row) /\ table'[o] \in Seq(Row)
    BY DEF TypeOK, Grows, Tables
  <1> QED  BY <1>1

\* A leg that is at work was, with the same in hand, or less, or has just
\* collected it.
LEMMA WorkGoesOn ==
    ASSUME TypeOK, [Next]_vars, NEW n \in Node, pass'[n].stage \in {"obeying", "answering"}
    PROVE  \/ /\ pass[n].stage \in {"obeying", "answering"}
              /\ pass'[n].with = pass[n].with /\ pass'[n].batch = pass[n].batch
           \/ Collect(n) \/ BeginHere(n) \/ SettleArrives(n) \/ SettleTimesOut(n)
  <1> DEFINE Kept == \/ /\ pass[n].stage \in {"obeying", "answering"}
                        /\ pass'[n].with = pass[n].with /\ pass'[n].batch = pass[n].batch
                     \/ Collect(n) \/ BeginHere(n) \/ SettleArrives(n) \/ SettleTimesOut(n)
  <1>1. ASSUME pass'[n] = pass[n] PROVE Kept
    BY <1>1
  <1>2. ASSUME NEW k \in Node, k # n, NEW v, pass' = [pass EXCEPT ![k] = v] PROVE Kept
    BY <1>1, <1>2 DEF TypeOK
  <1>3. ASSUME NEW v, pass' = [pass EXCEPT ![n] = v] PROVE pass'[n] = v
    BY <1>3 DEF TypeOK
  <1>4. /\ Resting(n).stage = "resting"
        /\ \A a, b : Handing(a, b).stage \in {"handing", "asking"}
        /\ \A a, b, f : Answering(a, b, f).with = a /\ Answering(a, b, f).batch = b
    BY DEF Resting, Handing, Answering
  <1>5. ASSUME NEW v, v.stage \in {"resting", "handing", "asking"},
               pass' = [pass EXCEPT ![n] = v]
        PROVE  FALSE
    <2>1. pass'[n].stage \in {"resting", "handing", "asking"}
      BY <1>3, <1>5
    <2> QED  BY <2>1
  <1>6. ASSUME NEW a \in Node, Begin(n, a) PROVE FALSE
    BY <1>4, <1>5, <1>6 DEF Begin
  <1>7. ASSUME HandOver(n) \/ HandOverRefused(n) \/ HandOverTimesOut(n) PROVE FALSE
    <2>1. HandedNext(n)
      BY <1>7 DEF HandOver, HandOverRefused, HandOverTimesOut
    <2>2. PICK b : pass' = [pass EXCEPT ![n] = Handing(pass[n].with, b)]
      BY <2>1 DEF HandedNext
    <2>3. pass'[n] = Handing(pass[n].with, b)
      BY <1>3, <2>2
    <2>4. pass'[n].stage \in {"handing", "asking"}
      BY <1>4, <2>3
    <2> QED  BY <2>4
  <1>8. ASSUME CollectFails(n) \/ Crash(n) PROVE FALSE
    BY <1>4, <1>5, <1>8 DEF CollectFails, Crash
  <1>9. ASSUME NEW failed \in BOOLEAN, CarryOut(n, failed) PROVE Kept
    <2>1. /\ pass[n].stage = "obeying"
          /\ pass' = [pass EXCEPT ![n] = Answering(pass[n].with, pass[n].batch, failed)]
      BY <1>9 DEF CarryOut
    <2> QED  BY <1>3, <1>4, <2>1
  <1>10. ASSUME NEW k \in Node, k # n,
                (\E a \in Node : Begin(k, a)) \/ BeginHere(k) \/ Calls(k) \/ Crash(k)
         PROVE  Kept
    BY <1>2, <1>10 DEF Begin, BeginHere, Calls, Crash, HandOver, HandOverRefused,
       HandOverTimesOut, HandedNext, Collect, CollectFails, CarryOut, SettleArrives,
       SettleTimesOut, AnsweredNext
  <1>11. ASSUME UNCHANGED pass PROVE Kept
    BY <1>1, <1>11
  <1>12. ASSUME NEW k \in Node, NEW a \in Node, Revoke(k, a) \/ Grant(k, a)
         PROVE  UNCHANGED pass
    BY <1>12 DEF Revoke, Grant
  <1>13. ASSUME NEW k \in Node, NEW to \in Node, NEW s \in Subject \cup {NoSubject},
                NEW o \in Order, Queue(k, to, s, o)
         PROVE  UNCHANGED pass
    BY <1>13 DEF Queue
  <1>14. ASSUME NEW m \in flight, LateAsk(m) \/ LateSettle(m) \/ Lose(m) PROVE UNCHANGED pass
    BY <1>14 DEF LateAsk, LateSettle, Lose
  <1>15. ASSUME Collect(n) \/ BeginHere(n) \/ SettleArrives(n) \/ SettleTimesOut(n) PROVE Kept
    BY <1>15
  <1> HIDE DEF Kept
  <1>16. ASSUME NEW k \in Node,
                (\E a \in Node : Begin(k, a)) \/ BeginHere(k) \/ Calls(k) \/ Crash(k)
         PROVE  Kept
    <2>1. CASE k # n
      BY <1>10, <1>16, <2>1
    <2>2. CASE k = n
      BY <1>6, <1>7, <1>8, <1>9, <1>15, <1>16, <2>2 DEF Calls
    <2> QED  BY <2>1, <2>2
  <1>17. CASE UNCHANGED vars
    BY <1>11, <1>17 DEF vars, Kept
  <1>18. CASE Next
    <2>1. \A k \in Node, a \in Node : Revoke(k, a) \/ Grant(k, a) \/ Begin(k, a) => Kept
      BY <1>11, <1>12, <1>16
    <2>2. \A k \in Node : BeginHere(k) \/ Calls(k) \/ Crash(k) => Kept
      BY <1>16
    <2>3. \A m \in flight : LateAsk(m) \/ LateSettle(m) \/ Lose(m) => Kept
      BY <1>11, <1>14
    <2>4. \A k, to \in Node, s \in Subject \cup {NoSubject}, o \in Order :
            Queue(k, to, s, o) => Kept
      BY <1>11, <1>13
    <2>5. \/ \E k, to \in Node, s \in Subject \cup {NoSubject}, o \in Order :
              Queue(k, to, s, o)
          \/ \E k, a \in Node : Revoke(k, a) \/ Grant(k, a) \/ Begin(k, a)
          \/ \E k \in Node : BeginHere(k) \/ Calls(k) \/ Crash(k)
          \/ \E m \in flight : LateAsk(m) \/ LateSettle(m) \/ Lose(m)
      BY <1>18 DEF Next
    <2> QED  BY <2>1, <2>2, <2>3, <2>4, <2>5 DEF Kept
  <1> QED  BY <1>17, <1>18

\* What the server's answer does to the teller's table and to its own leg.
LEMMA TheAnswerArrives ==
    ASSUME OneTeller, TypeOK, Bookkeeping, OthersKeepAway, ReadsAll, SettleArrives(server)
    PROVE  LET i == Oldest(pass[server].batch) IN
           /\ Answers
           /\ table' = [table EXCEPT ![teller][i] = SettledRow(@, server, pass[server].failed)]
           /\ table'[teller][i].done
           /\ pass'[server].stage # "resting" => pass'[server].batch = pass[server].batch \ {i}
  <1> DEFINE i == Oldest(pass[server].batch)
             f == pass[server].failed
  <1>1. /\ pass[server].stage = "answering"
        /\ table' = [table EXCEPT ![pass[server].with][i] = SettledRow(@, server, f)]
        /\ pass' = [pass EXCEPT ![server] =
                      Obeying(server, pass[server].with, pass[server].batch \ {i})]
    BY DEF SettleArrives, Settle, AnsweredNext
  <1>2. /\ pass[server].with = teller /\ i \in DOMAIN table[teller]
        /\ table[teller][i].to = server /\ table[teller][i] \in Row
        /\ ~table[teller][i].done
    BY <1>1, TheTellersErrand
  <1>3. f \in BOOLEAN /\ table \in Tables /\ teller \in Node /\ server \in Node
    BY DEF TypeOK, Leg, OneTeller, Tables
  <1>4. SettledRow(table[teller][i], server, f).done
    BY <1>2 DEF SettledRow, Row
  <1> HIDE DEF i, f
  <1>5. table'[teller][i] = SettledRow(table[teller][i], server, f)
    BY <1>1, <1>2, <1>3, SettlingARow
  <1>6. pass'[server] = Obeying(server, teller, pass[server].batch \ {i})
    BY <1>1, <1>2, <1>3 DEF TypeOK
  <1>7. pass'[server].stage # "resting" => pass'[server].batch = pass[server].batch \ {i}
    BY <1>6 DEF Obeying, Resting
  <1> QED  BY <1>1, <1>2, <1>4, <1>5, <1>7 DEF Answers, i, f

\* The server goes on to have all in hand that it has still to read.
LEMMA StepReadsAll ==
    ASSUME OneTeller, AnswersArrive, TypeOK, Bookkeeping, OwnersAreTyped, OthersKeepAway,
           ReadsAll, Grows(table, table'), [EdgeSpecNext]_all
    PROVE  ReadsAll'
  <1> DEFINE B == pass[server].batch
             C == pass'[server].batch
  <1> SUFFICES ASSUME pass'[server].stage \in {"obeying", "answering"}
               PROVE  /\ \A i \in C : ~table'[teller][i].done
                      /\ \A i \in DOMAIN table'[teller], j \in C :
                           table'[teller][i].to = server /\ i < j /\ ~table'[teller][i].done =>
                              i \in C
    BY DEF ReadsAll
  <1>1. [Next]_vars /\ teller \in Node /\ server \in Node
    BY StepIsOfTheQueue DEF OneTeller
  <1>2. ASSUME NEW i \in DOMAIN table'[teller], table'[teller][i].to = server,
               ~table'[teller][i].done, i \in DOMAIN table[teller]
        PROVE  table[teller][i].to = server /\ ~table[teller][i].done
    BY <1>1, <1>2 DEF Grows, SameErrand
  <1>3. CASE /\ pass[server].stage \in {"obeying", "answering"}
             /\ pass'[server].with = pass[server].with /\ C = B
    <2>1. /\ pass[server].with = teller
          /\ \A j \in B : j \in DOMAIN table[teller] /\ table[teller][j].to = server
      BY <1>1, <1>3, TheTellersErrand DEF Bookkeeping, HoldsRows
    <2>2. ~Answers
      <3>1. Oldest(B) \in B
        BY <1>3, TheTellersErrand
      <3>2. Answers => C = B \ {Oldest(B)}
        BY TheAnswerArrives DEF Answers
      <3> QED  BY <1>3, <3>1, <3>2
    <2>3. \A i \in B : ~table'[teller][i].done
      BY <1>3, <2>1, <2>2, WhatIsToldStays DEF ReadsAll
    <2>4. ASSUME NEW i \in DOMAIN table'[teller], NEW j \in B,
                 table'[teller][i].to = server, i < j, ~table'[teller][i].done
          PROVE  i \in B
      <3>1. i \in DOMAIN table[teller]
        <4>1. j \in DOMAIN table[teller] /\ j \in Nat
          BY <1>1, <2>1 DEF TypeOK
        <4>2. i \in DOMAIN table[teller] \/ (i \in Nat /\ j < i)
          BY <1>1, <4>1, WhatIsNewIsLast
        <4> QED  BY <2>4, <4>1, <4>2
      <3> QED  BY <1>2, <1>3, <2>4, <3>1 DEF ReadsAll
    <2> QED  BY <1>3, <2>3, <2>4
  <1>4. CASE Collect(server)
    <2> DEFINE w == pass[server].with
    <2>1. table' = table /\ pass'[server] = Obeying(server, w, Waiting(w, server))
      BY <1>1, <1>4 DEF Collect, TypeOK
    <2>2. C = Waiting(w, server) /\ C # {}
      BY <2>1 DEF Obeying, Resting
    <2>3. w \in Node
      BY <1>1 DEF TypeOK, Leg
    <2>4. w = teller
      BY <2>2, <2>3 DEF OthersKeepAway, LeavesAlone, Waiting
    <2> QED  BY <2>1, <2>2, <2>4 DEF Waiting
  <1>5. CASE BeginHere(server)
    BY <1>1, <1>5 DEF BeginHere, Waiting, OneTeller, OthersKeepAway, LeavesAlone
  <1>6. CASE SettleArrives(server)
    <2> DEFINE o == Oldest(B)
    <2>1. /\ Answers /\ C = B \ {o} /\ table'[teller][o].done
      BY <1>6, TheAnswerArrives
    <2>2. pass[server].stage \in {"obeying", "answering"}
      BY <1>6 DEF SettleArrives
    <2>3. \A j \in B : j \in DOMAIN table[teller] /\ table[teller][j].to = server
      BY <1>1, <2>2, TheTellersErrand DEF Bookkeeping, HoldsRows
    <2> HIDE DEF o
    <2>4. \A i \in C : ~table'[teller][i].done
      BY <2>1, <2>2, <2>3, WhatIsToldStays DEF ReadsAll, o
    <2>5. ASSUME NEW i \in DOMAIN table'[teller], NEW j \in C,
                 table'[teller][i].to = server, i < j, ~table'[teller][i].done
          PROVE  i \in C
      <3>1. i \in DOMAIN table[teller]
        <4>1. j \in DOMAIN table[teller] /\ j \in Nat
          BY <1>1, <2>1, <2>3 DEF TypeOK
        <4>2. i \in DOMAIN table[teller] \/ (i \in Nat /\ j < i)
          BY <1>1, <4>1, WhatIsNewIsLast
        <4> QED  BY <2>5, <4>1, <4>2
      <3>2. i \in B
        BY <1>2, <2>1, <2>2, <2>5, <3>1 DEF ReadsAll
      <3> QED  BY <2>1, <2>5, <3>2
    <2> QED  BY <2>4, <2>5
  <1>7. CASE SettleTimesOut(server)
    BY <1>7 DEF SettleTimesOut, Fault, AnswersArrive
  <1> QED  BY <1>1, <1>3, <1>4, <1>5, <1>6, <1>7, WorkGoesOn

\* The wire leaves an answer that is owed where it is.
LEMMA WireLeavesAnswers ==
    ASSUME TypeOK, Wire, NEW n \in Node, pass'[n].stage = "answering"
    PROVE  pass'[n] = pass[n]
  <1>1. ASSUME NEW k \in Node, NEW v, v.stage # "answering", pass' = [pass EXCEPT ![k] = v]
        PROVE  pass'[n] = pass[n]
    BY <1>1 DEF TypeOK
  <1>2. /\ \A k : Resting(k).stage # "answering"
        /\ \A a, b : Handing(a, b).stage # "answering"
        /\ \A k, a, b : Obeying(k, a, b).stage # "answering"
    BY DEF Resting, Handing, Obeying
  <1>3. ASSUME NEW k \in Node, NEW a \in Node, Begin(k, a) PROVE pass'[n] = pass[n]
    BY <1>1, <1>2, <1>3 DEF Begin
  <1>4. ASSUME NEW k \in Node, HandOver(k) \/ HandOverRefused(k) \/ HandOverTimesOut(k)
        PROVE  pass'[n] = pass[n]
    <2>1. HandedNext(k)
      BY <1>4 DEF HandOver, HandOverRefused, HandOverTimesOut
    <2> QED  BY <1>1, <1>2, <2>1 DEF HandedNext
  <1>5. ASSUME NEW k \in Node, Collect(k) \/ CollectFails(k) \/ BeginHere(k)
        PROVE  pass'[n] = pass[n]
    BY <1>1, <1>2, <1>5 DEF Collect, CollectFails, BeginHere
  <1>6. ASSUME NEW k \in Node, SettleArrives(k) \/ SettleTimesOut(k) PROVE pass'[n] = pass[n]
    BY <1>1, <1>2, <1>6 DEF SettleArrives, SettleTimesOut, AnsweredNext
  <1>7. ASSUME NEW m \in flight, LateAsk(m) \/ LateSettle(m) \/ Lose(m) PROVE pass'[n] = pass[n]
    BY <1>7 DEF LateAsk, LateSettle, Lose
  <1> QED  BY <1>3, <1>4, <1>5, <1>6, <1>7 DEF Wire

\* The errand in hand stays what it was, whoever adds to the tables.
LEMMA TheOrderStays ==
    ASSUME OneTeller, TypeOK, Bookkeeping, OthersKeepAway, ReadsAll, Grows(table, table'),
           pass[server].stage \in {"obeying", "answering"},
           pass'[server].with = pass[server].with, pass'[server].batch = pass[server].batch
    PROVE  Asked(server)'.order = Asked(server).order
  <1> DEFINE i == Oldest(pass[server].batch)
  <1>1. /\ pass[server].with = teller /\ i \in DOMAIN table[teller]
        /\ Asked(server) = table[teller][i] /\ teller \in Node
    BY TheTellersErrand DEF OneTeller
  <1>2. SameErrand(table[teller][i], table'[teller][i])
    BY <1>1 DEF Grows
  <1>3. Oldest(pass[server].batch)' = i
    BY DEF Oldest
  <1>4. Asked(server)' = table'[teller][i]
    BY <1>1, <1>3 DEF Asked
  <1> QED  BY <1>1, <1>2, <1>4 DEF SameErrand

\* Who serves changes what is its own.
LEMMA OthersServeApart ==
    ASSUME TypeOK, ServersAreTyped, NEW n \in Node, NEW m \in Node \ {n}, EdgeNext(n)
    PROVE  /\ claim'[m] = claim[m] /\ route'[m] = route[m] /\ step'[m] = step[m]
           /\ pass'[m] = pass[m] /\ table' = table /\ (m \in wavered' <=> m \in wavered)
  <1> DEFINE Goal == /\ claim'[m] = claim[m] /\ route'[m] = route[m] /\ step'[m] = step[m]
                     /\ pass'[m] = pass[m] /\ table' = table /\ (m \in wavered' <=> m \in wavered)
  <1>1. ASSUME NEW failed \in BOOLEAN, CarryOut(n, failed)
        PROVE  pass'[m] = pass[m] /\ table' = table
    BY <1>1, CarryingOutLeaves
  <1>2. ASSUME Refuse(n) PROVE Goal
    BY <1>1, <1>2 DEF Refuse, edge, consent
  <1>3. ASSUME TakeName(n) PROVE Goal
    BY <1>3 DEF TakeName, channel, vars, consent, ServersAreTyped
  <1>4. ASSUME Serve(n) PROVE Goal
    BY <1>1, <1>4 DEF Serve, consent, ServersAreTyped
  <1>5. ASSUME ForgetRoute(n) PROVE Goal
    BY <1>5 DEF ForgetRoute, channel, vars, consent, ServersAreTyped
  <1>6. ASSUME ReleaseName(n) PROVE Goal
    BY <1>1, <1>6 DEF ReleaseName, consent, ServersAreTyped
  <1>7. ASSUME NEW a \in Node, SetGrants(n, a) PROVE Goal
    BY <1>7 DEF SetGrants, channel, vars
  <1>8. ASSUME NEW c \in boot[n], ReleaseUngranted(n, c) PROVE Goal
    <2>1. /\ claim' = claim \/ claim' = [claim EXCEPT ![n][c[1]] = Nobody]
          /\ route' = route \/ route' = [route EXCEPT ![n][c[1]] = Nowhere]
          /\ UNCHANGED <<channel, consent, step>>
      BY <1>8 DEF ReleaseUngranted
    <2>2. claim'[m] = claim[m]
      BY <2>1 DEF ServersAreTyped
    <2>3. route'[m] = route[m]
      BY <2>1 DEF ServersAreTyped
    <2> QED  BY <2>1, <2>2, <2>3 DEF channel, vars, consent
  <1> HIDE DEF Goal
  <1>9. Goal
    BY <1>2, <1>3, <1>4, <1>5, <1>6, <1>7, <1>8 DEF EdgeNext
  <1> QED  BY <1>9 DEF Goal

\* A server that does not waver turns its one teller down for nothing.
LEMMA NothingIsRefused ==
    ASSUME OneTeller, HeardInvariant, server \notin wavered
    PROVE  ~Refuse(server)
  <1> SUFFICES ASSUME Refuse(server) PROVE FALSE
    OBVIOUS
  <1>1. pass[server].stage = "obeying"
    BY DEF Refuse
  <1>2. AskedBy(server) = teller /\ Asked(server).order.name \in Hostname
    BY <1>1, TheTellersErrand DEF HeardInvariant, RoutesInvariant
  <1>3. teller \in grants[server]
    BY DEF HeardInvariant, RoutesInvariant, ServerHolds, HoldsWhatItServes, OneTeller
  <1>4. claim[server][Asked(server).order.name] \in {Nobody, teller}
    BY <1>2 DEF HeardInvariant, ServesTheTeller
  <1> QED  BY <1>2, <1>3, <1>4 DEF Refuse, Consents, Claimable

\* A step of the server writes the route it is asked for, or none.
RouteAsAsked ==
    \A h \in Hostname :
        \/ route'[server][h] = route[server][h]
        \/ /\ pass[server].stage = "obeying" /\ h = Asked(server).order.name
           /\ route'[server][h] = Asked(server).order.says

\* What a step of its own leaves of the server, and what it routes.
LEMMA TheServersStep ==
    ASSUME OneTeller, HeardInvariant, EdgeNext(server)
    PROVE  /\ ServesTheTeller' /\ table' = table
           /\ server \notin wavered' => RouteAsAsked
  <1> DEFINE h0 == Asked(server).order.name
             p0 == Asked(server).order.says
             Goal == /\ ServesTheTeller' /\ table' = table
                     /\ server \notin wavered' => RouteAsAsked
  <1>1. /\ server \in Node /\ TypeOK /\ Bookkeeping /\ ServersAreTyped /\ OthersKeepAway
        /\ ReadsAll /\ ServesTheTeller /\ ServerHolds(server)
    BY DEF HeardInvariant, RoutesInvariant, OneTeller
  <1>2. ASSUME pass[server].stage = "obeying"
        PROVE  AskedBy(server) = teller /\ h0 \in Hostname /\ p0 \in Says
    BY <1>1, <1>2, TheTellersErrand
  <1>3. ASSUME NEW failed \in BOOLEAN, CarryOut(server, failed)
        PROVE  /\ table' = table /\ pass[server].stage = "obeying"
               /\ Asked(server)' = Asked(server)
               /\ pass'[server].stage = "answering"
    <2>1. /\ table' = table /\ pass[server].stage = "obeying"
          /\ pass'[server] = Answering(pass[server].with, pass[server].batch, failed)
      BY <1>1, <1>3 DEF CarryOut, TypeOK
    <2> QED  BY <2>1 DEF Answering, Asked, Oldest
  <1>4. ASSUME UNCHANGED <<table, pass>>
        PROVE  Asked(server)' = Asked(server)
    BY <1>4, StillInHand
  <1>5. ASSUME Refuse(server) PROVE Goal
    <2>1. server \in wavered /\ UNCHANGED edge /\ CarryOut(server, TRUE) /\ step[server] = "unread"
      BY <1>5, NothingIsRefused DEF Refuse
    <2> QED  BY <1>1, <1>3, <2>1 DEF edge, consent, ServesTheTeller
  <1>6. ASSUME TakeName(server) PROVE Goal
    <2>1. /\ claim' = [claim EXCEPT ![server][h0] = AskedBy(server)]
          /\ step' = [step EXCEPT ![server] = "claimed"]
          /\ UNCHANGED <<channel, consent, route>> /\ pass[server].stage = "obeying"
      BY <1>6 DEF TakeName
    <2>2. step'[server] = "claimed" /\ pass' = pass /\ table' = table /\ route' = route
      BY <1>1, <2>1 DEF ServersAreTyped, channel, vars
    <2>3. \A h \in Hostname : claim'[server][h] \in {Nobody, teller}
      <3> HIDE DEF h0
      <3> QED  BY <1>1, <1>2, <2>1 DEF ServersAreTyped, ServesTheTeller
    <2> QED  BY <2>1, <2>2, <2>3 DEF ServesTheTeller, RouteAsAsked
  <1>7. ASSUME Serve(server) PROVE Goal
    <2>1. /\ route' = [route EXCEPT ![server][h0] = p0]
          /\ step' = [step EXCEPT ![server] = "unread"]
          /\ UNCHANGED <<consent, claim>> /\ CarryOut(server, FALSE)
      BY <1>7 DEF Serve
    <2>2. /\ table' = table /\ pass[server].stage = "obeying" /\ Asked(server)' = Asked(server)
          /\ h0 \in Hostname
      BY <1>2, <1>3, <2>1
    <2>3. step'[server] = "unread" /\ claim' = claim
      BY <1>1, <2>1 DEF ServersAreTyped
    <2>4. /\ route'[server][h0] = p0
          /\ \A h \in Hostname : h # h0 => route'[server][h] = route[server][h]
      <3> HIDE DEF h0, p0
      <3> QED  BY <1>1, <2>1, <2>2 DEF ServersAreTyped
    <2> QED  BY <1>1, <2>2, <2>3, <2>4 DEF ServesTheTeller, RouteAsAsked
  <1>8. ASSUME ForgetRoute(server) PROVE Goal
    <2>1. /\ route' = [route EXCEPT ![server][h0] = Nowhere] /\ p0 = Nowhere
          /\ step[server] = "claimed"
          /\ UNCHANGED <<channel, consent, claim>>
      BY <1>8 DEF ForgetRoute
    <2>2. /\ table' = table /\ pass' = pass /\ pass[server].stage = "obeying"
          /\ claim' = claim
      BY <1>1, <2>1 DEF channel, vars, ServerHolds, HoldsWhatItServes
    <2>3. Asked(server)' = Asked(server) /\ h0 \in Hostname
      BY <1>2, <1>4, <2>2
    <2>4. /\ route'[server][h0] = p0
          /\ \A h \in Hostname : h # h0 => route'[server][h] = route[server][h]
      <3> HIDE DEF h0, p0
      <3> QED  BY <1>1, <2>1, <2>3 DEF ServersAreTyped
    <2> QED  BY <1>1, <2>1, <2>2, <2>3, <2>4 DEF ServesTheTeller, RouteAsAsked
  <1>9. ASSUME ReleaseName(server) PROVE Goal
    <2>1. /\ claim' = [claim EXCEPT ![server][h0] = Nobody]
          /\ step' = [step EXCEPT ![server] = "unread"]
          /\ step[server] = "forgotten" /\ CarryOut(server, FALSE)
          /\ UNCHANGED <<consent, route>>
      BY <1>9 DEF ReleaseName
    <2>2. /\ table' = table /\ pass[server].stage = "obeying" /\ Asked(server)' = Asked(server)
          /\ h0 \in Hostname /\ p0 = Nowhere /\ route[server][h0] = Nowhere
      BY <1>1, <1>2, <1>3, <2>1 DEF ServesTheTeller, ServerHolds, HoldsWhatItServes
    <2>3. step'[server] = "unread" /\ route' = route
      BY <1>1, <2>1 DEF ServersAreTyped
    <2>4. \A h \in Hostname : claim'[server][h] \in {Nobody, teller}
      <3> HIDE DEF h0, p0
      <3> QED  BY <1>1, <2>1, <2>2 DEF ServersAreTyped, ServesTheTeller
    <2> QED  BY <2>2, <2>3, <2>4 DEF ServesTheTeller, RouteAsAsked
  <1>10. ASSUME NEW a \in Node, SetGrants(server, a) PROVE Goal
    <2>1. /\ server \in wavered' /\ UNCHANGED <<claim, step, table, pass>>
      BY <1>10 DEF SetGrants, channel, vars
    <2> QED  BY <1>1, <1>4, <2>1 DEF ServesTheTeller
  <1>11. ASSUME NEW c \in boot[server], ReleaseUngranted(server, c) PROVE Goal
    <2>1. UNCHANGED <<table, pass, step, consent>>
      BY <1>11 DEF ReleaseUngranted, channel, vars
    <2>2. c[1] \in Hostname /\ c[2] \in Node \ {server}
      BY <1>1 DEF ServersAreTyped, Named, ServerHolds, HoldsForOthers
    <2>3. CASE c[2] \in grants[server]
      <3>1. UNCHANGED <<claim, route>>
        BY <1>11, <2>3 DEF ReleaseUngranted
      <3> QED  BY <1>1, <1>4, <2>1, <3>1 DEF ServesTheTeller, RouteAsAsked, consent
    <2>4. CASE c[2] \notin grants[server]
      <3>1. /\ claim' = [claim EXCEPT ![server][c[1]] = Nobody] /\ server \in wavered
        BY <1>1, <1>11, <2>2, <2>4 DEF ReleaseUngranted, ServerHolds, HoldsWhatItServes
      <3>2. \A h \in Hostname : claim'[server][h] \in {Nobody, teller}
        BY <1>1, <2>2, <3>1 DEF ServersAreTyped, ServesTheTeller
      <3> QED  BY <1>1, <1>4, <2>1, <3>1, <3>2 DEF ServesTheTeller, consent
    <2> QED  BY <2>3, <2>4
  <1> HIDE DEF Goal
  <1>12. Goal
    BY <1>5, <1>6, <1>7, <1>8, <1>9, <1>10, <1>11 DEF EdgeNext
  <1> QED  BY <1>12 DEF Goal

\* What no step of its own touches, the server keeps.
LEMMA TheServerKeeps ==
    ASSUME OneTeller, HeardInvariant, Grows(table, table'),
           claim'[server] = claim[server], route'[server] = route[server],
           step'[server] = step[server], server \in wavered' <=> server \in wavered,
           \/ pass'[server] = pass[server]
           \/ pass[server].stage # "obeying" /\ pass'[server].stage # "answering"
    PROVE  ServesTheTeller'
  <1>1. /\ TypeOK /\ Bookkeeping /\ OthersKeepAway /\ ReadsAll /\ ServesTheTeller
        /\ ServerHolds(server)
    BY DEF HeardInvariant, RoutesInvariant, OneTeller
  <1>2. ASSUME step[server] = "forgotten" \/ pass'[server].stage = "answering"
        PROVE  Asked(server)'.order = Asked(server).order /\ pass'[server] = pass[server]
    <2>1. /\ pass'[server] = pass[server]
          /\ pass[server].stage \in {"obeying", "answering"}
      BY <1>1, <1>2 DEF ServerHolds, HoldsWhatItServes
    <2> QED  BY <1>1, <2>1, TheOrderStays
  <1> QED  BY <1>1, <1>2 DEF ServesTheTeller

\* No step makes it serve anybody else, or answer for what it does not serve.
LEMMA StepServesTheTeller ==
    ASSUME OneTeller, HeardInvariant, Grows(table, table'), [EdgeSpecNext]_all
    PROVE  ServesTheTeller'
  <1>1. /\ server \in Node /\ TypeOK /\ OwnersAreTyped /\ ServersAreTyped /\ NoneAsksItself
        /\ ServesTheTeller
    BY DEF HeardInvariant, RoutesInvariant, OneTeller
  <1>2. ASSUME NEW n \in Node, OwnerNext(n) PROVE ServesTheTeller'
    <2>1. UNCHANGED edge
      BY <1>2 DEF OwnerNext, SetEdges, Move, Deploy, SetPlacement, Recorded, Drained,
         BeginTell, BeginSync, TellOne, WithdrawOne, DropOne
    <2>2. UNCHANGED pass
      BY <1>1, <1>2, OwnersAskOthers DEF NoneAsksItself
    <2> QED  BY <2>1, <2>2, TheServerKeeps DEF edge, consent
  <1>3. ASSUME NEW n \in Node, EdgeNext(n) PROVE ServesTheTeller'
    <2>1. CASE n = server
      BY <1>3, <2>1, TheServersStep
    <2>2. CASE n # server
      BY <1>1, <1>3, <2>2, OthersServeApart, TheServerKeeps
    <2> QED  BY <2>1, <2>2
  <1>4. ASSUME NEW n \in Node, Restart(n) PROVE ServesTheTeller'
    <2>1. /\ pass' = [pass EXCEPT ![n] = Resting(n)]
          /\ step' = [step EXCEPT ![n] = "unread"]
          /\ UNCHANGED <<consent, claim, route>>
      BY <1>4 DEF Restart, Crash
    <2>2. CASE n = server
      <3>1. pass'[server].stage = "resting" /\ step'[server] = "unread"
        BY <1>1, <2>1, <2>2 DEF TypeOK, ServersAreTyped, Resting
      <3> QED  BY <1>1, <2>1, <3>1 DEF ServesTheTeller
    <2>3. CASE n # server
      <3>1. pass'[server] = pass[server] /\ step'[server] = step[server]
        BY <1>1, <2>1, <2>3 DEF TypeOK, ServersAreTyped
      <3> QED  BY <2>1, <3>1, TheServerKeeps DEF consent
    <2> QED  BY <2>2, <2>3
  <1>5. CASE WireStep
    <2>1. Wire /\ UNCHANGED edge
      BY <1>5 DEF WireStep
    <2>2. \/ pass'[server] = pass[server]
          \/ pass[server].stage # "obeying" /\ pass'[server].stage # "answering"
      BY <1>1, <2>1, WireLeavesWorkInHand, WireLeavesAnswers
    <2> QED  BY <2>1, <2>2, TheServerKeeps DEF edge, consent
  <1>6. CASE UNCHANGED all
    BY <1>6, TheServerKeeps DEF all, channel, vars, edge, consent
  <1> QED  BY <1>2, <1>3, <1>4, <1>5, <1>6, StepsAreOfAKind

\* And with it all that is kept.
LEMMA StepKeepsHeard ==
    ASSUME OneTeller, AnswersArrive, HeardInvariant, [EdgeSpecNext]_all
    PROVE  HeardInvariant' /\ Grows(table, table')
  <1>1. /\ TypeOK /\ Bookkeeping /\ OwnersAreTyped /\ NoneAsksItself
        /\ OthersKeepAway /\ ReadsAll /\ RoutesInvariant
    BY DEF HeardInvariant, RoutesInvariant
  <1>2. Grows(table, table')
    <2>1. [Next]_vars
      BY <1>1, StepIsOfTheQueue
    <2> QED  BY <1>1, <2>1, StepGrows
  <1>3. RoutesInvariant'
    BY <1>1, StepKeepsRoutes
  <1>4. OthersKeepAway'
    BY <1>1, <1>2, StepKeepsAway
  <1>5. ReadsAll'
    BY <1>1, <1>2, StepReadsAll
  <1>6. ServesTheTeller'
    BY <1>2, StepServesTheTeller
  <1> QED  BY <1>2, <1>3, <1>4, <1>5, <1>6 DEF HeardInvariant

\* It starts with it.
LEMMA HeardStart ==
    ASSUME OneTeller, EdgeInit
    PROVE  HeardInvariant
  <1>1. RoutesInvariant
    BY RoutesStart
  <1>2. OthersKeepAway
    <2>1. ASSUME NEW n \in Node PROVE FollowsEnrolment(n)
      BY DEF EdgeInit, Init, FollowsEnrolment, Resting, Related
    <2>2. ASSUME NEW n \in Node PROVE LeavesAlone(n)
      BY DEF EdgeInit, Init, LeavesAlone, Idle
    <2>3. NothingIsLate
      BY DEF EdgeInit, Init, NothingIsLate
    <2> QED  BY <2>1, <2>2, <2>3 DEF OthersKeepAway
  <1>3. ReadsAll
    BY DEF OneTeller, EdgeInit, Init, Resting, ReadsAll
  <1>4. ServesTheTeller
    BY DEF OneTeller, EdgeInit, Init, Resting, ServesTheTeller
  <1> QED  BY <1>1, <1>2, <1>3, <1>4 DEF HeardInvariant

------------------------------------------------------------------------------
(* What the server reads is a feed *)

\* A row of the feed keeps what it says, and no row comes by it late.
LEMMA RowsStay ==
    ASSUME OneTeller, TypeOK, Grows(table, table')
    PROVE  /\ Rows \subseteq Rows'
           /\ \A i \in Rows' : i \in Rows \/ i \notin DOMAIN table[teller]
           /\ \A i \in Rows : table'[teller][i].order.says = table[teller][i].order.says
  BY DEF OneTeller, Rows, Grows, SameErrand

\* Nothing happens in the feed when none of it changes.
LEMMA TheFeedStands ==
    ASSUME Rows' = Rows,
           \A i \in Rows : /\ table'[teller][i].order.says = table[teller][i].order.says
                           /\ table'[teller][i].done <=> table[teller][i].done,
           route'[server][name] = route[server][name],
           server \in wavered' <=> server \in wavered
    PROVE  UNCHANGED Hears!feed
  <1>1. Told' = Told
    BY DEF Told
  <1>2. Answered' = Answered
    BY DEF Answered
  <1>3. Serving' = Serving /\ Agrees' = Agrees
    BY DEF Serving, Agrees
  <1> QED  BY <1>1, <1>2, <1>3 DEF Hears!feed

\* So it is when neither the teller's table nor the server's route changes.
LEMMA TheFeedStandsStill ==
    ASSUME table'[teller] = table[teller], route'[server] = route[server],
           server \in wavered' <=> server \in wavered
    PROVE  UNCHANGED Hears!feed
  <1>1. Rows' = Rows
    BY DEF Rows
  <1> QED  BY <1>1, TheFeedStands

\* Nobody changes their mind back.
LEMMA WaveringStays ==
    ASSUME [EdgeSpecNext]_all
    PROVE  wavered \subseteq wavered'
  <1>1. ASSUME NEW n \in Node, OwnerNext(n) PROVE UNCHANGED edge
    BY <1>1 DEF OwnerNext, SetEdges, Move, Deploy, SetPlacement, Recorded, Drained,
       BeginTell, BeginSync, TellOne, WithdrawOne, DropOne
  <1>2. ASSUME NEW n \in Node, EdgeNext(n) PROVE wavered \subseteq wavered'
    BY <1>2 DEF EdgeNext, Refuse, TakeName, Serve, ForgetRoute, ReleaseName, SetGrants,
       ReleaseUngranted, edge, consent
  <1>3. ASSUME NEW n \in Node, Restart(n) PROVE UNCHANGED consent
    BY <1>3 DEF Restart
  <1>4. CASE WireStep
    BY <1>4 DEF WireStep, edge, consent
  <1>5. CASE UNCHANGED all
    BY <1>5 DEF all, edge, consent
  <1> QED  BY <1>1, <1>2, <1>3, <1>4, <1>5, StepsAreOfAKind DEF edge, consent

\* An owner tells the feed what it says about the name, or nothing.
LEMMA TheTellerTells ==
    ASSUME OneTeller, HeardInvariant, NEW n \in Node, OwnerNext(n)
    PROVE  [Hears!FeedNext]_Hears!feed
  <1>1. /\ TypeOK /\ OwnersAreTyped /\ NoneAsksItself /\ teller \in Node
    BY DEF HeardInvariant, RoutesInvariant, OneTeller
  <1>2. route' = route /\ wavered' = wavered
    BY DEF OwnerNext, SetEdges, Move, Deploy, SetPlacement, Recorded, Drained,
       BeginTell, BeginSync, TellOne, WithdrawOne, DropOne,
       edge, consent
  <1>3. CASE UNCHANGED channel
    <2>1. UNCHANGED table
      BY <1>3 DEF channel, vars
    <2> QED  BY <1>2, <2>1, TheFeedStandsStill
  <1>4. ASSUME NEW to \in Node, NEW s \in Subject \cup {NoSubject},
               NEW h \in Hostname, NEW says \in Says,
               Queue(n, to, s, [name |-> h, says |-> says])
        PROVE  [Hears!FeedNext]_Hears!feed
    <2> DEFINE k == Len(table[n]) + 1
    <2>1. /\ \A o \in Node \ {n} : table'[o] = table[o]
          /\ DOMAIN table'[n] = DOMAIN table[n] \cup {k}
          /\ k \in Nat /\ \A i \in DOMAIN table[n] : i < k /\ table'[n][i] = table[n][i]
          /\ table'[n][k].to = to /\ ~table'[n][k].done
          /\ table'[n][k].order.name = h /\ table'[n][k].order.says = says
      BY <1>1, <1>4, QueueingAddsARow
    <2> HIDE DEF k
    <2>2. CASE n # teller
      BY <1>1, <1>2, <2>1, <2>2, TheFeedStandsStill
    <2>3. CASE n = teller /\ ~ (to = server /\ h = name)
      <3>1. Rows' = Rows
        BY <2>1, <2>3 DEF Rows
      <3>2. \A i \in Rows : table'[teller][i] = table[teller][i]
        BY <2>1, <2>3 DEF Rows
      <3> QED  BY <1>2, <3>1, <3>2, TheFeedStands
    <2>4. CASE n = teller /\ to = server /\ h = name
      <3>1. Rows' = Rows \cup {k} /\ k \notin Rows /\ \A i \in Rows : i < k
        BY <1>1, <2>1, <2>4 DEF Rows, TypeOK
      <3>2. \A i \in Rows : table'[teller][i] = table[teller][i]
        BY <2>1, <2>4 DEF Rows
      <3>3. /\ DOMAIN Told = Rows /\ DOMAIN Told' = Rows \cup {k}
            /\ Told' = [j \in Rows \cup {k} |-> IF j = k THEN says ELSE Told[j]]
        BY <2>1, <2>4, <3>1, <3>2 DEF Told
      <3>4. Answered' = Answered /\ Serving' = Serving /\ Agrees' = Agrees
        BY <1>2, <2>1, <2>4, <3>1, <3>2 DEF Answered, Serving, Agrees
      <3>5. Hears!Tell(k, says)
        BY <3>1, <3>3, <3>4 DEF Hears!Tell
      <3> QED  BY <3>3, <3>5 DEF Hears!FeedNext, Says
    <2> QED  BY <2>2, <2>3, <2>4
  <1> QED  BY <1>1, <1>3, <1>4, OwnersQueueFromTheirLists

\* The errand the server has in hand is the next of the feed, if it is of it.
LEMMA InHandIsNext ==
    ASSUME OneTeller, HeardInvariant, pass[server].stage \in {"obeying", "answering"},
           Asked(server).order.name = name
    PROVE  LET i == Oldest(pass[server].batch) IN
           /\ i \in Rows /\ Hears!IsNext(i)
           /\ Asked(server) = table[teller][i]
  <1> DEFINE i == Oldest(pass[server].batch)
  <1>1. /\ Asked(server) = table[teller][i]
        /\ i \in DOMAIN table[teller] /\ table[teller][i].to = server
        /\ ~table[teller][i].done
        /\ \A j \in DOMAIN table[teller] :
             table[teller][j].to = server /\ ~table[teller][j].done => i <= j
    BY TheTellersErrand DEF HeardInvariant, RoutesInvariant
  <1> HIDE DEF i
  <1>2. i \in Rows
    BY <1>1 DEF Rows
  <1>3. Hears!IsNext(i)
    BY <1>1, <1>2 DEF Hears!IsNext, Rows, Told, Answered
  <1> QED  BY <1>1, <1>2, <1>3 DEF i

\* A step of the server serves what is next in it, or nothing of it.
LEMMA TheServerObeys ==
    ASSUME OneTeller, HeardInvariant, EdgeNext(server), server \notin wavered',
           server \notin wavered
    PROVE  [Hears!FeedNext]_Hears!feed
  <1>1. table' = table /\ RouteAsAsked /\ name \in Hostname
    BY TheServersStep DEF OneTeller
  <1>2. Rows' = Rows
    BY <1>1 DEF Rows
  <1>3. CASE route'[server][name] = route[server][name]
    BY <1>1, <1>2, <1>3, TheFeedStands
  <1>4. CASE /\ pass[server].stage = "obeying" /\ name = Asked(server).order.name
             /\ route'[server][name] = Asked(server).order.says
    <2>1. PICK i \in Rows : Hears!IsNext(i) /\ Asked(server) = table[teller][i]
      BY <1>4, InHandIsNext
    <2>2. Hears!Obey(i)
      BY <1>1, <1>2, <1>4, <2>1 DEF Hears!Obey, Told, Answered, Serving, Agrees
    <2> QED  BY <2>2 DEF Hears!FeedNext, Told
  <1> QED  BY <1>1, <1>3, <1>4 DEF RouteAsAsked

\* Of the wire, only the server's answer is of the feed.
LEMMA TheWireAnswers ==
    ASSUME OneTeller, HeardInvariant, Grows(table, table'), [EdgeSpecNext]_all, WireStep,
           server \notin wavered
    PROVE  [Hears!FeedNext]_Hears!feed
  <1>1. /\ TypeOK /\ Bookkeeping /\ OwnersAreTyped /\ OthersKeepAway /\ ReadsAll
        /\ ServesTheTeller /\ teller \in Node /\ server \in Node
    BY DEF HeardInvariant, RoutesInvariant, OneTeller
  <1>2. Wire /\ route' = route /\ wavered' = wavered
    BY DEF WireStep, edge, consent
  <1>3. Rows' = Rows
    <2>1. ASSUME NEW i \in Rows', i \notin DOMAIN table[teller] PROVE FALSE
      BY <1>1, <1>2, <2>1, TheWireTellsNothing DEF Rows
    <2> QED  BY <1>1, <2>1, RowsStay
  <1>4. \A i \in Rows : table'[teller][i].order.says = table[teller][i].order.says
    BY <1>1, RowsStay
  <1>5. \A i \in Rows : i \in DOMAIN table[teller] /\ table[teller][i].to = server
    BY DEF Rows
  <1>6. CASE ~Answers
    <2>1. \A i \in Rows : table'[teller][i] = table[teller][i]
      BY <1>1, <1>5, <1>6, WhatIsToldStays
    <2> QED  BY <1>2, <1>3, <2>1, TheFeedStands
  <1>7. CASE Answers
    <2> DEFINE i == Oldest(pass[server].batch)
    <2>1. pass[server].stage = "answering" /\ table'[teller][i].done
      BY <1>1, <1>7, TheAnswerArrives DEF Answers, SettleArrives
    <2>2. \A j \in Rows : j # i => table'[teller][j] = table[teller][j]
      BY <1>1, <1>5, WhatIsToldStays
    <2>3. CASE Asked(server).order.name = name
      <3>1. PICK k \in Rows : k = i /\ Hears!IsNext(k) /\ Asked(server) = table[teller][k]
        BY <2>1, <2>3, InHandIsNext
      <3>2. route[server][name] = table[teller][k].order.says
        BY <1>1, <2>1, <2>3, <3>1 DEF ServesTheTeller
      <3> HIDE DEF i
      <3>3. Told' = Told /\ Told[k] = table[teller][k].order.says
        BY <1>3, <1>4 DEF Told
      <3>4. Answered' = Answered \cup {k}
        BY <1>3, <2>1, <2>2, <3>1 DEF Answered
      <3>5. Hears!Answer(k)
        BY <1>2, <3>1, <3>2, <3>3, <3>4 DEF Hears!Answer, Serving, Agrees
      <3> QED  BY <3>5 DEF Hears!FeedNext, Told
    <2>4. CASE Asked(server).order.name # name
      <3>1. i \notin Rows
        BY <1>1, <2>1, <2>4, TheTellersErrand DEF Rows
      <3>2. \A j \in Rows : table'[teller][j] = table[teller][j]
        BY <2>2, <3>1
      <3> QED  BY <1>2, <1>3, <3>2, TheFeedStands
    <2> QED  BY <2>3, <2>4
  <1> QED  BY <1>6, <1>7

\* Every step is one of the feed, or none.
LEMMA StepIsOfTheFeed ==
    ASSUME OneTeller, HeardInvariant, Grows(table, table'), [EdgeSpecNext]_all
    PROVE  [Hears!FeedNext]_Hears!feed
  <1>1. /\ server \in Node /\ TypeOK /\ ServersAreTyped
    BY DEF HeardInvariant, RoutesInvariant, OneTeller
  <1>2. CASE server \in wavered'
    BY <1>2 DEF Hears!FeedNext, Hears!Waver, Agrees
  <1>3. CASE server \notin wavered'
    <2>1. server \notin wavered
      BY <1>3, WaveringStays
    <2>2. ASSUME NEW n \in Node, OwnerNext(n) PROVE [Hears!FeedNext]_Hears!feed
      BY <2>2, TheTellerTells
    <2>3. ASSUME NEW n \in Node, EdgeNext(n) PROVE [Hears!FeedNext]_Hears!feed
      <3>1. CASE n = server
        BY <1>3, <2>1, <2>3, <3>1, TheServerObeys
      <3>2. CASE n # server
        BY <1>1, <2>3, <3>2, OthersServeApart, TheFeedStandsStill
      <3> QED  BY <3>1, <3>2
    <2>4. ASSUME NEW n \in Node, Restart(n) PROVE [Hears!FeedNext]_Hears!feed
      BY <2>4, TheFeedStandsStill DEF Restart, Crash, consent
    <2>5. CASE WireStep
      BY <2>1, <2>5, TheWireAnswers
    <2>6. CASE UNCHANGED all
      BY <2>6, TheFeedStandsStill DEF all, channel, vars, edge, consent
    <2> QED  BY <2>2, <2>3, <2>4, <2>5, <2>6, StepsAreOfAKind
  <1> QED  BY <1>2, <1>3

\* It starts with nothing told.
LEMMA TheFeedStarts ==
    ASSUME OneTeller, EdgeInit
    PROVE  Hears!FeedInit
  <1>1. Rows = {}
    BY DEF OneTeller, EdgeInit, Init, Rows
  <1>2. Serving = Nowhere /\ Agrees = TRUE
    BY DEF OneTeller, EdgeInit, Serving, Agrees
  <1>3. Told = [i \in {} |-> Nowhere] /\ Answered = {}
    BY <1>1 DEF Told, Answered
  <1> QED  BY <1>2, <1>3 DEF Hears!FeedInit

(* While the one owner that deals with a node tells it about its names and  *)
(* no answer is lost, that node has in hand all it has still to read, holds *)
(* no name for anybody else, and answers only for what it serves.           *)
THEOREM TheServerIsTheTellersOnly ==
    ASSUME OneTeller, AnswersArrive
    PROVE  EdgeSpec => []HeardInvariant
  <1>1. EdgeInit => HeardInvariant
    BY HeardStart
  <1>2. HeardInvariant /\ [EdgeSpecNext]_all => HeardInvariant'
    BY StepKeepsHeard
  <1> QED  BY <1>1, <1>2, PTL DEF EdgeSpec

(* And so it reads the instructions about a name as a feed: in order, none  *)
(* skipped, none taken up before the answer to what came before (collect).  *)
THEOREM NamesAreReadInOrder ==
    ASSUME OneTeller, AnswersArrive
    PROVE  EdgeSpec => ReadsInOrder
  <1>1. EdgeInit => Hears!FeedInit
    BY TheFeedStarts
  <1>2. HeardInvariant /\ [EdgeSpecNext]_all => [Hears!FeedNext]_Hears!feed
    BY StepKeepsHeard, StepIsOfTheFeed
  <1> QED  BY <1>1, <1>2, TheServerIsTheTellersOnly, PTL DEF EdgeSpec, ReadsInOrder, Hears!FeedSpec

\* What came before something answered was answered, and the server serves
\* what it answered last, or already what is next.
FeedHolds ==
    Agrees =>
        /\ \A i \in DOMAIN Told, j \in Answered : i < j => i \in Answered
        /\ Answered \subseteq DOMAIN Told
        /\ \/ Answered = {} /\ Serving = Nowhere
           \/ \E i \in Answered : Serving = Told[i] /\ \A j \in Answered : j <= i
           \/ \E i \in DOMAIN Told : Serving = Told[i] /\ Hears!IsNext(i)

\* A step of the feed keeps that.
LEMMA FeedKeeps ==
    ASSUME FeedHolds, [Hears!FeedNext]_Hears!feed, DOMAIN Told \subseteq Nat,
           DOMAIN Told' \subseteq Nat
    PROVE  FeedHolds'
  <1> SUFFICES ASSUME Agrees'
               PROVE  /\ \A i \in DOMAIN Told', j \in Answered' : i < j => i \in Answered'
                      /\ Answered' \subseteq DOMAIN Told'
                      /\ \/ Answered' = {} /\ Serving' = Nowhere
                         \/ \E i \in Answered' :
                              Serving' = Told'[i] /\ \A j \in Answered' : j <= i
                         \/ \E i \in DOMAIN Told' : Serving' = Told'[i] /\ Hears!IsNext(i)'
    BY DEF FeedHolds
  <1>1. ASSUME NEW k \in DOMAIN Told', NEW says \in Place \cup {Nowhere}, Hears!Tell(k, says)
        PROVE  FeedHolds'
    <2>1. /\ \A j \in DOMAIN Told : j < k
          /\ DOMAIN Told' = DOMAIN Told \cup {k}
          /\ \A j \in DOMAIN Told : Told'[j] = Told[j]
          /\ Answered' = Answered /\ Serving' = Serving /\ Agrees
      BY <1>1 DEF Hears!Tell
    <2>2. \A i \in DOMAIN Told : Hears!IsNext(i) => Hears!IsNext(i)'
      BY <2>1 DEF Hears!IsNext
    <2> QED  BY <2>1, <2>2 DEF FeedHolds
  <1>2. ASSUME NEW k \in DOMAIN Told, Hears!Obey(k) PROVE FeedHolds'
    <2>1. /\ Told' = Told /\ Answered' = Answered /\ Serving' = Told[k] /\ Agrees
          /\ Hears!IsNext(k) /\ Hears!IsNext(k)'
      BY <1>2 DEF Hears!Obey, Hears!IsNext
    <2> QED  BY <2>1 DEF FeedHolds
  <1>3. ASSUME NEW k \in DOMAIN Told, Hears!Answer(k) PROVE FeedHolds'
    <2>1. /\ Told' = Told /\ Answered' = Answered \cup {k} /\ Serving' = Told[k] /\ Agrees
          /\ k \notin Answered /\ \A j \in DOMAIN Told \ Answered : k <= j
      BY <1>3 DEF Hears!Answer, Hears!IsNext
    <2>2. \A j \in Answered : j < k
      BY <2>1 DEF FeedHolds
    <2> QED  BY <2>1, <2>2 DEF FeedHolds
  <1>4. ASSUME UNCHANGED Hears!feed PROVE FeedHolds'
    BY <1>4 DEF Hears!feed, FeedHolds, Hears!IsNext
  <1>5. ASSUME Hears!Waver PROVE FeedHolds'
    BY <1>5 DEF Hears!Waver
  <1>6. FeedHolds'
    BY <1>1, <1>2, <1>3, <1>4, <1>5 DEF Hears!FeedNext
  <1> QED  BY <1>6 DEF FeedHolds

(* Once a node that agrees answered all it was told about a name, it serves *)
(* the name the way the last instruction said, and not at all before there  *)
(* is one.                                                                  *)
THEOREM TheLastIsServed ==
    ASSUME OneTeller, AnswersArrive
    PROVE  EdgeSpec => []Hears!ServesTheLast
  <1>1. EdgeInit => FeedHolds
    BY TheFeedStarts DEF Hears!FeedInit, FeedHolds
  <1>2. HeardInvariant => DOMAIN Told \subseteq Nat
    BY DEF HeardInvariant, RoutesInvariant, TypeOK, OneTeller, Told, Rows
  <1>3. HeardInvariant /\ FeedHolds /\ [EdgeSpecNext]_all => FeedHolds'
    <2> SUFFICES ASSUME HeardInvariant, FeedHolds, [EdgeSpecNext]_all PROVE FeedHolds'
      OBVIOUS
    <2>1. HeardInvariant' /\ [Hears!FeedNext]_Hears!feed
      BY StepKeepsHeard, StepIsOfTheFeed
    <2>2. DOMAIN Told' \subseteq Nat
      BY <2>1 DEF HeardInvariant, RoutesInvariant, TypeOK, OneTeller, Told, Rows
    <2> QED  BY <1>2, <2>1, <2>2, FeedKeeps
  <1>4. FeedHolds => Hears!ServesTheLast
    BY DEF FeedHolds, Hears!ServesTheLast, Hears!IsNext
  <1> QED  BY <1>1, <1>3, <1>4, TheServerIsTheTellersOnly, PTL DEF EdgeSpec

==============================================================================
