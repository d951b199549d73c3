------------------------------ MODULE EdgeNames ------------------------------
(* Which node answers for a name: from the box an owner ticks to the route  *)
(* of the node that serves it.                                              *)
(*                                                                          *)
(* An owner keeps the nodes chosen for each of its names (service_edge) and *)
(* tells them, by edge errands, where the copies of the service are now     *)
(* (Deployer::tell_edges) or that they are to stop (withdraw_name,          *)
(* edge_withdrawals).  A node that collects such an errand claims the name  *)
(* for the node that asked, and writes a route (collect::serve_name).  What *)
(* it agreed to, and what it holds for a node it no longer agrees to serve, *)
(* are its own to change (capability, release_ungranted).                   *)
EXTENDS Errands

\* A Subject of the queue is a name, and an Order what an edge errand says.
CONSTANTS
    Owner,      \* the nodes whose services have names, each one of each name
    Place,      \* where the copies of a service are: lists of upstreams
    Nowhere,    \* the empty list: no copy answers
    Nobody,     \* no claim on a name
    Concurrent, \* bound: whether a deployment may run beside a handler
    Fickle      \* bound: the nodes whose operator changes what they grant

VARIABLES
    chosen,     \* owner -> {<<name, node>>}: its service_edge rows
    where,      \* owner -> name -> where its copies answer now
    untold,     \* history: owner -> names that moved by a report or a drain
                \* since tell_edges last read where the copies are
    allows,     \* owner -> nodes that, as last heard, serve names for it
    task,       \* owner -> what a handler and its deployer are doing
    grants,     \* node -> nodes it agreed to serve names for
    claim,      \* node -> name -> the node it holds the name for
    route,      \* node -> name -> the route an errand wrote for it
    step,       \* node -> how far it is with the errand it is carrying out
    boot,       \* node -> claims its boot has still to look at
    wavered     \* history: the nodes whose operator changed what they grant

Hostname == Subject
Untagged == NoSubject

\* What an edge errand says: the upstreams, and none is a withdrawal.
EdgeOrder == [name : Hostname, says : Place \cup {Nowhere}]

ASSUME OrdersAreOfEdges == Order = EdgeOrder
ASSUME OwnersAreNodes == Owner \subseteq Node /\ Fickle \subseteq Node
ASSUME EmptyIsNoPlace == Nowhere \notin Place /\ Nobody \notin Node

channel == vars
owner == <<chosen, where, untold, allows, task>>
consent == <<grants, wavered>>
edge == <<consent, claim, route, step, boot>>
all == <<channel, owner, edge>>

------------------------------------------------------------------------------
(* Reading the errand table *)

\* The newest of the given rows of n's table, or 0.
Newest(n, rows) ==
    IF rows = {} THEN 0 ELSE CHOOSE i \in rows : \A j \in rows : i >= j

LastAbout(n, h, x) ==
    Newest(n, {i \in DOMAIN table[n] : table[n][i].to = x /\ table[n][i].subject = h})

LastNaming(n, h, x) ==
    Newest(n, {i \in DOMAIN table[n] : table[n][i].to = x /\ table[n][i].order.name = h})

\* Faulty: a node that was told anything is not told again.
WouldChangeOnce(n, h, x, says) ==
    LET i == LastAbout(n, h, x) IN i = 0 \/ table[n][i].failed

(* A refused instruction, and one handed up to an authority, may be said    *)
(* again; any other only if it says something new.                          *)
WouldChange(n, h, x, says) ==
    LET i == LastAbout(n, h, x) IN
    \/ i = 0
    \/ table[n][i].failed
    \/ x \in authority[n]
    \/ table[n][i].order.says # says

\* The names each node was last told to serve, whatever became of the errand.
NamesTold(n) ==
    {p \in Hostname \X Node :
        LET i == LastNaming(n, p[1], p[2]) IN
        i # 0 /\ table[n][i].order.says # Nowhere}

------------------------------------------------------------------------------
(* The owner: a handler of forms and reports, and a deployer, each          *)
(* somewhere in its list of things to do                                    *)

Task == {"form", "deployer"}

Idle == [todo |-> << >>, tell |-> {}, drop |-> {}]

AllIdle(n) == \A t \in Task : task[n][t] = Idle
MayStart(n, t) == task[n][t] = Idle /\ (Concurrent \/ AllIdle(n))

Doing(n, t) ==
    IF task[n][t].todo = << >> THEN "nothing" ELSE Head(task[n][t].todo)

\* The task goes on to the next thing once the one it is at leaves nothing.
Onwards(todo, tell, drop) ==
    LET finished == \/ Head(todo) \in {"telling", "withdrawing"} /\ tell = {}
                    \/ Head(todo) = "dropping" /\ drop = {}
    IN [todo |-> IF finished THEN Tail(todo) ELSE todo,
        tell |-> tell,
        drop |-> drop]

(* Ticking and unticking the nodes that answer for a name.  Of the others   *)
(* only nodes that let this one ask are offered; answering for a name here  *)
(* takes no errand, and is left out.                                        *)
SetEdges(n, h, nodes) ==
    /\ n \in Owner /\ MayStart(n, "form")
    /\ nodes \subseteq allows[n]
    /\ LET before == {x \in Node : <<h, x>> \in chosen[n]} IN
       /\ before # nodes
       /\ chosen' = [chosen EXCEPT ![n] =
            {p \in @ : p[1] # h} \cup {<<h, x>> : x \in nodes}]
       /\ task' = [task EXCEPT ![n]["form"] =
            [todo |-> IF before \subseteq nodes
                      THEN <<"tell", "sync">> ELSE <<"tell", "sync", "dropping">>,
             tell |-> {},
             drop |-> {<<h, x>> : x \in before \ nodes}]]
    /\ UNCHANGED <<channel, where, untold, allows, edge>>

Moves(n, h, p) ==
    /\ n \in Owner /\ where[n][h] # p
    /\ where' = [where EXCEPT ![n][h] = p]

Begins(n, t, todo) ==
    /\ MayStart(n, t)
    /\ task' = [task EXCEPT ![n][t] = [todo |-> todo, tell |-> {}, drop |-> {}]]

(* A deployment moves the copies: the routes are rebuilt, then the nodes    *)
(* that answer for the names are told.                                      *)
Deploy(n, h, p) ==
    /\ Moves(n, h, p)
    /\ Begins(n, "deployer", <<"sync", "tell">>)
    /\ UNCHANGED <<channel, chosen, untold, allows, edge>>

(* Placing them elsewhere: with a copy left here the routes wait for the    *)
(* deployment it queues, or for the end.                                    *)
SetPlacement(n, h, p, here) ==
    /\ Moves(n, h, p)
    /\ Begins(n, "form", IF here THEN <<"tell", "sync">> ELSE <<"sync", "tell", "sync">>)
    /\ UNCHANGED <<channel, chosen, untold, allows, edge>>

(* A node reports the port its copy is reached at, or that it threw it off: *)
(* the routes are rebuilt, and nobody is told.                              *)
Recorded(n, h, p) ==
    /\ Moves(n, h, p)
    /\ Begins(n, "form", <<"sync">>)
    /\ untold' = [untold EXCEPT ![n] = @ \cup {h}]
    /\ UNCHANGED <<channel, chosen, allows, edge>>

(* Draining a node moves its copies, and tells those that hold them; the    *)
(* nodes that answer for the names are not told, nor the routes rebuilt.    *)
Drained(n, h, p) ==
    /\ Moves(n, h, p) /\ MayStart(n, "form")
    /\ untold' = [untold EXCEPT ![n] = @ \cup {h}]
    /\ UNCHANGED <<channel, chosen, allows, task, edge>>

Move(n, h, p) ==
    \/ Deploy(n, h, p) \/ Recorded(n, h, p) \/ Drained(n, h, p)
    \/ \E here \in BOOLEAN : SetPlacement(n, h, p, here)

(* tell_edges reads the rows once, and then works through them. *)
BeginTell(n, t) ==
    /\ Doing(n, t) = "tell"
    /\ task' = [task EXCEPT ![n][t] =
         Onwards(<<"telling">> \o Tail(@.todo),
                 {<<p[1], p[2], where[n][p[1]]>> :
                    p \in {q \in chosen[n] : q[2] # n /\ q[2] \in allows[n]}},
                 @.drop)]
    /\ untold' = [untold EXCEPT ![n] = {}]
    /\ UNCHANGED <<channel, chosen, where, allows, edge>>

TellOne(n, t, x) ==
    /\ Doing(n, t) = "telling"
    /\ x \in task[n][t].tell
    /\ task' = [task EXCEPT ![n][t] = Onwards(@.todo, @.tell \ {x}, @.drop)]
    /\ IF WouldChange(n, x[1], x[2], x[3])
       THEN Queue(n, x[2], x[1], [name |-> x[1], says |-> x[3]])
       ELSE UNCHANGED channel
    /\ UNCHANGED <<chosen, where, untold, allows, edge>>

(* sync_routes ends by asking who was told to serve what no row asks for,   *)
(* leaving the handler's own list of unticked nodes alone.                  *)
Unwanted(n) == {p \in NamesTold(n) : p[2] # n /\ p \notin chosen[n]}

BeginSync(n, t) ==
    /\ Doing(n, t) = "sync"
    /\ task' = [task EXCEPT ![n][t] =
         [todo |-> IF Unwanted(n) = {} THEN Tail(@.todo)
                   ELSE <<"withdrawing">> \o Tail(@.todo),
          tell |-> Unwanted(n),
          drop |-> @.drop]]
    /\ UNCHANGED <<channel, chosen, where, untold, allows, edge>>

\* Faulty: what is pending about the name is struck out first.
WithdrawPending(n, p) ==
    LET kept == SelectSeq(table[n], LAMBDA r :
                    r.done \/ r.to # p[2] \/ r.order.name # p[1])
    IN /\ table' = [table EXCEPT ![n] = Append(kept,
                       NewRow(p[2], n, Untagged, [name |-> p[1], says |-> Nowhere]))]
       /\ UNCHANGED <<authority, pass, flight, obeyed, faults>>

Withdraw(n, p) == Queue(n, p[2], Untagged, [name |-> p[1], says |-> Nowhere])

WithdrawOne(n, t, p) ==
    /\ Doing(n, t) = "withdrawing" /\ p \in task[n][t].tell
    /\ Withdraw(n, p)
    /\ task' = [task EXCEPT ![n][t] =
         [todo |-> IF @.tell = {p} THEN Tail(@.todo) ELSE @.todo,
          tell |-> @.tell \ {p}, drop |-> @.drop]]
    /\ UNCHANGED <<chosen, where, untold, allows, edge>>

(* And the form's handler tells the unticked ones itself, unconditionally.  *)
DropOne(n, t, p) ==
    /\ Doing(n, t) = "dropping" /\ p \in task[n][t].drop
    /\ Withdraw(n, p)
    /\ task' = [task EXCEPT ![n][t] = Onwards(@.todo, @.tell, @.drop \ {p})]
    /\ UNCHANGED <<chosen, where, untold, allows, edge>>

------------------------------------------------------------------------------
(* The node that serves *)

\* The errand being carried out: what it asks, and who asked.
Asked(m) == table[pass[m].with][Oldest(pass[m].batch)]
AskedBy(m) == IF pass[m].with = m THEN Asked(m).from ELSE pass[m].with

\* Consent is for taking work on, not for putting it down.
Consents(m, by, says) == says = Nowhere \/ m = by \/ by \in grants[m]

\* Faulty: the last to ask has the name.
ClaimableByAnyone(m, h, by) == TRUE

Claimable(m, h, by) == claim[m][h] \in {Nobody, by}

Refuse(m) ==
    /\ pass[m].stage = "obeying" /\ step[m] = "unread"
    /\ LET r == Asked(m) IN
       \/ ~Consents(m, AskedBy(m), r.order.says)
       \/ ~Claimable(m, r.order.name, AskedBy(m))
    /\ CarryOut(m, TRUE)
    /\ UNCHANGED <<owner, edge>>

TakeName(m) ==
    /\ pass[m].stage = "obeying" /\ step[m] = "unread"
    /\ LET r == Asked(m) IN
       /\ Consents(m, AskedBy(m), r.order.says)
       /\ Claimable(m, r.order.name, AskedBy(m))
       /\ claim' = [claim EXCEPT ![m][r.order.name] = AskedBy(m)]
    /\ step' = [step EXCEPT ![m] = "claimed"]
    /\ UNCHANGED <<channel, owner, consent, route, boot>>

Serve(m) ==
    /\ step[m] = "claimed"
    /\ Asked(m).order.says # Nowhere
    /\ route' = [route EXCEPT ![m][Asked(m).order.name] = Asked(m).order.says]
    /\ step' = [step EXCEPT ![m] = "unread"]
    /\ CarryOut(m, FALSE)
    /\ UNCHANGED <<owner, consent, claim, boot>>

ForgetRoute(m) ==
    /\ step[m] = "claimed"
    /\ Asked(m).order.says = Nowhere
    /\ route' = [route EXCEPT ![m][Asked(m).order.name] = Nowhere]
    /\ step' = [step EXCEPT ![m] = "forgotten"]
    /\ UNCHANGED <<channel, owner, consent, claim, boot>>

ReleaseName(m) ==
    /\ step[m] = "forgotten"
    /\ claim' = [claim EXCEPT ![m][Asked(m).order.name] = Nobody]
    /\ step' = [step EXCEPT ![m] = "unread"]
    /\ CarryOut(m, FALSE)
    /\ UNCHANGED <<owner, consent, route, boot>>

(* The operator of m changes what m agreed to do for a. *)
SetGrants(m, a) ==
    /\ m \in Fickle /\ a # m
    /\ grants' = [grants EXCEPT ![m] = IF a \in @ THEN @ \ {a} ELSE @ \cup {a}]
    /\ wavered' = wavered \cup {m}
    /\ UNCHANGED <<channel, owner, claim, route, step, boot>>

\* Faulty: the route goes and the claim stays.
ReleaseUngrantedRoute(m, c) ==
    /\ c \in boot[m]
    /\ boot' = [boot EXCEPT ![m] = @ \ {c}]
    /\ route' = [route EXCEPT ![m][c[1]] = IF c[2] \in grants[m] THEN @ ELSE Nowhere]
    /\ UNCHANGED <<channel, owner, consent, claim, step>>

(* release_ungranted, at boot, over the claims it found there. *)
ReleaseUngranted(m, c) ==
    /\ c \in boot[m]
    /\ boot' = [boot EXCEPT ![m] = @ \ {c}]
    /\ IF c[2] \in grants[m]
       THEN UNCHANGED <<claim, route>>
       ELSE /\ route' = [route EXCEPT ![m][c[1]] = Nowhere]
            /\ claim' = [claim EXCEPT ![m][c[1]] = Nobody]
    /\ UNCHANGED <<channel, owner, consent, step>>

------------------------------------------------------------------------------
(* The two together *)

(* A leg opens with a report.  Its answer says what the authority grants,   *)
(* and the report itself what the member grants; or it does not get there.  *)
Heard(n, a) == IF a \in grants[n] THEN allows[a] \cup {n} ELSE allows[a] \ {n}

Report(n, a) ==
    allows' = [allows EXCEPT ![a] = Heard(n, a), ![n] = Heard(a, n)]

BeginLeg(n, a) ==
    /\ Begin(n, a)
    /\ Report(n, a)
    /\ UNCHANGED <<chosen, where, untold, task, edge>>

BeginLegUnheard(n, a) ==
    /\ Begin(n, a)
    /\ "collect" \in FaultKinds
    /\ UNCHANGED <<owner, edge>>

\* The door asks for the same consent as carrying out.
Door(n) ==
    LET o == table[n][Oldest(pass[n].batch)].order
    IN Consents(pass[n].with, n, o.says)

HandUp(n) ==
    pass[n].stage = "handing" /\ Door(n) /\ HandOver(n) /\ UNCHANGED <<owner, edge>>

HandUpRefused(n) ==
    pass[n].stage = "handing" /\ ~Door(n) /\ HandOverRefused(n) /\ UNCHANGED <<owner, edge>>

\* A request that arrives late meets the door it finds then.
LateHandUp(m) ==
    /\ LateAsk(m)
    /\ Consents(m.owner, m.by, table[m.by][m.row].order.says)
    /\ UNCHANGED <<owner, edge>>

\* Faulty: a start tells, and looks for nobody to tell to stop.
BootUnsynced(n) ==
    IF n \in Owner THEN [todo |-> <<"tell">>, tell |-> {}, drop |-> {}] ELSE Idle

(* A process stops anywhere and starts again: what it was doing is gone,    *)
(* and its boot tells, rebuilds the routes, and tells again.                *)
Boot(n) ==
    IF n \in Owner
    THEN [todo |-> <<"tell", "sync", "tell">>, tell |-> {}, drop |-> {}]
    ELSE Idle

Restart(n) ==
    /\ ~(pass[n].stage = "resting" /\ AllIdle(n))
    /\ Crash(n)
    /\ task' = [task EXCEPT ![n] = [form |-> Idle, deployer |-> Boot(n)]]
    /\ step' = [step EXCEPT ![n] = "unread"]
    /\ boot' = [boot EXCEPT ![n] =
         {<<h, claim[n][h]>> : h \in {g \in Hostname : claim[n][g] # Nobody}}]
    /\ UNCHANGED <<chosen, where, untold, allows, consent, claim, route>>

EdgeInit ==
    /\ Init
    /\ chosen = [n \in Node |-> {}]
    /\ where = [n \in Node |-> [h \in Hostname |-> Nowhere]]
    /\ untold = [n \in Node |-> {}]
    /\ grants = [n \in Node |-> Node \ {n}]
    /\ allows = [n \in Node |-> {x \in Node : x # n /\ (<<x, n>> \in Enrolled
                                                     \/ <<n, x>> \in Enrolled)}]
    /\ task = [n \in Node |-> [t \in Task |-> Idle]]
    /\ claim = [n \in Node |-> [h \in Hostname |-> Nobody]]
    /\ route = [n \in Node |-> [h \in Hostname |-> Nowhere]]
    /\ step = [n \in Node |-> "unread"]
    /\ boot = [n \in Node |-> {}] /\ wavered = {}

OwnerNext(n) ==
    \/ \E h \in Hostname, nodes \in SUBSET Node : SetEdges(n, h, nodes)
    \/ \E h \in Hostname, p \in Place \cup {Nowhere} : Move(n, h, p)
    \/ \E t \in Task :
         \/ BeginTell(n, t) \/ BeginSync(n, t)
         \/ \E x \in task[n][t].tell :
              TellOne(n, t, x) \/ WithdrawOne(n, t, x)
         \/ \E p \in task[n][t].drop : DropOne(n, t, p)

EdgeNext(m) ==
    \/ Refuse(m) \/ TakeName(m) \/ Serve(m) \/ ForgetRoute(m) \/ ReleaseName(m)
    \/ \E a \in Node : SetGrants(m, a)
    \/ \E c \in boot[m] : ReleaseUngranted(m, c)

WireNext(n) ==
    \/ \E a \in Node : BeginLeg(n, a) \/ BeginLegUnheard(n, a)
    \/ HandUp(n) \/ HandUpRefused(n)
    \/ /\ \/ HandOverTimesOut(n) \/ Collect(n) \/ CollectFails(n)
          \/ SettleArrives(n) \/ SettleTimesOut(n) \/ BeginHere(n)
       /\ UNCHANGED <<owner, edge>>
    \/ Restart(n)

LateNext(m) ==
    \/ LateHandUp(m)
    \/ (LateSettle(m) \/ Lose(m)) /\ UNCHANGED <<owner, edge>>

EdgeSpecNext ==
    \/ \E n \in Node : OwnerNext(n) \/ EdgeNext(n) \/ WireNext(n)
    \/ \E m \in flight : LateNext(m)

EdgeSpec == EdgeInit /\ [][EdgeSpecNext]_all

------------------------------------------------------------------------------
(* What an owner may rely on *)

\* The rows by which o instructed m about h: in o's table, or, handed up to
\* an authority, in m's own.
InstructionsIn(t, o, m, h) ==
    {i \in DOMAIN table[t] :
        /\ table[t][i].to = m /\ (t = o \/ table[t][i].from = o)
        /\ table[t][i].order.name = h}

Instructions(o, m, h) ==
    UNION {{table[t][i].order.says : i \in InstructionsIn(t, o, m, h)} : t \in {o, m}}

\* What the last instruction that was not refused says, where m reads it.
LastObeyed(o, m, h) ==
    LET t == IF m \in authority[o] THEN m ELSE o
        i == Newest(t, {j \in InstructionsIn(t, o, m, h) : ~table[t][j].failed})
    IN IF i = 0 THEN Nowhere ELSE table[t][i].order.says

\* Nothing is pending anywhere, and nobody is in the middle of anything.
AtRest ==
    /\ flight = {}
    /\ \A n \in Node :
         /\ pass[n].stage = "resting" /\ AllIdle(n) /\ boot[n] = {}
         /\ \A i \in DOMAIN table[n] : table[n][i].done

(* A node answers for a name only on behalf of the node it holds the name   *)
(* for, and only with what that node asked for: two owners of one name never *)
(* mix, whatever order their errands, refusals and restarts come in, while  *)
(* it agrees to both.                                                       *)
RouteIsHolders ==
    \A m \in Node \ wavered, h \in Hostname :
        route[m][h] # Nowhere =>
            /\ claim[m][h] # Nobody
            /\ route[m][h] \in Instructions(claim[m][h], m, h)

(* Once everything queued was answered, a node serves a name the way its    *)
(* owner last told it to, and does not serve what it was told to stop.      *)
AsLastTold ==
    AtRest => \A o, m \in Node, h \in Hostname :
        o # m => IF claim[m][h] = o
                 THEN route[m][h] = LastObeyed(o, m, h)
                 ELSE LastObeyed(o, m, h) = Nowhere

(* When an owner has nothing left to do, the only nodes last told to serve  *)
(* a name are those its rows choose: every way a name loses a node ends in  *)
(* a withdrawal, a restart half way through included.                       *)
OnlyChosenTold ==
    \A o \in Owner : AllIdle(o) =>
        \A p \in NamesTold(o) : p[2] # o => p \in chosen[o]

Agreeing(o) == {p \in chosen[o] : p[2] \in allows[o] \ ({o} \cup wavered)}

(* When an owner has nothing left to do, what it last told a chosen node to *)
(* serve, withdrawals aside, is where the copies are now, as long as that   *)
(* node agrees: what a form, a deployment or a placement changed is not     *)
(* lost on the way to the errands, by a restart included.  Copies that a    *)
(* report or a drain moved since are excepted: nobody is told of those.     *)
LastInstructionIsCurrent ==
    \A o \in Owner : AllIdle(o) =>
        \A p \in Agreeing(o) : p[1] \notin untold[o] =>
            LET i == LastAbout(o, p[1], p[2]) IN
            i # 0 /\ table[o][i].order.says = where[o][p[1]]

(* A name held at start-up for a node this one no longer agrees to serve is *)
(* let go of, unless it agrees again first.                                 *)
UngrantedReleased ==
    \A m, a \in Node, h \in Hostname :
        (<<h, a>> \in boot[m] /\ a \notin grants[m])
            ~> (claim[m][h] # a \/ a \in grants[m])

==============================================================================
