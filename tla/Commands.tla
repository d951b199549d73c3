------------------------------ MODULE Commands ------------------------------
(* Instructions that are events: restart, and take a backup                 *)
(* (network::ask_once, collect::do_once, backup::plan).  Asked twice means  *)
(* twice, so what stops one asking from happening twice is the id of the    *)
(* errand that carries it, written down before the thing is done.           *)
EXTENDS Errands

\* An Order is one press of a button; none is about a Subject.
CONSTANTS
    Restarts,   \* the presses that ask for a restart; the rest, for a backup
    Nothing,    \* no id was ever noted
    Supervised, \* the nodes that something starts again when they stop
    Fickle,     \* bound: the nodes whose operator changes what they grant
    Patient     \* bound: nobody asks again before the answer to the last is in

ASSUME RestartsAreOrders == Restarts \subseteq Order
ASSUME NothingIsNoId == Nothing \notin Node \X Nat

VARIABLES
    manages,    \* node -> the nodes it agreed to be looked after by
    noted,      \* node -> action -> the id it noted last
    step,       \* node -> whether the errand in hand is noted
    due,        \* node -> the service manager was asked to restart it
    spawned,    \* node -> how many backups were started and not begun
    running,    \* node -> the flag of a backup in progress
    times,      \* history: node -> press -> how often it did it
    fate        \* history: node -> press -> unheard, noted, or followed by a start

channel == vars
work == <<manages, noted, step, due, spawned, running, times, fate>>
all == <<channel, work>>

Action == {"restart", "backup"}
ActionOf(o) == IF o \in Restarts THEN "restart" ELSE "backup"

CommandInit ==
    /\ Init
    /\ manages = [n \in Node |-> Node \ {n}]
    /\ noted = [n \in Node |-> [a \in Action |-> Nothing]]
    /\ step = [n \in Node |-> "unread"]
    /\ due = [n \in Node |-> FALSE]
    /\ spawned = [n \in Node |-> 0]
    /\ running = [n \in Node |-> FALSE]
    /\ times = [n \in Node |-> [o \in Order |-> 0]]
    /\ fate = [n \in Node |-> [o \in Order |-> "unheard"]]

------------------------------------------------------------------------------
(* Asking *)

Asked == UNION {{table[n][i].order : i \in DOMAIN table[n]} : n \in Node}

\* Pressed, and not answered yet.
Outstanding(n, to, action) ==
    \E i \in DOMAIN table[n] :
        /\ table[n][i].to = to /\ ~table[n][i].done
        /\ ActionOf(table[n][i].order) = action

AskOnce(n, to, o) ==
    /\ n # to /\ o \notin Asked
    /\ Patient => ~Outstanding(n, to, ActionOf(o))
    /\ Queue(n, to, NoSubject, o)
    /\ UNCHANGED work

------------------------------------------------------------------------------
(* Doing it *)

Id(n) == <<pass[n].with, Oldest(pass[n].batch)>>
InHand(n) == table[Id(n)[1]][Id(n)[2]]
AskedBy(n) == IF pass[n].with = n THEN InHand(n).from ELSE pass[n].with
ActionInHand(n) == ActionOf(InHand(n).order)

SetManages(n, a) ==
    /\ n \in Fickle /\ a # n
    /\ manages' = [manages EXCEPT ![n] = IF a \in @ THEN @ \ {a} ELSE @ \cup {a}]
    /\ UNCHANGED <<channel, noted, step, due, spawned, running, times, fate>>

Consents(n, by) == n = by \/ by \in manages[n]

\* Faulty: any note at all passes for this errand's.
AlreadyObeyedAny(n) == \E a \in Action : noted[n][a] # Nothing

AlreadyObeyed(n) == noted[n][ActionInHand(n)] = Id(n)

\* What keeps a node from doing what it is asked, while it can still say so.
Refusable(n) ==
    IF ActionInHand(n) = "restart" THEN n \notin Supervised ELSE running[n]

Takes(n) == pass[n].stage = "obeying" /\ step[n] = "unread"

RefuseCommand(n) ==
    /\ Takes(n)
    /\ \/ ~Consents(n, AskedBy(n))
       \/ ~AlreadyObeyed(n) /\ Refusable(n)
    /\ CarryOut(n, TRUE)
    /\ UNCHANGED work

SkipObeyed(n) ==
    /\ Takes(n)
    /\ Consents(n, AskedBy(n)) /\ AlreadyObeyed(n)
    /\ CarryOut(n, FALSE)
    /\ UNCHANGED work

\* Faulty: nothing is written down.
NoteNothing(n) ==
    /\ Takes(n)
    /\ Consents(n, AskedBy(n)) /\ ~AlreadyObeyed(n) /\ ~Refusable(n)
    /\ step' = [step EXCEPT ![n] = "noted"]
    /\ UNCHANGED <<channel, manages, noted, due, spawned, running, times, fate>>

NoteObeyed(n) ==
    /\ Takes(n)
    /\ Consents(n, AskedBy(n)) /\ ~AlreadyObeyed(n) /\ ~Refusable(n)
    /\ noted' = [noted EXCEPT ![n][ActionInHand(n)] = Id(n)]
    /\ fate' = [fate EXCEPT ![n][InHand(n).order] =
                  IF @ = "unheard" THEN "noted" ELSE @]
    /\ step' = [step EXCEPT ![n] = "noted"]
    /\ UNCHANGED <<channel, manages, due, spawned, running, times>>

Perform(n) ==
    /\ pass[n].stage = "obeying" /\ step[n] = "noted"
    /\ times' = [times EXCEPT ![n][InHand(n).order] = @ + 1]
    /\ IF ActionInHand(n) = "restart"
       THEN due' = [due EXCEPT ![n] = TRUE] /\ UNCHANGED spawned
       ELSE spawned' = [spawned EXCEPT ![n] = @ + 1] /\ UNCHANGED due
    /\ step' = [step EXCEPT ![n] = "unread"]
    /\ CarryOut(n, FALSE)
    /\ UNCHANGED <<manages, noted, running, fate>>

------------------------------------------------------------------------------
(* Backups run beside everything else, one at a time, on whichever account  *)

ClaimRun(n) ==
    /\ spawned[n] > 0
    /\ spawned' = [spawned EXCEPT ![n] = @ - 1]
    /\ running' = [running EXCEPT ![n] = TRUE]
    /\ UNCHANGED <<channel, manages, noted, step, due, times, fate>>

SlotComesRound(n) ==
    /\ ~running[n] /\ Order # Restarts
    /\ running' = [running EXCEPT ![n] = TRUE]
    /\ UNCHANGED <<channel, manages, noted, step, due, spawned, times, fate>>

BackupEnds(n) ==
    /\ running[n]
    /\ running' = [running EXCEPT ![n] = FALSE]
    /\ UNCHANGED <<channel, manages, noted, step, due, spawned, times, fate>>

------------------------------------------------------------------------------
(* A start loses the pass, the backup and what was spawned, and no row. *)

StartsAgain(n) ==
    /\ step' = [step EXCEPT ![n] = "unread"]
    /\ due' = [due EXCEPT ![n] = FALSE]
    /\ spawned' = [spawned EXCEPT ![n] = 0]
    /\ running' = [running EXCEPT ![n] = FALSE]
    /\ fate' = [fate EXCEPT ![n] =
         [o \in Order |-> IF @[o] = "noted" THEN "started" ELSE @[o]]]
    /\ UNCHANGED <<manages, noted, times>>

\* A second or so after it was asked for.
RestartNow(n) ==
    /\ due[n]
    /\ pass' = [pass EXCEPT ![n] = Resting(n)]
    /\ StartsAgain(n)
    /\ UNCHANGED <<table, authority, flight, obeyed, faults>>

CrashNow(n) == Crash(n) /\ StartsAgain(n)

------------------------------------------------------------------------------

Door(n) == Consents(pass[n].with, n)

HandUp(n) ==
    pass[n].stage = "handing" /\ Door(n) /\ HandOver(n) /\ UNCHANGED work

HandUpRefused(n) ==
    pass[n].stage = "handing" /\ ~Door(n) /\ HandOverRefused(n) /\ UNCHANGED work

LateHandUp(m) == LateAsk(m) /\ Consents(m.owner, m.by) /\ UNCHANGED work

Wire(n) ==
    /\ \/ \E a \in Node : Begin(n, a)
       \/ BeginHere(n) \/ HandOverTimesOut(n) \/ Collect(n) \/ CollectFails(n)
       \/ SettleArrives(n) \/ SettleTimesOut(n)
    /\ UNCHANGED work

Do(n) == RefuseCommand(n) \/ SkipObeyed(n) \/ NoteObeyed(n) \/ Perform(n)

Beside(n) ==
    \/ ClaimRun(n) \/ SlotComesRound(n) \/ BackupEnds(n)
    \/ RestartNow(n) \/ CrashNow(n)

CommandNext ==
    \/ \E n, to \in Node, o \in Order : AskOnce(n, to, o)
    \/ \E n \in Node : Wire(n) \/ HandUp(n) \/ HandUpRefused(n) \/ Do(n) \/ Beside(n)
    \/ \E n, a \in Node : SetManages(n, a)
    \/ \E m \in flight : LateHandUp(m)
    \/ \E m \in flight : (LateSettle(m) \/ Lose(m)) /\ UNCHANGED work

CommandSpec == CommandInit /\ [][CommandNext]_all

------------------------------------------------------------------------------

(* The shape of what the commands add to the channel. *)
CommandTypeOK ==
    /\ TypeOK
    /\ manages \in [Node -> SUBSET Node]
    /\ noted \in [Node -> [Action -> (Node \X (Nat \ {0})) \cup {Nothing}]]
    /\ step \in [Node -> {"unread", "noted"}]
    /\ due \in [Node -> BOOLEAN] /\ running \in [Node -> BOOLEAN]
    /\ spawned \in [Node -> Nat]
    /\ times \in [Node -> [Order -> Nat]]
    /\ fate \in [Node -> [Order -> {"unheard", "noted", "started"}]]

\* The errands that carry an asking to n: its own rows, and those it collects.
Carrying(n, o) ==
    UNION {{t} \X {i \in DOMAIN table[t] : table[t][i].to = n /\ table[t][i].order = o} :
             t \in {n} \cup {a \in Node : <<n, a>> \in Enrolled}}

(* One errand is done once at most, however often it is collected: answers  *)
(* that get lost, crashes and the very restart it asks for included, as     *)
(* long as nobody asks again before the answer is in.                       *)
OnceForEachErrand ==
    \A n \in Node, o \in Order : times[n][o] <= Cardinality(Carrying(n, o))

(* A restart that was answered for really happened after it was asked, or   *)
(* is about to: the note that keeps a second collection from restarting     *)
(* again never passes for a restart nobody made.                            *)
AnsweredRestartHappened ==
    \A o, n \in Node : \A i \in DOMAIN table[o] :
        LET r == table[o][i] IN
        ( /\ r.done /\ ~r.failed /\ r.to = n /\ r.order \in Restarts
          /\ <<o, i, FALSE>> \in obeyed[n] )
            => due[n] \/ fate[n][r.order] = "started"

==============================================================================
