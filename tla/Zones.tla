------------------------------- MODULE Zones -------------------------------
(* One zone at the node that administers it: its rows and their serial, the  *)
(* table its own listener answers from, and what each of the other name      *)
(* servers was told last (infra::dns, dns::dispatch, dns::server,            *)
(* repositories::zones, domain::policies::zone_serial, features::dns).  The  *)
(* console's handlers and the listener's own loop each read, write, store    *)
(* and tell in steps of their own.  How an errand gets there is Errands'.    *)
EXTENDS Naturals, Sequences, FiniteSets

CONSTANTS
    Server,     \* the other nodes, every one of which agreed to answer
    Me,         \* this one
    Record,     \* the records there can be, all at one name
    Alone,      \* those of them that are a CNAME
    Form,       \* the handlers that may be at work at once
    Loop,       \* the listener's own task
    Clock,      \* the times it may be, those before and after what a serial holds
    MaxSerial,  \* the largest there is: u32::MAX
    MaxChanges  \* bound: how often somebody asks for something

ASSUME ZonesAssumption ==
    /\ Me \notin Server /\ Loop \notin Form /\ Alone \subseteq Record
    /\ Clock \subseteq Nat /\ MaxSerial \in Nat \ {0} /\ MaxChanges \in Nat

VARIABLES
    zone,       \* dns_zone, dns_record, dns_zone_server
    names,      \* the names this node answers as: they are in the NS records
    clock,
    work,       \* task -> what it has still to do, and what it read
    answers,    \* what the listener answers from
    last,       \* server -> the last errand that named the zone
    about,      \* server -> the last errand about this life of it
    changes,
    crossed,    \* history: a form began beside another task, since the last start
    left        \* history: servers a stop, or tasks that crossed, left untold

zones == <<zone, names, clock, work, answers, last, about, changes, crossed, left>>

Task == Form \cup {Loop}
Zone == [on : BOOLEAN, life : 0 .. MaxChanges, serial : 0 .. MaxSerial,
         recs : SUBSET Record, servers : SUBSET (Server \cup {Me})]
Says == [on : BOOLEAN, serial : 0 .. MaxSerial, recs : SUBSET Record, names : {1, 2}]
Doing == {"insert", "save", "read", "store", "find", "gather", "send"}
Working == [todo : Seq(Doing), row : Zone, says : Says,
            tell : SUBSET Server, drop : SUBSET Server, add : SUBSET Record]

NoZone == [on |-> FALSE, life |-> 0, serial |-> 0, recs |-> {}, servers |-> {}]
Silence == [on |-> FALSE, serial |-> 0, recs |-> {}, names |-> 1]
Resting == [todo |-> << >>, row |-> NoZone, says |-> Silence,
            tell |-> {}, drop |-> {}, add |-> {}]

\* Faulty: a start reads the zones and tells nobody.
BootingAlone == [Resting EXCEPT !.todo = <<"read", "store">>]

Booting == [Resting EXCEPT !.todo = <<"read", "store", "find", "gather", "send">>]

ZonesInit ==
    /\ zone = NoZone /\ names = 1 /\ clock \in Clock
    /\ work = [t \in Task |-> IF t = Loop THEN Booting ELSE Resting]
    /\ answers = Silence
    /\ last = [s \in Server |-> Silence] /\ about = [s \in Server |-> Silence]
    /\ changes = 0 /\ crossed = FALSE /\ left = {}

At(t, what) == work[t].todo # << >> /\ Head(work[t].todo) = what
Done(t) == [work[t] EXCEPT !.todo = Tail(@)]
Idle(t) == work[t] = Resting
Quiet == \A t \in Task : Idle(t)

Larger(m, n) == IF m > n THEN m ELSE n

\* What is more than a serial holds is the largest there is.
Capped(n) == IF n > MaxSerial THEN MaxSerial ELSE n

\* Faulty: one more than the largest is none.
WrappingSerial(serial) == Larger(Capped(clock), (serial + 1) % (MaxSerial + 1))

\* The clock, or one more than before where the clock is not ahead.
NextSerial(serial) == Larger(Capped(clock), Capped(serial + 1))

Bumped(z) == [z EXCEPT !.serial = NextSerial(@)]

\* What of a zone its own row holds.
Row(z) == [z EXCEPT !.recs = {}, !.servers = {}]

\* What the rows say: the NS records are made from the names, not stored.
Saying(z) == [on |-> TRUE, serial |-> z.serial, recs |-> z.recs, names |-> names]
Served == IF zone.on /\ Me \in zone.servers THEN Saying(zone) ELSE Silence

------------------------------------------------------------------------------
(* The console *)

Told == <<"read", "store", "find", "gather", "send">>

Begins(f, w) ==
    /\ Idle(f) /\ changes < MaxChanges
    /\ changes' = changes + 1
    /\ work' = [work EXCEPT ![f] = w]
    /\ crossed' = (crossed \/ \E t \in Task \ {f} : ~Idle(t))

\* A name takes one CNAME and nothing beside it, or anything else once.
MayStand(r) ==
    /\ r \notin zone.recs
    /\ r \in Alone => zone.recs = {}
    /\ zone.recs \cap Alone = {}

AddRecord(f, r) ==
    /\ zone.on /\ MayStand(r)
    /\ Begins(f, [Resting EXCEPT !.todo = <<"insert">> \o Told, !.add = {r}])
    /\ UNCHANGED <<zone, names, clock, answers, last, about, left>>

InsertRecord(f) ==
    /\ At(f, "insert")
    /\ IF zone.on
       THEN /\ zone' = Bumped([zone EXCEPT !.recs = @ \cup work[f].add])
            /\ work' = [work EXCEPT ![f] = [Done(f) EXCEPT !.add = {}]]
       ELSE work' = [work EXCEPT ![f] = Resting] /\ UNCHANGED zone
    /\ UNCHANGED <<names, clock, answers, last, about, changes, crossed, left>>

RemoveRecord(f, r) ==
    /\ zone.on /\ r \in zone.recs
    /\ zone' = Bumped([zone EXCEPT !.recs = @ \ {r}])
    /\ Begins(f, [Resting EXCEPT !.todo = Told])
    /\ UNCHANGED <<names, clock, answers, last, about, left>>

\* Who answered is read first, and the new ones written then.
SetServers(f, S) ==
    /\ zone.on /\ S # {}
    /\ Begins(f, [Resting EXCEPT !.todo = <<"save">> \o Told,
                    !.row = [NoZone EXCEPT !.servers = S],
                    !.drop = (zone.servers \ S) \ {Me}])
    /\ UNCHANGED <<zone, names, clock, answers, last, about, left>>

SaveServers(f) ==
    /\ At(f, "save")
    /\ zone' = IF zone.on THEN Bumped([zone EXCEPT !.servers = work[f].row.servers]) ELSE zone
    /\ work' = [work EXCEPT ![f] = [Done(f) EXCEPT !.row = NoZone]]
    /\ UNCHANGED <<names, clock, answers, last, about, changes, crossed, left>>

\* The two that change which zone there is run alone (a bound): told in the
\* order they were written, whatever the forms beside them are at.
CreateZone(f, S) ==
    LET z == [on |-> TRUE, life |-> zone.life + 1, serial |-> 0, recs |-> {}, servers |-> S \cup {Me}]
    IN  /\ ~zone.on /\ Quiet /\ zone.life < MaxChanges
        /\ zone' = Bumped(z)
        /\ Begins(f, [Resting EXCEPT !.todo = <<"read", "store", "gather", "send">>, !.row = Row(Bumped(z))])
        /\ about' = [s \in Server |-> Silence]
        /\ UNCHANGED <<names, clock, answers, last, left>>

DeleteZone(f) ==
    /\ zone.on /\ Quiet
    /\ zone' = [NoZone EXCEPT !.life = zone.life]
    /\ Begins(f, [Resting EXCEPT !.todo = <<"read", "store", "gather", "send">>,
                    !.row = Row(zone), !.drop = zone.servers \ {Me}])
    /\ UNCHANGED <<names, clock, answers, last, about, left>>

\* Nothing of the zone is written: its NS records change and its serial does not.
ChangeNames(f) ==
    /\ names' = 3 - names
    /\ Begins(f, [Resting EXCEPT !.todo = Told])
    /\ UNCHANGED <<zone, clock, answers, last, about, left>>

------------------------------------------------------------------------------
(* What every task does after: the listener's table, and the others *)

ReadRows(t) ==
    /\ At(t, "read")
    /\ work' = [work EXCEPT ![t] = [Done(t) EXCEPT !.says = Served]]
    /\ UNCHANGED <<zone, names, clock, answers, last, about, changes, crossed, left>>

StoreTable(t) ==
    /\ At(t, "store")
    /\ answers' = work[t].says
    /\ work' = [work EXCEPT ![t] = IF Done(t).todo = << >> THEN Resting
                                   ELSE [Done(t) EXCEPT !.says = Silence]]
    /\ UNCHANGED <<zone, names, clock, last, about, changes, crossed, left>>

\* The serial is read here, and what goes with it after.
FindZone(t) ==
    /\ At(t, "find")
    /\ work' = [work EXCEPT ![t] = IF zone.on THEN [Done(t) EXCEPT !.row = Row(zone)] ELSE Resting]
    /\ UNCHANGED <<zone, names, clock, answers, last, about, changes, crossed, left>>

\* Of a zone that was deleted there are no rows left to read.
Gather(t) ==
    LET z == work[t].row
        there == zone.on /\ zone.life = z.life
        now == [Saying(z) EXCEPT !.recs = IF there THEN zone.recs ELSE {}]
        to == IF there THEN zone.servers \ {Me} ELSE {}
    IN  /\ At(t, "gather")
        /\ work' = [work EXCEPT ![t] =
             IF to \cup work[t].drop = {} THEN Resting
             ELSE [Done(t) EXCEPT !.says = now, !.tell = to, !.drop = @ \ to,
                                  !.row = [NoZone EXCEPT !.life = z.life]]]
        /\ UNCHANGED <<zone, names, clock, answers, last, about, changes, crossed, left>>

\* Only what the last errand about this life of the zone did not say.
Tells(s, says, life) ==
    IF life = zone.life
    THEN /\ about' = [about EXCEPT ![s] = says]
         /\ last' = IF about[s] = says THEN last ELSE [last EXCEPT ![s] = says]
    ELSE /\ last' = [last EXCEPT ![s] = says]
         /\ UNCHANGED about

Sent(t, tell, drop) ==
    work' = [work EXCEPT ![t] = IF tell \cup drop = {} THEN Resting
                                ELSE [@ EXCEPT !.tell = tell, !.drop = drop]]

\* Faulty: a zone that is gone has nobody left to tell.
SendToServersOnly(t, s) ==
    /\ At(t, "send") /\ s \in work[t].tell \cup work[t].drop
    /\ IF s \in work[t].tell THEN Tells(s, work[t].says, work[t].row.life)
                             ELSE UNCHANGED <<last, about>>
    /\ Sent(t, work[t].tell \ {s}, work[t].drop \ {s})
    /\ left' = left \ {s}
    /\ UNCHANGED <<zone, names, clock, answers, changes, crossed>>

\* Those who answer for it first, and a withdrawal to those who did.
Send(t, s) ==
    /\ At(t, "send")
    /\ IF work[t].tell # {}
       THEN /\ s \in work[t].tell
            /\ Tells(s, work[t].says, work[t].row.life)
       ELSE /\ s \in work[t].drop
            /\ Tells(s, [work[t].says EXCEPT !.on = FALSE, !.recs = {}], work[t].row.life)
    /\ Sent(t, work[t].tell \ {s}, work[t].drop \ {s})
    /\ left' = left \ {s}
    /\ UNCHANGED <<zone, names, clock, answers, changes, crossed>>

\* Faulty: the listener looks at what it has.
RecheckNothing ==
    /\ Idle(Loop)
    /\ work' = [work EXCEPT ![Loop] = [Resting EXCEPT !.todo = <<"store">>, !.says = answers]]
    /\ UNCHANGED <<zone, names, clock, answers, last, about, changes, crossed, left>>

\* Once a minute, whoever else has read or stored meanwhile.
Recheck ==
    /\ Idle(Loop)
    /\ work' = [work EXCEPT ![Loop] = [Resting EXCEPT !.todo = <<"read", "store">>]]
    /\ UNCHANGED <<zone, names, clock, answers, last, about, changes, crossed, left>>

------------------------------------------------------------------------------

ClockMoves ==
    /\ clock' \in Clock \ {clock}
    /\ changes < MaxChanges
    /\ changes' = changes + 1
    /\ UNCHANGED <<zone, names, work, answers, last, about, crossed, left>>

\* The next process answers nothing until it has read, and tells everybody.
ZonesStop ==
    /\ changes < MaxChanges
    /\ changes' = changes + 1
    /\ left' = IF crossed THEN Server ELSE left \cup UNION {work[t].drop : t \in Task}
    /\ work' = [t \in Task |-> IF t = Loop THEN Booting ELSE Resting]
    /\ answers' = Silence /\ crossed' = FALSE
    /\ UNCHANGED <<zone, names, clock, last, about>>

WorksOn(t) ==
    \/ InsertRecord(t) \/ SaveServers(t) \/ ReadRows(t) \/ StoreTable(t)
    \/ FindZone(t) \/ Gather(t) \/ \E s \in Server : Send(t, s)

Asks(f) ==
    \/ \E r \in Record : AddRecord(f, r) \/ RemoveRecord(f, r)
    \/ \E S \in SUBSET (Server \cup {Me}) : SetServers(f, S)
    \/ \E S \in {{}, Server} : CreateZone(f, S)
    \/ DeleteZone(f) \/ ChangeNames(f)

ZonesNext ==
    \/ \E t \in Task : WorksOn(t)
    \/ \E f \in Form : Asks(f)
    \/ Recheck \/ ClockMoves \/ ZonesStop

ZonesSpec ==
    /\ ZonesInit /\ [][ZonesNext]_zones
    /\ WF_zones(WorksOn(Loop))
    /\ WF_zones(Recheck)

------------------------------------------------------------------------------

(* What every variable of the zones' part holds. *)
ZonesTypeOK ==
    /\ zone \in Zone /\ names \in {1, 2} /\ clock \in Clock
    /\ work \in [Task -> Working]
    /\ answers \in Says
    /\ last \in [Server -> Says] /\ about \in [Server -> Says]
    /\ changes \in 0 .. MaxChanges /\ crossed \in BOOLEAN /\ left \subseteq Server

\* A later serial, as far as there is one.
Later(serial, next) == next > serial \/ (serial = MaxSerial /\ next = MaxSerial)

(* While a zone lives, its serial grows with every change of its rows, two   *)
(* in one second, a clock that went back and one that is far ahead included: *)
(* "a name server that sees the same serial keeps the zone it had".  Only    *)
(* the largest there is stays, and nothing brings it back.                   *)
SerialMovesForward ==
    [][zone.on /\ zone'.on /\ zone' # zone => Later(zone.serial, zone'.serial)]_zones

(* Once nobody is at work, every server chosen was told the zone as it is,   *)
(* also after a stop anywhere in between, which loses what was being told,   *)
(* and after a change of names, which no serial shows.                       *)
CurrentIsTold ==
    Quiet /\ ~crossed /\ zone.on =>
        \A s \in zone.servers \ {Me} : last[s] = Saying(zone)

(* And nobody else still answers, but those a stop left untold: who was      *)
(* taken off, or had the zone before it was deleted and made again.          *)
NobodyElseAnswers ==
    Quiet /\ ~crossed =>
        \A s \in Server : last[s].on => s \in left \/ (zone.on /\ s \in zone.servers)

(* What this node answers is what its rows say, again and again, although    *)
(* two handlers that read and store out of turn leave an older table.        *)
ListenerCatchesUp == []<>(answers = Served)

==============================================================================
