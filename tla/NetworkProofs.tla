--------------------------- MODULE NetworkProofs ----------------------------
(* What nodes find each other by.  The serial of a zone grows with every     *)
(* change of its rows up to the largest there is, for any clock, any number  *)
(* of handlers and any number of changes: also within a second, and when     *)
(* the clock goes back; at the largest it stays.  A zone's servers, and      *)
(* nobody else, were told what its rows say.  And the overlay follows       *)
(* the rows of other nodes, and keeps its sessions, for any nodes,           *)
(* addresses, censuses and faults.                                           *)
EXTENDS Zones, Overlay, SequenceTheorems, TLAPS

(* The zone's row as far as the serial depends on it.                        *)
SerialIsKept ==
    /\ zone = [on |-> zone.on, life |-> zone.life, serial |-> zone.serial,
               recs |-> zone.recs, servers |-> zone.servers]
    /\ zone.serial \in 0 .. MaxSerial
    /\ clock \in Nat

(* What a step may do to a zone: leave it, make or delete it, or change it   *)
(* and move its serial forward.                                              *)
MovesOn ==
    /\ SerialIsKept'
    /\ zone.on /\ zone'.on /\ zone' # zone => Later(zone.serial, zone'.serial)

(* The next serial is a later one, wherever the clock stands, and is one     *)
(* that fits.                                                                *)
LEMMA NextIsLater ==
    ASSUME NEW serial \in 0 .. MaxSerial, clock \in Nat
    PROVE  /\ NextSerial(serial) \in 1 .. MaxSerial
           /\ Later(serial, NextSerial(serial))
BY ZonesAssumption DEF NextSerial, Capped, Larger, Later

(* Writing a zone's row moves its serial forward.                            *)
LEMMA BumpedIsLater ==
    ASSUME SerialIsKept, NEW on, NEW life, NEW serial \in 0 .. MaxSerial, NEW recs, NEW servers,
           zone' = Bumped([on |-> on, life |-> life, serial |-> serial,
                           recs |-> recs, servers |-> servers]),
           clock' = clock
    PROVE  SerialIsKept' /\ Later(serial, zone'.serial)
<1>1. zone' = [on |-> on, life |-> life, serial |-> NextSerial(serial),
               recs |-> recs, servers |-> servers]
  BY DEF Bumped
<1>2. NextSerial(serial) \in 1 .. MaxSerial /\ Later(serial, NextSerial(serial))
  BY NextIsLater DEF SerialIsKept
<1>. QED
  BY <1>1, <1>2 DEF SerialIsKept

(* A step that leaves the row and the clock alone.                           *)
LEMMA RowIsLeft ==
    ASSUME SerialIsKept, zone' = zone, clock' = clock
    PROVE  MovesOn
BY DEF SerialIsKept, MovesOn

(* The two writes that change the records of a zone that is there.           *)
LEMMA RecordsChange ==
    ASSUME SerialIsKept, NEW recs, zone' = Bumped([zone EXCEPT !.recs = recs]), clock' = clock
    PROVE  MovesOn
<1>1. [zone EXCEPT !.recs = recs] =
        [on |-> zone.on, life |-> zone.life, serial |-> zone.serial,
         recs |-> recs, servers |-> zone.servers]
  BY DEF SerialIsKept
<1>2. zone.serial \in 0 .. MaxSerial
  BY DEF SerialIsKept
<1>. QED
  BY <1>1, <1>2, BumpedIsLater DEF MovesOn

(* And the one that changes who answers for it.                              *)
LEMMA ServersChange ==
    ASSUME SerialIsKept, NEW servers, zone' = Bumped([zone EXCEPT !.servers = servers]),
           clock' = clock
    PROVE  MovesOn
<1>1. [zone EXCEPT !.servers = servers] =
        [on |-> zone.on, life |-> zone.life, serial |-> zone.serial,
         recs |-> zone.recs, servers |-> servers]
  BY DEF SerialIsKept
<1>2. zone.serial \in 0 .. MaxSerial
  BY DEF SerialIsKept
<1>. QED
  BY <1>1, <1>2, BumpedIsLater DEF MovesOn

------------------------------------------------------------------------------

(* What a task does after a form was sent: only its first step writes rows.  *)
LEMMA WorkMovesOn ==
    ASSUME SerialIsKept, NEW t \in Task, WorksOn(t)
    PROVE  MovesOn
<1>1. CASE InsertRecord(t)
  <2>1. CASE zone.on
    <3>1. zone' = Bumped([zone EXCEPT !.recs = zone.recs \cup work[t].add]) /\ clock' = clock
      BY <1>1, <2>1, Zenon DEF InsertRecord
    <3>. QED
      BY <3>1, RecordsChange
  <2>2. CASE ~zone.on
    BY <1>1, <2>2, RowIsLeft DEF InsertRecord
  <2>. QED
    BY <2>1, <2>2
<1>2. CASE SaveServers(t)
  <2>1. /\ clock' = clock
        /\ zone' = IF zone.on THEN Bumped([zone EXCEPT !.servers = work[t].row.servers])
                   ELSE zone
    BY <1>2 DEF SaveServers
  <2>. QED
    BY <2>1, ServersChange, RowIsLeft
<1>3. ASSUME NEW s \in Server, Send(t, s) PROVE MovesOn
  BY <1>3, RowIsLeft DEF Send
<1>4. CASE ReadRows(t) \/ StoreTable(t) \/ FindZone(t) \/ Gather(t)
  <2>1. zone' = zone /\ clock' = clock
    BY <1>4 DEF ReadRows, StoreTable, FindZone, Gather
  <2>. QED
    BY <2>1, RowIsLeft
<1>. QED
  BY <1>1, <1>2, <1>3, <1>4 DEF WorksOn

(* What is asked at the console: a record taken off is written at once, and  *)
(* so is a zone that is made or deleted.                                     *)
LEMMA AskingMovesOn ==
    ASSUME SerialIsKept, NEW f \in Form, Asks(f)
    PROVE  MovesOn
<1>1. ASSUME NEW r \in Record, RemoveRecord(f, r) PROVE MovesOn
  <2>1. zone' = Bumped([zone EXCEPT !.recs = zone.recs \ {r}]) /\ clock' = clock
    BY <1>1, Zenon DEF RemoveRecord
  <2>. QED
    BY <2>1, RecordsChange
<1>2. ASSUME NEW S \in {{}, Server}, CreateZone(f, S) PROVE MovesOn
  <2>1. /\ zone' = Bumped([on |-> TRUE, life |-> zone.life + 1, serial |-> 0,
                           recs |-> {}, servers |-> S \cup {Me}])
        /\ clock' = clock /\ ~zone.on
    BY <1>2 DEF CreateZone
  <2>2. 0 \in 0 .. MaxSerial
    BY ZonesAssumption
  <2>3. SerialIsKept'
    BY <2>1, <2>2, BumpedIsLater
  <2>. QED
    BY <2>1, <2>3 DEF MovesOn
<1>3. CASE DeleteZone(f)
  <2>1. zone' = [NoZone EXCEPT !.life = zone.life] /\ clock' = clock
    BY <1>3 DEF DeleteZone
  <2>2. zone' = [on |-> FALSE, life |-> zone.life, serial |-> 0, recs |-> {}, servers |-> {}]
    BY <2>1 DEF NoZone
  <2>3. zone'.serial = 0 /\ ~zone'.on
    BY <2>2
  <2>4. zone' = [on |-> zone'.on, life |-> zone'.life, serial |-> zone'.serial,
                 recs |-> zone'.recs, servers |-> zone'.servers]
    BY <2>2
  <2>. QED
    BY <2>1, <2>3, <2>4, ZonesAssumption DEF MovesOn, SerialIsKept
<1>4. ASSUME NEW r \in Record, AddRecord(f, r) PROVE MovesOn
  BY <1>4, RowIsLeft DEF AddRecord
<1>5. ASSUME NEW S \in SUBSET (Server \cup {Me}), SetServers(f, S) PROVE MovesOn
  BY <1>5, RowIsLeft DEF SetServers
<1>6. CASE ChangeNames(f)
  BY <1>6, RowIsLeft DEF ChangeNames
<1>. QED
  BY <1>1, <1>2, <1>3, <1>4, <1>5, <1>6 DEF Asks

(* Every step leaves a zone, makes or deletes it, or moves its serial on.    *)
LEMMA EveryStepMovesOn ==
    ASSUME SerialIsKept, [ZonesNext]_zones
    PROVE  MovesOn
<1>1. CASE Recheck \/ ZonesStop \/ UNCHANGED zones
  <2>1. zone' = zone /\ clock' = clock
    BY <1>1 DEF Recheck, ZonesStop, zones
  <2>. QED
    BY <2>1, RowIsLeft
<1>2. CASE ClockMoves
  <2>1. zone' = zone /\ clock' \in Nat
    BY <1>2, ZonesAssumption DEF ClockMoves
  <2>. QED
    BY <2>1 DEF SerialIsKept, MovesOn
<1>. QED
  BY <1>1, <1>2, WorkMovesOn, AskingMovesOn DEF ZonesNext

(* The row keeps its form and a serial that fits.                            *)
THEOREM SerialsAreKept == ZonesSpec => []SerialIsKept
<1>1. ZonesInit => SerialIsKept
  BY ZonesAssumption DEF ZonesInit, NoZone, SerialIsKept
<1>2. SerialIsKept /\ [ZonesNext]_zones => SerialIsKept'
  BY EveryStepMovesOn DEF MovesOn
<1>. QED
  BY <1>1, <1>2, PTL DEF ZonesSpec

(* While a zone lives, its serial grows with every change of its rows, and   *)
(* at the largest there is it stays.                                         *)
THEOREM SerialsMoveForward == ZonesSpec => SerialMovesForward
<1>1. SerialIsKept /\ [ZonesNext]_zones
        => [zone.on /\ zone'.on /\ zone' # zone => Later(zone.serial, zone'.serial)]_zones
  BY EveryStepMovesOn DEF MovesOn
<1>. QED
  BY <1>1, SerialsAreKept, PTL DEF ZonesSpec, SerialMovesForward

------------------------------------------------------------------------------
(* The types of the zone's part. *)

(* The console's rows and the steps a task has before it.                    *)
LEMMA RestingWorks ==
    /\ NoZone \in Zone /\ Silence \in Says /\ Resting \in Working /\ Booting \in Working
    /\ Told \in Seq(Doing) /\ Told # << >>
<1>1. NoZone \in Zone
  BY ZonesAssumption DEF NoZone, Zone
<1>2. Silence \in Says
  BY ZonesAssumption DEF Silence, Says
<1>3. << >> \in Seq(Doing) /\ Told \in Seq(Doing) /\ Told # << >>
  BY DEF Told, Doing
<1>4. Resting \in Working
  BY <1>1, <1>2, <1>3 DEF Resting, Working
<1>5. Booting \in Working
  BY <1>1, <1>2, <1>3, <1>4 DEF Booting, Resting, Working, Told
<1>. QED
  BY <1>1, <1>2, <1>3, <1>4, <1>5

(* A task goes on to its next step.                                          *)
LEMMA DoneWorks ==
    ASSUME ZonesTypeOK, NEW t \in Task, NEW what, At(t, what)
    PROVE  Done(t) \in Working
<1>1. work[t] \in Working /\ work[t].todo # << >>
  BY DEF ZonesTypeOK, At
<1>2. Tail(work[t].todo) \in Seq(Doing)
  BY <1>1 DEF Working
<1>. QED
  BY <1>1, <1>2 DEF Done, Working

(* The row of a zone, written or told, is one.                               *)
LEMMA BumpedIsZone ==
    ASSUME ZonesTypeOK, NEW z \in Zone
    PROVE  Bumped(z) \in Zone /\ Row(z) \in Zone
<1>1. NextSerial(z.serial) \in 0 .. MaxSerial
  BY NextIsLater, ZonesAssumption DEF ZonesTypeOK, Zone
<1>. QED
  BY <1>1 DEF Bumped, Row, Zone

(* What is told of a zone, and what this node answers of it.                 *)
LEMMA SayingIsSaid ==
    ASSUME ZonesTypeOK, NEW z \in Zone
    PROVE  Saying(z) \in Says
BY DEF Saying, Says, Zone, ZonesTypeOK

(* Also of no zone at all.                                                   *)
LEMMA ServedIsSaid ==
    ASSUME ZonesTypeOK
    PROVE  Served \in Says
BY SayingIsSaid, RestingWorks DEF Served, ZonesTypeOK

(* A task that works on keeps the types.                                     *)
LEMMA WorkIsTyped ==
    ASSUME ZonesTypeOK, NEW t \in Task, WorksOn(t)
    PROVE  ZonesTypeOK'
<1>. USE DEF ZonesTypeOK
<1>w. work[t] \in Working /\ work[t].row \in Zone /\ work[t].says \in Says
      /\ work[t].tell \subseteq Server /\ work[t].drop \subseteq Server /\ work[t].add \subseteq Record
  BY DEF Working
<1>1. CASE InsertRecord(t)
  <2>1. [zone EXCEPT !.recs = zone.recs \cup work[t].add] \in Zone
    BY <1>w DEF Zone
  <2>2. zone' \in Zone
    BY <1>1, <2>1, BumpedIsZone DEF InsertRecord
  <2>3. [Done(t) EXCEPT !.add = {}] \in Working
    BY <1>1, DoneWorks DEF InsertRecord, Working
  <2>4. work' \in [Task -> Working]
    BY <1>1, <2>3, RestingWorks DEF InsertRecord
  <2>. QED
    BY <1>1, <2>2, <2>4 DEF InsertRecord
<1>2. CASE SaveServers(t)
  <2>1. [zone EXCEPT !.servers = work[t].row.servers] \in Zone
    BY <1>w DEF Zone
  <2>2. zone' \in Zone
    BY <1>2, <2>1, BumpedIsZone DEF SaveServers
  <2>3. [Done(t) EXCEPT !.row = NoZone] \in Working
    BY <1>2, DoneWorks, RestingWorks DEF SaveServers, Working
  <2>4. work' \in [Task -> Working]
    BY <1>2, <2>3 DEF SaveServers
  <2>. QED
    BY <1>2, <2>2, <2>4 DEF SaveServers
<1>3. CASE ReadRows(t)
  <2>1. [Done(t) EXCEPT !.says = Served] \in Working
    BY <1>3, DoneWorks, ServedIsSaid DEF ReadRows, Working
  <2>. QED
    BY <1>3, <2>1 DEF ReadRows
<1>4. CASE StoreTable(t)
  <2>1. [Done(t) EXCEPT !.says = Silence] \in Working
    BY <1>4, DoneWorks, RestingWorks DEF StoreTable, Working
  <2>. QED
    BY <1>4, <1>w, <2>1, RestingWorks DEF StoreTable
<1>5. CASE FindZone(t)
  <2>1. [Done(t) EXCEPT !.row = Row(zone)] \in Working
    BY <1>5, DoneWorks, BumpedIsZone DEF FindZone, Working
  <2>. QED
    BY <1>5, <2>1, RestingWorks DEF FindZone
<1>6. CASE Gather(t)
  <2>. DEFINE z == work[t].row
              there == zone.on /\ zone.life = z.life
              now == [Saying(z) EXCEPT !.recs = IF there THEN zone.recs ELSE {}]
              to == IF there THEN zone.servers \ {Me} ELSE {}
              next == [Done(t) EXCEPT !.says = now, !.tell = to, !.drop = @ \ to,
                                      !.row = [NoZone EXCEPT !.life = z.life]]
  <2>1. now \in Says
    BY <1>w, SayingIsSaid DEF Says, Zone
  <2>2. to \subseteq Server
    BY DEF Zone
  <2>3. [NoZone EXCEPT !.life = z.life] \in Zone
    BY <1>w, RestingWorks DEF Zone
  <2>4. next \in Working
    <3>. HIDE DEF now, to, z
    <3>. QED BY <1>6, <2>1, <2>2, <2>3, DoneWorks DEF Gather, Working
  <2>5. /\ work' = [work EXCEPT ![t] = IF to \cup work[t].drop = {} THEN Resting ELSE next]
        /\ UNCHANGED <<zone, names, clock, answers, last, about, changes, crossed, left>>
    BY <1>6 DEF Gather
  <2>. HIDE DEF next, to
  <2>. QED
    BY <2>4, <2>5, RestingWorks
<1>7. ASSUME NEW s \in Server, Send(t, s) PROVE ZonesTypeOK'
  <2>1. [work[t].says EXCEPT !.on = FALSE, !.recs = {}] \in Says
    BY <1>w DEF Says
  <2>2. \E says \in Says : Tells(s, says, work[t].row.life)
    BY <1>7, <1>w, <2>1 DEF Send
  <2>3. last' \in [Server -> Says] /\ about' \in [Server -> Says]
    BY <2>2 DEF Tells
  <2>4. [work[t] EXCEPT !.tell = work[t].tell \ {s}, !.drop = work[t].drop \ {s}] \in Working
    BY <1>w DEF Working
  <2>5. work' \in [Task -> Working]
    BY <1>7, <2>4, RestingWorks DEF Send, Sent
  <2>. QED
    BY <1>7, <2>3, <2>5 DEF Send
<1>. QED
  BY <1>1, <1>2, <1>3, <1>4, <1>5, <1>6, <1>7 DEF WorksOn

(* And so does what is asked at the console.                                 *)
LEMMA AskingIsTyped ==
    ASSUME ZonesTypeOK, NEW f \in Form, Asks(f)
    PROVE  ZonesTypeOK'
<1>. USE DEF ZonesTypeOK
<1>0. f \in Task
  BY DEF Task
<1>b. ASSUME NEW w \in Working, Begins(f, w)
      PROVE  work' \in [Task -> Working] /\ changes' \in 0 .. MaxChanges /\ crossed' \in BOOLEAN
  BY <1>b, <1>0, ZonesAssumption DEF Begins
<1>1. ASSUME NEW r \in Record, AddRecord(f, r) PROVE ZonesTypeOK'
  <2>1. <<"insert">> \o Told \in Seq(Doing)
    BY RestingWorks DEF Doing
  <2>2. [Resting EXCEPT !.todo = <<"insert">> \o Told, !.add = {r}] \in Working
    BY <2>1, RestingWorks DEF Working
  <2>. QED
    BY <1>1, <1>b, <2>2 DEF AddRecord
<1>2. ASSUME NEW r \in Record, RemoveRecord(f, r) PROVE ZonesTypeOK'
  <2>1. [Resting EXCEPT !.todo = Told] \in Working
    BY RestingWorks DEF Working
  <2>2. [zone EXCEPT !.recs = zone.recs \ {r}] \in Zone
    BY DEF Zone
  <2>3. zone' \in Zone
    BY <1>2, <2>2, BumpedIsZone DEF RemoveRecord
  <2>. QED
    BY <1>2, <1>b, <2>1, <2>3 DEF RemoveRecord
<1>3. ASSUME NEW S \in SUBSET (Server \cup {Me}), SetServers(f, S) PROVE ZonesTypeOK'
  <2>1. <<"save">> \o Told \in Seq(Doing)
    BY RestingWorks DEF Doing
  <2>2. [NoZone EXCEPT !.servers = S] \in Zone
    BY RestingWorks DEF Zone
  <2>3. (zone.servers \ S) \ {Me} \subseteq Server
    BY DEF Zone
  <2>4. [Resting EXCEPT !.todo = <<"save">> \o Told, !.row = [NoZone EXCEPT !.servers = S],
                        !.drop = (zone.servers \ S) \ {Me}] \in Working
    BY <2>1, <2>2, <2>3, RestingWorks DEF Working
  <2>. QED
    BY <1>3, <1>b, <2>4 DEF SetServers
<1>s. <<"read", "store", "gather", "send">> \in Seq(Doing)
  BY DEF Doing
<1>4. ASSUME NEW S \in {{}, Server}, CreateZone(f, S) PROVE ZonesTypeOK'
  <2>. DEFINE z == [on |-> TRUE, life |-> zone.life + 1, serial |-> 0, recs |-> {},
                    servers |-> S \cup {Me}]
  <2>1. z \in Zone
    BY <1>4, ZonesAssumption DEF CreateZone, Zone
  <2>2. Bumped(z) \in Zone /\ Row(Bumped(z)) \in Zone
    BY <2>1, BumpedIsZone
  <2>3. [Resting EXCEPT !.todo = <<"read", "store", "gather", "send">>, !.row = Row(Bumped(z))] \in Working
    BY <1>s, <2>2, RestingWorks DEF Working
  <2>4. about' \in [Server -> Says]
    BY <1>4, RestingWorks DEF CreateZone
  <2>. QED
    BY <1>4, <1>b, <2>2, <2>3, <2>4 DEF CreateZone
<1>5. CASE DeleteZone(f)
  <2>1. [NoZone EXCEPT !.life = zone.life] \in Zone
    BY RestingWorks DEF Zone
  <2>2. zone.servers \ {Me} \subseteq Server
    BY DEF Zone
  <2>3. [Resting EXCEPT !.todo = <<"read", "store", "gather", "send">>, !.row = Row(zone),
                        !.drop = zone.servers \ {Me}] \in Working
    BY <1>s, <2>2, BumpedIsZone, RestingWorks DEF Working
  <2>. QED
    BY <1>5, <1>b, <2>1, <2>3 DEF DeleteZone
<1>6. CASE ChangeNames(f)
  <2>1. [Resting EXCEPT !.todo = Told] \in Working
    BY RestingWorks DEF Working
  <2>2. names' \in {1, 2}
    BY <1>6 DEF ChangeNames
  <2>. QED
    BY <1>6, <1>b, <2>1, <2>2 DEF ChangeNames
<1>. QED
  BY <1>1, <1>2, <1>3, <1>4, <1>5, <1>6 DEF Asks

(* The zone, the tasks and what servers were told keep their types.          *)
THEOREM ZonesAreTyped == ZonesSpec => []ZonesTypeOK
<1>0. [t \in Task |-> IF t = Loop THEN Booting ELSE Resting] \in [Task -> Working]
  BY RestingWorks
<1>1. ZonesInit => ZonesTypeOK
  <2>1. [s \in Server |-> Silence] \in [Server -> Says]
    BY RestingWorks
  <2>2. 0 \in 0 .. MaxChanges
    BY ZonesAssumption
  <2>. QED
    BY <1>0, <2>1, <2>2, RestingWorks DEF ZonesInit, ZonesTypeOK
<1>2. ZonesTypeOK /\ [ZonesNext]_zones => ZonesTypeOK'
  <2>. SUFFICES ASSUME ZonesTypeOK, [ZonesNext]_zones PROVE ZonesTypeOK'
    OBVIOUS
  <2>1. CASE Recheck
    <3>1. <<"read", "store">> \in Seq(Doing)
      BY DEF Doing
    <3>2. [Resting EXCEPT !.todo = <<"read", "store">>] \in Working
      BY <3>1, RestingWorks DEF Working
    <3>. QED
      BY <2>1, <3>2 DEF Recheck, ZonesTypeOK
  <2>2. CASE ClockMoves
    BY <2>2, ZonesAssumption DEF ClockMoves, ZonesTypeOK
  <2>3. CASE ZonesStop
    <3>1. UNION {work[t].drop : t \in Task} \subseteq Server
      BY DEF ZonesTypeOK, Working
    <3>2. work' \in [Task -> Working]
      BY <1>0, <2>3 DEF ZonesStop
    <3>3. left' \subseteq Server /\ answers' \in Says /\ crossed' \in BOOLEAN
      BY <2>3, <3>1, RestingWorks DEF ZonesStop, ZonesTypeOK
    <3>4. changes' \in 0 .. MaxChanges
      BY <2>3, ZonesAssumption DEF ZonesStop, ZonesTypeOK
    <3>. QED
      BY <2>3, <3>2, <3>3, <3>4 DEF ZonesStop, ZonesTypeOK
  <2>4. CASE UNCHANGED zones
    BY <2>4 DEF zones, ZonesTypeOK
  <2>. QED
    BY <2>1, <2>2, <2>3, <2>4, WorkIsTyped, AskingIsTyped DEF ZonesNext
<1>. QED
  BY <1>1, <1>2, PTL DEF ZonesSpec

------------------------------------------------------------------------------
(* What each server was told of the zone. *)

(* The lists of a task that still has to look the zone up, of one that did,  *)
(* and of the listener that only reads what it answers.                      *)
ToFind == {<<"insert", "read", "store", "find", "gather", "send">>,
           <<"save", "read", "store", "find", "gather", "send">>,
           <<"read", "store", "find", "gather", "send">>,
           <<"store", "find", "gather", "send">>, <<"find", "gather", "send">>}
ToGather == {<<"read", "store", "gather", "send">>, <<"store", "gather", "send">>,
             <<"gather", "send">>}
ToSend == {<<"send">>}
ToLook == {<<"read", "store">>, <<"store">>}

Telling(t) == work[t].todo \in ToFind \cup ToGather \cup ToSend

(* A list with the look-up before it goes on to the look-up.                *)
LEMMA ListsToFind ==
    \A todo \in ToFind :
      /\ todo # << >> /\ todo \notin ToGather /\ todo \notin ToSend
      /\ Head(todo) \in {"insert", "save", "read", "store", "find"}
      /\ Head(todo) = "find" => Tail(todo) = <<"gather", "send">>
      /\ Head(todo) # "find" =>
            /\ Tail(todo) \in ToFind
            /\ Head(Tail(todo)) \notin {"insert", "save"}
<1>. SUFFICES ASSUME NEW todo \in ToFind
              PROVE  /\ todo # << >> /\ todo \notin ToGather /\ todo \notin ToSend
                     /\ Head(todo) \in {"insert", "save", "read", "store", "find"}
                     /\ Head(todo) = "find" => Tail(todo) = <<"gather", "send">>
                     /\ Head(todo) # "find" =>
                          /\ Tail(todo) \in ToFind
                          /\ Head(Tail(todo)) \notin {"insert", "save"}
  OBVIOUS
<1>1. CASE todo = <<"insert", "read", "store", "find", "gather", "send">>
  BY <1>1 DEF ToFind, ToGather, ToSend
<1>2. CASE todo = <<"save", "read", "store", "find", "gather", "send">>
  BY <1>2 DEF ToFind, ToGather, ToSend
<1>3. CASE todo = <<"read", "store", "find", "gather", "send">>
  BY <1>3 DEF ToFind, ToGather, ToSend
<1>4. CASE todo = <<"store", "find", "gather", "send">>
  BY <1>4 DEF ToFind, ToGather, ToSend
<1>5. CASE todo = <<"find", "gather", "send">>
  BY <1>5 DEF ToFind, ToGather, ToSend
<1>. QED
  BY <1>1, <1>2, <1>3, <1>4, <1>5 DEF ToFind
(* One past it goes on to what is sent.                                     *)
LEMMA ListsToGather ==
    \A todo \in ToGather :
      /\ todo # << >> /\ todo \notin ToFind /\ todo \notin ToSend
      /\ Head(todo) \in {"read", "store", "gather"}
      /\ Head(todo) = "gather" => Tail(todo) = <<"send">>
      /\ Head(todo) # "gather" => Tail(todo) \in ToGather
<1>. SUFFICES ASSUME NEW todo \in ToGather
              PROVE  /\ todo # << >> /\ todo \notin ToFind /\ todo \notin ToSend
                     /\ Head(todo) \in {"read", "store", "gather"}
                     /\ Head(todo) = "gather" => Tail(todo) = <<"send">>
                     /\ Head(todo) # "gather" => Tail(todo) \in ToGather
  OBVIOUS
<1>1. CASE todo = <<"read", "store", "gather", "send">>
  BY <1>1 DEF ToFind, ToGather, ToSend
<1>2. CASE todo = <<"store", "gather", "send">>
  BY <1>2 DEF ToFind, ToGather, ToSend
<1>3. CASE todo = <<"gather", "send">>
  BY <1>3 DEF ToFind, ToGather, ToSend
<1>. QED
  BY <1>1, <1>2, <1>3 DEF ToGather
(* The listener's own look is neither.                                       *)
LEMMA ListsToLook ==
    \A todo \in ToLook :
      /\ todo # << >> /\ todo \notin ToFind \cup ToGather \cup ToSend
      /\ Head(todo) \in {"read", "store"}
      /\ Head(todo) = "read" => Tail(todo) = <<"store">>
      /\ Head(todo) = "store" => Tail(todo) = << >>
<1>. SUFFICES ASSUME NEW todo \in ToLook
              PROVE  /\ todo # << >> /\ todo \notin ToFind \cup ToGather \cup ToSend
                     /\ Head(todo) \in {"read", "store"}
                     /\ Head(todo) = "read" => Tail(todo) = <<"store">>
                     /\ Head(todo) = "store" => Tail(todo) = << >>
  OBVIOUS
<1>1. CASE todo = <<"read", "store">>
  BY <1>1 DEF ToFind, ToGather, ToSend
<1>2. CASE todo = <<"store">>
  BY <1>2 DEF ToFind, ToGather, ToSend
<1>. QED
  BY <1>1, <1>2 DEF ToLook
(* What the forms give their tasks to do.                                   *)
LEMMA ListsOfForms ==
    /\ <<"insert">> \o Told \in ToFind /\ <<"save">> \o Told \in ToFind /\ Told \in ToFind
    /\ Head(<<"insert">> \o Told) = "insert" /\ Head(<<"save">> \o Told) = "save"
    /\ Head(Told) = "read"
    /\ Head(<<"send">>) = "send"
    /\ << >> \notin ToFind \cup ToGather \cup ToSend \cup ToLook
<1>0. ASSUME NEW first \in Doing
      PROVE  <<first>> \o Told = <<first, "read", "store", "find", "gather", "send">>
  <2>1. <<first>> \in Seq(Doing) /\ Told \in Seq(Doing) /\ Len(Told) = 5 /\ Len(<<first>>) = 1
    BY RestingWorks DEF Told
  <2>. DEFINE s == <<first>> \o Told
              t == <<first, "read", "store", "find", "gather", "send">>
  <2>2. s \in Seq(Doing) /\ Len(s) = 6 /\ \A k \in 1 .. 6 : s[k] = IF k <= 1 THEN first ELSE Told[k - 1]
    <3>1. /\ s \in Seq(Doing) /\ Len(s) = Len(<<first>>) + Len(Told)
          /\ \A k \in 1 .. Len(<<first>>) + Len(Told) :
               s[k] = IF k <= Len(<<first>>) THEN <<first>>[k] ELSE Told[k - Len(<<first>>)]
      BY <2>1, ConcatProperties
    <3>2. Len(<<first>>) + Len(Told) = 6
      BY <2>1
    <3>3. \A k \in 1 .. 6 : k <= 1 => <<first>>[k] = first
      OBVIOUS
    <3>. HIDE DEF s
    <3>. QED
      BY <2>1, <3>1, <3>2, <3>3
  <2>3. s[1] = first /\ s[2] = Told[1] /\ s[3] = Told[2] /\ s[4] = Told[3] /\ s[5] = Told[4]
        /\ s[6] = Told[5]
    BY <2>2
  <2>4. t \in Seq(Doing) /\ Len(t) = 6
    BY DEF Doing
  <2>5. \A k \in 1 .. 6 : s[k] = t[k]
    BY <2>3 DEF Told
  <2>. HIDE DEF s, t
  <2>. QED
    BY <2>2, <2>4, <2>5, SeqEqual DEF s, t
<1>1. <<"insert">> \o Told = <<"insert", "read", "store", "find", "gather", "send">>
  BY <1>0 DEF Doing
<1>2. <<"save">> \o Told = <<"save", "read", "store", "find", "gather", "send">>
  BY <1>0 DEF Doing
<1>3. << >> \notin ToFind \cup ToGather \cup ToSend \cup ToLook
  BY ListsToFind, ListsToGather, ListsToLook DEF ToSend
<1>. QED
  BY <1>1, <1>2, <1>3 DEF ToFind, Told

(* What a task has before it is one of those lists, and only the listener's  *)
(* own look tells nobody.                                                    *)
Listed(t) ==
    \/ work[t] = Resting
    \/ Telling(t)
    \/ t = Loop /\ work[t].todo \in ToLook /\ work[t].drop = {}

(* Nobody tells of a life of the zone that is over, or with no serial.       *)
OfThisLife(t) ==
    /\ work[t].todo \in ToGather => work[t].row.life = zone.life /\ work[t].row.serial > 0
    /\ work[t].todo \in ToSend => work[t].row.life = zone.life /\ work[t].says.serial > 0

(* The last errand about this life of the zone is the last that named it.    *)
AboutIsLast == \A s \in Server : about[s] # Silence => about[s] = last[s]

(* What the one task that tells has in hand is what the rows say, and it has *)
(* everybody before it who was not told, and everybody it takes off.         *)
InHand(t) ==
    /\ work[t].todo \in ToFind =>
        /\ work[t].drop # {} => zone.on
        /\ Head(work[t].todo) \in {"insert", "save"} => zone.on
        /\ Head(work[t].todo) = "save" =>
               zone.servers \subseteq work[t].row.servers \cup work[t].drop \cup {Me}
    /\ work[t].todo \in ToGather /\ zone.on => work[t].row = Row(zone)
    /\ work[t].todo \in ToSend =>
        IF zone.on
        THEN /\ work[t].says = Saying(zone) /\ work[t].tell \subseteq zone.servers \ {Me}
             /\ work[t].drop \cap zone.servers = {}
             /\ \A s \in (zone.servers \ {Me}) \ work[t].tell : last[s] = Saying(zone)
        ELSE work[t].tell = {}

(* Every server chosen was told the zone as it is.                           *)
AllWereTold == zone.on => \A s \in zone.servers \ {Me} : last[s] = Saying(zone)

(* Who answers is chosen, was left by a stop, or is about to be told.        *)
OthersAreOff ==
    \A s \in Server : last[s].on =>
        \/ s \in left \/ (zone.on /\ s \in zone.servers)
        \/ \E t \in Task : s \in work[t].drop

(* Unless forms crossed, one task tells at a time, and what is not in its    *)
(* hand was told.                                                            *)
TellsInTurn ==
    /\ \A t, u \in Task : Telling(t) /\ Telling(u) => t = u
    /\ \A t \in Task : InHand(t)
    /\ (\A t \in Task : ~Telling(t)) => AllWereTold
    /\ OthersAreOff

(* The inductive invariant of what servers are told.                         *)
TellingInvariant ==
    /\ zone.on => zone.serial > 0
    /\ \A t \in Task : Listed(t) /\ OfThisLife(t)
    /\ AboutIsLast
    /\ ~crossed => TellsInTurn

(* Who does not tell has nothing in hand.                                    *)
LEMMA LookersHoldNothing ==
    ASSUME TellingInvariant, NEW t \in Task, ~Telling(t)
    PROVE  InHand(t) /\ OfThisLife(t) /\ work[t].drop = {}
<1>1. InHand(t) /\ OfThisLife(t)
  BY DEF Telling, InHand, OfThisLife
<1>2. work[t] = Resting \/ work[t].drop = {}
  BY DEF TellingInvariant, Listed
<1>. QED
  BY <1>1, <1>2 DEF Resting

(* A step of one task.                                                       *)
LEMMA OneTaskGoesOn ==
    ASSUME TellingInvariant, NEW t \in Task,
           \A u \in Task \ {t} : work'[u] = work[u],
           \A u \in Task \ {t} : OfThisLife(u)',
           zone'.on => zone'.serial > 0, AboutIsLast', Listed(t)', OfThisLife(t)',
           ~crossed' => \A u \in Task \ {t} : ~Telling(u),
           ~crossed' => InHand(t)',
           ~crossed' => OthersAreOff',
           ~crossed' => Telling(t)' \/ AllWereTold'
    PROVE  TellingInvariant'
<1>1. \A u \in Task \ {t} : Listed(u)' /\ (Telling(u)' <=> Telling(u))
  BY DEF TellingInvariant, Listed, Telling
<1>2. ASSUME ~crossed' PROVE TellsInTurn'
  <2>1. \A u \in Task \ {t} : ~Telling(u)'
    BY <1>1, <1>2
  <2>2. \A u \in Task \ {t} : InHand(u)'
    BY <2>1 DEF Telling, InHand
  <2>3. \A u \in Task : InHand(u)'
    BY <1>2, <2>2
  <2>4. \A u, v \in Task : Telling(u)' /\ Telling(v)' => u = v
    BY <2>1
  <2>5. (\A u \in Task : ~Telling(u)') => AllWereTold'
    BY <1>2
  <2>. QED
    BY <1>2, <2>3, <2>4, <2>5 DEF TellsInTurn
<1>3. \A u \in Task : Listed(u)' /\ OfThisLife(u)'
  BY <1>1
<1>4. (zone'.on => zone'.serial > 0) /\ AboutIsLast'
  OBVIOUS
<1>. QED
  BY <1>2, <1>3, <1>4 DEF TellingInvariant

(* A look of the listener changes nothing of this.                           *)
LEMMA ALookChangesNothing ==
    ASSUME TellingInvariant, NEW t \in Task, ~Telling(t), Listed(t)', ~Telling(t)',
           \A u \in Task \ {t} : work'[u] = work[u],
           UNCHANGED <<zone, names, last, about, crossed, left>>
    PROVE  TellingInvariant'
<1>1. \A u \in Task : (Telling(u)' <=> Telling(u)) /\ Listed(u)'
  BY DEF TellingInvariant, Telling, Listed
<1>2. \A u \in Task : OfThisLife(u)'
  <2>1. OfThisLife(t)'
    BY DEF OfThisLife, Telling
  <2>. QED
    BY <2>1 DEF TellingInvariant, OfThisLife
<1>3. ASSUME TellsInTurn PROVE TellsInTurn'
  <2>1. \A u \in Task : InHand(u)'
    <3>1. InHand(t)'
      BY DEF InHand, Telling
    <3>2. \A u \in Task \ {t} : InHand(u)'
      BY <1>3 DEF TellsInTurn, InHand, Row, Saying
    <3>. QED
      BY <3>1, <3>2
  <2>2. AllWereTold => AllWereTold'
    BY DEF AllWereTold, Saying
  <2>3. OthersAreOff'
    <3>1. work[t].drop = {}
      BY LookersHoldNothing
    <3>2. \A s \in Server : (\E u \in Task : s \in work[u].drop)
                          => \E u \in Task : s \in work'[u].drop
      BY <3>1
    <3>. QED
      BY <1>3, <3>2 DEF TellsInTurn, OthersAreOff
  <2>. QED
    BY <1>1, <1>3, <2>1, <2>2, <2>3 DEF TellsInTurn
<1>. QED
  BY <1>1, <1>2, <1>3 DEF TellingInvariant, AboutIsLast

(* Nor does the clock.                                                       *)
LEMMA NothingIsTold ==
    ASSUME TellingInvariant, UNCHANGED <<zone, names, work, last, about, crossed, left>>
    PROVE  TellingInvariant'
BY DEF TellingInvariant, Telling, Listed, OfThisLife, AboutIsLast, TellsInTurn, InHand,
       AllWereTold, OthersAreOff, Row, Saying

(* Where a task is says which list it has before it.                         *)
LEMMA WhereItIs ==
    ASSUME TellingInvariant, NEW t \in Task, NEW what, At(t, what)
    PROVE  /\ what \in {"insert", "save", "find"} => work[t].todo \in ToFind
           /\ what = "gather" => work[t].todo \in ToGather
           /\ what = "send" => work[t].todo \in ToSend
           /\ what \in {"insert", "save", "find", "gather", "send"} => Telling(t)
           /\ work[t] # Resting
<1>1. work[t].todo # << >> /\ Head(work[t].todo) = what /\ work[t] # Resting
  BY DEF At, Resting
<1>2. work[t].todo \in ToFind \cup ToGather \cup ToSend \cup ToLook
  BY <1>1 DEF TellingInvariant, Listed, Telling
<1>3. work[t].todo \in ToSend => what = "send"
  BY <1>1, ListsOfForms DEF ToSend
<1>. QED
  BY <1>1, <1>2, <1>3, ListsToFind, ListsToGather, ListsToLook DEF Telling

(* A bumped zone has a serial.                                               *)
LEMMA BumpedHasSerial ==
    ASSUME ZonesTypeOK, NEW z \in Zone
    PROVE  Bumped(z).serial > 0
           /\ Bumped(z) = [z EXCEPT !.serial = NextSerial(z.serial)]
<1>1. NextSerial(z.serial) \in 0 .. MaxSerial /\ NextSerial(z.serial) > 0
  BY NextIsLater, ZonesAssumption DEF ZonesTypeOK, Zone
<1>. QED
  BY <1>1 DEF Bumped, Zone

(* A record is inserted.                                                     *)
LEMMA InsertTells ==
    ASSUME ZonesTypeOK, TellingInvariant, NEW t \in Task, InsertRecord(t)
    PROVE  TellingInvariant'
<1>1. /\ At(t, "insert") /\ work[t] \in Working /\ work \in [Task -> Working]
      /\ work[t].todo # << >> /\ Head(work[t].todo) = "insert"
      /\ UNCHANGED <<names, last, about, crossed, left>>
  BY DEF InsertRecord, At, ZonesTypeOK
<1>2. work[t].todo \in ToFind /\ Telling(t)
  BY <1>1, WhereItIs
<1>3. ~crossed => zone.on
  BY <1>1, <1>2 DEF TellingInvariant, TellsInTurn, InHand
<1>4. ~crossed => \A u \in Task \ {t} : ~Telling(u)
  BY <1>2 DEF TellingInvariant, TellsInTurn
<1>5. \A u \in Task \ {t} : work'[u] = work[u]
  BY <1>1 DEF InsertRecord
<1>6. CASE zone.on
  <2>. DEFINE w == [Done(t) EXCEPT !.add = {}]
              z == [zone EXCEPT !.recs = zone.recs \cup work[t].add]
  <2>1. work' = [work EXCEPT ![t] = w] /\ zone' = Bumped(z)
    BY <1>6, Zenon DEF InsertRecord
  <2>2. /\ w.todo \in ToFind /\ Head(w.todo) \notin {"insert", "save"}
        /\ w.drop = work[t].drop
    BY <1>1, <1>2, ListsToFind DEF Done, Working
  <2>3. z \in Zone
    BY <1>1 DEF Zone, Working, ZonesTypeOK
  <2>4. /\ zone'.serial > 0 /\ zone'.on /\ zone'.life = zone.life
        /\ zone'.servers = zone.servers
    <3>1. z.on /\ z.life = zone.life /\ z.servers = zone.servers
      BY <1>6 DEF ZonesTypeOK, Zone
    <3>. HIDE DEF z
    <3>. QED
      BY <2>1, <2>3, <3>1, BumpedHasSerial DEF Zone
  <2>. HIDE DEF w, z
  <2>5. work'[t] = w
    BY <1>1, <2>1
  <2>6. \A u \in Task \ {t} : OfThisLife(u)'
    BY <1>5, <2>4 DEF OfThisLife, TellingInvariant
  <2>7. Telling(t)' /\ Listed(t)' /\ OfThisLife(t)' /\ InHand(t)'
    BY <2>2, <2>4, <2>5, ListsToFind DEF Telling, Listed, OfThisLife, InHand
  <2>8. OthersAreOff => OthersAreOff'
    <3>1. \A u \in Task : work'[u].drop = work[u].drop
      BY <1>5, <2>2, <2>5
    <3>. QED
      BY <1>1, <1>6, <2>4, <3>1 DEF OthersAreOff
  <2>9. AboutIsLast'
    BY <1>1 DEF TellingInvariant, AboutIsLast
  <2>. QED
    BY <1>1, <1>4, <1>5, <2>4, <2>6, <2>7, <2>8, <2>9, OneTaskGoesOn
       DEF TellingInvariant, TellsInTurn
<1>7. CASE ~zone.on
  <2>1. work'[t] = Resting /\ zone' = zone /\ crossed /\ crossed'
    BY <1>1, <1>3, <1>7 DEF InsertRecord
  <2>2. \A u \in Task \ {t} : OfThisLife(u)'
    BY <1>5, <2>1 DEF OfThisLife, TellingInvariant
  <2>3. Listed(t)' /\ OfThisLife(t)'
    BY <2>1, ListsOfForms DEF Listed, OfThisLife, Resting
  <2>9. AboutIsLast'
    BY <1>1 DEF TellingInvariant, AboutIsLast
  <2>. QED
    BY <1>5, <1>7, <2>1, <2>2, <2>3, <2>9, OneTaskGoesOn
<1>. QED
  BY <1>6, <1>7

(* The servers are saved: who is taken off is in hand.                       *)
LEMMA SavingTells ==
    ASSUME ZonesTypeOK, TellingInvariant, NEW t \in Task, SaveServers(t)
    PROVE  TellingInvariant'
<1>1. /\ At(t, "save") /\ work[t] \in Working /\ work \in [Task -> Working]
      /\ work[t].todo # << >> /\ Head(work[t].todo) = "save"
      /\ UNCHANGED <<names, last, about, crossed, left>>
  BY DEF SaveServers, At, ZonesTypeOK
<1>2. work[t].todo \in ToFind /\ Telling(t)
  BY <1>1, WhereItIs
<1>3. ~crossed => /\ zone.on
                  /\ zone.servers \subseteq work[t].row.servers \cup work[t].drop \cup {Me}
  BY <1>1, <1>2 DEF TellingInvariant, TellsInTurn, InHand
<1>4. ~crossed => \A u \in Task \ {t} : ~Telling(u)
  BY <1>2 DEF TellingInvariant, TellsInTurn
<1>. DEFINE w == [Done(t) EXCEPT !.row = NoZone]
            z == [zone EXCEPT !.servers = work[t].row.servers]
<1>5. work' = [work EXCEPT ![t] = w] /\ zone' = IF zone.on THEN Bumped(z) ELSE zone
  BY DEF SaveServers
<1>6. /\ w.todo \in ToFind /\ Head(w.todo) \notin {"insert", "save"} /\ w.drop = work[t].drop
  BY <1>1, <1>2, ListsToFind DEF Done, Working
<1>7. z \in Zone
  BY <1>1 DEF Zone, Working, ZonesTypeOK
<1>8. /\ zone'.on => zone'.serial > 0
      /\ zone'.on = zone.on /\ zone'.life = zone.life
      /\ zone.on => zone'.servers = work[t].row.servers
  <2>1. z.on = zone.on /\ z.life = zone.life /\ z.servers = work[t].row.servers
    BY DEF ZonesTypeOK, Zone
  <2>. HIDE DEF z
  <2>. QED
    BY <1>5, <1>7, <2>1, BumpedHasSerial DEF Zone, TellingInvariant
<1>. HIDE DEF w, z
<1>9. work'[t] = w /\ \A u \in Task \ {t} : work'[u] = work[u]
  BY <1>1, <1>5
<1>10. \A u \in Task \ {t} : OfThisLife(u)'
  BY <1>8, <1>9 DEF OfThisLife, TellingInvariant
<1>11. Telling(t)' /\ Listed(t)' /\ OfThisLife(t)'
  BY <1>6, <1>9, ListsToFind DEF Telling, Listed, OfThisLife
<1>12. ~crossed => InHand(t)'
  BY <1>3, <1>6, <1>8, <1>9, ListsToFind DEF InHand
<1>13. ~crossed => OthersAreOff'
  <2>1. \A u \in Task : work'[u].drop = work[u].drop
    BY <1>6, <1>9
  <2>2. Me \notin Server
    BY ZonesAssumption
  <2>3. ~crossed => OthersAreOff
    BY DEF TellingInvariant, TellsInTurn
  <2>. QED
    BY <1>1, <1>3, <1>8, <2>1, <2>2, <2>3 DEF OthersAreOff
<1>14. AboutIsLast'
  BY <1>1 DEF TellingInvariant, AboutIsLast
<1>. QED
  BY <1>1, <1>4, <1>8, <1>9, <1>10, <1>11, <1>12, <1>13, <1>14, OneTaskGoesOn

(* The rows of the listener's table are read.                                *)
LEMMA ReadingTells ==
    ASSUME ZonesTypeOK, TellingInvariant, NEW t \in Task,
           ReadRows(t) \/ StoreTable(t)
    PROVE  TellingInvariant'
<1>1. /\ work[t] \in Working /\ work \in [Task -> Working]
      /\ work[t].todo # << >> /\ Head(work[t].todo) \in {"read", "store"}
      /\ UNCHANGED <<zone, names, last, about, crossed, left>>
  BY DEF ReadRows, StoreTable, At, ZonesTypeOK
<1>2. PICK w : /\ work' = [work EXCEPT ![t] = w]
               /\ \/ w = Resting /\ Tail(work[t].todo) = << >>
                  \/ \E says : w = [Done(t) EXCEPT !.says = says]
  <2>1. CASE ReadRows(t)
    BY <2>1 DEF ReadRows
  <2>2. CASE StoreTable(t)
    <3>1. Done(t).todo = Tail(work[t].todo)
      BY <1>1 DEF Done, Working
    <3>2. work' = [work EXCEPT ![t] = IF Done(t).todo = << >> THEN Resting
                                      ELSE [Done(t) EXCEPT !.says = Silence]]
      BY <2>2 DEF StoreTable
    <3>. QED
      BY <3>1, <3>2
  <2>. QED
    BY <2>1, <2>2
<1>3. \/ w = Resting /\ Tail(work[t].todo) = << >>
      \/ /\ w.todo = Tail(work[t].todo) /\ w.drop = work[t].drop /\ w.row = work[t].row
         /\ w.tell = work[t].tell
  BY <1>1, <1>2 DEF Done, Working
<1>4. work'[t] = w /\ \A u \in Task \ {t} : work'[u] = work[u]
  BY <1>1, <1>2
<1>5. CASE Telling(t)
  <2>1. work[t].todo \in ToFind \cup ToGather
    BY <1>1, <1>5, ListsOfForms DEF Telling, ToSend
  <2>2. /\ w.todo = Tail(work[t].todo) /\ w.drop = work[t].drop /\ w.row = work[t].row
        /\ work[t].todo \in ToFind =>
             w.todo \in ToFind /\ Head(w.todo) \notin {"insert", "save"}
        /\ work[t].todo \in ToGather => w.todo \in ToGather
    BY <1>1, <1>3, <2>1, ListsToFind, ListsToGather, ListsOfForms
  <2>3. \A u \in Task \ {t} : OfThisLife(u)'
    BY <1>1, <1>4 DEF OfThisLife, TellingInvariant
  <2>4. Telling(t)' /\ Listed(t)'
    BY <1>4, <2>1, <2>2 DEF Telling, Listed
  <2>5. OfThisLife(t)'
    BY <1>1, <1>4, <2>1, <2>2, ListsToFind, ListsToGather DEF OfThisLife, TellingInvariant
  <2>6. ~crossed => InHand(t)'
    <3>1. ASSUME ~crossed PROVE InHand(t)
      BY <3>1 DEF TellingInvariant, TellsInTurn
    <3>2. InHand(t) => InHand(t)'
      BY <1>1, <1>4, <2>1, <2>2, ListsToFind, ListsToGather DEF InHand, Row
    <3>. QED
      BY <3>1, <3>2
  <2>7. ~crossed => OthersAreOff'
    <3>1. \A u \in Task : work'[u].drop = work[u].drop
      BY <1>4, <2>2
    <3>. QED
      BY <1>1, <3>1 DEF OthersAreOff, TellingInvariant, TellsInTurn
  <2>8. ~crossed => \A u \in Task \ {t} : ~Telling(u)
    BY <1>5 DEF TellingInvariant, TellsInTurn
  <2>9. AboutIsLast' /\ (zone'.on => zone'.serial > 0)
    BY <1>1 DEF TellingInvariant, AboutIsLast
  <2>. QED
    BY <1>1, <1>4, <2>3, <2>4, <2>5, <2>6, <2>7, <2>8, <2>9, OneTaskGoesOn
<1>6. CASE ~Telling(t)
  <2>1. t = Loop /\ work[t].todo \in ToLook /\ work[t].drop = {}
    BY <1>1, <1>6 DEF TellingInvariant, Listed, Resting
  <2>2. \/ w = Resting
        \/ w.todo = <<"store">> /\ w.drop = {}
        \/ w.todo = << >> /\ StoreTable(t)
    <3>1. Head(work[t].todo) = "store" => StoreTable(t)
      BY <1>1 DEF ReadRows, StoreTable, At
    <3>. QED
      BY <1>1, <1>3, <2>1, <3>1, ListsToLook
  <2>3. \/ w = Resting
        \/ w.todo = <<"store">> /\ w.drop = {}
    <3>1. ASSUME StoreTable(t), w.todo = << >> PROVE w = Resting
      <4>1. work'[t] = IF Done(t).todo = << >> THEN Resting ELSE [Done(t) EXCEPT !.says = Silence]
        BY <1>1, <3>1 DEF StoreTable
      <4>2. [Done(t) EXCEPT !.says = Silence].todo = Done(t).todo
        BY <1>1 DEF Done, Working
      <4>. QED
        BY <1>4, <3>1, <4>1, <4>2
    <3>. QED
      BY <2>2, <3>1
  <2>4. Listed(t)' /\ ~Telling(t)'
    <3>1. <<"store">> \in ToLook
      BY DEF ToLook
    <3>2. ~Telling(t)'
      BY <1>4, <2>3, <3>1, ListsToLook, ListsOfForms DEF Telling, Resting
    <3>. QED
      BY <1>4, <2>1, <2>3, <3>1, <3>2 DEF Listed
  <2>. QED
    BY <1>1, <1>4, <1>6, <2>4, ALookChangesNothing
<1>. QED
  BY <1>5, <1>6

(* The zone is looked up.                                                    *)
LEMMA FindingTells ==
    ASSUME ZonesTypeOK, TellingInvariant, NEW t \in Task, FindZone(t)
    PROVE  TellingInvariant'
<1>1. /\ At(t, "find") /\ work[t] \in Working /\ work \in [Task -> Working]
      /\ work[t].todo # << >> /\ Head(work[t].todo) = "find"
      /\ UNCHANGED <<zone, names, last, about, crossed, left>>
  BY DEF FindZone, At, ZonesTypeOK
<1>2. work[t].todo \in ToFind /\ Telling(t)
  BY <1>1, WhereItIs
<1>3. ~crossed => \A u \in Task \ {t} : ~Telling(u)
  BY <1>2 DEF TellingInvariant, TellsInTurn
<1>4. AboutIsLast' /\ (zone'.on => zone'.serial > 0)
  BY <1>1 DEF TellingInvariant, AboutIsLast
<1>. DEFINE w == IF zone.on THEN [Done(t) EXCEPT !.row = Row(zone)] ELSE Resting
<1>5. work'[t] = w /\ \A u \in Task \ {t} : work'[u] = work[u]
  BY <1>1 DEF FindZone
<1>6. \A u \in Task \ {t} : OfThisLife(u)'
  BY <1>1, <1>5 DEF OfThisLife, TellingInvariant
<1>7. ~crossed => /\ work[t].drop # {} => zone.on
                  /\ OthersAreOff
  BY <1>2 DEF TellingInvariant, TellsInTurn, InHand
<1>8. CASE zone.on
  <2>1. w.todo = <<"gather", "send">> /\ w.drop = work[t].drop /\ w.row = Row(zone)
    BY <1>1, <1>2, <1>8, ListsToFind DEF Done, Working
  <2>2. <<"gather", "send">> \in ToGather /\ w.todo \in ToGather
    BY <2>1 DEF ToGather
  <2>3. Row(zone).life = zone.life /\ Row(zone).serial = zone.serial
    BY DEF Row, ZonesTypeOK, Zone
  <2>. HIDE DEF w
  <2>4. Telling(t)' /\ Listed(t)'
    BY <1>5, <2>2 DEF Telling, Listed
  <2>5. OfThisLife(t)'
    BY <1>1, <1>5, <1>8, <2>1, <2>2, <2>3, ListsToGather DEF OfThisLife, TellingInvariant
  <2>6. InHand(t)'
    BY <1>1, <1>5, <1>8, <2>1, <2>2, ListsToGather DEF InHand, Row
  <2>7. ~crossed => OthersAreOff'
    <3>1. \A u \in Task : work'[u].drop = work[u].drop
      BY <1>5, <2>1
    <3>. QED
      BY <1>1, <1>7, <3>1 DEF OthersAreOff
  <2>. QED
    BY <1>1, <1>3, <1>4, <1>5, <1>6, <2>4, <2>5, <2>6, <2>7, OneTaskGoesOn
<1>9. CASE ~zone.on
  <2>1. work'[t] = Resting
    BY <1>5, <1>9
  <2>2. Listed(t)' /\ OfThisLife(t)' /\ InHand(t)'
    BY <2>1, ListsOfForms DEF Listed, OfThisLife, InHand, Resting
  <2>3. AllWereTold'
    BY <1>1, <1>9 DEF AllWereTold
  <2>4. ~crossed => OthersAreOff'
    <3>1. ASSUME ~crossed PROVE \A u \in Task : work[u].drop \subseteq work'[u].drop
      BY <1>5, <1>7, <1>9, <3>1
    <3>. QED
      BY <1>1, <1>7, <3>1 DEF OthersAreOff
  <2>. QED
    BY <1>1, <1>3, <1>4, <1>5, <1>6, <2>2, <2>3, <2>4, OneTaskGoesOn
<1>. QED
  BY <1>8, <1>9

(* Two words with the same in them are the same.                             *)
LEMMA SameWords ==
    ASSUME NEW a \in Says, NEW b \in Says,
           a.on = b.on, a.serial = b.serial, a.recs = b.recs, a.names = b.names
    PROVE  a = b
BY DEF Says

(* What goes with the serial is read, and whom to tell.                      *)
LEMMA GatheringTells ==
    ASSUME ZonesTypeOK, TellingInvariant, NEW t \in Task, Gather(t)
    PROVE  TellingInvariant'
<1>1. /\ At(t, "gather") /\ work[t] \in Working /\ work \in [Task -> Working]
      /\ work[t].todo # << >> /\ Head(work[t].todo) = "gather" /\ zone \in Zone
      /\ UNCHANGED <<zone, names, last, about, crossed, left>>
  BY DEF Gather, At, ZonesTypeOK
<1>2. work[t].todo \in ToGather /\ Telling(t)
  BY <1>1, WhereItIs
<1>3. ~crossed => \A u \in Task \ {t} : ~Telling(u)
  BY <1>2 DEF TellingInvariant, TellsInTurn
<1>4. AboutIsLast' /\ (zone'.on => zone'.serial > 0)
  BY <1>1 DEF TellingInvariant, AboutIsLast
<1>5. work[t].row.life = zone.life /\ work[t].row.serial > 0 /\ work[t].row \in Zone
  BY <1>1, <1>2 DEF TellingInvariant, OfThisLife, Working
<1>6. ~crossed => OthersAreOff /\ (zone.on => work[t].row = Row(zone))
  BY <1>2 DEF TellingInvariant, TellsInTurn, InHand
<1>. DEFINE to == IF zone.on THEN zone.servers \ {Me} ELSE {}
            recs == IF zone.on THEN zone.recs ELSE {}
            now == [Saying(work[t].row) EXCEPT !.recs = recs]
            next == [Done(t) EXCEPT !.says = now, !.tell = to, !.drop = @ \ to,
                                    !.row = [NoZone EXCEPT !.life = work[t].row.life]]
            w == IF to \cup work[t].drop = {} THEN Resting ELSE next
<1>7. work'[t] = w /\ \A u \in Task \ {t} : work'[u] = work[u]
  <2>1. work' = [work EXCEPT ![t] = w]
    BY <1>5, Zenon DEF Gather
  <2>. HIDE DEF w
  <2>. QED
    BY <1>1, <2>1
<1>8. now.serial > 0 /\ (~crossed /\ zone.on => now = Saying(zone))
  <2>1. now.serial = work[t].row.serial
    BY DEF Saying
  <2>2. ASSUME ~crossed, zone.on PROVE now = Saying(zone)
    <3>1. work[t].row.serial = zone.serial
      BY <1>1, <1>6, <2>2 DEF Row, Zone
    <3>2. recs = zone.recs /\ recs \subseteq Record
      BY <1>1, <2>2 DEF Zone
    <3>. HIDE DEF recs
    <3>3. Saying(zone) \in Says /\ Saying(work[t].row) \in Says
      BY <1>1, <1>5, SayingIsSaid
    <3>4. now \in Says
      BY <3>2, <3>3 DEF Says
    <3>5. /\ now.on = Saying(zone).on /\ now.serial = Saying(zone).serial
          /\ now.recs = Saying(zone).recs /\ now.names = Saying(zone).names
      BY <3>1, <3>2 DEF Saying
    <3>. HIDE DEF now
    <3>. QED
      BY <3>3, <3>4, <3>5, SameWords
  <2>. QED
    BY <1>5, <2>1, <2>2
<1>9. \A u \in Task \ {t} : OfThisLife(u)'
  BY <1>1, <1>7 DEF OfThisLife, TellingInvariant
<1>10. CASE to \cup work[t].drop = {}
  <2>1. work'[t] = Resting
    BY <1>7, <1>10
  <2>2. Listed(t)' /\ OfThisLife(t)' /\ InHand(t)'
    BY <2>1, ListsOfForms DEF Listed, OfThisLife, InHand, Resting
  <2>3. AllWereTold'
    BY <1>1, <1>10 DEF AllWereTold
  <2>4. ~crossed => OthersAreOff'
    <3>1. \A u \in Task : work[u].drop \subseteq work'[u].drop
      BY <1>7, <1>10
    <3>. QED
      BY <1>1, <1>6, <3>1 DEF OthersAreOff
  <2>. QED
    BY <1>1, <1>3, <1>4, <1>7, <1>9, <2>2, <2>3, <2>4, OneTaskGoesOn
<1>11. CASE to \cup work[t].drop # {}
  <2>1. work'[t] = next
    BY <1>7, <1>11
  <2>2. /\ work'[t].todo = <<"send">> /\ work'[t].says = now /\ work'[t].tell = to
        /\ work'[t].drop = work[t].drop \ to /\ work'[t].row.life = zone.life
    <3>1. [NoZone EXCEPT !.life = work[t].row.life].life = zone.life
      BY <1>5 DEF NoZone
    <3>2. Tail(work[t].todo) = <<"send">>
      BY <1>1, <1>2, ListsToGather
    <3>. HIDE DEF now, to
    <3>. QED
      BY <1>1, <2>1, <3>1, <3>2 DEF Done, Working
  <2>3. <<"send">> \in ToSend /\ <<"send">> \notin ToFind /\ <<"send">> \notin ToGather
    BY ListsToFind, ListsToGather DEF ToSend
  <2>. HIDE DEF next, w
  <2>4. Listed(t)' /\ Telling(t)'
    BY <2>2, <2>3 DEF Listed, Telling
  <2>5. OfThisLife(t)'
    <3>. HIDE DEF now, to
    <3>. QED
      BY <1>1, <1>8, <2>2, <2>3 DEF OfThisLife
  <2>6. ~crossed => InHand(t)'
    <3>1. Saying(zone)' = Saying(zone)
      BY <1>1 DEF Saying
    <3>2. /\ work'[t].todo \notin ToFind /\ work'[t].todo \notin ToGather
          /\ ~crossed /\ zone.on => work'[t].says = Saying(zone)
      BY <1>8, <2>2, <2>3
    <3>3. IF zone.on THEN to = zone.servers \ {Me} ELSE to = {}
      OBVIOUS
    <3>4. /\ zone.on => work'[t].drop \cap zone.servers = {}
          /\ (zone.servers \ {Me}) \ (zone.servers \ {Me}) = {}
      <4>1. Me \notin work[t].drop
        BY <1>1, ZonesAssumption DEF Working
      <4>. QED
        BY <2>2, <3>3, <4>1
    <3>. HIDE DEF now, to
    <3>5. CASE zone.on
      BY <1>1, <2>2, <3>1, <3>2, <3>3, <3>4, <3>5 DEF InHand
    <3>6. CASE ~zone.on
      BY <1>1, <2>2, <3>2, <3>3, <3>6 DEF InHand
    <3>. QED
      BY <3>5, <3>6
  <2>7. ~crossed => OthersAreOff'
    <3>1. \A u \in Task : work[u].drop \subseteq work'[u].drop \cup to
      BY <1>7, <2>2
    <3>. QED
      BY <1>1, <1>6, <3>1 DEF OthersAreOff
  <2>. QED
    BY <1>1, <1>3, <1>4, <1>7, <1>9, <2>4, <2>5, <2>6, <2>7, OneTaskGoesOn
<1>. QED
  BY <1>10, <1>11

(* What a server is told is its last word, also where it was told the same.  *)
LEMMA LastIsWhatIsSaid ==
    ASSUME ZonesTypeOK, TellingInvariant, NEW s \in Server, NEW says, says.serial > 0,
           Tells(s, says, zone.life)
    PROVE  /\ last'[s] = says /\ \A x \in Server \ {s} : last'[x] = last[x]
           /\ AboutIsLast'
<1>1. says # Silence
  BY DEF Silence
<1>2. /\ about' = [about EXCEPT ![s] = says]
      /\ last' = IF about[s] = says THEN last ELSE [last EXCEPT ![s] = says]
  BY DEF Tells
<1>3. last \in [Server -> Says] /\ about \in [Server -> Says]
  BY DEF ZonesTypeOK
<1>4. last'[s] = says /\ \A x \in Server \ {s} : last'[x] = last[x]
  BY <1>1, <1>2, <1>3 DEF TellingInvariant, AboutIsLast
<1>. QED
  BY <1>2, <1>3, <1>4 DEF TellingInvariant, AboutIsLast

(* A server is told, or that it serves the zone no more.                     *)
LEMMA SendingTells ==
    ASSUME ZonesTypeOK, TellingInvariant, NEW t \in Task, NEW s \in Server, Send(t, s)
    PROVE  TellingInvariant'
<1>1. /\ At(t, "send") /\ work[t] \in Working /\ work \in [Task -> Working]
      /\ work[t].todo # << >> /\ zone \in Zone
      /\ left' = left \ {s} /\ UNCHANGED <<zone, names, crossed>>
  BY DEF Send, At, ZonesTypeOK
<1>2. work[t].todo \in ToSend /\ Telling(t)
  BY <1>1, WhereItIs
<1>3. ~crossed => \A u \in Task \ {t} : ~Telling(u)
  BY <1>2 DEF TellingInvariant, TellsInTurn
<1>4. zone'.on => zone'.serial > 0
  BY <1>1 DEF TellingInvariant
<1>5. work[t].row.life = zone.life /\ work[t].says.serial > 0 /\ work[t].says \in Says
  BY <1>1, <1>2 DEF TellingInvariant, OfThisLife, Working
<1>6. ~crossed => OthersAreOff /\ InHand(t)
  BY DEF TellingInvariant, TellsInTurn
<1>. DEFINE off == [work[t].says EXCEPT !.on = FALSE, !.recs = {}]
            said == IF work[t].tell # {} THEN work[t].says ELSE off
            tell == work[t].tell \ {s}
            drop == work[t].drop \ {s}
            w == IF tell \cup drop = {} THEN Resting
                 ELSE [work[t] EXCEPT !.tell = tell, !.drop = drop]
<1>7. /\ IF work[t].tell # {} THEN s \in work[t].tell ELSE s \in work[t].drop
      /\ Tells(s, said, zone.life) /\ said.serial > 0
  <2>1. off.serial = work[t].says.serial
    BY <1>5 DEF Says
  <2>2. Tells(s, said, zone.life)
    BY <1>5, Zenon DEF Send
  <2>. QED
    BY <1>5, <2>1, <2>2 DEF Send
<1>8. /\ last'[s] = said /\ \A x \in Server \ {s} : last'[x] = last[x]
      /\ AboutIsLast'
  <2>. HIDE DEF said
  <2>. QED
    BY <1>7, LastIsWhatIsSaid
<1>9. work'[t] = w /\ \A u \in Task \ {t} : work'[u] = work[u]
  <2>1. work' = [work EXCEPT ![t] = w]
    BY DEF Send, Sent
  <2>. HIDE DEF w
  <2>. QED
    BY <1>1, <2>1
<1>10. \A u \in Task \ {t} : OfThisLife(u)'
  BY <1>1, <1>9 DEF OfThisLife, TellingInvariant
<1>11. \A u \in Task : work[u].drop \subseteq work'[u].drop \cup {s}
  <2>1. work[t].drop \subseteq w.drop \cup {s}
    BY <1>1 DEF Working
  <2>. HIDE DEF w
  <2>. QED
    BY <1>9, <2>1
<1>12. Saying(zone)' = Saying(zone) /\ Saying(zone).on
  BY <1>1 DEF Saying
<1>13. ASSUME ~crossed
       PROVE  /\ zone.on => tell \subseteq zone.servers \ {Me} /\ drop \cap zone.servers = {}
              /\ zone.on => work[t].says = Saying(zone)
              /\ zone.on => \A x \in (zone.servers \ {Me}) \ tell : last'[x] = Saying(zone)
              /\ ~zone.on => work[t].tell = {}
              /\ work[t].tell # {} => zone.on /\ s \in zone.servers
  <2>1. IF zone.on
        THEN /\ work[t].says = Saying(zone) /\ work[t].tell \subseteq zone.servers \ {Me}
             /\ work[t].drop \cap zone.servers = {}
             /\ \A x \in (zone.servers \ {Me}) \ work[t].tell : last[x] = Saying(zone)
        ELSE work[t].tell = {}
    BY <1>2, <1>6, <1>13 DEF InHand
  <2>2. zone.servers \ {Me} \subseteq Server
    BY <1>1 DEF Zone
  <2>3. s \in work[t].tell => said = work[t].says
    OBVIOUS
  <2>. HIDE DEF said
  <2>. QED
    BY <1>7, <1>8, <2>1, <2>2, <2>3
<1>14. ~crossed => OthersAreOff'
  <2>. SUFFICES ASSUME ~crossed, NEW x \in Server, last'[x].on
                PROVE  \/ x \in left' \/ (zone'.on /\ x \in zone'.servers)
                       \/ \E u \in Task : x \in work'[u].drop
    BY DEF OthersAreOff
  <2>1. CASE x = s
    <3>1. work[t].tell # {}
      BY <1>5, <1>8, <2>1 DEF Says
    <3>. QED
      BY <1>1, <1>13, <2>1, <3>1
  <2>2. CASE x # s
    <3>1. \/ x \in left \/ (zone.on /\ x \in zone.servers)
          \/ \E u \in Task : x \in work[u].drop
      BY <1>6, <1>8, <2>2 DEF OthersAreOff
    <3>. QED
      BY <1>1, <1>11, <2>2, <3>1
  <2>. QED
    BY <2>1, <2>2
<1>15. CASE tell \cup drop = {}
  <2>1. work'[t] = Resting
    BY <1>9, <1>15
  <2>2. Listed(t)' /\ OfThisLife(t)' /\ InHand(t)'
    BY <2>1, ListsOfForms DEF Listed, OfThisLife, InHand, Resting
  <2>3. ~crossed => AllWereTold'
    BY <1>1, <1>12, <1>13, <1>15 DEF AllWereTold
  <2>. QED
    BY <1>1, <1>3, <1>4, <1>8, <1>9, <1>10, <1>14, <2>2, <2>3, OneTaskGoesOn
<1>16. CASE tell \cup drop # {}
  <2>1. /\ work'[t].todo = work[t].todo /\ work'[t].says = work[t].says
        /\ work'[t].row = work[t].row /\ work'[t].tell = tell /\ work'[t].drop = drop
    <3>. HIDE DEF tell, drop
    <3>. QED
      BY <1>1, <1>9, <1>16 DEF Working
  <2>2. work[t].todo \notin ToFind /\ work[t].todo \notin ToGather
    BY <1>2, ListsToFind, ListsToGather
  <2>3. Listed(t)' /\ Telling(t)' /\ OfThisLife(t)'
    BY <1>1, <1>2, <1>5, <2>1, <2>2 DEF Listed, Telling, OfThisLife
  <2>4. ~crossed => InHand(t)'
    <3>1. ASSUME ~crossed, zone.on PROVE InHand(t)'
      <4>. HIDE DEF tell, drop
      <4>. QED
        BY <1>1, <1>12, <1>13, <2>1, <2>2, <3>1 DEF InHand
    <3>2. ASSUME ~crossed, ~zone.on PROVE InHand(t)'
      <4>1. tell = {}
        BY <1>13, <3>2
      <4>. HIDE DEF tell, drop
      <4>. QED
        BY <1>1, <2>1, <2>2, <3>2, <4>1 DEF InHand
    <3>. QED
      BY <3>1, <3>2
  <2>. QED
    BY <1>1, <1>3, <1>4, <1>8, <1>9, <1>10, <1>14, <2>3, <2>4, OneTaskGoesOn
<1>. QED
  BY <1>15, <1>16

(* A form begins: alone, or what is crossed stays so.                        *)
LEMMA AFormBegins ==
    ASSUME ZonesTypeOK, TellingInvariant, NEW f \in Form, NEW w, Begins(f, w)
    PROVE  /\ f \in Task /\ work'[f] = w /\ \A u \in Task \ {f} : work'[u] = work[u]
           /\ work[f].drop = {}
           /\ ~crossed' => ~crossed /\ \A u \in Task \ {f} : ~Telling(u)
           /\ ~crossed' /\ OthersAreOff =>
                \A s \in Server : last[s].on =>
                    s \in left \/ (zone.on /\ s \in zone.servers)
<1>1. /\ f \in Task /\ work \in [Task -> Working] /\ work[f] = Resting
      /\ work' = [work EXCEPT ![f] = w]
      /\ crossed' = (crossed \/ \E t \in Task \ {f} : ~Idle(t))
  BY DEF Begins, Idle, Task, ZonesTypeOK
<1>2. ASSUME ~crossed' PROVE ~crossed /\ \A u \in Task : work[u] = Resting
  BY <1>1, <1>2 DEF Idle
<1>3. work[f].drop = {}
  BY <1>1 DEF Resting
<1>4. \A u \in Task : work[u] = Resting => ~Telling(u) /\ work[u].drop = {}
  BY ListsOfForms DEF Telling, Resting
<1>. QED
  BY <1>1, <1>2, <1>3, <1>4 DEF OthersAreOff

(* What is asked at the console and leaves the zone where it is.             *)
LEMMA AskingTells ==
    ASSUME ZonesTypeOK, TellingInvariant, NEW f \in Form, NEW w, Begins(f, w),
           zone'.on => zone'.serial > 0,
           zone'.on = zone.on, zone'.life = zone.life, zone'.servers = zone.servers,
           UNCHANGED <<last, about, left>>,
           w.todo \in ToFind, w.drop # {} => zone.on,
           Head(w.todo) \in {"insert", "save"} => zone.on,
           Head(w.todo) = "save" => zone.servers \subseteq w.row.servers \cup w.drop \cup {Me}
    PROVE  TellingInvariant'
<1>1. /\ f \in Task /\ work'[f] = w /\ \A u \in Task \ {f} : work'[u] = work[u]
      /\ work[f].drop = {}
      /\ ~crossed' => ~crossed /\ \A u \in Task \ {f} : ~Telling(u)
  BY AFormBegins
<1>2. Telling(f)' /\ Listed(f)' /\ OfThisLife(f)' /\ InHand(f)'
  BY <1>1, ListsToFind DEF Telling, Listed, OfThisLife, InHand
<1>3. \A u \in Task \ {f} : OfThisLife(u)'
  BY <1>1 DEF OfThisLife, TellingInvariant
<1>4. ~crossed' => OthersAreOff'
  <2>1. \A u \in Task : work[u].drop \subseteq work'[u].drop
    BY <1>1
  <2>. QED
    BY <1>1, <2>1 DEF OthersAreOff, TellingInvariant, TellsInTurn
<1>5. AboutIsLast'
  BY DEF TellingInvariant, AboutIsLast
<1>. QED
  BY <1>1, <1>2, <1>3, <1>4, <1>5, OneTaskGoesOn

(* A zone is made, or made again.                                            *)
LEMMA MakingTells ==
    ASSUME ZonesTypeOK, TellingInvariant, NEW f \in Form, NEW S \in {{}, Server},
           CreateZone(f, S)
    PROVE  TellingInvariant'
<1>. DEFINE z == [on |-> TRUE, life |-> zone.life + 1, serial |-> 0, recs |-> {},
                  servers |-> S \cup {Me}]
            w == [Resting EXCEPT !.todo = <<"read", "store", "gather", "send">>,
                                 !.row = Row(Bumped(z))]
<1>1. /\ ~zone.on /\ Quiet /\ zone' = Bumped(z) /\ Begins(f, w)
      /\ about' = [s \in Server |-> Silence] /\ UNCHANGED <<names, last, left>>
  BY DEF CreateZone
<1>2. z \in Zone
  BY ZonesAssumption DEF CreateZone, Zone, ZonesTypeOK
<1>3. zone'.serial > 0 /\ zone' \in Zone
  BY <1>1, <1>2, BumpedHasSerial, BumpedIsZone
<1>4. Row(zone').life = zone'.life /\ Row(zone').serial = zone'.serial
  BY <1>3 DEF Row, Zone
<1>5. w.todo = <<"read", "store", "gather", "send">> /\ w.row = Row(zone')
  BY <1>1 DEF Resting
<1>6. w.todo \in ToGather
  BY <1>5 DEF ToGather
<1>. HIDE DEF z, w
<1>7. /\ f \in Task /\ work'[f] = w /\ \A u \in Task \ {f} : work'[u] = work[u]
      /\ ~crossed' => ~crossed /\ \A u \in Task \ {f} : ~Telling(u)
      /\ ~crossed' /\ OthersAreOff =>
                \A s \in Server : last[s].on =>
                    s \in left \/ (zone.on /\ s \in zone.servers)
  BY <1>1, AFormBegins
<1>8. \A u \in Task \ {f} : OfThisLife(u)'
  <2>1. \A u \in Task \ {f} : work'[u].todo = << >>
    BY <1>1, <1>7 DEF Quiet, Idle, Resting
  <2>. QED
    BY <2>1, ListsOfForms DEF OfThisLife
<1>9. Telling(f)' /\ Listed(f)' /\ OfThisLife(f)'
  BY <1>3, <1>4, <1>5, <1>6, <1>7, ListsToGather DEF Telling, Listed, OfThisLife
<1>10. InHand(f)'
  BY <1>5, <1>6, <1>7, ListsToGather DEF InHand, Row
<1>11. ~crossed' => OthersAreOff'
  BY <1>1, <1>7 DEF OthersAreOff, TellingInvariant, TellsInTurn
<1>12. AboutIsLast'
  BY <1>1 DEF AboutIsLast
<1>. QED
  BY <1>3, <1>7, <1>8, <1>9, <1>10, <1>11, <1>12, OneTaskGoesOn

(* A zone is deleted: those who had it are in hand.                          *)
LEMMA DeletingTells ==
    ASSUME ZonesTypeOK, TellingInvariant, NEW f \in Form, DeleteZone(f)
    PROVE  TellingInvariant'
<1>. DEFINE w == [Resting EXCEPT !.todo = <<"read", "store", "gather", "send">>,
                    !.row = Row(zone), !.drop = zone.servers \ {Me}]
<1>1. /\ zone.on /\ Begins(f, w) /\ zone' = [NoZone EXCEPT !.life = zone.life]
      /\ UNCHANGED <<names, last, about, left>>
  BY DEF DeleteZone
<1>2. zone'.life = zone.life /\ ~zone'.on /\ zone.serial > 0
  BY <1>1 DEF NoZone, TellingInvariant
<1>3. Row(zone).life = zone.life /\ Row(zone).serial = zone.serial
  BY DEF Row, Zone, ZonesTypeOK
<1>4. /\ w.todo = <<"read", "store", "gather", "send">> /\ w.row = Row(zone)
      /\ w.drop = zone.servers \ {Me}
  BY DEF Resting
<1>5. w.todo \in ToGather
  BY <1>4 DEF ToGather
<1>. HIDE DEF w
<1>6. /\ f \in Task /\ work'[f] = w /\ \A u \in Task \ {f} : work'[u] = work[u]
      /\ ~crossed' => ~crossed /\ \A u \in Task \ {f} : ~Telling(u)
      /\ ~crossed' /\ OthersAreOff =>
                \A s \in Server : last[s].on =>
                    s \in left \/ (zone.on /\ s \in zone.servers)
  BY <1>1, AFormBegins
<1>7. \A u \in Task \ {f} : OfThisLife(u)'
  BY <1>2, <1>6 DEF OfThisLife, TellingInvariant
<1>8. Telling(f)' /\ Listed(f)' /\ OfThisLife(f)'
  BY <1>2, <1>3, <1>4, <1>5, <1>6, ListsToGather DEF Telling, Listed, OfThisLife
<1>9. InHand(f)'
  BY <1>2, <1>5, <1>6, ListsToGather DEF InHand
<1>10. ~crossed' => OthersAreOff'
  <2>1. Me \notin Server
    BY ZonesAssumption
  <2>. QED
    BY <1>1, <1>4, <1>6, <2>1 DEF OthersAreOff, TellingInvariant, TellsInTurn
<1>11. AboutIsLast'
  BY <1>1 DEF AboutIsLast, TellingInvariant
<1>. QED
  BY <1>2, <1>6, <1>7, <1>8, <1>9, <1>10, <1>11, OneTaskGoesOn

(* All that is asked at the console.                                         *)
LEMMA FormsTell ==
    ASSUME ZonesTypeOK, TellingInvariant, NEW f \in Form, Asks(f)
    PROVE  TellingInvariant'
<1>0. /\ zone.on => zone.serial > 0
      /\ zone \in Zone
  BY DEF TellingInvariant, ZonesTypeOK
<1>1. ASSUME NEW r \in Record, AddRecord(f, r) PROVE TellingInvariant'
  <2>. DEFINE w == [Resting EXCEPT !.todo = <<"insert">> \o Told, !.add = {r}]
  <2>1. zone.on /\ Begins(f, w) /\ UNCHANGED <<zone, last, about, left>>
    BY <1>1 DEF AddRecord
  <2>2. w.todo \in ToFind /\ w.drop = {} /\ Head(w.todo) = "insert"
    BY ListsOfForms DEF Resting
  <2>. HIDE DEF w
  <2>. QED
    BY <1>0, <2>1, <2>2, AskingTells
<1>2. ASSUME NEW r \in Record, RemoveRecord(f, r) PROVE TellingInvariant'
  <2>. DEFINE w == [Resting EXCEPT !.todo = Told]
              z == [zone EXCEPT !.recs = zone.recs \ {r}]
  <2>1. Begins(f, w) /\ zone' = Bumped(z) /\ UNCHANGED <<last, about, left>> /\ zone.on
    BY <1>2, Zenon DEF RemoveRecord
  <2>2. z \in Zone /\ z.on = zone.on /\ z.life = zone.life /\ z.servers = zone.servers
    BY <1>0 DEF Zone
  <2>3. w.todo \in ToFind /\ w.drop = {} /\ Head(w.todo) = "read"
    BY ListsOfForms DEF Resting
  <2>. HIDE DEF w, z
  <2>4. /\ zone'.serial > 0 /\ zone'.on = zone.on /\ zone'.life = zone.life
        /\ zone'.servers = zone.servers
    BY <2>1, <2>2, BumpedHasSerial DEF Zone
  <2>. QED
    BY <2>1, <2>3, <2>4, AskingTells
<1>3. ASSUME NEW S \in SUBSET (Server \cup {Me}), SetServers(f, S) PROVE TellingInvariant'
  <2>. DEFINE w == [Resting EXCEPT !.todo = <<"save">> \o Told,
                      !.row = [NoZone EXCEPT !.servers = S],
                      !.drop = (zone.servers \ S) \ {Me}]
  <2>1. zone.on /\ Begins(f, w) /\ UNCHANGED <<zone, last, about, left>>
    BY <1>3 DEF SetServers
  <2>2. /\ w.todo \in ToFind /\ w.drop = (zone.servers \ S) \ {Me} /\ w.row.servers = S
        /\ Head(w.todo) = "save"
    BY ListsOfForms DEF Resting, NoZone
  <2>. HIDE DEF w
  <2>. QED
    BY <1>0, <2>1, <2>2, AskingTells
<1>4. CASE ChangeNames(f)
  <2>. DEFINE w == [Resting EXCEPT !.todo = Told]
  <2>1. Begins(f, w) /\ UNCHANGED <<zone, last, about, left>>
    BY <1>4 DEF ChangeNames
  <2>2. w.todo \in ToFind /\ w.drop = {} /\ Head(w.todo) = "read"
    BY ListsOfForms DEF Resting
  <2>. HIDE DEF w
  <2>. QED
    BY <1>0, <2>1, <2>2, AskingTells
<1>. QED
  BY <1>1, <1>2, <1>3, <1>4, MakingTells, DeletingTells DEF Asks

(* A stop anywhere: the next process tells everybody the zone has.           *)
LEMMA StoppingTells ==
    ASSUME ZonesTypeOK, TellingInvariant, ZonesStop
    PROVE  TellingInvariant'
<1>1. /\ work' = [t \in Task |-> IF t = Loop THEN Booting ELSE Resting]
      /\ left' = IF crossed THEN Server ELSE left \cup UNION {work[t].drop : t \in Task}
      /\ UNCHANGED <<zone, names, last, about>>
  BY DEF ZonesStop
<1>2. Booting.todo \in ToFind /\ Booting.drop = {} /\ Head(Booting.todo) = "read"
  BY ListsOfForms DEF Booting, Resting, Told
<1>3. Resting.todo \notin ToFind \cup ToGather \cup ToSend
  BY ListsOfForms DEF Resting
<1>. HIDE DEF Booting, Resting
<1>4. \A t \in Task : work'[t] = IF t = Loop THEN Booting ELSE Resting
  BY <1>1
<1>5. Loop \in Task /\ Telling(Loop)'
  BY <1>2, <1>4 DEF Task, Telling
<1>6. \A t \in Task : Listed(t)' /\ OfThisLife(t)' /\ InHand(t)' /\ (Telling(t)' => t = Loop)
  <2>. TAKE t \in Task
  <2>1. CASE t = Loop
    BY <1>2, <1>4, <1>5, <2>1, ListsToFind DEF Listed, OfThisLife, InHand
  <2>2. CASE t # Loop
    BY <1>3, <1>4, <2>2 DEF Listed, OfThisLife, InHand, Telling
  <2>. QED
    BY <2>1, <2>2
<1>7. OthersAreOff'
  BY <1>1 DEF OthersAreOff, TellingInvariant, TellsInTurn
<1>. QED
  BY <1>1, <1>5, <1>6, <1>7 DEF TellingInvariant, TellsInTurn, AboutIsLast

(* The listener looks at its rows.                                           *)
LEMMA LookingTells ==
    ASSUME ZonesTypeOK, TellingInvariant, Recheck
    PROVE  TellingInvariant'
<1>. DEFINE w == [Resting EXCEPT !.todo = <<"read", "store">>]
<1>1. /\ Loop \in Task /\ work[Loop] = Resting /\ work \in [Task -> Working]
      /\ work' = [work EXCEPT ![Loop] = w]
      /\ UNCHANGED <<zone, names, last, about, crossed, left>>
  BY DEF Recheck, Idle, Task, ZonesTypeOK
<1>2. w.todo = <<"read", "store">> /\ w.todo \in ToLook /\ w.drop = {}
  BY DEF Resting, ToLook
<1>. HIDE DEF w
<1>3. ~Telling(Loop) /\ ~Telling(Loop)' /\ Listed(Loop)'
  BY <1>1, <1>2, ListsToLook, ListsOfForms DEF Telling, Listed, Resting
<1>. QED
  BY <1>1, <1>3, ALookChangesNothing

(* Every task has what it has to tell before it.                             *)
THEOREM TellingHolds == ZonesSpec => []TellingInvariant
<1>1. ZonesInit => TellingInvariant
  <2>. SUFFICES ASSUME ZonesInit PROVE TellingInvariant
    OBVIOUS
  <2>1. Booting.todo \in ToFind /\ Booting.drop = {} /\ Head(Booting.todo) = "read"
    BY ListsOfForms DEF Booting, Resting, Told
  <2>2. Resting.todo \notin ToFind \cup ToGather \cup ToSend
    BY ListsOfForms DEF Resting
  <2>3. zone.on = FALSE /\ \A s \in Server : ~last[s].on /\ about[s] = Silence
    BY DEF ZonesInit, NoZone, Silence
  <2>. HIDE DEF Booting, Resting
  <2>4. \A t \in Task : work[t] = IF t = Loop THEN Booting ELSE Resting
    BY DEF ZonesInit
  <2>5. Loop \in Task /\ Telling(Loop)
    BY <2>1, <2>4 DEF Task, Telling
  <2>6. \A t \in Task : Listed(t) /\ OfThisLife(t) /\ InHand(t) /\ (Telling(t) => t = Loop)
    <3>. TAKE t \in Task
    <3>1. CASE t = Loop
      BY <2>1, <2>4, <2>5, <3>1, ListsToFind DEF Listed, OfThisLife, InHand
    <3>2. CASE t # Loop
      BY <2>2, <2>4, <3>2 DEF Listed, OfThisLife, InHand, Telling
    <3>. QED
      BY <3>1, <3>2
  <2>. QED
    BY <2>3, <2>5, <2>6 DEF TellingInvariant, TellsInTurn, AboutIsLast, OthersAreOff
<1>2. ZonesTypeOK /\ TellingInvariant /\ [ZonesNext]_zones => TellingInvariant'
  <2>. SUFFICES ASSUME ZonesTypeOK, TellingInvariant, [ZonesNext]_zones
                PROVE  TellingInvariant'
    OBVIOUS
  <2>1. ASSUME NEW t \in Task, WorksOn(t) PROVE TellingInvariant'
    BY <2>1, InsertTells, SavingTells, ReadingTells, FindingTells, GatheringTells, SendingTells
       DEF WorksOn
  <2>2. CASE ClockMoves \/ UNCHANGED zones
    BY <2>2, NothingIsTold DEF ClockMoves, zones
  <2>. QED
    BY <2>1, <2>2, FormsTell, StoppingTells, LookingTells DEF ZonesNext
<1>. QED
  BY <1>1, <1>2, ZonesAreTyped, PTL DEF ZonesSpec

(* Once nobody is at work, nobody tells and nobody has anything in hand.      *)
LEMMA QuietMeansTold ==
    ASSUME ZonesTypeOK, TellingInvariant, Quiet, ~crossed
    PROVE  CurrentIsTold /\ NobodyElseAnswers
<1>1. \A t \in Task : ~Telling(t) /\ work[t].drop = {}
  BY ListsOfForms DEF Quiet, Idle, Telling, Resting
<1>2. AllWereTold /\ OthersAreOff
  BY <1>1 DEF TellingInvariant, TellsInTurn
<1>. QED
  BY <1>1, <1>2 DEF CurrentIsTold, NobodyElseAnswers, AllWereTold, OthersAreOff

(* Every server chosen was told the zone as it is.                           *)
THEOREM ServersAreTold == ZonesSpec => []CurrentIsTold
<1>1. ZonesTypeOK /\ TellingInvariant => CurrentIsTold
  BY QuietMeansTold DEF CurrentIsTold
<1>. QED
  BY <1>1, ZonesAreTyped, TellingHolds, PTL

(* And nobody else was left to answer, but by a stop.                        *)
THEOREM OthersAreTold == ZonesSpec => []NobodyElseAnswers
<1>1. ZonesTypeOK /\ TellingInvariant => NobodyElseAnswers
  BY QuietMeansTold DEF NobodyElseAnswers
<1>. QED
  BY <1>1, ZonesAreTyped, TellingHolds, PTL

------------------------------------------------------------------------------
(* The overlay: its types first. *)

(* An empty table is a table of each kind.                                   *)
LEMMA NothingIsATable ==
    /\ Nothing \in [Peer -> Known \cup {NoRow}]
    /\ Nothing \in [Peer -> Held \cup {NoRow}]
    /\ Nothing \in [Peer -> Wanted \cup {NoRow}]
BY DEF Nothing

(* Somebody at rest, and somebody who is about to look.                      *)
LEMMA RestingIsLooking ==
    /\ AtEase \in Looking /\ Ensures \in Looking
    /\ AtEase.at = "rest" /\ Ensures.at = "read"
BY NothingIsATable DEF AtEase, Ensures, Looking

(* What is asked of the kernel for a row, or for none.                       *)
LEMMA WantedIsWanted ==
    ASSUME NEW r \in Known \cup {NoRow}, NEW resolved \in BOOLEAN
    PROVE  WantedOf(r, resolved) \in Wanted \cup {NoRow}
<1>1. CASE r = NoRow
  BY <1>1 DEF WantedOf
<1>2. CASE r \in Known
  <2>1. Endpoint(r, resolved) \in {"none", "public", "lan"}
    BY DEF Endpoint
  <2>. QED
    BY <1>2, <2>1 DEF WantedOf, Wanted, Known
<1>. QED
  BY <1>1, <1>2

(* A peer that was set is a peer the kernel holds.                           *)
LEMMA ConfiguredIsHeld ==
    ASSUME NEW held \in Held \cup {NoRow}, NEW wanted \in Wanted
    PROVE  Configured(held, wanted) \in Held
<1>1. wanted.endpoint \in {"none", "public", "lan"} /\ wanted.address \in Addr
  BY DEF Wanted
<1>2. held # NoRow => held \in Held
  OBVIOUS
<1>3. held # NoRow => /\ held.session \in BOOLEAN
                      /\ held.endpoint \in {"none", "public", "lan", "learned"}
  BY <1>2 DEF Held
<1>4. (held # NoRow /\ held.session) \in BOOLEAN
  BY <1>3
<1>. QED
  BY <1>1, <1>3, <1>4 DEF Configured, Held

(* So is one that was looked at, or it is gone.                              *)
LEMMA BroughtIsHeld ==
    ASSUME NEW held \in Held \cup {NoRow}, NEW wanted \in Wanted \cup {NoRow}
    PROVE  Brought(held, wanted) \in Held \cup {NoRow}
BY ConfiguredIsHeld DEF Brought

(* And so are all of them, replaced at once                                  *)
LEMMA RebuiltIsKernel ==
    ASSUME NEW wanted \in [Peer -> Wanted \cup {NoRow}]
    PROVE  Rebuilt(wanted) \in [up : BOOLEAN, peers : [Peer -> Held \cup {NoRow}]]
<1>1. \A p \in Peer : wanted[p] # NoRow => Configured(NoRow, wanted[p]) \in Held
  BY ConfiguredIsHeld
<1>. QED
  BY <1>1 DEF Rebuilt

(* or brought to the list one by one.                                        *)
LEMMA AppliedIsKernel ==
    ASSUME OverlayTypeOK, NEW wanted \in [Peer -> Wanted \cup {NoRow}], NEW keyed \in BOOLEAN
    PROVE  Apply(wanted, keyed) \in [up : BOOLEAN, peers : [Peer -> Held \cup {NoRow}]]
<1>1. \A p \in Peer : Brought(kernel.peers[p], wanted[p]) \in Held \cup {NoRow}
  BY BroughtIsHeld DEF OverlayTypeOK
<1>. QED
  BY <1>1, RebuiltIsKernel DEF Apply


(* One actor goes on to something it may be at.                              *)
LEMMA ActorSet ==
    ASSUME OverlayTypeOK, NEW a \in Actor, NEW look \in Looking,
           actor' = [actor EXCEPT ![a] = look]
    PROVE  actor' \in [Actor -> Looking]
BY DEF OverlayTypeOK

(* Who looks at the interface.                                               *)
LEMMA ActorsAre == "start" \in Actor /\ "loop" \in Actor /\ "join" \in Actor
BY DEF Actor

(* The census: asked for, gone through and done with.                        *)
LEMMA CensusKeepsTypes ==
    ASSUME OverlayTypeOK,
           \/ \E h \in Authority : Ask(h)
           \/ \E p \in Peer : ApplyMember(p)
           \/ Applied \/ ApplyFails
    PROVE  OverlayTypeOK'
<1>1. ASSUME NEW h \in Authority, Ask(h) PROVE OverlayTypeOK'
  <2>1. [AtEase EXCEPT !.at = "apply", !.roster = census[h]] \in Looking
    BY RestingIsLooking DEF Looking, OverlayTypeOK
  <2>2. actor' \in [Actor -> Looking]
    BY <1>1, <2>1, ActorSet, ActorsAre DEF Ask
  <2>. QED
    BY <1>1, <2>2 DEF Ask, OverlayTypeOK
<1>2. ASSUME NEW p \in Peer, ApplyMember(p) PROVE OverlayTypeOK'
  <2> DEFINE look == actor["loop"]
             said == look.roster[p]
             taken == p \notin Authority /\ ~Holds(p, said.address)
             moved == taken /\ Moved(p, said)
             after == [look EXCEPT !.roster = [@ EXCEPT ![p] = NoRow],
                                   !.changed = Counted(p, moved)]
  <2>1. look \in Looking /\ said \in Known \cup {NoRow} /\ said # NoRow
    BY <1>2, ActorsAre DEF ApplyMember, OverlayTypeOK, Looking
  <2>2. Counted(p, moved) \in SUBSET Peer
    BY <2>1 DEF Counted, Looking
  <2>3. after \in Looking
    BY <2>1, <2>2 DEF Looking
  <2>4. actor' = [actor EXCEPT !["loop"] = after]
    BY <1>2, ActorsAre DEF ApplyMember, OverlayTypeOK
  <2>5. actor' \in [Actor -> Looking]
    BY <2>3, <2>4, ActorSet, ActorsAre
  <2>6. rows' \in [Peer -> Known \cup {NoRow}]
    BY <1>2, <2>1 DEF ApplyMember, OverlayTypeOK
  <2>7. owed' \subseteq Peer
    BY <1>2 DEF ApplyMember, OverlayTypeOK, OwedBy
  <2>. QED
    BY <1>2, <2>5, <2>6, <2>7 DEF ApplyMember, OverlayTypeOK
<1>3. CASE Applied
  <2>1. actor' = [actor EXCEPT !["loop"] =
                    IF actor["loop"].changed # {} THEN Ensures ELSE AtEase]
    BY <1>3 DEF Applied
  <2>2. actor' \in [Actor -> Looking]
    BY <2>1, RestingIsLooking, ActorSet, ActorsAre
  <2>. QED
    BY <1>3, <2>2 DEF Applied, OverlayTypeOK
<1>4. CASE ApplyFails
  <2>1. actor' \in [Actor -> Looking]
    BY <1>4, RestingIsLooking, ActorSet, ActorsAre DEF ApplyFails
  <2>2. owed' \subseteq Peer
    BY <1>4, ActorsAre DEF ApplyFails, OverlayTypeOK, Looking
  <2>3. faults' \in 0 .. MaxFaults
    BY <1>4, OverlayAssumption DEF ApplyFails, MayFail, OverlayTypeOK
  <2>. QED
    BY <1>4, <2>1, <2>2, <2>3 DEF ApplyFails, OverlayTypeOK
<1>. QED
  BY <1>1, <1>2, <1>3, <1>4

(* What else writes a row: an errand, a join, a report and a person.         *)
LEMMA RowsKeepTypes ==
    ASSUME OverlayTypeOK, NEW p \in Peer,
           \/ \E address \in Addr : LearnPeer(p, address) \/ Arrives(p, address)
           \/ \E said \in Known : Reports(p, said)
           \/ ForgetNode(p)
    PROVE  OverlayTypeOK'
<1>1. ASSUME NEW address \in Addr, LearnPeer(p, address) PROVE OverlayTypeOK'
  <2>1. actor' \in [Actor -> Looking]
    BY <1>1, RestingIsLooking, ActorSet, ActorsAre DEF LearnPeer
  <2>2. rows' \in [Peer -> Known \cup {NoRow}]
    <3>1. rows[p] # NoRow => [rows[p] EXCEPT !.address = address] \in Known
      BY DEF OverlayTypeOK, Known
    <3>2. [address |-> address, dialled |-> FALSE, lan |-> FALSE] \in Known
      BY DEF Known
    <3>. QED
      BY <1>1, <3>1, <3>2 DEF LearnPeer, OverlayTypeOK
  <2>3. owed' \subseteq Peer
    BY <1>1 DEF LearnPeer, OverlayTypeOK, OwedBy
  <2>. QED
    BY <1>1, <2>1, <2>2, <2>3 DEF LearnPeer, OverlayTypeOK
<1>2. ASSUME NEW address \in Addr, Arrives(p, address) PROVE OverlayTypeOK'
  <2>1. actor' \in [Actor -> Looking]
    BY <1>2, RestingIsLooking, ActorSet, ActorsAre DEF Arrives
  <2>2. (rows[p] # NoRow /\ rows[p].lan) \in BOOLEAN
    BY DEF OverlayTypeOK, Known
  <2>3. rows' \in [Peer -> Known \cup {NoRow}]
    BY <1>2, <2>2 DEF Arrives, OverlayTypeOK, Known
  <2>4. owed' \subseteq Peer
    BY <1>2 DEF Arrives, OverlayTypeOK, OwedBy
  <2>5. news' \in 0 .. MaxNews
    BY <1>2, OverlayAssumption DEF Arrives, OverlayTypeOK
  <2>. QED
    BY <1>2, <2>1, <2>3, <2>4, <2>5 DEF Arrives, OverlayTypeOK
<1>3. ASSUME NEW said \in Known, Reports(p, said) PROVE OverlayTypeOK'
  <2>1. news' \in 0 .. MaxNews
    BY <1>3, OverlayAssumption DEF Reports, OverlayTypeOK
  <2>. QED
    BY <1>3, <2>1 DEF Reports, OverlayTypeOK
<1>4. CASE ForgetNode(p)
  <2>1. news' \in 0 .. MaxNews
    BY <1>4, OverlayAssumption DEF ForgetNode, OverlayTypeOK
  <2>. QED
    BY <1>4, <2>1 DEF ForgetNode, OverlayTypeOK
<1>. QED
  BY <1>1, <1>2, <1>3, <1>4

(* Whoever looks at the interface, and the packets that arrive on it.        *)
LEMMA LooksKeepTypes ==
    ASSUME OverlayTypeOK, NEW a \in Actor,
           \/ ReadPeers(a) \/ WriteFails(a) \/ WriteUnread(a)
           \/ \E keyed \in BOOLEAN : WritePeers(a, keyed)
    PROVE  OverlayTypeOK'
<1>1. actor[a].wanted \in [Peer -> Wanted \cup {NoRow}]
  BY DEF OverlayTypeOK, Looking
<1>2. CASE ReadPeers(a)
  <2>1. PICK unresolved \in SUBSET {p \in InTable(rows) : rows[p].dialled} :
          /\ unresolved # {} => MayFail("names")
          /\ actor' = [actor EXCEPT ![a] = [AtEase EXCEPT !.at = "write",
                !.wanted = [p \in Peer |-> WantedOf(rows[p], p \notin unresolved)]]]
          /\ owed' = owed \cup unresolved
          /\ faults' = IF unresolved = {} THEN faults ELSE faults + 1
    BY <1>2 DEF ReadPeers
  <2>2. [p \in Peer |-> WantedOf(rows[p], p \notin unresolved)]
          \in [Peer -> Wanted \cup {NoRow}]
    BY WantedIsWanted DEF OverlayTypeOK
  <2>3. [AtEase EXCEPT !.at = "write",
           !.wanted = [p \in Peer |-> WantedOf(rows[p], p \notin unresolved)]] \in Looking
    BY <2>2, RestingIsLooking DEF Looking
  <2>4. actor' \in [Actor -> Looking]
    BY <2>1, <2>3, ActorSet
  <2>5. owed' \subseteq Peer
    BY <2>1 DEF OverlayTypeOK, InTable
  <2>6. faults' \in 0 .. MaxFaults
    BY <2>1, OverlayAssumption DEF MayFail, OverlayTypeOK
  <2>. QED
    BY <1>2, <2>4, <2>5, <2>6 DEF ReadPeers, OverlayTypeOK
<1>3. ASSUME NEW keyed \in BOOLEAN, WritePeers(a, keyed) PROVE OverlayTypeOK'
  <2>1. kernel' \in [up : BOOLEAN, peers : [Peer -> Held \cup {NoRow}]]
    BY <1>1, <1>3, AppliedIsKernel DEF WritePeers
  <2>2. actor' \in [Actor -> Looking]
    BY <1>3, RestingIsLooking, ActorSet DEF WritePeers
  <2>. QED
    BY <1>3, <2>1, <2>2 DEF WritePeers, OverlayTypeOK
<1>4. CASE WriteFails(a)
  <2>1. kernel' \in [up : BOOLEAN, peers : [Peer -> Held \cup {NoRow}]]
    <3>1. Apply(actor[a].wanted, TRUE) \in [up : BOOLEAN, peers : [Peer -> Held \cup {NoRow}]]
      BY <1>1, AppliedIsKernel
    <3>2. PICK done \in SUBSET Peer : kernel' =
            IF ~kernel.up THEN kernel
            ELSE [kernel EXCEPT !.peers = [p \in Peer |->
                    IF p \in done THEN Apply(actor[a].wanted, TRUE).peers[p]
                    ELSE kernel.peers[p]]]
      BY <1>4 DEF WriteFails
    <3>3. [p \in Peer |-> IF p \in done THEN Apply(actor[a].wanted, TRUE).peers[p]
                          ELSE kernel.peers[p]] \in [Peer -> Held \cup {NoRow}]
      BY <3>1 DEF OverlayTypeOK
    <3>. QED
      BY <3>2, <3>3 DEF OverlayTypeOK
  <2>2. actor' \in [Actor -> Looking]
    BY <1>4, RestingIsLooking, ActorSet DEF WriteFails
  <2>3. faults' \in 0 .. MaxFaults
    BY <1>4, OverlayAssumption DEF WriteFails, MayFail, OverlayTypeOK
  <2>. QED
    BY <1>4, <2>1, <2>2, <2>3 DEF WriteFails, OverlayTypeOK
<1>5. CASE WriteUnread(a)
  <2>1. kernel' \in [up : BOOLEAN, peers : [Peer -> Held \cup {NoRow}]]
    BY <1>1, <1>5, RebuiltIsKernel DEF WriteUnread
  <2>2. actor' \in [Actor -> Looking]
    BY <1>5, RestingIsLooking, ActorSet DEF WriteUnread
  <2>3. faults' \in 0 .. MaxFaults
    BY <1>5, OverlayAssumption DEF WriteUnread, MayFail, OverlayTypeOK
  <2>. QED
    BY <1>5, <2>1, <2>2, <2>3 DEF WriteUnread, OverlayTypeOK
<1>. QED
  BY <1>2, <1>3, <1>4, <1>5

(* And what happens elsewhere.                                               *)
LEMMA OthersKeepTypes ==
    ASSUME OverlayTypeOK,
           \/ \E p \in Peer : Hear(p)
           \/ \E h \in Authority, p \in Peer, said \in Known \cup {NoRow} : Changes(h, p, said)
           \/ \E machine \in BOOLEAN : Stop(machine)
    PROVE  OverlayTypeOK'
<1>1. ASSUME NEW p \in Peer, Hear(p) PROVE OverlayTypeOK'
  <2>1. PICK from \in {kernel.peers[p].endpoint, "learned"} \ {"none"} :
          kernel' = [kernel EXCEPT !.peers[p].session = TRUE, !.peers[p].endpoint = from]
    BY <1>1 DEF Hear
  <2>2. kernel.peers[p] \in Held /\ from \in {"none", "public", "lan", "learned"}
    BY <1>1 DEF Hear, OverlayTypeOK, Held
  <2>3. kernel' \in [up : BOOLEAN, peers : [Peer -> Held \cup {NoRow}]]
    <3> DEFINE held == [kernel.peers[p] EXCEPT !.session = TRUE, !.endpoint = from]
    <3>1. held \in Held
      BY <2>2 DEF Held
    <3>2. kernel' = [kernel EXCEPT !.peers = [kernel.peers EXCEPT ![p] = held]]
      BY <2>1 DEF OverlayTypeOK
    <3>. QED
      BY <3>1, <3>2 DEF OverlayTypeOK
  <2>. QED
    BY <1>1, <2>3 DEF Hear, OverlayTypeOK
<1>2. ASSUME NEW h \in Authority, NEW p \in Peer, NEW said \in Known \cup {NoRow},
             Changes(h, p, said)
      PROVE  OverlayTypeOK'
  <2>1. census' \in [Authority -> [Peer -> Known \cup {NoRow}]]
    BY <1>2 DEF Changes, OverlayTypeOK
  <2>2. news' \in 0 .. MaxNews
    BY <1>2, OverlayAssumption DEF Changes, OverlayTypeOK
  <2>. QED
    BY <1>2, <2>1, <2>2 DEF Changes, OverlayTypeOK
<1>3. ASSUME NEW machine \in BOOLEAN, Stop(machine) PROVE OverlayTypeOK'
  <2>1. actor' \in [Actor -> Looking]
    BY <1>3, RestingIsLooking DEF Stop
  <2>2. kernel' \in [up : BOOLEAN, peers : [Peer -> Held \cup {NoRow}]]
    BY <1>3, NothingIsATable DEF Stop, OverlayTypeOK
  <2>3. faults' \in 0 .. MaxFaults
    BY <1>3, OverlayAssumption DEF Stop, MayFail, OverlayTypeOK
  <2>. QED
    BY <1>3, <2>1, <2>2, <2>3 DEF Stop, OverlayTypeOK
<1>. QED
  BY <1>1, <1>2, <1>3

(* The types hold when the node begins                                       *)
LEMMA OverlayInitTypes == OverlayInit => OverlayTypeOK
<1> SUFFICES ASSUME OverlayInit PROVE OverlayTypeOK
  OBVIOUS
<1>1. rows \in [Peer -> Known \cup {NoRow}]
  BY OverlayAssumption DEF OverlayInit, Known
<1>2. census \in [Authority -> [Peer -> Known \cup {NoRow}]]
  BY <1>1, OverlayAssumption, NothingIsATable DEF OverlayInit
<1>3. actor \in [Actor -> Looking]
  BY RestingIsLooking DEF OverlayInit
<1>4. kernel \in [up : BOOLEAN, peers : [Peer -> Held \cup {NoRow}]]
  BY NothingIsATable DEF OverlayInit
<1>5. owed = {} /\ news = 0 /\ faults = 0
  BY DEF OverlayInit
<1>6. owed \subseteq Peer /\ news \in 0 .. MaxNews /\ faults \in 0 .. MaxFaults
  BY <1>5, OverlayAssumption
<1>. QED
  BY <1>1, <1>2, <1>3, <1>4, <1>6 DEF OverlayTypeOK

(* and every step keeps them.                                                *)
LEMMA OverlayStepTypes ==
    ASSUME OverlayTypeOK, [OverlayNext]_overlay PROVE OverlayTypeOK'
<1>1. CASE UNCHANGED overlay
  BY <1>1 DEF overlay, OverlayTypeOK
<1>2. CASE OverlayNext
  BY <1>2, CensusKeepsTypes, RowsKeepTypes, LooksKeepTypes, OthersKeepTypes, OverlayAssumption
     DEF OverlayNext
<1>. QED
  BY <1>1, <1>2


(* A list of peers that is on its way to the interface is what the rows ask, *)
(* but for those owed.                                                       *)
ListsAreFresh ==
    \A a \in Actor : actor[a].at = "write" =>
        \A p \in Peer \ owed : actor[a].wanted[p] = WantedOf(rows[p], TRUE)

(* Somebody is about to bring a peer to its row.                             *)
Looks(a, p) ==
    \/ actor[a].at \in {"read", "write"}
    \/ a = "loop" /\ actor[a].at = "apply" /\ p \in actor[a].changed

OwedOrComing ==
    \A p \in Peer \ owed : AsItsRow(p, kernel) \/ \E a \in Actor : Looks(a, p)

DownIsEmpty == ~kernel.up => kernel.peers = Nothing

OverlayInvariant ==
    OverlayTypeOK /\ ListsAreFresh /\ OwedOrComing /\ DownIsEmpty

(* What is asked of the kernel for a node in the table.                      *)
LEMMA WantedOfARow ==
    ASSUME NEW r \in Known
    PROVE  /\ r \notin {NoRow} /\ WantedOf(r, TRUE) \in Wanted
           /\ WantedOf(r, TRUE) # NoRow
           /\ WantedOf(r, TRUE).address = r.address
           /\ WantedOf(r, TRUE).endpoint = Endpoint(r, TRUE)
<1>1. r.address \in Addr /\ r # NoRow
  BY NoRowAssumption DEF Known
<1>2. PICK e : e = Endpoint(r, TRUE)
  OBVIOUS
<1>3. e \in {"none", "public", "lan"}
  BY <1>2 DEF Endpoint
<1>4. PICK w : w = [address |-> r.address, endpoint |-> e]
  OBVIOUS
<1>5. w \in Wanted /\ w.address = r.address /\ w.endpoint = e
  BY <1>1, <1>3, <1>4 DEF Wanted
<1>6. WantedOf(r, TRUE) = w
  BY <1>1, <1>2, <1>4 DEF WantedOf
<1>. QED
  BY <1>1, <1>2, <1>5, <1>6, NoRowAssumption

(* What ensure writes for a peer is what its row asks.                       *)
LEMMA ConfiguredAsItsRow ==
    ASSUME OverlayTypeOK, NEW p \in Peer, rows[p] # NoRow,
           NEW k, NEW held \in Held \cup {NoRow}, NEW w, w = WantedOf(rows[p], TRUE),
           \/ k.peers[p] = Configured(held, w)
           \/ k.peers[p] = held /\ ~Differs(held, w)
    PROVE  w # NoRow /\ AsItsRow(p, k)
<1> DEFINE r == rows[p]
<1>1. r \in Known
  BY DEF OverlayTypeOK
<1>2. r.dialled \in BOOLEAN
  BY <1>1 DEF Known
<1>5. w \in Wanted
  BY <1>1, WantedOfARow
<1>6. w # NoRow
  BY <1>1, WantedOfARow
<1>7. w.address = r.address /\ w.endpoint = Endpoint(r, TRUE)
  BY <1>1, WantedOfARow
<1>8. CASE k.peers[p] = Configured(held, w)
  <2>1. Configured(held, w) # NoRow
    BY <1>5, ConfiguredIsHeld, NoRowAssumption
  <2>2. Configured(held, w).address = r.address
    BY <1>7 DEF Configured
  <2>3. Configured(held, w).keepalive = (w.endpoint = "public")
    BY DEF Configured
  <2>4. CASE r.dialled
    <3>1. w.endpoint = "public" /\ Endpoint(r, TRUE) = "public"
      BY <1>7, <2>4 DEF Endpoint
    <3>2. Configured(held, w).keepalive = TRUE
      BY <2>3, <3>1
    <3>3. Configured(held, w).endpoint = "public"
      BY <3>1 DEF Configured
    <3>. QED
      BY <1>8, <1>6, <2>1, <2>2, <3>1, <3>2, <3>3, <2>4, <1>2 DEF AsItsRow
  <2>5. CASE ~r.dialled
    <3>1. w.endpoint # "public"
      BY <1>7, <2>5 DEF Endpoint
    <3>2. Configured(held, w).keepalive = FALSE
      BY <2>3, <3>1
    <3>3. w.endpoint = "none" \/ Configured(held, w).endpoint = w.endpoint
      BY DEF Configured
    <3>. QED
      BY <1>8, <1>6, <1>7, <2>1, <2>2, <3>2, <3>3, <2>5, <1>2 DEF AsItsRow
  <2>. QED
    BY <2>4, <2>5
<1>9. CASE k.peers[p] = held /\ ~Differs(held, w)
  <2>1. /\ held # NoRow /\ held.address = r.address
        /\ held.keepalive = (w.endpoint = "public")
        /\ w.endpoint = "none" \/ held.endpoint = w.endpoint
    BY <1>7, <1>9 DEF Differs
  <2>2. held.keepalive \in BOOLEAN
    BY <2>1 DEF Held
  <2>3. CASE r.dialled
    <3>1. w.endpoint = "public"
      BY <1>7, <2>3 DEF Endpoint
    <3>. QED
      BY <1>2, <1>6, <1>7, <1>9, <2>1, <2>2, <2>3, <3>1 DEF AsItsRow
  <2>4. CASE ~r.dialled
    <3>1. w.endpoint # "public"
      BY <1>7, <2>4 DEF Endpoint
    <3>. QED
      BY <1>2, <1>6, <1>7, <1>9, <2>1, <2>2, <2>4, <3>1 DEF AsItsRow
  <2>. QED
    BY <2>3, <2>4
<1>. QED
  BY <1>6, <1>8, <1>9

(* So is what is left, or taken away, because nothing differs.               *)
LEMMA BroughtAsItsRow ==
    ASSUME OverlayTypeOK, NEW p \in Peer, NEW k, NEW w, w = WantedOf(rows[p], TRUE),
           \/ k.peers[p] = Brought(kernel.peers[p], w)
           \/ k.peers[p] = IF w = NoRow THEN NoRow ELSE Configured(NoRow, w)
    PROVE  AsItsRow(p, k)
<1>1. CASE rows[p] = NoRow
  BY <1>1 DEF WantedOf, Brought, AsItsRow
<1>2. CASE rows[p] # NoRow
  <2>1. kernel.peers[p] \in Held \cup {NoRow} /\ NoRow \in Held \cup {NoRow}
    BY DEF OverlayTypeOK
  <2>2. w # NoRow
    BY <1>2, WantedOfARow DEF OverlayTypeOK
  <2>. QED
    BY <1>2, <2>1, <2>2, ConfiguredAsItsRow DEF Brought
<1>. QED
  BY <1>1, <1>2

(* So is a whole list, when it is written without fault.                     *)
LEMMA AppliedAsItsRow ==
    ASSUME OverlayTypeOK, NEW a \in Actor, NEW p \in Peer, NEW keyed \in BOOLEAN,
           actor[a].wanted[p] = WantedOf(rows[p], TRUE)
    PROVE  /\ AsItsRow(p, Apply(actor[a].wanted, keyed))
           /\ AsItsRow(p, Rebuilt(actor[a].wanted))
<1> DEFINE w == actor[a].wanted
<1>1. Rebuilt(w).peers[p] = IF w[p] = NoRow THEN NoRow ELSE Configured(NoRow, w[p])
  BY DEF Rebuilt
<1>2. AsItsRow(p, Rebuilt(w))
  BY <1>1, BroughtAsItsRow
<1>3. ~Everything(keyed) => Apply(w, keyed).peers[p] = Brought(kernel.peers[p], w[p])
  BY DEF Apply
<1>4. ~Everything(keyed) => AsItsRow(p, Apply(w, keyed))
  BY <1>3, BroughtAsItsRow
<1>. QED
  BY <1>2, <1>4 DEF Apply


(* A step that leaves the interface alone, makes nobody less owed and begins *)
(* no list: whoever's row it changes is looked at.                           *)
LEMMA LeftAlone ==
    ASSUME OverlayInvariant, kernel' = kernel, owed \subseteq owed',
           \A a \in Actor : actor'[a].at = "write" => actor'[a] = actor[a],
           \A p \in Peer \ owed' :
              \/ rows'[p] = rows[p]
              \/ /\ \A a \in Actor : actor'[a].at # "write"
                 /\ \E a \in Actor : Looks(a, p)',
           \A p \in Peer \ owed', a \in Actor : Looks(a, p) => \E b \in Actor : Looks(b, p)'
    PROVE  ListsAreFresh' /\ OwedOrComing' /\ DownIsEmpty'
<1>1. ListsAreFresh'
  BY DEF OverlayInvariant, ListsAreFresh
<1>2. ASSUME NEW p \in Peer \ owed', rows'[p] = rows[p], AsItsRow(p, kernel)
      PROVE  AsItsRow(p, kernel)'
  BY <1>2 DEF AsItsRow
<1>3. OwedOrComing'
  BY <1>2 DEF OverlayInvariant, OwedOrComing
<1>4. DownIsEmpty'
  BY DEF OverlayInvariant, DownIsEmpty, Nothing
<1>. QED
  BY <1>1, <1>3, <1>4

(* One actor goes on, the others stay where they are.                        *)
LEMMA OneGoesOn ==
    ASSUME OverlayTypeOK, NEW a \in Actor, NEW look, actor' = [actor EXCEPT ![a] = look]
    PROVE  actor'[a] = look /\ \A b \in Actor \ {a} : actor'[b] = actor[b]
BY DEF OverlayTypeOK

(* The census keeps all three: what moved is looked at, or owed.             *)
LEMMA CensusKeepsInvariant ==
    ASSUME OverlayInvariant,
           \/ \E h \in Authority : Ask(h)
           \/ \E p \in Peer : ApplyMember(p)
           \/ Applied \/ ApplyFails
    PROVE  ListsAreFresh' /\ OwedOrComing' /\ DownIsEmpty'
<1> USE ActorsAre
<1>0. OverlayTypeOK
  BY DEF OverlayInvariant
<1>1. ASSUME NEW h \in Authority, Ask(h) PROVE ListsAreFresh' /\ OwedOrComing' /\ DownIsEmpty'
  <2>1. /\ actor["loop"].at = "rest" /\ actor'["loop"].at = "apply"
        /\ \A b \in Actor \ {"loop"} : actor'[b] = actor[b]
        /\ rows' = rows /\ kernel' = kernel /\ owed' = owed
    <3> DEFINE look == [AtEase EXCEPT !.at = "apply", !.roster = census[h]]
    <3>1. look.at = "apply"
      BY DEF AtEase
    <3>2. actor' = [actor EXCEPT !["loop"] = look]
      BY <1>1 DEF Ask
    <3>3. actor'["loop"] = look /\ \A b \in Actor \ {"loop"} : actor'[b] = actor[b]
      BY <1>0, <3>2, OneGoesOn
    <3>. QED
      BY <1>1, <3>1, <3>3 DEF Ask
  <2>2. \A p \in Peer, a \in Actor : Looks(a, p) => Looks(a, p)'
    BY <2>1 DEF Looks
  <2>. QED
    BY <2>1, <2>2, LeftAlone
<1>2. ASSUME NEW p \in Peer, ApplyMember(p)
      PROVE  ListsAreFresh' /\ OwedOrComing' /\ DownIsEmpty'
  <2> DEFINE look == actor["loop"]
             said == look.roster[p]
             taken == p \notin Authority /\ ~Holds(p, said.address)
             moved == taken /\ Moved(p, said)
             after == [look EXCEPT !.roster = [@ EXCEPT ![p] = NoRow],
                                   !.changed = Counted(p, moved)]
  <2>1. look \in Looking /\ look.at = "apply"
    BY <1>0, <1>2 DEF ApplyMember, OverlayTypeOK
  <2>2. actor' = [actor EXCEPT !["loop"] = after]
    BY <1>0, <1>2 DEF ApplyMember, OverlayTypeOK
  <2>3. after.at = "apply" /\ after.changed = Counted(p, moved)
    BY <2>1 DEF Looking
  <2>4. /\ actor'["loop"].at = "apply" /\ actor'["loop"].changed = Counted(p, moved)
        /\ \A b \in Actor \ {"loop"} : actor'[b] = actor[b]
    <3>1. actor'["loop"] = after /\ \A b \in Actor \ {"loop"} : actor'[b] = actor[b]
      BY <1>0, <2>2, OneGoesOn
    <3>. QED
      BY <2>3, <3>1
  <2>5. look.changed \subseteq Counted(p, moved) /\ (moved => p \in Counted(p, moved))
    BY DEF Counted
  <2>6. \A q \in Peer, a \in Actor : Looks(a, q) => Looks(a, q)'
    BY <2>1, <2>4, <2>5 DEF Looks
  <2>7. kernel' = kernel /\ owed \subseteq owed' /\ \A q \in Peer \ {p} : rows'[q] = rows[q]
    BY <1>0, <1>2 DEF ApplyMember, OwedBy, OverlayTypeOK
  <2>8. ASSUME p \notin owed', rows'[p] # rows[p]
        PROVE  /\ \A a \in Actor : actor'[a].at # "write"
               /\ Looks("loop", p)'
    <3>1. moved /\ ~HasOlderList("loop")
      BY <1>2, <2>8 DEF ApplyMember, OwedBy
    <3>. QED
      BY <3>1, <2>4, <2>5 DEF HasOlderList, Looks
  <2>. QED
    BY <2>4, <2>6, <2>7, <2>8, LeftAlone
<1>3. CASE Applied
  <2>1. /\ actor["loop"].at = "apply" /\ actor'["loop"].at \in {"read", "rest"}
        /\ actor["loop"].changed # {} => actor'["loop"].at = "read"
        /\ \A b \in Actor \ {"loop"} : actor'[b] = actor[b]
        /\ rows' = rows /\ kernel' = kernel /\ owed' = owed
    BY <1>0, <1>3, OneGoesOn, RestingIsLooking DEF Applied
  <2>2. \A p \in Peer, a \in Actor : Looks(a, p) => Looks(a, p)'
    BY <2>1 DEF Looks
  <2>. QED
    BY <2>1, <2>2, LeftAlone
<1>4. CASE ApplyFails
  <2>1. /\ actor["loop"].at = "apply" /\ actor'["loop"].at = "rest"
        /\ \A b \in Actor \ {"loop"} : actor'[b] = actor[b]
        /\ rows' = rows /\ kernel' = kernel /\ owed' = owed \cup actor["loop"].changed
    BY <1>0, <1>4, OneGoesOn, RestingIsLooking DEF ApplyFails
  <2>2. \A p \in Peer \ owed', a \in Actor : Looks(a, p) => Looks(a, p)'
    BY <2>1 DEF Looks
  <2>. QED
    BY <2>1, <2>2, LeftAlone
<1>. QED
  BY <1>1, <1>2, <1>3, <1>4

(* So does whatever else writes a row.                                       *)
LEMMA RowsKeepInvariant ==
    ASSUME OverlayInvariant, NEW p \in Peer,
           \/ \E address \in Addr : LearnPeer(p, address) \/ Arrives(p, address)
           \/ \E said \in Known : Reports(p, said)
           \/ ForgetNode(p)
    PROVE  ListsAreFresh' /\ OwedOrComing' /\ DownIsEmpty'
<1> USE ActorsAre
<1>0. OverlayTypeOK
  BY DEF OverlayInvariant
<1>1. ASSUME NEW a \in Actor, actor' = [actor EXCEPT ![a] = Ensures], actor[a].at = "rest",
             kernel' = kernel, \A q \in Peer \ {p} : rows'[q] = rows[q],
             owed' = OwedBy(a, p) \/ (owed' = owed /\ rows' = rows)
      PROVE  ListsAreFresh' /\ OwedOrComing' /\ DownIsEmpty'
  <2>1. actor'[a].at = "read" /\ \A b \in Actor \ {a} : actor'[b] = actor[b]
    BY <1>0, <1>1, OneGoesOn, RestingIsLooking
  <2>2. \A q \in Peer : Looks(a, q)'
    BY <2>1 DEF Looks
  <2>3. owed \subseteq owed'
    BY <1>1 DEF OwedBy
  <2>4. p \notin owed' => rows' = rows \/ \A b \in Actor : actor'[b].at # "write"
    BY <1>1, <2>1 DEF OwedBy, HasOlderList
  <2>. QED
    BY <1>1, <2>1, <2>2, <2>3, <2>4, LeftAlone
<1>2. ASSUME NEW address \in Addr, LearnPeer(p, address)
      PROVE  ListsAreFresh' /\ OwedOrComing' /\ DownIsEmpty'
  <2>1. \A q \in Peer \ {p} : rows'[q] = rows[q]
    BY <1>0, <1>2 DEF LearnPeer, OverlayTypeOK
  <2>. QED
    BY <1>1, <1>2, <2>1 DEF LearnPeer
<1>3. ASSUME NEW address \in Addr, Arrives(p, address)
      PROVE  ListsAreFresh' /\ OwedOrComing' /\ DownIsEmpty'
  <2>1. \A q \in Peer \ {p} : rows'[q] = rows[q]
    BY <1>0, <1>3 DEF Arrives, OverlayTypeOK
  <2>. QED
    BY <1>1, <1>3, <2>1 DEF Arrives
<1>4. CASE ForgetNode(p) \/ \E said \in Known : Reports(p, said)
  <2>1. /\ kernel' = kernel /\ actor' = actor /\ owed' = owed \cup {p}
        /\ \A q \in Peer \ {p} : rows'[q] = rows[q]
    BY <1>0, <1>4 DEF ForgetNode, Reports, OverlayTypeOK
  <2>2. \A q \in Peer, a \in Actor : Looks(a, q) => Looks(a, q)'
    BY <2>1 DEF Looks
  <2>. QED
    BY <2>1, <2>2, LeftAlone
<1>. QED
  BY <1>2, <1>3, <1>4


(* A list that is written brings every peer to its row that is not owed,     *)
(* unless somebody else has yet to write.                                    *)
LEMMA WrittenAsTheRows ==
    ASSUME OverlayInvariant, NEW a \in Actor, actor[a].at = "write", NEW keyed \in BOOLEAN,
           kernel' \in {Apply(actor[a].wanted, keyed), Rebuilt(actor[a].wanted)},
           actor' = [actor EXCEPT ![a] = AtEase], rows' = rows,
           owed' = {p \in owed : HasOlderList(a) \/ ~AsItsRow(p, kernel')}
    PROVE  ListsAreFresh' /\ OwedOrComing' /\ DownIsEmpty'
<1>0. OverlayTypeOK
  BY DEF OverlayInvariant
<1>1. actor'[a].at = "rest" /\ \A b \in Actor \ {a} : actor'[b] = actor[b]
  BY <1>0, OneGoesOn, RestingIsLooking
<1>2. kernel'.up = TRUE
  BY DEF Apply, Rebuilt
<1>3. ASSUME NEW p \in Peer, AsItsRow(p, kernel') PROVE AsItsRow(p, kernel)'
  BY <1>3 DEF AsItsRow
<1>4. CASE HasOlderList(a)
  <2>1. owed' = owed
    BY <1>4
  <2>2. PICK b \in Actor \ {a} : actor[b].at = "write"
    BY <1>4 DEF HasOlderList
  <2>3. \A p \in Peer : Looks(b, p)'
    BY <1>1, <2>2 DEF Looks
  <2>4. ListsAreFresh'
    BY <1>1, <2>1 DEF OverlayInvariant, ListsAreFresh
  <2>. QED
    BY <1>2, <2>3, <2>4 DEF OwedOrComing, DownIsEmpty
<1>5. CASE ~HasOlderList(a)
  <2>1. \A b \in Actor : actor'[b].at # "write"
    BY <1>1, <1>5 DEF HasOlderList
  <2>2. ASSUME NEW p \in Peer \ owed' PROVE AsItsRow(p, kernel')
    <3>1. CASE p \in owed
      BY <1>5, <2>2, <3>1
    <3>2. CASE p \notin owed
      <4>1. actor[a].wanted[p] = WantedOf(rows[p], TRUE)
        BY <3>2 DEF OverlayInvariant, ListsAreFresh
      <4>. QED
        BY <1>0, <4>1, AppliedAsItsRow
    <3>. QED
      BY <3>1, <3>2
  <2>. QED
    BY <1>2, <1>3, <2>1, <2>2 DEF ListsAreFresh, OwedOrComing, DownIsEmpty
<1>. QED
  BY <1>4, <1>5

(* So does looking, while somebody else looks too.                           *)
LEMMA LooksKeepInvariant ==
    ASSUME OverlayInvariant, NEW a \in Actor,
           \/ ReadPeers(a) \/ WriteFails(a) \/ WriteUnread(a)
           \/ \E keyed \in BOOLEAN : WritePeers(a, keyed)
    PROVE  ListsAreFresh' /\ OwedOrComing' /\ DownIsEmpty'
<1>0. OverlayTypeOK
  BY DEF OverlayInvariant
<1>1. CASE ReadPeers(a)
  <2>1. PICK unresolved \in SUBSET {p \in InTable(rows) : rows[p].dialled} :
          /\ actor' = [actor EXCEPT ![a] = [AtEase EXCEPT !.at = "write",
                !.wanted = [p \in Peer |-> WantedOf(rows[p], p \notin unresolved)]]]
          /\ owed' = owed \cup unresolved
    BY <1>1 DEF ReadPeers
  <2> DEFINE wanted == [p \in Peer |-> WantedOf(rows[p], p \notin unresolved)]
             look == [AtEase EXCEPT !.at = "write", !.wanted = wanted]
  <2>2. look.at = "write" /\ look.wanted = wanted
    BY DEF AtEase
  <2>3. actor'[a] = look /\ \A b \in Actor \ {a} : actor'[b] = actor[b]
    BY <1>0, <2>1, OneGoesOn
  <2>4. rows' = rows /\ kernel' = kernel
    BY <1>1 DEF ReadPeers
  <2>5. \A p \in Peer \ owed' : wanted[p] = WantedOf(rows[p], TRUE)
    BY <2>1
  <2>6. ListsAreFresh'
    <3>1. ASSUME NEW b \in Actor, actor'[b].at = "write", NEW p \in Peer \ owed'
          PROVE  actor'[b].wanted[p] = WantedOf(rows[p], TRUE)
      <4>1. CASE b = a
        BY <2>2, <2>3, <2>5, <3>1, <4>1
      <4>2. CASE b # a
        <5>1. actor'[b] = actor[b]
          BY <2>3, <4>2
        <5>2. p \in Peer \ owed
          BY <2>1
        <5>. QED
          BY <3>1, <5>1, <5>2 DEF OverlayInvariant, ListsAreFresh
      <4>. QED
        BY <4>1, <4>2
    <3>. QED
      BY <2>4, <3>1 DEF ListsAreFresh
  <2>7. \A p \in Peer : Looks(a, p)'
    BY <2>2, <2>3 DEF Looks
  <2>. QED
    BY <2>4, <2>6, <2>7 DEF OwedOrComing, DownIsEmpty, OverlayInvariant, Nothing
<1>2. ASSUME NEW keyed \in BOOLEAN, WritePeers(a, keyed)
      PROVE  ListsAreFresh' /\ OwedOrComing' /\ DownIsEmpty'
  BY <1>2, WrittenAsTheRows DEF WritePeers
<1>3. CASE WriteUnread(a)
  BY <1>3, WrittenAsTheRows DEF WriteUnread
<1>4. CASE WriteFails(a)
  <2>1. /\ actor'[a].at = "rest" /\ \A b \in Actor \ {a} : actor'[b] = actor[b]
        /\ rows' = rows /\ owed' = owed \cup {p \in Peer : ~AsItsRow(p, kernel')}
    BY <1>0, <1>4, OneGoesOn, RestingIsLooking DEF WriteFails
  <2>2. ListsAreFresh'
    BY <2>1 DEF OverlayInvariant, ListsAreFresh
  <2>3. ASSUME NEW p \in Peer \ owed' PROVE AsItsRow(p, kernel)'
    <3>1. AsItsRow(p, kernel')
      BY <2>1, <2>3
    <3>. QED
      BY <2>1, <3>1 DEF AsItsRow
  <2>4. kernel'.up = kernel.up /\ (~kernel.up => kernel' = kernel)
    BY <1>0, <1>4 DEF WriteFails, OverlayTypeOK
  <2>. QED
    BY <2>2, <2>3, <2>4 DEF OwedOrComing, DownIsEmpty, OverlayInvariant, Nothing
<1>. QED
  BY <1>1, <1>2, <1>3, <1>4

(* So do packets, other nodes, and a process that stops.                     *)
LEMMA OthersKeepInvariant ==
    ASSUME OverlayInvariant,
           \/ \E p \in Peer : Hear(p)
           \/ \E h \in Authority, p \in Peer, said \in Known \cup {NoRow} : Changes(h, p, said)
           \/ \E machine \in BOOLEAN : Stop(machine)
    PROVE  ListsAreFresh' /\ OwedOrComing' /\ DownIsEmpty'
<1>0. OverlayTypeOK
  BY DEF OverlayInvariant
<1>1. ASSUME NEW p \in Peer, Hear(p) PROVE ListsAreFresh' /\ OwedOrComing' /\ DownIsEmpty'
  <2>1. PICK from \in {kernel.peers[p].endpoint, "learned"} \ {"none"} :
          kernel' = [kernel EXCEPT !.peers[p].session = TRUE, !.peers[p].endpoint = from]
    BY <1>1 DEF Hear
  <2>2. kernel.peers[p] \in Held /\ kernel.up
    BY <1>0, <1>1 DEF Hear, OverlayTypeOK
  <2>3. /\ kernel'.up = kernel.up
        /\ \A q \in Peer \ {p} : kernel'.peers[q] = kernel.peers[q]
        /\ kernel'.peers[p] = [kernel.peers[p] EXCEPT !.session = TRUE, !.endpoint = from]
    BY <1>0, <2>1 DEF OverlayTypeOK
  <2>4. rows' = rows /\ actor' = actor /\ owed' = owed
    BY <1>1 DEF Hear
  <2>5. /\ kernel'.peers[p] \in Held
        /\ kernel'.peers[p].address = kernel.peers[p].address
        /\ kernel'.peers[p].keepalive = kernel.peers[p].keepalive
        /\ kernel'.peers[p].endpoint \in {kernel.peers[p].endpoint, "learned"}
    <3>1. from \in {"none", "public", "lan", "learned"}
      BY <2>2 DEF Held
    <3>. QED
      BY <2>2, <2>3, <3>1 DEF Held
  <2>6. ASSUME NEW q \in Peer, AsItsRow(q, kernel) PROVE AsItsRow(q, kernel)'
    <3>1. CASE q = p
      <4>1. kernel.peers[p] # NoRow /\ kernel'.peers[p] # NoRow
        BY <2>2, <2>5, NoRowAssumption
      <4>. QED
        BY <2>4, <2>5, <2>6, <3>1, <4>1 DEF AsItsRow
    <3>2. CASE q # p
      BY <2>3, <2>4, <2>6, <3>2 DEF AsItsRow
    <3>. QED
      BY <3>1, <3>2
  <2>7. ListsAreFresh' /\ DownIsEmpty'
    BY <2>2, <2>3, <2>4 DEF OverlayInvariant, ListsAreFresh, DownIsEmpty
  <2>8. OwedOrComing'
    BY <2>4, <2>6 DEF OverlayInvariant, OwedOrComing, Looks
  <2>. QED
    BY <2>7, <2>8
<1>2. CASE \E h \in Authority, p \in Peer, said \in Known \cup {NoRow} : Changes(h, p, said)
  <2>1. rows' = rows /\ kernel' = kernel /\ actor' = actor /\ owed' = owed
    BY <1>2 DEF Changes
  <2>2. \A p \in Peer, a \in Actor : Looks(a, p) => Looks(a, p)'
    BY <2>1 DEF Looks
  <2>. QED
    BY <2>1, <2>2, LeftAlone
<1>3. ASSUME NEW machine \in BOOLEAN, Stop(machine)
      PROVE  ListsAreFresh' /\ OwedOrComing' /\ DownIsEmpty'
  <2>1. actor'["start"].at = "read" /\ \A a \in Actor : actor'[a].at # "write"
    BY <1>3, RestingIsLooking, ActorsAre DEF Stop
  <2>2. Looks("start", "any")' /\ \A p \in Peer : Looks("start", p)'
    BY <2>1 DEF Looks
  <2>3. DownIsEmpty'
    BY <1>3 DEF Stop, OverlayInvariant, DownIsEmpty, Nothing
  <2>. QED
    BY <2>1, <2>2, <2>3, ActorsAre DEF ListsAreFresh, OwedOrComing
<1>. QED
  BY <1>1, <1>2, <1>3

(* Together: every step keeps the invariant.                                 *)
LEMMA OverlayStepKeepsInvariant ==
    ASSUME OverlayInvariant, [OverlayNext]_overlay PROVE OverlayInvariant'
<1>1. OverlayTypeOK'
  BY OverlayStepTypes DEF OverlayInvariant
<1>2. CASE UNCHANGED overlay
  <2>1. rows' = rows /\ kernel' = kernel /\ actor' = actor /\ owed' = owed
    BY <1>2 DEF overlay
  <2>2. \A p \in Peer, a \in Actor : Looks(a, p) => Looks(a, p)'
    BY <2>1 DEF Looks
  <2>. QED
    BY <1>1, <2>1, <2>2, LeftAlone DEF OverlayInvariant
<1>3. CASE OverlayNext
  BY <1>1, <1>3, CensusKeepsInvariant, RowsKeepInvariant, LooksKeepInvariant,
     OthersKeepInvariant, OverlayAssumption DEF OverlayNext, OverlayInvariant
<1>. QED
  BY <1>2, <1>3

(* Every peer is as its row says, or somebody is about to look, or it is one *)
(* of those nobody was asked to look at; and no list on its way is stale for *)
(* any but those.                                                            *)
THEOREM OverlayHolds == OverlaySpec => []OverlayInvariant
<1>1. OverlayInit => OverlayInvariant
  <2> SUFFICES ASSUME OverlayInit PROVE OverlayInvariant
    OBVIOUS
  <2>1. OverlayTypeOK
    BY OverlayInitTypes
  <2>2. actor["start"].at = "read" /\ \A a \in Actor : actor[a].at # "write"
    BY RestingIsLooking, ActorsAre DEF OverlayInit
  <2>3. \A p \in Peer : Looks("start", p)
    BY <2>2 DEF Looks
  <2>4. DownIsEmpty
    BY DEF OverlayInit, DownIsEmpty
  <2>. QED
    BY <2>1, <2>2, <2>3, <2>4, ActorsAre DEF OverlayInvariant, ListsAreFresh, OwedOrComing
<1>2. OverlayInvariant /\ [OverlayNext]_overlay => OverlayInvariant'
  BY OverlayStepKeepsInvariant
<1>. QED
  BY <1>1, <1>2, PTL DEF OverlaySpec

(* At rest the interface has exactly the peers of the rows, each as its row  *)
(* says, but for those nobody was asked to look at.                          *)
THEOREM InterfaceFollows == OverlaySpec => []FollowsTheRows
<1>1. OverlayInvariant => FollowsTheRows
  BY DEF OverlayInvariant, OwedOrComing, FollowsTheRows, NobodyLooks, Looks
<1>. QED
  BY <1>1, OverlayHolds, PTL

(* A session a peer has survives every start, pass and join.                 *)
LEMMA SessionKept ==
    ASSUME OverlayInvariant, [OverlayNext]_overlay, NEW p \in Peer,
           HasSession(p), rows[p] # NoRow, p \notin owed, faults' = faults
    PROVE  HasSession(p)'
<1>0. OverlayTypeOK
  BY DEF OverlayInvariant
<1>1. kernel.peers[p] \in Held /\ kernel.peers[p].session
  BY <1>0 DEF HasSession, OverlayTypeOK
<1>2. ASSUME NEW a \in Actor, NEW keyed \in BOOLEAN, WritePeers(a, keyed)
      PROVE  HasSession(p)'
  <2>1. actor[a].wanted[p] = WantedOf(rows[p], TRUE) /\ actor[a].wanted[p] # NoRow
    <3>1. actor[a].at = "write"
      BY <1>2 DEF WritePeers
    <3>2. actor[a].wanted[p] = WantedOf(rows[p], TRUE)
      BY <3>1 DEF OverlayInvariant, ListsAreFresh
    <3>3. rows[p] \in Known
      BY <1>0 DEF OverlayTypeOK
    <3>. QED
      BY <3>2, <3>3, WantedOfARow
  <2>2. ~Everything(keyed)
    <3>1. kernel.up
      BY <1>1, NoRowAssumption DEF OverlayInvariant, DownIsEmpty, Nothing
    <3>. QED
      BY <1>1, <3>1, NoRowAssumption DEF Everything, InTable
  <2>3. kernel'.peers[p] = Brought(kernel.peers[p], actor[a].wanted[p])
    BY <1>2, <2>2 DEF WritePeers, Apply
  <2>4. actor[a].wanted[p] \in Wanted
    <3>1. actor[a].wanted \in [Peer -> Wanted \cup {NoRow}]
      BY <1>0 DEF OverlayTypeOK, Looking
    <3>. QED
      BY <2>1, <3>1
  <2>5. Configured(kernel.peers[p], actor[a].wanted[p]) \in Held
    BY <1>1, <2>4, ConfiguredIsHeld
  <2>6. kernel.peers[p] # NoRow
    BY <1>1, NoRowAssumption
  <2>7. Configured(kernel.peers[p], actor[a].wanted[p]).session
    BY <1>1, <2>6 DEF Configured
  <2>. QED
    BY <1>1, <2>1, <2>3, <2>5, <2>7, NoRowAssumption DEF Brought, HasSession
<1>3. ASSUME NEW q \in Peer, Hear(q) PROVE HasSession(p)'
  <2>1. PICK from \in {kernel.peers[q].endpoint, "learned"} \ {"none"} :
          kernel' = [kernel EXCEPT !.peers[q].session = TRUE, !.peers[q].endpoint = from]
    BY <1>3 DEF Hear
  <2>2. /\ \A r \in Peer \ {q} : kernel'.peers[r] = kernel.peers[r]
        /\ kernel'.peers[q] = [kernel.peers[q] EXCEPT !.session = TRUE, !.endpoint = from]
    BY <1>0, <2>1 DEF OverlayTypeOK
  <2>3. kernel'.peers[p] \in Held \cup {NoRow}
    BY <1>3, <1>0, OthersKeepTypes DEF OverlayTypeOK
  <2>4. CASE q = p
    <3>1. from \in {"none", "public", "lan", "learned"}
      BY <1>1, <2>4 DEF Held
    <3>2. [kernel.peers[p] EXCEPT !.session = TRUE, !.endpoint = from] \in Held
      BY <1>1, <3>1 DEF Held
    <3>3. [kernel.peers[p] EXCEPT !.session = TRUE, !.endpoint = from].session
      BY <1>1 DEF Held
    <3>. QED
      BY <2>2, <2>4, <3>2, <3>3, NoRowAssumption DEF HasSession
  <2>5. CASE q # p
    BY <2>2, <2>5 DEF HasSession
  <2>. QED
    BY <2>4, <2>5
<1>4. CASE kernel' = kernel
  BY <1>4 DEF HasSession
<1>5. ASSUME NEW a \in Actor, WriteFails(a) \/ WriteUnread(a) PROVE FALSE
  <2>1. faults' = faults + 1
    BY <1>5 DEF WriteFails, WriteUnread
  <2>2. faults \in Nat
    BY <1>0, OverlayAssumption DEF OverlayTypeOK
  <2>. QED
    BY <2>1, <2>2
<1>6. ASSUME NEW machine \in BOOLEAN, Stop(machine) PROVE FALSE
  BY <1>0, <1>6, OverlayAssumption DEF Stop, OverlayTypeOK
<1>7. CASE UNCHANGED overlay
  BY <1>7, <1>4 DEF overlay
<1>8. CASE OverlayNext
  <2>1. \/ \E a \in Actor, keyed \in BOOLEAN : WritePeers(a, keyed)
        \/ \E q \in Peer : Hear(q)
        \/ \E a \in Actor : WriteFails(a) \/ WriteUnread(a)
        \/ \E machine \in BOOLEAN : Stop(machine)
        \/ kernel' = kernel
    BY <1>8 DEF OverlayNext, Ask, ApplyMember, ForgetNode, Applied, ApplyFails, LearnPeer,
                Arrives, Reports, ReadPeers, Changes
  <2>. QED
    BY <2>1, <1>2, <1>3, <1>4, <1>5, <1>6
<1>. QED
  BY <1>7, <1>8

(* A session is lost to a fault, or to a row that is not there or is owed.   *)
THEOREM SessionsAreKept == OverlaySpec => SessionsSurvive
<1>1. OverlayInvariant /\ [OverlayNext]_overlay =>
        [\A p \in Peer : HasSession(p) /\ ~HasSession(p)' =>
            faults' # faults \/ rows[p] = NoRow \/ p \in owed]_overlay
  BY SessionKept
<1>. QED
  BY <1>1, OverlayHolds, PTL DEF OverlaySpec, SessionsSurvive

==============================================================================
