------------------------------- MODULE Errands -------------------------------
(* The errand queue between the nodes of one network                        *)
(* (src/infra/network/errand.rs, collect.rs, and the endpoints of           *)
(* src/web/remote_node_rest_controller.rs).                                 *)
(*                                                                          *)
(* Every node keeps a table of errands.  A node dials the nodes it takes    *)
(* instructions from, its authorities: it hands over what it queued for     *)
(* them, collects what they queued for it, carries each out and says how it *)
(* went.  Nothing is pushed, so an errand is handed over again until its    *)
(* answer has arrived.  What carrying one out does is left to the modules   *)
(* that refine this one: here it only succeeds or fails.                    *)
EXTENDS Naturals, Sequences, FiniteSets

CONSTANTS
    Node,       \* the machines
    Order,      \* what an errand can ask for: kind and payload
    Subject,    \* what an instruction is about, when it is compared with the last
    NoSubject,  \* the NULL of that column
    Enrolled,   \* pairs <<member, authority>> that joined, at some time
    MaxErrands, \* bound: node -> errands it queues on its own account
    MaxFaults,  \* bound: crashes and calls that do not get their answer
    FaultKinds  \* bound: which of "ask", "collect", "settle", "crash" may happen

ASSUME NoSubjectIsNone == NoSubject \notin Subject
ASSUME NobodyJoinsItself ==
    /\ Enrolled \subseteq Node \X Node
    /\ \A n \in Node : <<n, n>> \notin Enrolled
ASSUME BoundsAreNaturals == MaxErrands \in [Node -> Nat] /\ MaxFaults \in Nat

VARIABLES
    table,      \* node -> the rows of its errand table, in the order of insertion
    authority,  \* node -> the nodes it takes instructions from now
    pass,       \* node -> where its collection loop is
    flight,     \* requests whose sender stopped waiting and that may still arrive
    obeyed,     \* history: node -> <<owner, row, failed>> it carried out
    faults      \* history: how many faults happened

vars == <<table, authority, pass, flight, obeyed, faults>>

------------------------------------------------------------------------------
(* Rows *)

Row == [to : Node, from : Node, subject : Subject \cup {NoSubject},
        order : Order, done : BOOLEAN, failed : BOOLEAN]

NewRow(to, from, s, o) ==
    [to |-> to, from |-> from, subject |-> s, order |-> o,
     done |-> FALSE, failed |-> FALSE]

\* The rows of n's table that are addressed to node `to` and not settled.
Waiting(n, to) ==
    {i \in DOMAIN table[n] : table[n][i].to = to /\ ~table[n][i].done}

\* Faulty: the last answer wins.
SettledAgain(row, by, failed) ==
    IF row.to = by THEN [row EXCEPT !.done = TRUE, !.failed = failed] ELSE row

\* The row one settlement leaves: only the addressee's, and only the first.
SettledRow(row, by, failed) ==
    IF row.to = by /\ ~row.done
    THEN [row EXCEPT !.done = TRUE, !.failed = failed]
    ELSE row

\* Faulty: the batch is worked through from its end.
OldestBackwards(batch) == CHOOSE i \in batch : \A j \in batch : i >= j

Oldest(batch) == CHOOSE i \in batch : \A j \in batch : i <= j

\* How many of a table's rows its own node queued, which the bound counts.
Queued(n) == Cardinality({i \in DOMAIN table[n] : table[n][i].from = n})

------------------------------------------------------------------------------
(* One leg of a pass: what one node does with one of its authorities, or    *)
(* with itself.                                                             *)

Stage == {"resting", "handing", "asking", "obeying", "answering"}

Resting(n) == [stage |-> "resting", with |-> n, batch |-> {}, failed |-> FALSE]

Handing(a, batch) ==
    [stage |-> IF batch = {} THEN "asking" ELSE "handing",
     with |-> a, batch |-> batch, failed |-> FALSE]

Obeying(n, a, batch) ==
    IF batch = {} THEN Resting(n)
    ELSE [stage |-> "obeying", with |-> a, batch |-> batch, failed |-> FALSE]

Answering(a, batch, failed) ==
    [stage |-> "answering", with |-> a, batch |-> batch, failed |-> failed]

Init ==
    /\ table = [n \in Node |-> << >>]
    /\ authority = [n \in Node |-> {a \in Node : <<n, a>> \in Enrolled}]
    /\ pass = [n \in Node |-> Resting(n)]
    /\ flight = {}
    /\ obeyed = [n \in Node |-> {}]
    /\ faults = 0

Fault(kind) ==
    kind \in FaultKinds /\ faults < MaxFaults /\ faults' = faults + 1

(* Somebody, or something, on node n asks node `to` for something. *)
Queue(n, to, s, o) ==
    /\ Queued(n) < MaxErrands[n]
    /\ table' = [table EXCEPT ![n] = Append(@, NewRow(to, n, s, o))]
    /\ UNCHANGED <<authority, pass, flight, obeyed, faults>>

(* The operator of n stops taking instructions from a, or a join begins it. *)
Revoke(n, a) ==
    /\ a \in authority[n]
    /\ authority' = [authority EXCEPT ![n] = @ \ {a}]
    /\ UNCHANGED <<table, pass, flight, obeyed, faults>>

Grant(n, a) ==
    /\ <<n, a>> \in Enrolled /\ a \notin authority[n]
    /\ authority' = [authority EXCEPT ![n] = @ \cup {a}]
    /\ UNCHANGED <<table, pass, flight, obeyed, faults>>

(* The pass comes to authority a.  What n queued for a is read at once. *)
Begin(n, a) ==
    /\ pass[n].stage = "resting"
    /\ a \in authority[n]
    /\ pass' = [pass EXCEPT ![n] = Handing(a, Waiting(n, a))]
    /\ UNCHANGED <<table, authority, flight, obeyed, faults>>

(* And, last, to the errands n addressed to itself or took in for others. *)
BeginHere(n) ==
    /\ pass[n].stage = "resting"
    /\ Waiting(n, n) # {}
    /\ pass' = [pass EXCEPT ![n] = Obeying(n, n, Waiting(n, n))]
    /\ UNCHANGED <<table, authority, flight, obeyed, faults>>

------------------------------------------------------------------------------
(* Handing over: the one direction in which the asker dials *)

HandedNext(n) ==
    pass' = [pass EXCEPT ![n] = Handing(@.with, @.batch \ {Oldest(@.batch)})]

\* Faulty: who asked is not written down.
AcceptedFromNobody(a, from, o) == NewRow(a, NoSubject, NoSubject, o)

\* What the authority writes when an errand is handed to it: a row of its
\* own, addressed to itself, that says who asked.
Accepted(a, from, o) == NewRow(a, from, NoSubject, o)

(* Accepted there, and settled here on the strength of that answer. *)
HandOver(n) ==
    /\ pass[n].stage = "handing"
    /\ LET a == pass[n].with
           i == Oldest(pass[n].batch)
       IN table' = [table EXCEPT
                      ![n][i] = SettledRow(@, a, FALSE),
                      ![a] = Append(@, Accepted(a, n, table[n][i].order))]
    /\ HandedNext(n)
    /\ UNCHANGED <<authority, flight, obeyed, faults>>

\* Faulty: a refusal counts as an answer.
HandOverRefusedAndSettled(n) ==
    /\ pass[n].stage = "handing"
    /\ table' = [table EXCEPT ![n][Oldest(pass[n].batch)] =
                   SettledRow(@, pass[n].with, FALSE)]
    /\ HandedNext(n)
    /\ UNCHANGED <<authority, flight, obeyed, faults>>

(* Refused at the door: left pending, for the next pass to try. *)
HandOverRefused(n) ==
    /\ pass[n].stage = "handing"
    /\ HandedNext(n)
    /\ UNCHANGED <<table, authority, flight, obeyed, faults>>

(* The call times out; the request may arrive yet.  Left pending too. *)
HandOverTimesOut(n) ==
    /\ pass[n].stage = "handing"
    /\ Fault("ask")
    /\ flight' = flight \cup
         {[kind |-> "ask", at |-> faults, by |-> n, owner |-> pass[n].with,
           row |-> Oldest(pass[n].batch), failed |-> FALSE]}
    /\ HandedNext(n)
    /\ UNCHANGED <<table, authority, obeyed>>

------------------------------------------------------------------------------
(* Collecting, carrying out, answering *)

Collect(n) ==
    /\ pass[n].stage = "asking"
    /\ pass' = [pass EXCEPT ![n] = Obeying(n, @.with, Waiting(@.with, n))]
    /\ UNCHANGED <<table, authority, flight, obeyed, faults>>

CollectFails(n) ==
    /\ pass[n].stage = "asking"
    /\ Fault("collect")
    /\ pass' = [pass EXCEPT ![n] = Resting(n)]
    /\ UNCHANGED <<table, authority, flight, obeyed>>

(* The oldest errand of the batch, from beginning to end. *)
CarryOut(n, failed) ==
    /\ pass[n].stage = "obeying"
    /\ pass' = [pass EXCEPT ![n] = Answering(@.with, @.batch, failed)]
    /\ obeyed' = [obeyed EXCEPT ![n] =
                    @ \cup {<<pass[n].with, Oldest(pass[n].batch), failed>>}]
    /\ UNCHANGED <<table, authority, flight, faults>>

AnsweredNext(n) ==
    pass' = [pass EXCEPT ![n] = Obeying(n, @.with, @.batch \ {Oldest(@.batch)})]

\* Faulty: an errand that failed is left for another try.
SettleIfItWorked(o, i, by, failed) ==
    table' = IF failed THEN table
             ELSE [table EXCEPT ![o][i] = SettledRow(@, by, failed)]

\* Row i of o's table after node `by` said how it went.
Settle(o, i, by, failed) ==
    table' = [table EXCEPT ![o][i] = SettledRow(@, by, failed)]

SettleArrives(n) ==
    /\ pass[n].stage = "answering"
    /\ Settle(pass[n].with, Oldest(pass[n].batch), n, pass[n].failed)
    /\ AnsweredNext(n)
    /\ UNCHANGED <<authority, flight, obeyed, faults>>

(* Only over the wire: an errand settled in n's own table needs no call. *)
SettleTimesOut(n) ==
    /\ pass[n].stage = "answering"
    /\ pass[n].with # n
    /\ Fault("settle")
    /\ flight' = flight \cup
         {[kind |-> "settle", at |-> faults, by |-> n, owner |-> pass[n].with,
           row |-> Oldest(pass[n].batch), failed |-> pass[n].failed]}
    /\ AnsweredNext(n)
    /\ UNCHANGED <<table, authority, obeyed>>

------------------------------------------------------------------------------
(* Requests that outlive the call, and processes that do not *)

LateAsk(m) ==
    /\ m \in flight /\ m.kind = "ask"
    /\ flight' = flight \ {m}
    /\ table' = [table EXCEPT ![m.owner] =
                   Append(@, Accepted(m.owner, m.by, table[m.by][m.row].order))]
    /\ UNCHANGED <<authority, pass, obeyed, faults>>

LateSettle(m) ==
    /\ m \in flight /\ m.kind = "settle"
    /\ flight' = flight \ {m}
    /\ Settle(m.owner, m.row, m.by, m.failed)
    /\ UNCHANGED <<authority, pass, obeyed, faults>>

Lose(m) ==
    /\ m \in flight
    /\ flight' = flight \ {m}
    /\ UNCHANGED <<table, authority, pass, obeyed, faults>>

(* The process of n stops and starts again: the rows stay, the pass does not. *)
Crash(n) ==
    /\ Fault("crash")
    /\ pass' = [pass EXCEPT ![n] = Resting(n)]
    /\ UNCHANGED <<table, authority, flight, obeyed>>

------------------------------------------------------------------------------

Calls(n) ==
    \/ HandOver(n) \/ HandOverRefused(n) \/ HandOverTimesOut(n)
    \/ Collect(n) \/ CollectFails(n)
    \/ \E failed \in BOOLEAN : CarryOut(n, failed)
    \/ SettleArrives(n) \/ SettleTimesOut(n)

Next ==
    \/ \E n, to \in Node, s \in Subject \cup {NoSubject}, o \in Order :
         Queue(n, to, s, o)
    \/ \E n, a \in Node : Revoke(n, a) \/ Grant(n, a) \/ Begin(n, a)
    \/ \E n \in Node : BeginHere(n) \/ Calls(n) \/ Crash(n)
    \/ \E m \in flight : LateAsk(m) \/ LateSettle(m) \/ Lose(m)

Spec == Init /\ [][Next]_vars

(* A pass visits every authority and then the node's own rows, every         *)
(* fifteen seconds, so no leg is put off for ever; and inside a leg no step  *)
(* waits for anything but a call with a timeout.                             *)
Fairness ==
    /\ \A n, a \in Node : SF_vars(Begin(n, a))
    /\ \A n \in Node :
         /\ SF_vars(BeginHere(n))
         /\ WF_vars(HandOver(n) \/ HandOverRefused(n))
         /\ WF_vars(Collect(n))
         /\ WF_vars(\E failed \in BOOLEAN : CarryOut(n, failed))
         /\ WF_vars(SettleArrives(n))

FairSpec == Spec /\ Fairness

------------------------------------------------------------------------------
(* What the queue promises *)

Leg == [stage : Stage, with : Node, batch : SUBSET (Nat \ {0}), failed : BOOLEAN]

Flight == [kind : {"ask", "settle"}, at : Nat, by : Node, owner : Node,
           row : Nat \ {0}, failed : BOOLEAN]

(* The shape of the state: every row, every leg and every late request. *)
TypeOK ==
    /\ table \in [Node -> Seq(Row)]
    /\ authority \in [Node -> SUBSET Node]
    /\ pass \in [Node -> Leg]
    /\ flight \subseteq Flight
    /\ obeyed \in [Node -> SUBSET (Node \X (Nat \ {0}) \X BOOLEAN)]
    /\ faults \in Nat

\* Row i of o's table was carried out by its addressee, with that outcome.
CarriedOut(o, i, failed) == <<o, i, failed>> \in obeyed[table[o][i].to]

\* Its addressee holds a row of its own that asks for the same, for o.
HandedUp(o, i) ==
    LET r == table[o][i] IN
    /\ ~r.failed /\ r.to # o
    /\ \E j \in DOMAIN table[r.to] :
         /\ table[r.to][j].to = r.to
         /\ table[r.to][j].from = o
         /\ table[r.to][j].order = r.order

\* It is behind the queue: settled, or carried out at least once.
DealtWith(o, i) ==
    table[o][i].done \/ \E failed \in BOOLEAN : CarriedOut(o, i, failed)

(* A settled errand was really answered: the node it was addressed to       *)
(* carried it out with that very outcome, or, handed up, holds a row of its *)
(* own that asks for the same thing on the sender's behalf.  A late or a    *)
(* repeated answer, a crash between carrying out and answering and a call   *)
(* that timed out never settle what nobody did.                             *)
SettledMeansAnswered ==
    \A o \in Node : \A i \in DOMAIN table[o] :
        table[o][i].done => CarriedOut(o, i, table[o][i].failed) \/ HandedUp(o, i)

(* Errands one node queued for another are carried out for the first time   *)
(* in the order they were queued, whatever was lost or repeated in between, *)
(* except those it settled by handing them up.                              *)
FirstInOrder ==
    \A o \in Node : \A i, j \in DOMAIN table[o] :
        /\ i < j /\ table[o][i].to = table[o][j].to
        /\ \E failed \in BOOLEAN : CarriedOut(o, j, failed)
        => DealtWith(o, i)

\* The same errand, and the same outcome once it has one.
SameErrand(r, q) ==
    /\ q.to = r.to /\ q.from = r.from /\ q.subject = r.subject /\ q.order = r.order
    /\ r.done => q = r

(* An errand is never rewritten or removed, and its outcome never changes   *)
(* once it has one: a second answer, however late, finds nothing to settle. *)
SettledIsFinal ==
    [][\A o \in Node : \A i \in DOMAIN table[o] :
         i \in DOMAIN table'[o] /\ SameErrand(table[o][i], table'[o][i])]_vars

(* Every errand for a node that collects from here, and every errand of     *)
(* this node's own, is answered in the end -- or that node stopped taking   *)
(* instructions from this one.                                              *)
EveryErrandAnswered ==
    \A o, n \in Node : \A i \in 1 .. MaxErrands[o] :
        (i \in DOMAIN table[o] /\ table[o][i].to = n)
          ~> \/ i \in DOMAIN table[o] /\ table[o][i].done
             \/ o # n /\ o \notin authority[n]

------------------------------------------------------------------------------
(* What the queue keeps true so that its promises hold *)

\* No node is its own authority: a leg with one reaches another machine.
ReachesOthers(n) ==
    /\ n \notin authority[n]
    /\ pass[n].stage \in {"handing", "asking"} => pass[n].with # n

\* A batch is never empty while it is worked through, and holds only rows
\* that exist where they were read and are addressed to who they are for.
HoldsRows(n) ==
    LET p == pass[n] IN
    /\ p.stage \in {"handing", "obeying", "answering"} => p.batch # {}
    /\ p.stage = "handing" =>
         \A i \in p.batch : i \in DOMAIN table[n] /\ table[n][i].to = p.with
    /\ p.stage \in {"obeying", "answering"} =>
         \A i \in p.batch : i \in DOMAIN table[p.with] /\ table[p.with][i].to = n

\* Whatever is older than the batch in hand and missing from it is dealt with.
HoldsTheOldest(n) ==
    LET p == pass[n] IN
    p.stage \in {"obeying", "answering"} =>
        \A j \in p.batch : \A i \in DOMAIN table[p.with] :
            (i < j /\ table[p.with][i].to = n /\ i \notin p.batch)
                => DealtWith(p.with, i)

\* What was carried out is a row that exists, and the answer in hand tells of
\* something carried out.
AnswersTruly(n) ==
    /\ \A x \in obeyed[n] : x[2] \in DOMAIN table[x[1]]
    /\ pass[n].stage = "answering" =>
         <<pass[n].with, Oldest(pass[n].batch), pass[n].failed>> \in obeyed[n]

\* A late answer tells of something carried out by the node its row is
\* addressed to; a late request, of a row that exists.
ArrivesTrue(m) ==
    IF m.kind = "ask"
    THEN m.row \in DOMAIN table[m.by]
    ELSE /\ m.row \in DOMAIN table[m.owner]
         /\ table[m.owner][m.row].to = m.by
         /\ <<m.owner, m.row, m.failed>> \in obeyed[m.by]

(* No leg of a pass ever loses its place: what it holds is in the tables it *)
(* was read from, nothing older was skipped, and every answer, under way or *)
(* delayed, tells of something carried out, whatever crashes or times out.  *)
Bookkeeping ==
    /\ \A n \in Node :
         ReachesOthers(n) /\ HoldsRows(n) /\ HoldsTheOldest(n) /\ AnswersTruly(n)
    /\ \A m \in flight : ArrivesTrue(m)

==============================================================================
