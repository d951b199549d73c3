---------------------------- MODULE ErrandsProofs ----------------------------
(* What the errand queue promises, for any network, any number of errands   *)
(* and any number of faults.                                                *)
EXTENDS Errands, TLAPS, WellFoundedInduction, SequenceTheorems

------------------------------------------------------------------------------
(* The oldest row of a batch is in it, and none of the batch is older. *)

LEMMA OldestIsLeast ==
    ASSUME NEW S \in SUBSET Nat, S # {}
    PROVE  Oldest(S) \in S /\ \A j \in S : Oldest(S) <= j
  <1> DEFINE R == {ss \in Nat \X Nat : ss[1] < ss[2]}
  <1>1. IsWellFoundedOn(R, Nat)
    BY NatLessThanWellFounded DEF OpToRel
  <1>2. \E x \in S : \A y \in S : ~ (<<y, x>> \in R)
    BY <1>1, WFMin
  <1>3. PICK x \in S : \A y \in S : ~ (<<y, x>> \in R)
    BY <1>2
  <1>4. ASSUME NEW y \in S PROVE x <= y
    <2>1. <<y, x>> \notin R
      BY <1>3
    <2>2. x \in Nat /\ y \in Nat /\ ~ (y < x)
      BY <2>1
    <2> QED  BY <2>2
  <1> QED  BY <1>4 DEF Oldest

------------------------------------------------------------------------------
(* The two things that happen to a table: a row is added, a row is settled. *)

Tables == [Node -> Seq(Row)]

LEMMA RowsAreNew ==
    ASSUME NEW to \in Node, NEW from \in Node,
           NEW s \in Subject \cup {NoSubject}, NEW o \in Order
    PROVE  NewRow(to, from, s, o) \in Row
  BY DEF NewRow, Row

LEMMA SettlingKeepsRow ==
    ASSUME NEW r \in Row, NEW by, NEW failed \in BOOLEAN
    PROVE  /\ SettledRow(r, by, failed) \in Row
           /\ SettledRow(r, by, failed).to = r.to
           /\ SettledRow(r, by, failed).from = r.from
           /\ SettledRow(r, by, failed).order = r.order
           /\ SettledRow(r, by, failed).subject = r.subject
           /\ r.done => SettledRow(r, by, failed) = r
           /\ SettledRow(r, by, failed).done =>
                r.done \/ (r.to = by /\ SettledRow(r, by, failed).failed = failed)
  BY DEF SettledRow, Row

LEMMA AppendingARow ==
    ASSUME NEW T \in Tables, NEW n \in Node, NEW r \in Row
    PROVE  LET U == [T EXCEPT ![n] = Append(@, r)] IN
           /\ U \in Tables
           /\ \A o \in Node : o # n => U[o] = T[o]
           /\ Len(U[n]) = Len(T[n]) + 1
           /\ \A i \in DOMAIN T[n] : i \in DOMAIN U[n] /\ U[n][i] = T[n][i]
           /\ U[n][Len(T[n]) + 1] = r
  BY DEF Tables

LEMMA SettlingARow ==
    ASSUME NEW T \in Tables, NEW n \in Node, NEW i \in DOMAIN T[n],
           NEW by, NEW failed \in BOOLEAN
    PROVE  LET U == [T EXCEPT ![n][i] = SettledRow(@, by, failed)] IN
           /\ U \in Tables
           /\ \A o \in Node : o # n => U[o] = T[o]
           /\ DOMAIN U[n] = DOMAIN T[n]
           /\ \A j \in DOMAIN T[n] : j # i => U[n][j] = T[n][j]
           /\ U[n][i] = SettledRow(T[n][i], by, failed)
  <1> DEFINE e == SettledRow(T[n][i], by, failed)
             U == [T EXCEPT ![n][i] = SettledRow(@, by, failed)]
  <1>1. T[n] \in Seq(Row) /\ T[n][i] \in Row
    BY DEF Tables
  <1>2. e \in Row
    BY <1>1, SettlingKeepsRow
  <1>3. U = [T EXCEPT ![n] = [T[n] EXCEPT ![i] = e]]
    OBVIOUS
  <1>4. [T[n] EXCEPT ![i] = e] \in Seq(Row)
    BY <1>1, <1>2
  <1> HIDE DEF e, U
  <1>5. U \in Tables /\ U[n] = [T[n] EXCEPT ![i] = e] /\ \A o \in Node : o # n => U[o] = T[o]
    BY <1>3, <1>4 DEF Tables
  <1>6. DOMAIN U[n] = DOMAIN T[n] /\ U[n][i] = e /\ \A j \in DOMAIN T[n] : j # i => U[n][j] = T[n][j]
    BY <1>5, <1>1
  <1> QED  BY <1>5, <1>6 DEF e, U

------------------------------------------------------------------------------
(* A step only adds to what is known: rows keep what they ask for, a        *)
(* settled one keeps its outcome, a new one is not settled, and what was    *)
(* carried out stays so.                                                    *)

Grows(T, U) ==
    /\ U \in Tables
    /\ \A o \in Node :
         /\ \A i \in DOMAIN T[o] : i \in DOMAIN U[o] /\ SameErrand(T[o][i], U[o][i])
         /\ \A i \in DOMAIN U[o] : i \notin DOMAIN T[o] => ~U[o][i].done

LEMMA StandingStillGrows ==
    ASSUME NEW T \in Tables
    PROVE  Grows(T, T)
  BY DEF Grows, SameErrand

LEMMA AppendingGrows ==
    ASSUME NEW T \in Tables, NEW n \in Node, NEW r \in Row, ~r.done
    PROVE  Grows(T, [T EXCEPT ![n] = Append(@, r)])
  <1> DEFINE U == [T EXCEPT ![n] = Append(@, r)]
  <1>1. /\ U \in Tables
        /\ \A o \in Node : o # n => U[o] = T[o]
        /\ Len(U[n]) = Len(T[n]) + 1
        /\ \A i \in DOMAIN T[n] : i \in DOMAIN U[n] /\ U[n][i] = T[n][i]
        /\ U[n][Len(T[n]) + 1] = r
    BY AppendingARow
  <1> HIDE DEF U
  <1>2. ASSUME NEW o \in Node, NEW i \in DOMAIN T[o]
        PROVE  i \in DOMAIN U[o] /\ SameErrand(T[o][i], U[o][i])
    BY <1>1 DEF SameErrand
  <1>3. ASSUME NEW o \in Node, NEW i \in DOMAIN U[o], i \notin DOMAIN T[o]
        PROVE  ~U[o][i].done
    <2>1. o = n
      BY <1>1, <1>3
    <2>2. i = Len(T[n]) + 1
      BY <2>1, <1>1, <1>3 DEF Tables
    <2> QED  BY <2>1, <2>2, <1>1
  <1> QED  BY <1>1, <1>2, <1>3 DEF Grows, U

LEMMA SettlingGrows ==
    ASSUME NEW T \in Tables, NEW n \in Node, NEW i \in DOMAIN T[n],
           NEW by, NEW failed \in BOOLEAN
    PROVE  Grows(T, [T EXCEPT ![n][i] = SettledRow(@, by, failed)])
  <1> DEFINE U == [T EXCEPT ![n][i] = SettledRow(@, by, failed)]
  <1>1. /\ U \in Tables
        /\ \A o \in Node : o # n => U[o] = T[o]
        /\ DOMAIN U[n] = DOMAIN T[n]
        /\ \A j \in DOMAIN T[n] : j # i => U[n][j] = T[n][j]
        /\ U[n][i] = SettledRow(T[n][i], by, failed)
    BY SettlingARow
  <1> HIDE DEF U
  <1>2. T[n][i] \in Row
    BY DEF Tables
  <1>3. SameErrand(T[n][i], U[n][i])
    BY <1>1, <1>2, SettlingKeepsRow DEF SameErrand
  <1>4. ASSUME NEW o \in Node, NEW j \in DOMAIN T[o]
        PROVE  j \in DOMAIN U[o] /\ SameErrand(T[o][j], U[o][j])
    <2>1. CASE o = n /\ j = i
      BY <2>1, <1>1, <1>3
    <2>2. CASE ~(o = n /\ j = i)
      BY <2>2, <1>1 DEF SameErrand
    <2> QED  BY <2>1, <2>2
  <1> QED  BY <1>1, <1>4 DEF Grows, U

LEMMA HandingOverGrows ==
    ASSUME NEW T \in Tables, NEW n \in Node, NEW a \in Node, a # n,
           NEW i \in DOMAIN T[n], NEW r \in Row, ~r.done,
           NEW failed \in BOOLEAN
    PROVE  Grows(T, [T EXCEPT ![n][i] = SettledRow(@, a, failed), ![a] = Append(@, r)])
  <1> DEFINE S == [T EXCEPT ![n][i] = SettledRow(@, a, failed)]
             U == [S EXCEPT ![a] = Append(@, r)]
  <1>1. Grows(T, S)
    BY SettlingGrows
  <1>2. /\ S \in Tables
        /\ \A o \in Node : o # n => S[o] = T[o]
        /\ DOMAIN S[n] = DOMAIN T[n]
        /\ \A j \in DOMAIN T[n] : j # i => S[n][j] = T[n][j]
        /\ S[n][i] = SettledRow(T[n][i], a, failed)
    BY SettlingARow
  <1> HIDE DEF S
  <1>3. Grows(T, S) /\ S \in Tables /\ \A o \in Node : DOMAIN S[o] = DOMAIN T[o]
    BY <1>1, <1>2
  <1>4. Grows(S, U)
    BY <1>3, AppendingGrows
  <1> HIDE DEF U
  <1>5. ASSUME NEW o \in Node, NEW j \in DOMAIN T[o]
        PROVE  j \in DOMAIN U[o] /\ SameErrand(T[o][j], U[o][j])
    <2>1. j \in DOMAIN S[o] /\ SameErrand(T[o][j], S[o][j])
      BY <1>3 DEF Grows
    <2>2. j \in DOMAIN U[o] /\ SameErrand(S[o][j], U[o][j])
      BY <2>1, <1>4 DEF Grows
    <2> QED  BY <2>1, <2>2 DEF SameErrand
  <1>6. Grows(T, U)
    BY <1>3, <1>4, <1>5 DEF Grows
  <1>7. U = [T EXCEPT ![n][i] = SettledRow(@, a, failed), ![a] = Append(@, r)]
    BY DEF S, U, Tables
  <1> QED  BY <1>6, <1>7

------------------------------------------------------------------------------
(* Every step does one of these to the tables, and keeps the types. *)

LEMMA OldestInHand ==
    ASSUME TypeOK, NEW n \in Node, HoldsRows(n),
           pass[n].stage \in {"handing", "obeying", "answering"}
    PROVE  /\ Oldest(pass[n].batch) \in pass[n].batch
           /\ \A j \in pass[n].batch : Oldest(pass[n].batch) <= j
           /\ pass[n].batch \in SUBSET (Nat \ {0})
  <1>1. pass[n].batch \in SUBSET (Nat \ {0}) /\ pass[n].batch # {}
    BY DEF TypeOK, Leg, HoldsRows
  <1> QED  BY <1>1, OldestIsLeast

LEMMA AcceptedIsNew ==
    ASSUME NEW a \in Node, NEW from \in Node, NEW r \in Row
    PROVE  /\ Accepted(a, from, r.order) \in Row
           /\ Accepted(a, from, r.order).to = a
           /\ Accepted(a, from, r.order).from = from
           /\ Accepted(a, from, r.order).order = r.order
           /\ ~Accepted(a, from, r.order).done
  BY DEF Accepted, NewRow, Row

LEMMA StepGrows ==
    ASSUME TypeOK, Bookkeeping, [Next]_vars
    PROVE  Grows(table, table') /\ \A n \in Node : obeyed[n] \subseteq obeyed'[n]
  <1> table \in Tables
    BY DEF TypeOK, Tables
  <1>0. ASSUME UNCHANGED <<table, obeyed>>
        PROVE  Grows(table, table') /\ \A n \in Node : obeyed[n] \subseteq obeyed'[n]
    BY <1>0, StandingStillGrows
  <1>1. ASSUME NEW n \in Node, NEW to \in Node, NEW s \in Subject \cup {NoSubject},
               NEW o \in Order, Queue(n, to, s, o)
        PROVE  Grows(table, table') /\ obeyed' = obeyed
    <2>1. NewRow(to, n, s, o) \in Row /\ ~NewRow(to, n, s, o).done
      BY RowsAreNew DEF NewRow
    <2>2. Grows(table, [table EXCEPT ![n] = Append(@, NewRow(to, n, s, o))])
      BY <2>1, AppendingGrows
    <2> QED  BY <1>1, <2>2 DEF Queue
  <1>2. ASSUME NEW n \in Node, HandOver(n)
        PROVE  Grows(table, table') /\ obeyed' = obeyed
    <2> DEFINE a == pass[n].with
               i == Oldest(pass[n].batch)
    <2>1. a \in Node /\ a # n /\ i \in DOMAIN table[n]
      BY <1>2, OldestInHand DEF HandOver, TypeOK, Leg, Bookkeeping, ReachesOthers, HoldsRows
    <2>2. table[n][i] \in Row
      BY <2>1 DEF TypeOK
    <2>3. Accepted(a, n, table[n][i].order) \in Row /\ ~Accepted(a, n, table[n][i].order).done
      BY <2>1, <2>2, AcceptedIsNew
    <2> HIDE DEF a, i
    <2>4. Grows(table, [table EXCEPT ![n][i] = SettledRow(@, a, FALSE),
                                     ![a] = Append(@, Accepted(a, n, table[n][i].order))])
      BY <2>1, <2>3, HandingOverGrows
    <2> QED  BY <1>2, <2>4 DEF HandOver, a, i
  <1>3. ASSUME NEW n \in Node, SettleArrives(n)
        PROVE  Grows(table, table') /\ obeyed' = obeyed
    <2> DEFINE o == pass[n].with
               i == Oldest(pass[n].batch)
    <2>1. o \in Node /\ i \in DOMAIN table[o] /\ pass[n].failed \in BOOLEAN
      BY <1>3, OldestInHand DEF SettleArrives, TypeOK, Leg, Bookkeeping, HoldsRows
    <2> HIDE DEF o, i
    <2>2. Grows(table, [table EXCEPT ![o][i] = SettledRow(@, n, pass[n].failed)])
      BY <2>1, SettlingGrows
    <2> QED  BY <1>3, <2>2 DEF SettleArrives, Settle, o, i
  <1>4. ASSUME NEW m \in flight, LateAsk(m)
        PROVE  Grows(table, table') /\ obeyed' = obeyed
    <2>1. /\ m.owner \in Node /\ m.by \in Node /\ m.row \in DOMAIN table[m.by]
          /\ table[m.by] \in Seq(Row)
      BY <1>4 DEF LateAsk, TypeOK, Flight, Bookkeeping, ArrivesTrue
    <2>2. table[m.by][m.row] \in Row
      BY <2>1
    <2>3. /\ Accepted(m.owner, m.by, table[m.by][m.row].order) \in Row
          /\ ~Accepted(m.owner, m.by, table[m.by][m.row].order).done
      BY <2>1, <2>2, AcceptedIsNew
    <2>4. Grows(table, [table EXCEPT ![m.owner] =
                          Append(@, Accepted(m.owner, m.by, table[m.by][m.row].order))])
      BY <2>1, <2>3, AppendingGrows
    <2> QED  BY <1>4, <2>4 DEF LateAsk
  <1>5. ASSUME NEW m \in flight, LateSettle(m)
        PROVE  Grows(table, table') /\ obeyed' = obeyed
    <2>1. m.owner \in Node /\ m.row \in DOMAIN table[m.owner] /\ m.failed \in BOOLEAN
      BY <1>5 DEF LateSettle, TypeOK, Flight, Bookkeeping, ArrivesTrue
    <2>2. Grows(table, [table EXCEPT ![m.owner][m.row] = SettledRow(@, m.by, m.failed)])
      BY <2>1, SettlingGrows
    <2> QED  BY <1>5, <2>2 DEF LateSettle, Settle
  <1>6. ASSUME NEW n \in Node, NEW failed \in BOOLEAN, CarryOut(n, failed)
        PROVE  table' = table /\ \A k \in Node : obeyed[k] \subseteq obeyed'[k]
    BY <1>6 DEF CarryOut, TypeOK
  <1>7. CASE UNCHANGED vars
    BY <1>7, <1>0 DEF vars
  <1>8. CASE Next
    <2>1. CASE \E n, to \in Node, s \in Subject \cup {NoSubject}, o \in Order :
                 Queue(n, to, s, o)
      BY <2>1, <1>1
    <2>2. CASE \E n, a \in Node : Revoke(n, a) \/ Grant(n, a) \/ Begin(n, a)
      BY <2>2, <1>0 DEF Revoke, Grant, Begin
    <2>3. CASE \E n \in Node : BeginHere(n) \/ Crash(n)
      BY <2>3, <1>0 DEF BeginHere, Crash
    <2>4. ASSUME NEW n \in Node, Calls(n)
          PROVE  Grows(table, table') /\ \A k \in Node : obeyed[k] \subseteq obeyed'[k]
      <3>1. CASE HandOver(n)
        BY <3>1, <1>2
      <3>2. CASE HandOverRefused(n) \/ HandOverTimesOut(n) \/ Collect(n) \/ CollectFails(n)
        BY <3>2, <1>0 DEF HandOverRefused, HandOverTimesOut, Collect, CollectFails
      <3>3. CASE \E failed \in BOOLEAN : CarryOut(n, failed)
        BY <3>3, <1>6, StandingStillGrows
      <3>4. CASE SettleArrives(n)
        BY <3>4, <1>3
      <3>5. CASE SettleTimesOut(n)
        BY <3>5, <1>0 DEF SettleTimesOut
      <3> QED  BY <2>4, <3>1, <3>2, <3>3, <3>4, <3>5 DEF Calls
    <2>5. CASE \E m \in flight : LateAsk(m) \/ LateSettle(m) \/ Lose(m)
      BY <2>5, <1>0, <1>4, <1>5 DEF Lose
    <2> QED  BY <1>8, <2>1, <2>2, <2>3, <2>4, <2>5 DEF Next
  <1> QED  BY <1>7, <1>8

------------------------------------------------------------------------------
(* Types *)

LEMMA LegsAreTyped ==
    /\ \A n \in Node : Resting(n) \in Leg
    /\ \A a \in Node, batch \in SUBSET (Nat \ {0}) : Handing(a, batch) \in Leg
    /\ \A n, a \in Node, batch \in SUBSET (Nat \ {0}) : Obeying(n, a, batch) \in Leg
    /\ \A a \in Node, batch \in SUBSET (Nat \ {0}), failed \in BOOLEAN :
         Answering(a, batch, failed) \in Leg
  BY DEF Leg, Stage, Resting, Handing, Obeying, Answering

LEMMA WaitingIsTyped ==
    ASSUME TypeOK, NEW n \in Node, NEW to
    PROVE  Waiting(n, to) \in SUBSET (Nat \ {0})
  BY DEF Waiting, TypeOK

LEMMA InitIsTyped == Init => TypeOK
  <1> SUFFICES ASSUME Init PROVE TypeOK
    OBVIOUS
  <1>1. table \in [Node -> Seq(Row)] /\ authority \in [Node -> SUBSET Node]
    BY DEF Init
  <1>2. pass \in [Node -> Leg]
    BY LegsAreTyped DEF Init
  <1>3. flight = {} /\ faults = 0 /\ obeyed \in [Node -> SUBSET (Node \X (Nat \ {0}) \X BOOLEAN)]
    BY DEF Init
  <1> QED  BY <1>1, <1>2, <1>3 DEF TypeOK

LEMMA StepIsTyped ==
    ASSUME TypeOK, Bookkeeping, [Next]_vars
    PROVE  TypeOK'
  <1>1. table' \in [Node -> Seq(Row)]
    BY StepGrows DEF Grows, Tables
  <1>2. authority' \in [Node -> SUBSET Node] /\ faults' \in Nat
    <2>1. authority' \in [Node -> SUBSET Node]
      <3>1. ASSUME NEW n \in Node, NEW a \in Node, Revoke(n, a) \/ Grant(n, a)
            PROVE  authority' \in [Node -> SUBSET Node]
        <4>1. authority \in [Node -> SUBSET Node] /\ a \in Node
          BY DEF TypeOK
        <4>2. CASE Revoke(n, a)
          BY <4>1, <4>2 DEF Revoke
        <4>3. CASE Grant(n, a)
          BY <4>1, <4>3 DEF Grant
        <4> QED  BY <3>1, <4>2, <4>3
      <3>2. ASSUME UNCHANGED authority PROVE authority' \in [Node -> SUBSET Node]
        BY <3>2 DEF TypeOK
      <3>3. ASSUME NEW n \in Node, Calls(n) PROVE UNCHANGED authority
        BY <3>3 DEF Calls, HandOver, HandOverRefused, HandOverTimesOut, Collect,
           CollectFails, CarryOut, SettleArrives, SettleTimesOut
      <3>4. CASE Next
        BY <3>1, <3>2, <3>3, <3>4
           DEF Next, Queue, Begin, BeginHere, Crash, LateAsk, LateSettle, Lose
      <3> QED  BY <3>2, <3>4 DEF vars
    <2>2. UNCHANGED faults \/ faults' = faults + 1
      BY DEF vars, Next, Calls, Fault, Queue, Revoke, Grant, Begin, BeginHere,
         HandOver, HandOverRefused, HandOverTimesOut, Collect, CollectFails, CarryOut,
         SettleArrives, SettleTimesOut, LateAsk, LateSettle, Lose, Crash
    <2> QED  BY <2>1, <2>2 DEF TypeOK
  <1>3. pass' \in [Node -> Leg]
    <2>1. ASSUME UNCHANGED pass PROVE pass' \in [Node -> Leg]
      BY <2>1 DEF TypeOK
    <2>2. ASSUME NEW n \in Node, NEW leg \in Leg, pass' = [pass EXCEPT ![n] = leg]
          PROVE  pass' \in [Node -> Leg]
      BY <2>2 DEF TypeOK
    <2>3. ASSUME NEW n \in Node
          PROVE  /\ pass[n].with \in Node
                 /\ pass[n].batch \in SUBSET (Nat \ {0})
                 /\ pass[n].batch \ {Oldest(pass[n].batch)} \in SUBSET (Nat \ {0})
      BY DEF TypeOK, Leg
    <2>4. ASSUME NEW n \in Node, HandedNext(n)
          PROVE  pass' \in [Node -> Leg]
      BY <2>4, <2>2, <2>3, LegsAreTyped DEF HandedNext
    <2>5. ASSUME NEW n \in Node, AnsweredNext(n)
          PROVE  pass' \in [Node -> Leg]
      BY <2>5, <2>2, <2>3, LegsAreTyped DEF AnsweredNext
    <2>6. ASSUME NEW n \in Node, NEW failed \in BOOLEAN, CarryOut(n, failed)
          PROVE  pass' \in [Node -> Leg]
      BY <2>6, <2>2, <2>3, LegsAreTyped DEF CarryOut
    <2>7. ASSUME NEW n \in Node, Calls(n)
          PROVE  pass' \in [Node -> Leg]
      <3>1. CASE Collect(n)
        BY <3>1, <2>2, <2>3, LegsAreTyped, WaitingIsTyped DEF Collect
      <3>2. CASE CollectFails(n)
        BY <3>2, <2>2, LegsAreTyped DEF CollectFails
      <3> QED  BY <2>7, <2>4, <2>5, <2>6, <3>1, <3>2
               DEF Calls, HandOver, HandOverRefused, HandOverTimesOut, SettleArrives, SettleTimesOut
    <2>8. ASSUME NEW n \in Node, BeginHere(n) \/ Crash(n) \/ \E a \in Node : Begin(n, a)
          PROVE  pass' \in [Node -> Leg]
      BY <2>8, <2>2, LegsAreTyped, WaitingIsTyped DEF BeginHere, Crash, Begin
    <2>9. CASE Next
      BY <2>9, <2>1, <2>7, <2>8 DEF Next, Queue, Revoke, Grant, LateAsk, LateSettle, Lose
    <2> QED  BY <2>1, <2>9 DEF vars
  <1>4. flight' \subseteq Flight
    <2>1. ASSUME flight' \subseteq flight PROVE flight' \subseteq Flight
      BY <2>1 DEF TypeOK
    <2>2. ASSUME NEW n \in Node, HandOverTimesOut(n)
          PROVE  flight' \subseteq Flight
      <3> DEFINE m == [kind |-> "ask", at |-> faults, by |-> n, owner |-> pass[n].with,
                       row |-> Oldest(pass[n].batch), failed |-> FALSE]
      <3>1. Oldest(pass[n].batch) \in Nat \ {0} /\ pass[n].with \in Node /\ faults \in Nat
        BY <2>2, OldestInHand DEF HandOverTimesOut, TypeOK, Leg, Bookkeeping
      <3>2. m \in Flight
        BY <3>1 DEF Flight
      <3>3. flight' = flight \cup {m}
        BY <2>2 DEF HandOverTimesOut
      <3> QED  BY <3>2, <3>3 DEF TypeOK
    <2>3. ASSUME NEW n \in Node, SettleTimesOut(n)
          PROVE  flight' \subseteq Flight
      BY <2>3, OldestInHand DEF SettleTimesOut, TypeOK, Leg, Flight, Bookkeeping
    <2>4. CASE UNCHANGED vars
      BY <2>4, <2>1 DEF vars
    <2>5. CASE Next
      BY <2>5, <2>1, <2>2, <2>3
         DEF Next, Calls, Queue, Revoke, Grant, Begin, BeginHere,
             HandOver, HandOverRefused, Collect, CollectFails, CarryOut,
             SettleArrives, LateAsk, LateSettle, Lose, Crash
    <2> QED  BY <2>4, <2>5
  <1>5. obeyed' \in [Node -> SUBSET (Node \X (Nat \ {0}) \X BOOLEAN)]
    <2>1. ASSUME UNCHANGED obeyed
          PROVE  obeyed' \in [Node -> SUBSET (Node \X (Nat \ {0}) \X BOOLEAN)]
      BY <2>1 DEF TypeOK
    <2>2. ASSUME NEW n \in Node, NEW failed \in BOOLEAN, CarryOut(n, failed)
          PROVE  obeyed' \in [Node -> SUBSET (Node \X (Nat \ {0}) \X BOOLEAN)]
      <3>1. <<pass[n].with, Oldest(pass[n].batch), failed>> \in Node \X (Nat \ {0}) \X BOOLEAN
        BY <2>2, OldestInHand DEF CarryOut, TypeOK, Leg, Bookkeeping
      <3> QED  BY <2>2, <3>1 DEF CarryOut, TypeOK
    <2>3. CASE UNCHANGED vars
      BY <2>3, <2>1 DEF vars
    <2>4. CASE Next
      BY <2>4, <2>1, <2>2
         DEF Next, Calls, Queue, Revoke, Grant, Begin, BeginHere,
             HandOver, HandOverRefused, HandOverTimesOut, Collect, CollectFails,
             SettleArrives, SettleTimesOut, LateAsk, LateSettle, Lose, Crash
    <2> QED  BY <2>3, <2>4
  <1> QED  BY <1>1, <1>2, <1>3, <1>4, <1>5 DEF TypeOK

------------------------------------------------------------------------------
(* Bookkeeping: what a leg holds stays true under the steps of others, and  *)
(* its own steps hand it on.                                                *)

LEMMA DealtWithKept ==
    ASSUME TypeOK, Bookkeeping, [Next]_vars,
           NEW o \in Node, NEW i \in DOMAIN table[o], DealtWith(o, i)
    PROVE  DealtWith(o, i)'
  <1>1. table[o][i] \in Row
    BY DEF TypeOK
  <1>2. table[o][i].to \in Node
    BY <1>1 DEF Row
  <1>3. SameErrand(table[o][i], table'[o][i]) /\ \A n \in Node : obeyed[n] \subseteq obeyed'[n]
    BY StepGrows DEF Grows
  <1> QED  BY <1>2, <1>3 DEF DealtWith, CarriedOut, SameErrand

LEMMA LegKept ==
    ASSUME TypeOK, Bookkeeping, [Next]_vars, NEW n \in Node, UNCHANGED pass[n]
    PROVE  HoldsRows(n)' /\ HoldsTheOldest(n)'
  <1>1. /\ \A o \in Node : \A i \in DOMAIN table[o] :
             i \in DOMAIN table'[o] /\ SameErrand(table[o][i], table'[o][i])
        /\ \A o \in Node : table[o] \in Seq(Row) /\ table'[o] \in Seq(Row)
    BY StepGrows DEF Grows, Tables, TypeOK
  <1>2. pass[n].with \in Node /\ HoldsRows(n) /\ HoldsTheOldest(n)
    BY DEF Bookkeeping, TypeOK, Leg
  <1>3. HoldsRows(n)'
    BY <1>1, <1>2 DEF HoldsRows, SameErrand
  <1>4. ASSUME pass[n].stage \in {"obeying", "answering"},
               NEW j \in pass[n].batch, NEW i \in DOMAIN table'[pass[n].with],
               i < j, table'[pass[n].with][i].to = n, i \notin pass[n].batch
        PROVE  DealtWith(pass[n].with, i)'
    <2> DEFINE o == pass[n].with
    <2>1. o \in Node /\ j \in DOMAIN table[o]
      BY <1>2, <1>4 DEF HoldsRows
    <2>2. i \in DOMAIN table[o]
      BY <1>1, <1>4, <2>1
    <2>3. DealtWith(o, i)
      BY <1>1, <1>2, <1>4, <2>1, <2>2 DEF HoldsTheOldest, SameErrand
    <2> QED  BY <2>1, <2>2, <2>3, DealtWithKept
  <1> QED  BY <1>3, <1>4 DEF HoldsTheOldest

LEMMA HandedNextKeeps ==
    ASSUME TypeOK, Bookkeeping, [Next]_vars, NEW n \in Node,
           pass[n].stage = "handing", HandedNext(n)
    PROVE  HoldsRows(n)' /\ HoldsTheOldest(n)'
  <1>1. \A i \in DOMAIN table[n] : i \in DOMAIN table'[n] /\ table'[n][i].to = table[n][i].to
    BY StepGrows DEF Grows, SameErrand
  <1>2. pass'[n] = Handing(pass[n].with, pass[n].batch \ {Oldest(pass[n].batch)})
    BY DEF HandedNext, TypeOK
  <1>3. \A i \in pass[n].batch : i \in DOMAIN table[n] /\ table[n][i].to = pass[n].with
    BY DEF Bookkeeping, HoldsRows
  <1> QED  BY <1>1, <1>2, <1>3 DEF HoldsRows, HoldsTheOldest, Handing

LEMMA AnsweredNextKeeps ==
    ASSUME TypeOK, Bookkeeping, [Next]_vars, NEW n \in Node,
           pass[n].stage = "answering", AnsweredNext(n)
    PROVE  HoldsRows(n)' /\ HoldsTheOldest(n)'
  <1>1. PICK o \in Node, first \in Nat, rest \in SUBSET Nat :
          /\ o = pass[n].with /\ first = Oldest(pass[n].batch) /\ first \in pass[n].batch
          /\ rest = pass[n].batch \ {first}
          /\ \A j \in pass[n].batch : j \in DOMAIN table[o] /\ table[o][j].to = n
    <2>1. pass[n].with \in Node /\ HoldsRows(n)
      BY DEF Bookkeeping, TypeOK, Leg
    <2>2. Oldest(pass[n].batch) \in pass[n].batch /\ pass[n].batch \in SUBSET (Nat \ {0})
      BY <2>1, OldestInHand
    <2>3. \A j \in pass[n].batch : j \in DOMAIN table[pass[n].with] /\ table[pass[n].with][j].to = n
      BY <2>1 DEF HoldsRows
    <2>4. pass[n].batch \ {Oldest(pass[n].batch)} \in SUBSET Nat
      BY <2>2
    <2> QED  BY <2>1, <2>2, <2>3, <2>4
  <1>2. pass'[n] = Obeying(n, o, rest)
    BY <1>1 DEF AnsweredNext, TypeOK
  <1>3. CASE rest = {}
    BY <1>2, <1>3 DEF Obeying, Resting, HoldsRows, HoldsTheOldest
  <1>4. CASE rest # {}
    <2>1. pass'[n].stage = "obeying" /\ pass'[n].with = o /\ pass'[n].batch = rest
      BY <1>2, <1>4 DEF Obeying
    <2>2. /\ \A i \in DOMAIN table[o] : i \in DOMAIN table'[o] /\ table'[o][i].to = table[o][i].to
          /\ table[o] \in Seq(Row) /\ table'[o] \in Seq(Row)
      BY <1>1, StepGrows DEF Grows, SameErrand, Tables, TypeOK
    <2>3. HoldsRows(n)'
      BY <1>1, <1>4, <2>1, <2>2 DEF HoldsRows
    <2>4. ASSUME NEW j \in rest, NEW i \in DOMAIN table'[o],
                 i < j, table'[o][i].to = n, i \notin rest
          PROVE  DealtWith(o, i)'
      <3>1. j \in DOMAIN table[o]
        BY <1>1
      <3>2. i \in DOMAIN table[o]
        BY <2>2, <2>4, <3>1
      <3>3. CASE i = first
        <4>1. <<o, i, pass[n].failed>> \in obeyed[n] /\ pass[n].failed \in BOOLEAN
          BY <1>1, <3>3 DEF Bookkeeping, AnswersTruly, TypeOK, Leg
        <4>2. DealtWith(o, i)
          BY <4>1, <1>1, <3>3 DEF DealtWith, CarriedOut
        <4> QED  BY <4>2, <1>1, <3>2, DealtWithKept
      <3>4. CASE i # first
        <4>1. DealtWith(o, i)
          BY <1>1, <2>2, <2>4, <3>2, <3>4 DEF Bookkeeping, HoldsTheOldest
        <4> QED  BY <4>1, <1>1, <3>2, DealtWithKept
      <3> QED  BY <3>3, <3>4
    <2>5. HoldsTheOldest(n)'
      BY <2>1, <2>4 DEF HoldsTheOldest
    <2> QED  BY <2>3, <2>5
  <1> QED  BY <1>3, <1>4

LEMMA TakingWhatWaits ==
    ASSUME TypeOK, NEW n \in Node, NEW o \in Node, UNCHANGED table,
           pass'[n] = Obeying(n, o, Waiting(o, n))
    PROVE  HoldsRows(n)' /\ HoldsTheOldest(n)'
  <1>1. CASE Waiting(o, n) = {}
    BY <1>1 DEF Obeying, Resting, HoldsRows, HoldsTheOldest
  <1>2. CASE Waiting(o, n) # {}
    <2>1. /\ pass'[n].stage = "obeying" /\ pass'[n].with = o
          /\ pass'[n].batch = Waiting(o, n)
      BY <1>2 DEF Obeying
    <2>2. HoldsRows(n)'
      BY <1>2, <2>1 DEF HoldsRows, Waiting
    <2>3. ASSUME NEW i \in DOMAIN table'[o], table'[o][i].to = n, i \notin Waiting(o, n)
          PROVE  DealtWith(o, i)'
      BY <2>3 DEF Waiting, DealtWith
    <2> QED  BY <2>1, <2>2, <2>3 DEF HoldsTheOldest
  <1> QED  BY <1>1, <1>2

LEMMA StepKeepsLegs ==
    ASSUME TypeOK, Bookkeeping, [Next]_vars, NEW n \in Node
    PROVE  HoldsRows(n)' /\ HoldsTheOldest(n)'
  <1>1. CASE UNCHANGED pass[n]
    BY <1>1, LegKept
  <1>2. ASSUME HandedNext(n), pass[n].stage = "handing"
        PROVE  HoldsRows(n)' /\ HoldsTheOldest(n)'
    BY <1>2, HandedNextKeeps
  <1>3. ASSUME AnsweredNext(n), pass[n].stage = "answering"
        PROVE  HoldsRows(n)' /\ HoldsTheOldest(n)'
    BY <1>3, AnsweredNextKeeps
  <1>4. ASSUME NEW a \in Node, Begin(n, a)
        PROVE  HoldsRows(n)' /\ HoldsTheOldest(n)'
    <2>1. pass'[n] = Handing(a, Waiting(n, a)) /\ UNCHANGED table
      BY <1>4 DEF Begin, TypeOK
    <2> QED  BY <2>1 DEF HoldsRows, HoldsTheOldest, Handing, Waiting
  <1>5. ASSUME BeginHere(n)
        PROVE  HoldsRows(n)' /\ HoldsTheOldest(n)'
    <2>1. pass'[n] = Obeying(n, n, Waiting(n, n)) /\ UNCHANGED table
      BY <1>5 DEF BeginHere, TypeOK
    <2> QED  BY <2>1, TakingWhatWaits
  <1>6. ASSUME Collect(n)
        PROVE  HoldsRows(n)' /\ HoldsTheOldest(n)'
    <2>1. PICK o \in Node : o = pass[n].with
      BY DEF TypeOK, Leg
    <2>2. pass'[n] = Obeying(n, o, Waiting(o, n)) /\ UNCHANGED table
      BY <1>6, <2>1 DEF Collect, TypeOK
    <2> QED  BY <2>2, TakingWhatWaits
  <1>7. ASSUME CollectFails(n) \/ Crash(n)
        PROVE  HoldsRows(n)' /\ HoldsTheOldest(n)'
    <2>1. pass'[n] = Resting(n)
      BY <1>7 DEF CollectFails, Crash, TypeOK
    <2> QED  BY <2>1 DEF HoldsRows, HoldsTheOldest, Resting
  <1>8. ASSUME NEW failed \in BOOLEAN, CarryOut(n, failed)
        PROVE  HoldsRows(n)' /\ HoldsTheOldest(n)'
    <2>1. PICK o \in Node, batch \in SUBSET Nat :
            o = pass[n].with /\ batch = pass[n].batch /\ pass[n].stage = "obeying"
      BY <1>8 DEF TypeOK, Leg, CarryOut
    <2>2. pass'[n] = Answering(o, batch, failed) /\ UNCHANGED table
      BY <1>8, <2>1 DEF CarryOut, TypeOK
    <2>3. HoldsRows(n) /\ HoldsTheOldest(n)
      BY DEF Bookkeeping
    <2>4. HoldsRows(n)'
      BY <2>1, <2>2, <2>3 DEF HoldsRows, Answering
    <2>5. ASSUME NEW j \in batch, NEW i \in DOMAIN table[o],
                 i < j, table[o][i].to = n, i \notin batch
          PROVE  DealtWith(o, i)'
      <3>1. DealtWith(o, i)
        BY <2>1, <2>3, <2>5 DEF HoldsTheOldest
      <3> QED  BY <3>1, DealtWithKept
    <2> QED  BY <2>2, <2>4, <2>5 DEF HoldsTheOldest, Answering
  <1>9. ASSUME NEW k \in Node, k # n,
               Calls(k) \/ BeginHere(k) \/ Crash(k) \/ \E a \in Node : Begin(k, a)
        PROVE  UNCHANGED pass[n]
    BY <1>9 DEF TypeOK, Begin, BeginHere, Crash, Calls, HandOver, HandOverRefused,
       HandOverTimesOut, HandedNext, Collect, CollectFails, CarryOut, SettleArrives,
       SettleTimesOut, AnsweredNext
  <1>10. CASE Calls(n)
    BY <1>10, <1>2, <1>3, <1>6, <1>7, <1>8
       DEF Calls, HandOver, HandOverRefused, HandOverTimesOut, SettleArrives, SettleTimesOut
  <1>11. CASE Next
    <2>1. CASE \E k \in Node : BeginHere(k) \/ Calls(k) \/ Crash(k)
      BY <2>1, <1>1, <1>5, <1>7, <1>9, <1>10
    <2>2. CASE \E k, a \in Node : Revoke(k, a) \/ Grant(k, a) \/ Begin(k, a)
      BY <2>2, <1>1, <1>4, <1>9 DEF Revoke, Grant
    <2>3. CASE \E k, to \in Node, s \in Subject \cup {NoSubject}, o \in Order :
                 Queue(k, to, s, o)
      BY <2>3, <1>1 DEF Queue
    <2>4. CASE \E m \in flight : LateAsk(m) \/ LateSettle(m) \/ Lose(m)
      BY <2>4, <1>1 DEF LateAsk, LateSettle, Lose
    <2> QED  BY <1>11, <2>1, <2>2, <2>3, <2>4 DEF Next
  <1> QED  BY <1>1, <1>11 DEF vars

LEMMA StepReachesOthers ==
    ASSUME TypeOK, Bookkeeping, [Next]_vars, NEW n \in Node
    PROVE  ReachesOthers(n)'
  <1>1. ReachesOthers(n)
    BY DEF Bookkeeping
  <1>2. n \notin authority'[n]
    <2>1. ASSUME NEW k \in Node, NEW a \in Node, Revoke(k, a) \/ Grant(k, a)
          PROVE  n \notin authority'[n]
      <3>1. /\ n \notin authority[n] /\ <<n, n>> \notin Enrolled
            /\ authority \in [Node -> SUBSET Node]
        BY <1>1, NobodyJoinsItself DEF ReachesOthers, TypeOK
      <3>2. CASE Revoke(k, a)
        BY <3>1, <3>2 DEF Revoke
      <3>3. CASE Grant(k, a)
        BY <3>1, <3>3 DEF Grant
      <3> QED  BY <2>1, <3>2, <3>3
    <2>2. ASSUME NEW k \in Node, Calls(k) PROVE UNCHANGED authority
      BY <2>2 DEF Calls, HandOver, HandOverRefused, HandOverTimesOut, Collect,
         CollectFails, CarryOut, SettleArrives, SettleTimesOut
    <2>3. CASE Next
      BY <1>1, <2>1, <2>2, <2>3
         DEF ReachesOthers, Next, Queue, Begin, BeginHere, Crash, LateAsk, LateSettle, Lose
    <2> QED  BY <1>1, <2>3 DEF ReachesOthers, vars
  <1>3. pass'[n].stage \in {"handing", "asking"} => pass'[n].with # n
    <2>1. CASE UNCHANGED pass[n]
      BY <1>1, <2>1 DEF ReachesOthers
    <2>2. ASSUME NEW k \in Node, k # n,
                 Calls(k) \/ BeginHere(k) \/ Crash(k) \/ \E a \in Node : Begin(k, a)
          PROVE  UNCHANGED pass[n]
      BY <2>2 DEF TypeOK, Begin, BeginHere, Crash, Calls, HandOver, HandOverRefused,
         HandOverTimesOut, HandedNext, Collect, CollectFails, CarryOut, SettleArrives,
         SettleTimesOut, AnsweredNext
    <2>3. ASSUME NEW a \in Node, Begin(n, a)
          PROVE  pass'[n].with # n
      BY <1>1, <2>3 DEF Begin, Handing, ReachesOthers, TypeOK
    <2>4. ASSUME HandedNext(n), pass[n].stage = "handing"
          PROVE  pass'[n].with # n
      BY <1>1, <2>4 DEF HandedNext, Handing, ReachesOthers, TypeOK
    <2>5. ASSUME BeginHere(n) \/ Crash(n) \/ CollectFails(n) \/ Collect(n) \/ AnsweredNext(n)
                 \/ \E failed \in BOOLEAN : CarryOut(n, failed)
          PROVE  pass'[n].stage \in {"resting", "obeying", "answering"}
      BY <2>5 DEF BeginHere, Crash, CollectFails, Collect, AnsweredNext, CarryOut,
         Obeying, Resting, Answering, TypeOK
    <2>6. CASE Calls(n)
      BY <2>4, <2>5, <2>6
         DEF Calls, HandOver, HandOverRefused, HandOverTimesOut, SettleArrives, SettleTimesOut
    <2>7. CASE Next
      BY <2>1, <2>2, <2>3, <2>5, <2>6, <2>7
         DEF Next, Queue, Revoke, Grant, LateAsk, LateSettle, Lose
    <2> QED  BY <2>1, <2>7 DEF vars
  <1> QED  BY <1>2, <1>3 DEF ReachesOthers

\* The only step that adds to what was carried out.
LEMMA OnlyCarryingOutObeys ==
    ASSUME TypeOK, Bookkeeping, [Next]_vars
    PROVE  \/ UNCHANGED obeyed
           \/ \E n \in Node, failed \in BOOLEAN : CarryOut(n, failed)
  <1>1. ASSUME NEW n \in Node, Calls(n)
        PROVE  UNCHANGED obeyed \/ \E failed \in BOOLEAN : CarryOut(n, failed)
    BY <1>1 DEF Calls, HandOver, HandOverRefused, HandOverTimesOut, Collect, CollectFails,
       SettleArrives, SettleTimesOut
  <1> QED
    BY <1>1 DEF vars, Next, Queue, Revoke, Grant, Begin, BeginHere, Crash, LateAsk,
       LateSettle, Lose

LEMMA CarriedOutInHand ==
    ASSUME TypeOK, Bookkeeping, NEW n \in Node, NEW failed \in BOOLEAN, CarryOut(n, failed)
    PROVE  \E o \in Node, i \in Nat :
             /\ i \in DOMAIN table[o]
             /\ o = pass[n].with /\ i = Oldest(pass[n].batch)
             /\ table[o][i].to = n
             /\ \A j \in pass[n].batch : i <= j
             /\ obeyed' = [obeyed EXCEPT ![n] = @ \cup {<<o, i, failed>>}]
             /\ UNCHANGED table
             /\ pass' = [pass EXCEPT ![n] = Answering(o, pass[n].batch, failed)]
  <1>1. pass[n].with \in Node /\ HoldsRows(n) /\ pass[n].stage = "obeying"
    BY DEF Bookkeeping, TypeOK, Leg, CarryOut
  <1>2. /\ Oldest(pass[n].batch) \in pass[n].batch
        /\ \A j \in pass[n].batch : Oldest(pass[n].batch) <= j
    BY <1>1, OldestInHand
  <1>3. /\ Oldest(pass[n].batch) \in DOMAIN table[pass[n].with]
        /\ table[pass[n].with][Oldest(pass[n].batch)].to = n
    BY <1>1, <1>2 DEF HoldsRows
  <1>4. Oldest(pass[n].batch) \in Nat
    BY <1>1, <1>3 DEF TypeOK
  <1> QED  BY <1>1, <1>2, <1>3, <1>4 DEF CarryOut

LEMMA StepAnswersTruly ==
    ASSUME TypeOK, Bookkeeping, [Next]_vars, NEW n \in Node
    PROVE  AnswersTruly(n)'
  <1>1. AnswersTruly(n) /\ \A o \in Node : \A i \in DOMAIN table[o] : i \in DOMAIN table'[o]
    BY StepGrows DEF Bookkeeping, Grows
  <1>2. ASSUME NEW x \in obeyed'[n]
        PROVE  x[2] \in DOMAIN table'[x[1]]
    <2>1. CASE x \in obeyed[n]
      <3>1. x[1] \in Node /\ x[2] \in DOMAIN table[x[1]]
        BY <1>1, <2>1 DEF AnswersTruly, TypeOK
      <3> QED  BY <3>1, <1>1
    <2>2. ASSUME NEW k \in Node, NEW failed \in BOOLEAN, CarryOut(k, failed), x \notin obeyed[n]
          PROVE  x[2] \in DOMAIN table'[x[1]]
      <3>1. PICK o \in Node, i \in Nat :
              i \in DOMAIN table[o] /\ obeyed' = [obeyed EXCEPT ![k] = @ \cup {<<o, i, failed>>}]
        BY <2>2, CarriedOutInHand
      <3>2. x = <<o, i, failed>>
        BY <2>2, <3>1 DEF TypeOK
      <3>3. i \in DOMAIN table'[o] /\ x[1] = o /\ x[2] = i
        BY <3>1, <3>2, <1>1
      <3> QED  BY <3>3
    <2> QED  BY <2>1, <2>2, OnlyCarryingOutObeys
  <1>3. ASSUME pass'[n].stage = "answering"
        PROVE  <<pass'[n].with, Oldest(pass'[n].batch), pass'[n].failed>> \in obeyed'[n]
    <2>1. CASE UNCHANGED pass[n]
      BY <1>1, <1>3, <2>1, StepGrows DEF AnswersTruly
    <2>2. ASSUME NEW failed \in BOOLEAN, CarryOut(n, failed)
          PROVE  <<pass'[n].with, Oldest(pass'[n].batch), pass'[n].failed>> \in obeyed'[n]
      BY <2>2 DEF CarryOut, Answering, TypeOK
    <2>3. ASSUME NEW k \in Node, k # n,
                 Calls(k) \/ BeginHere(k) \/ Crash(k) \/ \E a \in Node : Begin(k, a)
          PROVE  UNCHANGED pass[n]
      BY <2>3 DEF TypeOK, Begin, BeginHere, Crash, Calls, HandOver, HandOverRefused,
         HandOverTimesOut, HandedNext, Collect, CollectFails, CarryOut, SettleArrives,
         SettleTimesOut, AnsweredNext
    <2>4. ASSUME BeginHere(n) \/ Crash(n) \/ CollectFails(n) \/ Collect(n) \/ AnsweredNext(n)
                 \/ HandedNext(n) \/ \E a \in Node : Begin(n, a)
          PROVE  FALSE
      BY <1>3, <2>4 DEF BeginHere, Crash, CollectFails, Collect, AnsweredNext, HandedNext, Begin,
         Obeying, Resting, Handing, TypeOK
    <2>5. CASE Calls(n)
      BY <2>2, <2>4, <2>5
         DEF Calls, HandOver, HandOverRefused, HandOverTimesOut, SettleArrives, SettleTimesOut
    <2>6. CASE Next
      BY <2>1, <2>3, <2>4, <2>5, <2>6
         DEF Next, Queue, Revoke, Grant, LateAsk, LateSettle, Lose
    <2> QED  BY <2>1, <2>6 DEF vars
  <1> QED  BY <1>2, <1>3 DEF AnswersTruly

LEMMA StepArrivesTrue ==
    ASSUME TypeOK, Bookkeeping, [Next]_vars, NEW m \in flight'
    PROVE  ArrivesTrue(m)'
  <1>1. CASE m \in flight
    <2>1. m \in Flight /\ ArrivesTrue(m)
      BY <1>1 DEF TypeOK, Bookkeeping
    <2> QED
      BY <2>1, StepGrows DEF ArrivesTrue, Flight, Grows, SameErrand
  <1>2. ASSUME NEW n \in Node, HandOverTimesOut(n), m \notin flight
        PROVE  ArrivesTrue(m)'
    <2>1. /\ m.kind = "ask" /\ m.by = n /\ m.row = Oldest(pass[n].batch)
          /\ UNCHANGED table /\ pass[n].stage = "handing"
      BY <1>2 DEF HandOverTimesOut
    <2>2. HoldsRows(n)
      BY DEF Bookkeeping
    <2>3. Oldest(pass[n].batch) \in DOMAIN table[n]
      BY <2>1, <2>2, OldestInHand DEF HoldsRows
    <2> QED  BY <2>1, <2>3 DEF ArrivesTrue
  <1>3. ASSUME NEW n \in Node, SettleTimesOut(n), m \notin flight
        PROVE  ArrivesTrue(m)'
    <2>1. /\ m.kind = "settle" /\ m.by = n /\ m.row = Oldest(pass[n].batch)
          /\ m.owner = pass[n].with /\ m.failed = pass[n].failed
          /\ UNCHANGED table /\ UNCHANGED obeyed /\ pass[n].stage = "answering"
      BY <1>3 DEF SettleTimesOut
    <2>2. HoldsRows(n) /\ AnswersTruly(n)
      BY DEF Bookkeeping
    <2>3. Oldest(pass[n].batch) \in pass[n].batch
      BY <2>1, <2>2, OldestInHand
    <2> QED  BY <2>1, <2>2, <2>3 DEF ArrivesTrue, HoldsRows, AnswersTruly
  <1>4. ASSUME NEW n \in Node, Calls(n), m \notin flight
        PROVE  ArrivesTrue(m)'
    BY <1>2, <1>3, <1>4 DEF Calls, HandOver, HandOverRefused, Collect, CollectFails,
       CarryOut, SettleArrives
  <1>5. CASE Next /\ m \notin flight
    BY <1>4, <1>5 DEF Next, Queue, Revoke, Grant, Begin, BeginHere, Crash, LateAsk, LateSettle, Lose
  <1> QED  BY <1>1, <1>5 DEF vars

LEMMA StepKeepsBooks ==
    ASSUME TypeOK, Bookkeeping, [Next]_vars
    PROVE  Bookkeeping'
  BY StepReachesOthers, StepKeepsLegs, StepAnswersTruly, StepArrivesTrue DEF Bookkeeping

LEMMA InitKeepsBooks == Init => Bookkeeping
  BY NobodyJoinsItself DEF Init, Bookkeeping, Resting, ReachesOthers, HoldsRows, HoldsTheOldest, AnswersTruly

(* Types and bookkeeping, together: the inductive invariant of the queue.   *)
THEOREM BooksAreKept == Spec => [](TypeOK /\ Bookkeeping)
  <1>1. Init => TypeOK /\ Bookkeeping
    BY InitIsTyped, InitKeepsBooks
  <1>2. TypeOK /\ Bookkeeping /\ [Next]_vars => (TypeOK /\ Bookkeeping)'
    BY StepIsTyped, StepKeepsBooks
  <1> QED  BY <1>1, <1>2, PTL DEF Spec

(* The tables, the legs of a pass and what is in flight stay what they are   *)
(* declared to be.                                                           *)
THEOREM TypesHold == Spec => []TypeOK
  <1> QED  BY BooksAreKept, PTL

(* An errand is never rewritten or removed, and never changes its outcome,  *)
(* in any network and under any number of faults.                           *)
THEOREM OutcomesAreFinal == Spec => SettledIsFinal
  <1>1. TypeOK /\ Bookkeeping /\ [Next]_vars =>
          \A o \in Node : \A i \in DOMAIN table[o] :
            i \in DOMAIN table'[o] /\ SameErrand(table[o][i], table'[o][i])
    BY StepGrows DEF Grows
  <1> QED  BY <1>1, BooksAreKept, PTL DEF Spec, SettledIsFinal

------------------------------------------------------------------------------
(* The order in which errands are first carried out *)

LEMMA StepKeepsOrder ==
    ASSUME TypeOK, Bookkeeping, FirstInOrder, [Next]_vars
    PROVE  FirstInOrder'
  <1> SUFFICES ASSUME NEW o \in Node, NEW i \in DOMAIN table'[o], NEW j \in DOMAIN table'[o],
                      NEW f \in BOOLEAN,
                      i < j, table'[o][i].to = table'[o][j].to, CarriedOut(o, j, f)'
               PROVE  DealtWith(o, i)'
    BY DEF FirstInOrder
  <1>1. /\ table[o] \in Seq(Row) /\ table'[o] \in Seq(Row)
        /\ \A k \in DOMAIN table[o] : k \in DOMAIN table'[o] /\ table'[o][k].to = table[o][k].to
    BY StepGrows DEF Grows, SameErrand, Tables, TypeOK
  <1>2. PICK n \in Node : n = table'[o][j].to
    <2>1. table'[o][j] \in Row
      BY <1>1
    <2> QED  BY <2>1 DEF Row
  <1>3. <<o, j, f>> \in obeyed'[n]
    BY <1>2 DEF CarriedOut
  <1>4. CASE <<o, j, f>> \in obeyed[n]
    <2>1. j \in DOMAIN table[o]
      BY <1>4 DEF Bookkeeping, AnswersTruly
    <2>2. i \in DOMAIN table[o]
      BY <1>1, <2>1
    <2>3. CarriedOut(o, j, f) /\ table[o][i].to = table[o][j].to
      BY <1>1, <1>2, <1>4, <2>1, <2>2 DEF CarriedOut
    <2>4. DealtWith(o, i)
      BY <2>1, <2>2, <2>3 DEF FirstInOrder
    <2> QED  BY <2>2, <2>4, DealtWithKept
  <1>5. ASSUME NEW k \in Node, NEW failed \in BOOLEAN, CarryOut(k, failed),
               <<o, j, f>> \notin obeyed[n]
        PROVE  DealtWith(o, i)'
    <2>1. PICK p \in Node, q \in Nat :
             /\ q \in DOMAIN table[p]
             /\ p = pass[k].with /\ q = Oldest(pass[k].batch)
             /\ table[p][q].to = k
             /\ \A l \in pass[k].batch : q <= l
             /\ obeyed' = [obeyed EXCEPT ![k] = @ \cup {<<p, q, failed>>}]
             /\ UNCHANGED table
             /\ pass' = [pass EXCEPT ![k] = Answering(p, pass[k].batch, failed)]
      BY <1>5, CarriedOutInHand
    <2>2. p = o /\ q = j /\ k = n
      BY <1>3, <1>5, <2>1 DEF TypeOK
    <2>3. i \in DOMAIN table[o] /\ table[o][i].to = k /\ i \notin pass[k].batch
      <3>1. i \in DOMAIN table[o] /\ table[o][i].to = k
        BY <1>2, <2>1, <2>2
      <3>2. i \in Nat /\ j \in Nat /\ \A l \in pass[k].batch : j <= l
        BY <1>1, <2>1, <2>2
      <3> QED  BY <3>1, <3>2
    <2>4. HoldsTheOldest(k) /\ HoldsRows(k) /\ pass[k].stage = "obeying"
      BY <1>5 DEF Bookkeeping, CarryOut
    <2>5. q \in pass[k].batch
      BY <2>1, <2>4, OldestInHand
    <2>6. DealtWith(o, i)
      BY <2>1, <2>2, <2>3, <2>4, <2>5 DEF HoldsTheOldest
    <2> QED  BY <2>3, <2>6, DealtWithKept
  <1> QED  BY <1>3, <1>4, <1>5, OnlyCarryingOutObeys

(* However errands are lost, repeated or delayed, a node carries those of   *)
(* one sender out for the first time in the order they were queued.         *)
THEOREM OrderIsKept == Spec => []FirstInOrder
  <1>1. Init => FirstInOrder
    BY DEF Init, FirstInOrder
  <1>2. TypeOK /\ Bookkeeping /\ FirstInOrder /\ [Next]_vars => FirstInOrder'
    BY StepKeepsOrder
  <1> QED  BY <1>1, <1>2, BooksAreKept, PTL DEF Spec

------------------------------------------------------------------------------
(* What a settled errand proves *)

LEMMA AnsweredKept ==
    ASSUME TypeOK, Bookkeeping, [Next]_vars,
           NEW o \in Node, NEW i \in DOMAIN table[o], table[o][i].done,
           CarriedOut(o, i, table[o][i].failed) \/ HandedUp(o, i)
    PROVE  (CarriedOut(o, i, table[o][i].failed) \/ HandedUp(o, i))'
  <1>1. table'[o][i] = table[o][i]
    BY StepGrows DEF Grows, SameErrand
  <1>2. table[o][i].to \in Node
    <2>1. table[o][i] \in Row
      BY DEF TypeOK
    <2> QED  BY <2>1 DEF Row
  <1>3. CASE CarriedOut(o, i, table[o][i].failed)
    BY <1>1, <1>2, <1>3, StepGrows DEF CarriedOut
  <1>4. CASE HandedUp(o, i)
    <2> DEFINE a == table[o][i].to
    <2>1. PICK j \in DOMAIN table[a] :
            table[a][j].to = a /\ table[a][j].from = o /\ table[a][j].order = table[o][i].order
      BY <1>4 DEF HandedUp
    <2>2. j \in DOMAIN table'[a] /\ SameErrand(table[a][j], table'[a][j])
      BY <1>2, <2>1, StepGrows DEF Grows
    <2> QED  BY <1>1, <1>4, <2>1, <2>2 DEF HandedUp, SameErrand
  <1> QED  BY <1>3, <1>4

\* A settlement is of one row, by the node the row is addressed to.
LEMMA SettlingAnswers ==
    ASSUME TypeOK, NEW k \in Node, NEW r \in DOMAIN table[k], NEW by \in Node,
           NEW failed \in BOOLEAN, table[k][r].to = by, <<k, r, failed>> \in obeyed[by],
           Settle(k, r, by, failed), UNCHANGED obeyed,
           NEW o \in Node, NEW i \in DOMAIN table[o],
           ~table[o][i].done, table'[o][i].done
    PROVE  CarriedOut(o, i, table[o][i].failed)'
  <1>1. table \in Tables
    BY DEF TypeOK, Tables
  <1>2. table' = [table EXCEPT ![k][r] = SettledRow(@, by, failed)]
    BY DEF Settle
  <1>3. /\ \A p \in Node : p # k => table'[p] = table[p]
        /\ \A j \in DOMAIN table[k] : j # r => table'[k][j] = table[k][j]
        /\ table'[k][r] = SettledRow(table[k][r], by, failed)
    <2> DEFINE U == [table EXCEPT ![k][r] = SettledRow(@, by, failed)]
    <2>1. /\ U \in Tables
          /\ \A p \in Node : p # k => U[p] = table[p]
          /\ DOMAIN U[k] = DOMAIN table[k]
          /\ \A j \in DOMAIN table[k] : j # r => U[k][j] = table[k][j]
          /\ U[k][r] = SettledRow(table[k][r], by, failed)
      BY <1>1, SettlingARow
    <2> QED  BY <1>2, <2>1
  <1>4. o = k /\ i = r
    BY <1>3
  <1>5. table[k][r] \in Row
    BY DEF TypeOK
  <1>6. table'[o][i].to = by /\ table'[o][i].failed = failed
    BY <1>3, <1>4, <1>5, SettlingKeepsRow
  <1> QED  BY <1>4, <1>6 DEF CarriedOut

\* Handing over settles one row, and leaves its like where it went.
LEMMA HandingOverAnswers ==
    ASSUME TypeOK, Bookkeeping, NEW n \in Node, HandOver(n),
           NEW o \in Node, NEW i \in DOMAIN table[o],
           ~table[o][i].done, table'[o][i].done
    PROVE  HandedUp(o, i)'
  <1>1. PICK a \in Node, k \in Nat : a = pass[n].with /\ k = Oldest(pass[n].batch)
    <2>1. HoldsRows(n) /\ pass[n].stage = "handing" /\ pass[n].with \in Node
      BY DEF Bookkeeping, HandOver, TypeOK, Leg
    <2> QED  BY <2>1, OldestInHand
  <1>2. a # n /\ k \in DOMAIN table[n] /\ table[n][k].to = a
    <2>1. HoldsRows(n) /\ ReachesOthers(n) /\ pass[n].stage = "handing"
      BY DEF Bookkeeping, HandOver
    <2>2. k \in pass[n].batch
      BY <1>1, <2>1, OldestInHand
    <2> QED  BY <1>1, <2>1, <2>2 DEF HoldsRows, ReachesOthers
  <1> DEFINE r == Accepted(a, n, table[n][k].order)
             e == SettledRow(table[n][k], a, FALSE)
  <1>3. table[n] \in Seq(Row) /\ table[a] \in Seq(Row) /\ table[n][k] \in Row
    BY <1>2 DEF TypeOK
  <1>4. /\ r \in Row /\ r.to = a /\ r.from = n /\ r.order = table[n][k].order
        /\ ~r.done
    BY <1>3, AcceptedIsNew
  <1>5. /\ table'[n] = [table[n] EXCEPT ![k] = e]
        /\ table'[a] = Append(table[a], r)
        /\ \A p \in Node : p # n /\ p # a => table'[p] = table[p]
    BY <1>1, <1>2 DEF HandOver, TypeOK
  <1>6. /\ \A j \in DOMAIN table[n] : j # k => table'[n][j] = table[n][j]
        /\ table'[n][k] = e
    BY <1>2, <1>3, <1>5
  <1>7. /\ \A j \in DOMAIN table[a] : table'[a][j] = table[a][j]
        /\ Len(table[a]) + 1 \in DOMAIN table'[a]
        /\ table'[a][Len(table[a]) + 1] = r
    <2> HIDE DEF r
    <2> QED  BY <1>3, <1>4, <1>5, AppendProperties
  <1>8. o = n /\ i = k
    <2>1. CASE o = n
      BY <1>6, <2>1
    <2>2. CASE o = a
      BY <1>7, <2>2
    <2>3. CASE o # n /\ o # a
      BY <1>5, <2>3
    <2> QED  BY <2>1, <2>2, <2>3
  <1>9. e.to = a /\ ~e.failed /\ e.order = table[n][k].order
    BY <1>2, <1>3, <1>8 DEF SettledRow, Row
  <1> HIDE DEF r, e
  <1>10. /\ table'[o][i].to = a /\ ~table'[o][i].failed /\ a # o
         /\ table'[o][i].order = table[n][k].order
    BY <1>2, <1>6, <1>8, <1>9
  <1>11. \E j \in DOMAIN table'[a] :
           /\ table'[a][j].to = a /\ table'[a][j].from = o
           /\ table'[a][j].order = table[n][k].order
    BY <1>4, <1>7, <1>8
  <1> QED  BY <1>10, <1>11 DEF HandedUp

LEMMA StepKeepsAnswers ==
    ASSUME TypeOK, Bookkeeping, SettledMeansAnswered, [Next]_vars
    PROVE  SettledMeansAnswered'
  <1> SUFFICES ASSUME NEW o \in Node, NEW i \in DOMAIN table'[o], table'[o][i].done
               PROVE  (CarriedOut(o, i, table[o][i].failed) \/ HandedUp(o, i))'
    BY DEF SettledMeansAnswered
  <1> DEFINE Goal == (CarriedOut(o, i, table[o][i].failed) \/ HandedUp(o, i))'
  <1>1. i \in DOMAIN table[o]
    BY StepGrows DEF Grows
  <1>2. CASE table[o][i].done
    BY <1>1, <1>2, AnsweredKept DEF SettledMeansAnswered
  <1>3. CASE ~table[o][i].done
    <2>1. ASSUME NEW n \in Node, NEW r \in Row, table' = [table EXCEPT ![n] = Append(@, r)]
          PROVE  FALSE
      <3>1. table \in Tables
        BY DEF TypeOK, Tables
      <3> DEFINE U == [table EXCEPT ![n] = Append(@, r)]
      <3>2. /\ U \in Tables
            /\ \A p \in Node : p # n => U[p] = table[p]
            /\ Len(U[n]) = Len(table[n]) + 1
            /\ \A j \in DOMAIN table[n] : j \in DOMAIN U[n] /\ U[n][j] = table[n][j]
            /\ U[n][Len(table[n]) + 1] = r
        BY <3>1, AppendingARow
      <3> QED  BY <1>1, <1>3, <2>1, <3>2
    <2>2. ASSUME NEW n \in Node, NEW to \in Node, NEW s \in Subject \cup {NoSubject},
                 NEW d \in Order, Queue(n, to, s, d)
          PROVE  FALSE
      BY <2>1, <2>2, RowsAreNew DEF Queue
    <2>3. ASSUME NEW n \in Node, HandOver(n) PROVE Goal
      BY <1>1, <1>3, <2>3, HandingOverAnswers
    <2>4. ASSUME NEW n \in Node, SettleArrives(n) PROVE Goal
      <3>1. /\ HoldsRows(n) /\ AnswersTruly(n) /\ pass[n].stage = "answering"
            /\ pass[n].with \in Node /\ pass[n].failed \in BOOLEAN
        BY <2>4 DEF Bookkeeping, SettleArrives, TypeOK, Leg
      <3>2. PICK k \in Node, r \in Nat, failed \in BOOLEAN :
              k = pass[n].with /\ r = Oldest(pass[n].batch) /\ failed = pass[n].failed
        BY <3>1, OldestInHand
      <3>3. r \in pass[n].batch
        BY <3>1, <3>2, OldestInHand
      <3>4. r \in DOMAIN table[k] /\ table[k][r].to = n /\ <<k, r, failed>> \in obeyed[n]
        BY <3>1, <3>2, <3>3 DEF HoldsRows, AnswersTruly
      <3>5. Settle(k, r, n, failed) /\ UNCHANGED obeyed
        BY <2>4, <3>2 DEF SettleArrives
      <3> QED  BY <1>1, <1>3, <3>4, <3>5, SettlingAnswers
    <2>5. ASSUME NEW m \in flight, LateSettle(m) PROVE Goal
      <3>1. m \in Flight /\ ArrivesTrue(m) /\ m.kind = "settle"
        BY <2>5 DEF Bookkeeping, LateSettle, TypeOK
      <3>2. /\ m.owner \in Node /\ m.by \in Node /\ m.failed \in BOOLEAN
            /\ m.row \in DOMAIN table[m.owner] /\ table[m.owner][m.row].to = m.by
            /\ <<m.owner, m.row, m.failed>> \in obeyed[m.by]
        BY <3>1 DEF ArrivesTrue, Flight
      <3>3. Settle(m.owner, m.row, m.by, m.failed) /\ UNCHANGED obeyed
        BY <2>5 DEF LateSettle
      <3> QED  BY <1>1, <1>3, <3>2, <3>3, SettlingAnswers
    <2>6. ASSUME NEW m \in flight, LateAsk(m) PROVE FALSE
      <3>1. m \in Flight /\ ArrivesTrue(m) /\ m.kind = "ask"
        BY <2>6 DEF Bookkeeping, LateAsk, TypeOK
      <3>2. /\ m.owner \in Node /\ m.by \in Node /\ m.row \in DOMAIN table[m.by]
            /\ table[m.by] \in Seq(Row)
        BY <3>1 DEF ArrivesTrue, Flight, TypeOK
      <3>3. Accepted(m.owner, m.by, table[m.by][m.row].order) \in Row
        BY <3>2, AcceptedIsNew
      <3> QED  BY <2>1, <2>6, <3>2, <3>3 DEF LateAsk
    <2>7. ASSUME UNCHANGED table PROVE FALSE
      BY <1>3, <2>7
    <2>8. ASSUME NEW n \in Node, Calls(n) PROVE Goal
      BY <2>3, <2>4, <2>7, <2>8
         DEF Calls, HandOverRefused, HandOverTimesOut, Collect, CollectFails, CarryOut,
             SettleTimesOut
    <2>9. CASE Next
      BY <2>2, <2>5, <2>6, <2>7, <2>8, <2>9
         DEF Next, Revoke, Grant, Begin, BeginHere, Crash, Lose
    <2> QED  BY <2>7, <2>9 DEF vars
  <1> QED  BY <1>2, <1>3

(* Nothing is ever settled that nobody did: in any network, whatever is     *)
(* lost, repeated or delayed, and wherever a process stops.                 *)
THEOREM AnswersAreReal == Spec => []SettledMeansAnswered
  <1>1. Init => SettledMeansAnswered
    BY DEF Init, SettledMeansAnswered
  <1>2. TypeOK /\ Bookkeeping /\ SettledMeansAnswered /\ [Next]_vars => SettledMeansAnswered'
    BY StepKeepsAnswers
  <1> QED  BY <1>1, <1>2, BooksAreKept, PTL DEF Spec

==============================================================================
