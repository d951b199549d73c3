----------------------------- MODULE PartsProofs -----------------------------
(* The five parts of a node that share no state. Placement: a pass that      *)
(* stays silent is right to, and once nobody is at work the other nodes were *)
(* told what the rows say, for any number of nodes, slots, handlers and      *)
(* presses. Consents: what an operator took back stays taken back, for any   *)
(* number of peers and capabilities. And the five side by side: each goes on *)
(* as it would alone, and every variable keeps its type.                     *)
EXTENDS MCParts, UpkeepProofs

------------------------------------------------------------------------------
(* Placement.                                                                *)

(* The last errand queued is the last one told, and a derived word is the    *)
(* last with the subject.                                                    *)
LastIsTold ==
    \A x \in Holder :
        /\ queue[x] # << >> => queue[x][Len(queue[x])] = told[x]
        /\ told[x].subject /\ derived[x].is = "sent" => derived[x].says = told[x].says

(* What a holder carried out it does, but for what it threw off since.       *)
DoesAsTold(x) ==
    LET says == told[x].says
    IN  /\ holds[x] \subseteq says.slots /\ says.slots \ holds[x] \subseteq evicts[x]
        /\ says.slots # {} => up[x] = says.running

(* And it carries out whatever its queue no longer has, and it did not       *)
(* refuse.                                                                   *)
ToldIsDone ==
    \A x \in Holder :
        queue[x] = << >> /\ told[x].subject /\ derived[x].is # "refused" => DoesAsTold(x)

(* A mark is on the row of a copy elsewhere, and a deleted service has none. *)
RowsAreRight ==
    /\ \A s \in thrownOff : rows[s] \in Holder
    /\ desired = "deleted" => \A s \in Slots : rows[s] = Nowhere

------------------------------------------------------------------------------
(* Queues.                                                                   *)

(* An errand at the end of a queue is its last.                              *)
LEMMA LastOfAppend ==
    ASSUME NEW S, NEW q \in Seq(S), NEW e \in S
    PROVE  /\ Append(q, e) \in Seq(S) /\ Append(q, e) # << >>
           /\ Append(q, e)[Len(Append(q, e))] = e
BY AppendProperties

(* The one carried out is the last if nothing is left, and else the last is  *)
(* still there.                                                              *)
LEMMA LastOfTail ==
    ASSUME NEW S, NEW q \in Seq(S), q # << >>
    PROVE  /\ Head(q) \in S /\ Tail(q) \in Seq(S)
           /\ Tail(q) # << >> => Tail(q)[Len(Tail(q))] = q[Len(q)]
           /\ Tail(q) = << >> => Len(q) = 1 /\ Head(q) = q[Len(q)]
<1>. DEFINE r == Tail(q)
<1>1. Head(q) \in S /\ r \in Seq(S) /\ Len(q) \in Nat \ {0} /\ Head(q) = q[1]
  BY HeadTailProperties, EmptySeq
<1>2. Len(r) = Len(q) - 1 /\ \A i \in 1 .. Len(r) : r[i] = q[i + 1]
  BY HeadTailProperties
<1>. HIDE DEF r
<1>3. ASSUME r # << >> PROVE r[Len(r)] = q[Len(q)]
  <2>1. Len(r) \in Nat \ {0}
    BY <1>1, <1>3, EmptySeq
  <2>. QED  BY <1>1, <1>2, <2>1
<1>4. ASSUME r = << >> PROVE Len(q) = 1
  BY <1>1, <1>2, <1>4, EmptySeq
<1>. QED
  BY <1>1, <1>3, <1>4 DEF r

(* What is still to be done after each step of a list of them.               *)
LEMMA ListsOfSteps ==
    /\ << >> \in Seq(Doing) /\ Derives \in Seq(Doing)
    /\ <<"write", "say", "tell", "deploy">> \in Seq(Doing)
    /\ <<"let go", "tell", "delete">> \in Seq(Doing)
    /\ <<"write", "derive", "tell">> \in Seq(Doing)
BY DEF Doing, Derives

------------------------------------------------------------------------------
(* Types.                                                                    *)

(* Nothing to do is a list of steps too.                                     *)
LEMMA AtEaseIsTyped ==
    /\ AtEase \in Handling /\ NoCopies \in Says /\ NoErrand \in Errand
BY ListsOfSteps DEF AtEase, Handling, NoCopies, Says, NoErrand, Errand

(* What holds before anybody asks anything.                                  *)
LEMMA PlacementStartsTyped == PlacementInit => PlacementTypeOK
<1>. SUFFICES ASSUME PlacementInit PROVE PlacementTypeOK
  OBVIOUS
<1>1. /\ rows \in [Slots -> Place \cup {Nowhere}] /\ presses \in 0 .. MaxPresses
  BY PlacementAssumption DEF PlacementInit, Place
<1>2. /\ queue \in [Holder -> Seq(Errand)] /\ told \in [Holder -> Errand]
      /\ handler \in [Worker -> Handling]
  BY AtEaseIsTyped, EmptySeq DEF PlacementInit
<1>3. derived \in [Holder -> [says : Says, is : {"none", "sent", "refused"}]]
  BY AtEaseIsTyped DEF PlacementInit
<1>. QED
  BY <1>1, <1>2, <1>3 DEF PlacementInit, PlacementTypeOK

(* A form changes one row at most, to somewhere of its own choosing.          *)
LEMMA FormsAreOfRows ==
    ASSUME NEW form \in Forms
    PROVE  \/ form = {}
           \/ \E s \in Slots, p \in Place \cup {Nowhere}, new \in BOOLEAN :
                /\ form = {[slot |-> s, to |-> p, new |-> new]}
                /\ new <=> rows[s] = Nowhere
<1>. DEFINE taken == {s \in Slots : rows[s] # Nowhere}
            free == Slots \ taken
            going == IF taken \cap thrownOff # {} THEN taken \cap thrownOff ELSE taken
<1>1. \/ form \in {{}}
      \/ form \in {{[slot |-> s, to |-> p, new |-> FALSE]} : s \in taken, p \in Place}
      \/ form \in {{[slot |-> s, to |-> Nowhere, new |-> FALSE]} :
                s \in {r \in going : Cardinality(taken) > 1 /\ \A q \in going : q <= r}}
      \/ form \in {{[slot |-> s, to |-> p, new |-> TRUE]} :
                s \in {r \in free : \A q \in free : r <= q}, p \in Place}
  BY DEF Forms
<1>2. taken \subseteq Slots /\ going \subseteq taken
  OBVIOUS
<1>. HIDE DEF going
<1>3. CASE form \in {{[slot |-> s, to |-> p, new |-> FALSE]} : s \in taken, p \in Place}
  <2>1. PICK s \in taken, p \in Place : form = {[slot |-> s, to |-> p, new |-> FALSE]}
    BY <1>3
  <2>. QED
    BY <2>1
<1>4. CASE form \in {{[slot |-> s, to |-> Nowhere, new |-> FALSE]} :
                s \in {r \in going : Cardinality(taken) > 1 /\ \A q \in going : q <= r}}
  <2>1. PICK s \in going : form = {[slot |-> s, to |-> Nowhere, new |-> FALSE]}
    BY <1>4
  <2>2. s \in Slots /\ rows[s] # Nowhere
    BY <1>2, <2>1
  <2>. QED
    BY <2>1, <2>2
<1>5. CASE form \in {{[slot |-> s, to |-> p, new |-> TRUE]} :
                s \in {r \in free : \A q \in free : r <= q}, p \in Place}
  <2>1. PICK s \in free, p \in Place : form = {[slot |-> s, to |-> p, new |-> TRUE]}
    BY <1>5
  <2>. QED
    BY <2>1
<1>. QED
  BY <1>1, <1>3, <1>4, <1>5

(* Somebody asks.                                                            *)
LEMMA AskingKeepsTypes ==
    ASSUME PlacementTypeOK, NEW t \in Handler, Pressed(t)
    PROVE  PlacementTypeOK'
<1>0. t \in Worker
  BY DEF Worker
<1>1. ASSUME NEW h \in Handling, Asks(t, h)
      PROVE  /\ handler' \in [Worker -> Handling] /\ presses' \in 0 .. MaxPresses
             /\ beside' \in BOOLEAN
  <2>1. /\ handler \in [Worker -> Handling] /\ handler' = [handler EXCEPT ![t] = h]
        /\ presses \in 0 .. MaxPresses /\ presses < MaxPresses /\ presses' = presses + 1
    BY <1>1 DEF Asks, TakesUp, PlacementTypeOK
  <2>2. beside' \in BOOLEAN
    BY <1>1 DEF Asks, TakesUp, PlacementTypeOK
  <2>. QED
    BY <1>0, <2>1, <2>2, PlacementAssumption
<1>2. CASE SetPlacement(t)
  <2>1. PICK form \in Forms :
          Asks(t, [AtEase EXCEPT !.todo = <<"write", "say", "tell", "deploy">>,
                     !.change = form, !.also = Touched(form)])
    BY <1>2 DEF SetPlacement
  <2>2. form \in SUBSET Change
    <3>1. \A c \in form : \E s \in Slots, p \in Place \cup {Nowhere}, new \in BOOLEAN :
             c = [slot |-> s, to |-> p, new |-> new]
      <4>1. CASE form = {}
        BY <4>1
      <4>2. ASSUME NEW s \in Slots, NEW p \in Place \cup {Nowhere}, NEW new \in BOOLEAN,
                   form = {[slot |-> s, to |-> p, new |-> new]}
            PROVE  \A c \in form : \E r \in Slots, q \in Place \cup {Nowhere}, is \in BOOLEAN :
                      c = [slot |-> r, to |-> q, new |-> is]
        BY <4>2
      <4>3. form = {} \/ \E s \in Slots, p \in Place \cup {Nowhere}, new \in BOOLEAN :
                            form = {[slot |-> s, to |-> p, new |-> new]}
        BY FormsAreOfRows
      <4>. QED
        BY <4>1, <4>2, <4>3, Zenon
    <3>. QED
      BY <3>1 DEF Change
  <2>3. Touched(form) \in SUBSET Holder
    BY DEF Touched
  <2>. DEFINE h == [AtEase EXCEPT !.todo = <<"write", "say", "tell", "deploy">>,
                      !.change = form, !.also = Touched(form)]
  <2>4. h \in Handling
    BY <2>2, <2>3, ListsOfSteps, AtEaseIsTyped DEF Handling
  <2>. QED
    BY <1>1, <1>2, <2>1, <2>4 DEF SetPlacement, PlacementTypeOK, owner, errands, holder
<1>3. CASE Deploy(t) \/ StopService(t)
  <2>1. [AtEase EXCEPT !.todo = Derives] \in Handling
    BY ListsOfSteps, AtEaseIsTyped DEF Handling
  <2>. QED
    BY <1>1, <1>3, <2>1 DEF Deploy, StopService, PlacementTypeOK, errands, holder
<1>4. CASE Delete(t)
  <2>1. [AtEase EXCEPT !.todo = <<"let go", "tell", "delete">>] \in Handling
    BY ListsOfSteps, AtEaseIsTyped DEF Handling
  <2>. QED
    BY <1>1, <1>4, <2>1 DEF Delete, PlacementTypeOK, owner, errands, holder
<1>5. ASSUME NEW x \in Holder, Drain(t, x) PROVE PlacementTypeOK'
  <2>. DEFINE elsewhere == {Home} \cup {y \in allows \ {x} : \A s \in thrownOff : rows[s] # y}
  <2>1. PICK S \in (SUBSET Placed(x)) \ {{}} : \E to \in [S -> elsewhere] :
          Asks(t, [AtEase EXCEPT !.todo = <<"write", "derive", "tell">>, !.also = {x},
                     !.change = {[slot |-> s, to |-> to[s], new |-> FALSE] : s \in S}])
    BY <1>5 DEF Drain
  <2>2. PICK to \in [S -> elsewhere] :
          Asks(t, [AtEase EXCEPT !.todo = <<"write", "derive", "tell">>, !.also = {x},
                     !.change = {[slot |-> s, to |-> to[s], new |-> FALSE] : s \in S}])
    BY <2>1
  <2>. DEFINE change == {[slot |-> s, to |-> to[s], new |-> FALSE] : s \in S}
  <2>3. S \subseteq Slots /\ elsewhere \subseteq Place
    BY DEF Placed, Place, PlacementTypeOK
  <2>4. change \in SUBSET Change
    <3>1. \A s \in S : s \in Slots /\ to[s] \in Place
      BY <2>3
    <3>2. \A s \in S : [slot |-> s, to |-> to[s], new |-> FALSE] \in Change
      BY <3>1 DEF Change
    <3>. QED
      BY <3>2
  <2>. HIDE DEF change
  <2>5. [AtEase EXCEPT !.todo = <<"write", "derive", "tell">>, !.change = change, !.also = {x}]
            \in Handling
    BY <2>4, ListsOfSteps, AtEaseIsTyped DEF Handling
  <2>6. [AtEase EXCEPT !.todo = <<"write", "derive", "tell">>, !.also = {x}, !.change = change]
            \in Handling
    BY <2>5 DEF AtEase
  <2>. QED
    BY <1>1, <1>5, <2>2, <2>6 DEF change, Drain, PlacementTypeOK, owner, errands, holder
<1>6. ASSUME NEW x \in Holder, Report(t, x) PROVE PlacementTypeOK'
  <2>1. [AtEase EXCEPT !.todo = Derives, !.also = {x}] \in Handling
    BY ListsOfSteps, AtEaseIsTyped DEF Handling
  <2>2. handler' \in [Worker -> Handling] /\ beside' \in BOOLEAN
    BY <1>0, <1>6, <2>1 DEF Report, TakesUp, PlacementTypeOK
  <2>. QED
    BY <1>6, <2>2 DEF Report, PlacementTypeOK, errands, holder
<1>. QED
  BY <1>2, <1>3, <1>4, <1>5, <1>6 DEF Pressed

(* What a handler does next, a row, a word or a node at a time.               *)
LEMMA HandlingKeepsTypes ==
    ASSUME PlacementTypeOK, RowsAreRight, NEW t \in Worker, Handles(t)
    PROVE  PlacementTypeOK'
<1>1. handler[t] \in Handling /\ (handler[t].todo # << >> => Done(t) \in Handling)
  <2>1. handler[t] \in Handling
    BY DEF PlacementTypeOK
  <2>2. ASSUME handler[t].todo # << >> PROVE Tail(handler[t].todo) \in Seq(Doing)
    BY <2>1, <2>2, HeadTailProperties DEF Handling
  <2>. QED
    BY <2>1, <2>2 DEF Handling, Done
<1>2. \A x \in Holder : Placed(x) \in SUBSET Slots /\ Derived(x) \in Says
  BY DEF Placed, Derived, Says
<1>3. CASE Write(t)
  <2>1. [handler[t] EXCEPT !.change = {}] \in Handling
    BY <1>1 DEF Handling
  <2>2. handler' \in [Worker -> Handling]
    <3>1. CASE handler' = [handler EXCEPT ![t] = Done(t)]
      BY <1>1, <1>3, <3>1 DEF Write, At, PlacementTypeOK
    <3>2. CASE handler' = [handler EXCEPT ![t] = AtEase]
      BY <3>2, AtEaseIsTyped DEF PlacementTypeOK
    <3>3. ASSUME NEW c \in handler[t].change,
                 handler' = [handler EXCEPT ![t].change = @ \ {c}]
          PROVE  handler' \in [Worker -> Handling]
      <4>. DEFINE h == [handler[t] EXCEPT !.change = @ \ {c}]
      <4>1. h \in Handling
        BY <1>1 DEF Handling
      <4>2. handler' = [handler EXCEPT ![t] = h]
        BY <3>3
      <4>. HIDE DEF h
      <4>. QED
        BY <4>1, <4>2 DEF PlacementTypeOK
    <3>. QED
      BY <1>3, <3>1, <3>2, <3>3 DEF Write
  <2>3. /\ rows' \in [Slots -> Place \cup {Nowhere}] /\ thrownOff' \subseteq Slots
    BY <1>1, <1>3 DEF Write, PlacementTypeOK, Handling, Change
  <2>. QED
    BY <1>3, <2>2, <2>3 DEF Write, PlacementTypeOK, errands, holder
<1>4. ASSUME handler[t].todo # << >>, NEW tell \in [Holder -> Says],
             NEW whom \in SUBSET Holder, NEW subject \in BOOLEAN,
             Tells(t, tell, whom, subject)
      PROVE  handler' \in [Worker -> Handling]
  <2>1. [Done(t) EXCEPT !.also = {}, !.tell = tell, !.whom = whom, !.subject = subject]
           \in Handling
    BY <1>1, <1>4 DEF Handling
  <2>. QED
    BY <1>4, <2>1 DEF Tells, PlacementTypeOK
<1>5. CASE Say(t)
  <2>. DEFINE tell == [x \in Holder |-> IF x \in handler[t].also
                         THEN [slots |-> Placed(x), running |-> TRUE] ELSE NoCopies]
  <2>1. tell \in [Holder -> Says] /\ handler[t].also \in SUBSET Holder
    BY <1>1, <1>2, AtEaseIsTyped DEF Says, Handling
  <2>2. handler[t].todo # << >> /\ Tells(t, tell, handler[t].also, FALSE)
    BY <1>5 DEF Say, At
  <2>. HIDE DEF tell
  <2>3. handler' \in [Worker -> Handling]
    BY <1>4, <2>1, <2>2
  <2>. QED
    BY <1>5, <2>3 DEF Say, PlacementTypeOK, owner, errands, holder
<1>6. CASE Derive(t)
  <2>. DEFINE whom == Holders \cup handler[t].also
              tell == [x \in Holder |-> IF x \in whom \cap allows THEN Derived(x) ELSE NoCopies]
  <2>1. tell \in [Holder -> Says] /\ whom \subseteq Holder
    BY <1>1, <1>2, AtEaseIsTyped DEF Handling, Holders
  <2>2. handler[t].todo # << >> /\ Tells(t, tell, whom \cap allows, TRUE)
        /\ unsaid' = unsaid \cup (whom \ allows)
    BY <1>6 DEF Derive, At
  <2>. HIDE DEF tell, whom
  <2>3. handler' \in [Worker -> Handling]
    <3>1. whom \cap allows \in SUBSET Holder
      BY <2>1
    <3>. QED
      BY <1>4, <2>1, <2>2, <3>1
  <2>. QED
    BY <1>6, <2>1, <2>2, <2>3 DEF Derive, PlacementTypeOK, owner, errands, holder
<1>7. CASE LetGo(t)
  <2>. DEFINE tell == [x \in Holder |-> NoCopies]
  <2>1. tell \in [Holder -> Says] /\ Holders \cap allows \in SUBSET Holder
    BY AtEaseIsTyped DEF Holders
  <2>2. handler[t].todo # << >> /\ Tells(t, tell, Holders \cap allows, TRUE)
    BY <1>7 DEF LetGo, At
  <2>. HIDE DEF tell
  <2>3. handler' \in [Worker -> Handling]
    BY <1>4, <2>1, <2>2
  <2>4. unsaid' \subseteq Holder
    <3>1. unsaid' = unsaid \cup (Holders \ allows) \cup {rows[s] : s \in thrownOff}
      BY <1>7 DEF LetGo
    <3>2. \A s \in thrownOff : rows[s] \in Holder
      BY DEF RowsAreRight
    <3>. QED
      BY <3>1, <3>2 DEF PlacementTypeOK, Holders
  <2>. QED
    BY <1>7, <2>3, <2>4 DEF LetGo, PlacementTypeOK, owner, errands, holder
<1>8. CASE Tell(t)
  <2>1. CASE handler[t].whom = {}
    <3>1. handler' = [handler EXCEPT ![t] = IF Done(t).todo = << >> THEN AtEase
                                            ELSE [AtEase EXCEPT !.todo = Done(t).todo]]
          /\ handler[t].todo # << >> /\ UNCHANGED <<errands, unsaid>>
      BY <1>8, <2>1 DEF Tell, At
    <3>2. [AtEase EXCEPT !.todo = Done(t).todo] \in Handling
      BY <1>1, <3>1, AtEaseIsTyped DEF Handling
    <3>3. handler' \in [Worker -> Handling]
      BY <3>1, <3>2, AtEaseIsTyped DEF PlacementTypeOK
    <3>. QED
      BY <1>8, <3>1, <3>3 DEF Tell, PlacementTypeOK, owner, errands, holder
  <2>2. CASE handler[t].whom # {}
    <3>1. PICK x \in handler[t].whom : TellOne(t, x)
      BY <1>8, <2>2 DEF Tell
    <3>. DEFINE says == handler[t].tell[x]
                errand == [says |-> says, subject |-> handler[t].subject]
                h == [handler[t] EXCEPT !.whom = @ \ {x}, !.tell[x] = NoCopies]
    <3>2. x \in Holder /\ says \in Says /\ errand \in Errand
      BY <1>1 DEF Handling, Errand
    <3>3. h \in Handling
      BY <1>1, AtEaseIsTyped DEF Handling
    <3>4. handler' \in [Worker -> Handling]
      <4>1. handler' = [handler EXCEPT ![t] = h]
        BY <3>1 DEF TellOne
      <4>. HIDE DEF h
      <4>. QED
        BY <3>3, <4>1 DEF PlacementTypeOK
    <3>5. /\ queue' \in [Holder -> Seq(Errand)] /\ told' \in [Holder -> Errand]
      <4>1. \/ /\ queue' = [queue EXCEPT ![x] = Append(@, errand)]
               /\ told' = [told EXCEPT ![x] = errand]
            \/ queue' = queue /\ told' = told
        BY <3>1 DEF TellOne, errands
      <4>. HIDE DEF errand
      <4>2. Append(queue[x], errand) \in Seq(Errand)
        BY <3>2, LastOfAppend DEF PlacementTypeOK
      <4>. QED
        BY <3>2, <4>1, <4>2 DEF PlacementTypeOK
    <3>6. derived' \in [Holder -> [says : Says, is : {"none", "sent", "refused"}]]
      <4>1. \/ derived' = [derived EXCEPT ![x] = [says |-> says, is |-> "sent"]]
            \/ derived' = derived
        BY <3>1 DEF TellOne, errands
      <4>2. [says |-> says, is |-> "sent"] \in [says : Says, is : {"none", "sent", "refused"}]
        BY <3>2
      <4>. QED
        BY <3>2, <4>1, <4>2 DEF PlacementTypeOK
    <3>7. unsaid' \subseteq Holder
      BY <3>1, <3>2 DEF TellOne, PlacementTypeOK
    <3>. QED
      BY <1>8, <3>4, <3>5, <3>6, <3>7 DEF Tell, PlacementTypeOK, owner, holder
  <2>. QED
    BY <2>1, <2>2
<1>9. CASE DeployAfter(t)
  <2>1. [AtEase EXCEPT !.todo = Derives] \in Handling
    BY ListsOfSteps, AtEaseIsTyped DEF Handling
  <2>. QED
    BY <1>9, <2>1, AtEaseIsTyped DEF DeployAfter, PlacementTypeOK, errands, holder
<1>10. CASE DeleteRows(t)
  BY <1>10, AtEaseIsTyped DEF DeleteRows, PlacementTypeOK, errands, holder
<1>. QED
  BY <1>3, <1>5, <1>6, <1>7, <1>8, <1>9, <1>10 DEF Handles

(* What a holder does, and what it lets this node ask.                       *)
LEMMA HoldersKeepTypes ==
    ASSUME PlacementTypeOK, NEW x \in Holder, Carry(x) \/ Evict(x) \/ ChangeConsent(x)
    PROVE  PlacementTypeOK'
<1>1. CASE Carry(x)
  <2>1. Head(queue[x]) \in Errand /\ Tail(queue[x]) \in Seq(Errand)
    BY <1>1, LastOfTail DEF Carry, PlacementTypeOK
  <2>2. Head(queue[x]).says.slots \subseteq Slots /\ Head(queue[x]).says.running \in BOOLEAN
    BY <2>1 DEF Errand, Says
  <2>3. derived' \in [Holder -> [says : Says, is : {"none", "sent", "refused"}]]
    <3>1. CASE derived' = derived
      BY <3>1 DEF PlacementTypeOK
    <3>2. CASE derived' = [derived EXCEPT ![x].is = "refused"]
      <4>. DEFINE d == [derived[x] EXCEPT !.is = "refused"]
      <4>1. derived' = [derived EXCEPT ![x] = d]
        BY <3>2, Zenon
      <4>2. d \in [says : Says, is : {"none", "sent", "refused"}]
        BY DEF PlacementTypeOK
      <4>. HIDE DEF d
      <4>. QED
        BY <4>1, <4>2 DEF PlacementTypeOK
    <3>. QED
      BY <1>1, <3>1, <3>2 DEF Carry
  <2>4. queue' \in [Holder -> Seq(Errand)]
    BY <1>1, <2>1 DEF Carry, PlacementTypeOK
  <2>5. /\ holds' \in [Holder -> SUBSET Slots] /\ evicts' \in [Holder -> SUBSET Slots]
        /\ up' \in [Holder -> BOOLEAN]
    <3>. PICK S, up1 : S = Head(queue[x]).says.slots
                       /\ up1 = (S # {} /\ Head(queue[x]).says.running)
      OBVIOUS
    <3>1. S \subseteq Slots /\ up1 \in BOOLEAN
      BY <2>2
    <3>2. \/ UNCHANGED <<holds, evicts, up>>
          \/ /\ holds' = [holds EXCEPT ![x] = S \ evicts[x]]
             /\ evicts' = [evicts EXCEPT ![x] = @ \cap S]
             /\ up' = [up EXCEPT ![x] = up1]
      BY <1>1 DEF Carry
    <3>3. /\ holds \in [Holder -> SUBSET Slots] /\ evicts \in [Holder -> SUBSET Slots]
          /\ up \in [Holder -> BOOLEAN]
      BY DEF PlacementTypeOK
    <3>4. holds' \in [Holder -> SUBSET Slots]
      BY <3>1, <3>2, <3>3
    <3>5. evicts' \in [Holder -> SUBSET Slots]
      BY <3>1, <3>2, <3>3
    <3>6. up' \in [Holder -> BOOLEAN]
      BY <3>1, <3>2, <3>3
    <3>. QED
      BY <3>4, <3>5, <3>6
  <2>. QED
    BY <1>1, <2>3, <2>4, <2>5 DEF Carry, PlacementTypeOK, owner
<1>2. CASE Evict(x)
  BY <1>2 DEF Evict, PlacementTypeOK, owner, errands
<1>3. CASE ChangeConsent(x)
  <2>1. agrees' \subseteq Holder /\ presses' \in 0 .. MaxPresses
    BY <1>3, PlacementAssumption DEF ChangeConsent, PlacementTypeOK
  <2>. QED
    BY <1>3, <2>1 DEF ChangeConsent, PlacementTypeOK, owner, errands
<1>. QED
  BY <1>1, <1>2, <1>3

(* A process that stops, and the next one.                                    *)
LEMMA StopKeepsTypes ==
    ASSUME PlacementTypeOK, PlacementStop PROVE PlacementTypeOK'
<1>1. [AtEase EXCEPT !.todo = Derives] \in Handling
  BY ListsOfSteps, AtEaseIsTyped DEF Handling
<1>2. handler' \in [Worker -> Handling]
  BY <1>1, AtEaseIsTyped DEF PlacementStop
<1>3. presses' \in 0 .. MaxPresses /\ unsaid' \subseteq Holder /\ beside' \in BOOLEAN
  <2>1. presses \in 0 .. MaxPresses /\ presses < MaxPresses /\ presses' = presses + 1
    BY DEF PlacementStop, PlacementTypeOK
  <2>2. unsaid' \subseteq Holder /\ beside' \in BOOLEAN
    BY DEF PlacementStop, PlacementTypeOK
  <2>. QED
    BY <2>1, <2>2, PlacementAssumption
<1>. QED
  BY <1>2, <1>3 DEF PlacementStop, PlacementTypeOK, owner, errands, holder

------------------------------------------------------------------------------
(* What a holder was told, and did.                                          *)

Obeyed == PlacementTypeOK /\ RowsAreRight /\ LastIsTold /\ ToldIsDone

(* Nothing was told, and nothing runs, before anybody asks.                  *)
LEMMA ObeyedAtFirst == PlacementInit => Obeyed
<1>. SUFFICES ASSUME PlacementInit PROVE Obeyed
  OBVIOUS
<1>1. LastIsTold /\ ToldIsDone
  BY DEF PlacementInit, LastIsTold, ToldIsDone, DoesAsTold, NoErrand, NoCopies
<1>. QED
  BY <1>1, PlacementStartsTyped DEF PlacementInit, Obeyed, RowsAreRight

(* A step that tells nobody, and that no holder takes, leaves all of it as   *)
(* it is.                                                                    *)
LEMMA UntoldObey ==
    ASSUME Obeyed, UNCHANGED <<errands, holds, evicts, up>>
    PROVE  LastIsTold' /\ ToldIsDone'
BY DEF Obeyed, errands, LastIsTold, ToldIsDone, DoesAsTold

(* What is told is the last, and is not carried out yet.                     *)
LEMMA TellingObeys ==
    ASSUME Obeyed, NEW t \in Worker, NEW x \in handler[t].whom, TellOne(t, x),
           UNCHANGED holder
    PROVE  LastIsTold' /\ ToldIsDone'
<1>. DEFINE says == handler[t].tell[x]
            errand == [says |-> says, subject |-> handler[t].subject]
            sent == [says |-> says, is |-> "sent"]
<1>1. x \in Holder /\ errand \in Errand
  BY DEF Obeyed, PlacementTypeOK, Handling, Errand
<1>2. CASE UNCHANGED errands
  BY <1>2, UntoldObey DEF holder
<1>3. CASE ~UNCHANGED errands
  <2>1. /\ queue' = [queue EXCEPT ![x] = Append(@, errand)] /\ told' = [told EXCEPT ![x] = errand]
        /\ \/ errand.subject /\ derived' = [derived EXCEPT ![x] = sent]
           \/ ~errand.subject /\ derived' = derived
    BY <1>3 DEF TellOne
  <2>2. sent.is = "sent" /\ sent.says = errand.says
    OBVIOUS
  <2>. HIDE DEF errand, sent
  <2>3. Append(queue[x], errand) # << >>
        /\ Append(queue[x], errand)[Len(Append(queue[x], errand))] = errand
    BY <1>1, LastOfAppend DEF Obeyed, PlacementTypeOK
  <2>. DEFINE q == Append(queue[x], errand)
  <2>4. queue' = [queue EXCEPT ![x] = q]
    BY <2>1
  <2>. HIDE DEF q
  <2>5. q # << >> /\ q[Len(q)] = errand
    BY <2>3 DEF q
  <2>6. queue'[x] = q /\ told'[x] = errand
    BY <1>1, <2>1, <2>4 DEF Obeyed, PlacementTypeOK
  <2>7. \A y \in Holder \ {x} :
           queue'[y] = queue[y] /\ told'[y] = told[y] /\ derived'[y] = derived[y]
    BY <1>1, <2>1, <2>4 DEF Obeyed, PlacementTypeOK
  <2>8. errand.subject => derived'[x] = sent
    BY <1>1, <2>1 DEF Obeyed, PlacementTypeOK
  <2>9. holds' = holds /\ evicts' = evicts /\ up' = up
    BY DEF holder
  <2>10. LastIsTold'
    BY <2>2, <2>5, <2>6, <2>7, <2>8 DEF Obeyed, LastIsTold
  <2>11. ToldIsDone'
    BY <2>5, <2>6, <2>7, <2>9 DEF Obeyed, ToldIsDone, DoesAsTold
  <2>. QED
    BY <2>10, <2>11
<1>. QED
  BY <1>2, <1>3

(* Who has carried out its last errand, or refused it, was told no other.    *)
LEMMA CarryingObeys ==
    ASSUME Obeyed, NEW x \in Holder, Carry(x)
    PROVE  LastIsTold' /\ ToldIsDone'
<1>. DEFINE e == Head(queue[x])
            last == \A i \in 2 .. Len(queue[x]) : ~queue[x][i].subject
<1>1. /\ queue[x] # << >> /\ queue' = [queue EXCEPT ![x] = Tail(@)] /\ told' = told
      /\ \/ /\ derived' = IF e.subject /\ last THEN [derived EXCEPT ![x].is = "refused"]
                          ELSE derived
            /\ UNCHANGED <<holds, evicts, up>>
         \/ /\ evicts' = [evicts EXCEPT ![x] = @ \cap e.says.slots]
            /\ holds' = [holds EXCEPT ![x] = e.says.slots \ evicts[x]]
            /\ up' = [up EXCEPT ![x] = e.says.slots # {} /\ e.says.running]
            /\ UNCHANGED derived
  BY DEF Carry
<1>2. queue[x] \in Seq(Errand) /\ queue \in [Holder -> Seq(Errand)]
  BY DEF Obeyed, PlacementTypeOK
<1>3. /\ Tail(queue[x]) # << >> => Tail(queue[x])[Len(Tail(queue[x]))] = queue[x][Len(queue[x])]
      /\ Tail(queue[x]) = << >> => Len(queue[x]) = 1 /\ e = queue[x][Len(queue[x])]
  BY <1>1, <1>2, LastOfTail
<1>4. queue[x][Len(queue[x])] = told[x]
  BY <1>1 DEF Obeyed, LastIsTold
<1>. DEFINE r == Tail(queue[x])
<1>5. queue' = [queue EXCEPT ![x] = r]
  BY <1>1
<1>. HIDE DEF r
<1>6. queue'[x] = r /\ \A y \in Holder \ {x} : queue'[y] = queue[y]
  BY <1>2, <1>5
<1>7. r # << >> => r[Len(r)] = told[x]
  BY <1>3, <1>4 DEF r
<1>8. r = << >> => e = told[x] /\ last
  BY <1>3, <1>4 DEF r
<1>. HIDE DEF e, last
<1>9. /\ derived' = derived \/ (derived'[x].is = "refused" /\ derived'[x].says = derived[x].says)
      /\ \A y \in Holder \ {x} : derived'[y] = derived[y]
  <2>1. CASE derived' = [derived EXCEPT ![x].is = "refused"]
    <3>. DEFINE d == [derived[x] EXCEPT !.is = "refused"]
    <3>1. derived' = [derived EXCEPT ![x] = d]
      BY <2>1, Zenon
    <3>2. d.is = "refused" /\ d.says = derived[x].says
      BY DEF Obeyed, PlacementTypeOK
    <3>. HIDE DEF d
    <3>. QED
      BY <3>1, <3>2 DEF Obeyed, PlacementTypeOK
  <2>. QED
    BY <1>1, <2>1
<1>10. LastIsTold'
  BY <1>1, <1>6, <1>7, <1>9 DEF Obeyed, LastIsTold
<1>11. ToldIsDone'
  <2>1. ASSUME queue'[x] = << >>, told'[x].subject, derived'[x].is # "refused"
        PROVE  DoesAsTold(x)'
    <3>1. e = told[x] /\ last
      BY <1>6, <1>8, <2>1
    <3>2. CASE derived' = [derived EXCEPT ![x].is = "refused"]
      <4>1. derived'[x].is = "refused"
        <5>. DEFINE d == [derived[x] EXCEPT !.is = "refused"]
        <5>1. derived' = [derived EXCEPT ![x] = d]
          BY <3>2, Zenon
        <5>2. d.is = "refused"
          BY DEF Obeyed, PlacementTypeOK
        <5>. HIDE DEF d
        <5>. QED
          BY <5>1, <5>2 DEF Obeyed, PlacementTypeOK
      <4>. QED
        BY <2>1, <4>1
    <3>3. CASE /\ evicts' = [evicts EXCEPT ![x] = @ \cap e.says.slots]
               /\ holds' = [holds EXCEPT ![x] = e.says.slots \ evicts[x]]
               /\ up' = [up EXCEPT ![x] = e.says.slots # {} /\ e.says.running]
      <4>1. /\ evicts'[x] = evicts[x] \cap e.says.slots
            /\ holds'[x] = e.says.slots \ evicts[x]
            /\ e.says.slots # {} => up'[x] = e.says.running
        <5>1. /\ evicts \in [Holder -> SUBSET Slots] /\ holds \in [Holder -> SUBSET Slots]
              /\ up \in [Holder -> BOOLEAN] /\ told[x].says.running \in BOOLEAN
          BY DEF Obeyed, PlacementTypeOK, Errand, Says
        <5>. QED
          BY <3>1, <3>3, <5>1
      <4>. QED
        BY <1>1, <3>1, <4>1 DEF DoesAsTold
    <3>. QED
      BY <1>1, <2>1, <3>1, <3>2, <3>3
  <2>2. ASSUME NEW y \in Holder \ {x}, queue'[y] = << >>, told'[y].subject,
               derived'[y].is # "refused"
        PROVE  DoesAsTold(y)'
    <3>1. DoesAsTold(y)
      BY <1>1, <1>6, <1>9, <2>2 DEF Obeyed, ToldIsDone
    <3>2. holds'[y] = holds[y] /\ evicts'[y] = evicts[y] /\ up'[y] = up[y]
      BY <1>1 DEF Obeyed, PlacementTypeOK
    <3>. QED
      BY <1>1, <3>1, <3>2 DEF DoesAsTold
  <2>. QED
    BY <2>1, <2>2 DEF ToldIsDone
<1>. QED
  BY <1>10, <1>11

(* A copy thrown off was told to run, and is among those thrown off.         *)
LEMMA EvictingObeys ==
    ASSUME Obeyed, NEW x \in Holder, Evict(x)
    PROVE  LastIsTold' /\ ToldIsDone'
<1>1. /\ holds'[x] = {} /\ evicts'[x] = evicts[x] \cup holds[x]
      /\ \A y \in Holder \ {x} : holds'[y] = holds[y] /\ evicts'[y] = evicts[y]
      /\ up' = up /\ queue' = queue /\ told' = told /\ derived' = derived
  BY DEF Evict, Obeyed, PlacementTypeOK, errands
<1>2. LastIsTold'
  BY <1>1 DEF Obeyed, LastIsTold
<1>3. ToldIsDone'
  BY <1>1 DEF Obeyed, ToldIsDone, DoesAsTold
<1>. QED
  BY <1>2, <1>3

(* A mark is taken off with the row it was on, and a service that was        *)
(* deleted gets no row again.                                                *)
LEMMA RowsStayRight ==
    ASSUME Obeyed, PlacementTypeOK', [PlacementNext]_placement
    PROVE  RowsAreRight'
<1>1. CASE UNCHANGED owner
  BY <1>1 DEF Obeyed, RowsAreRight, owner
<1>2. ASSUME NEW t \in Worker, Write(t) PROVE RowsAreRight'
  <2>1. CASE rows' = rows /\ thrownOff' \subseteq thrownOff /\ desired' = desired
    BY <2>1 DEF Obeyed, RowsAreRight
  <2>2. ASSUME NEW c \in handler[t].change, ~Refused(c), c.new \/ rows[c.slot] # Nowhere,
               rows' = [rows EXCEPT ![c.slot] = c.to], thrownOff' = thrownOff \ {c.slot},
               desired' = desired
        PROVE  RowsAreRight'
    <3>1. c.slot \in Slots /\ rows \in [Slots -> Place \cup {Nowhere}] /\ thrownOff \subseteq Slots
      BY DEF Obeyed, PlacementTypeOK, Handling, Change
    <3>2. desired # "deleted"
      BY <2>2, <3>1 DEF Obeyed, RowsAreRight, Refused
    <3>. QED
      BY <2>2, <3>1, <3>2 DEF Obeyed, RowsAreRight
  <2>. QED
    BY <1>2, <2>1, <2>2 DEF Write
<1>3. ASSUME NEW t \in Handler, Deploy(t) \/ StopService(t) PROVE RowsAreRight'
  BY <1>3 DEF Deploy, StopService, Asks, Obeyed, RowsAreRight
<1>4. ASSUME NEW t \in Handler, NEW x \in Holder, Report(t, x) PROVE RowsAreRight'
  BY <1>4 DEF Report, Obeyed, RowsAreRight
<1>5. ASSUME NEW t \in Worker, DeployAfter(t) PROVE RowsAreRight'
  BY <1>5 DEF DeployAfter, Obeyed, RowsAreRight
<1>6. ASSUME NEW t \in Worker, DeleteRows(t) PROVE RowsAreRight'
  BY <1>6 DEF DeleteRows, RowsAreRight
<1>7. ASSUME NEW t \in Worker, Say(t) \/ Derive(t) \/ LetGo(t) \/ Tell(t) PROVE UNCHANGED owner
  BY <1>7 DEF Say, Derive, LetGo, Tell
<1>8. ASSUME NEW t \in Handler, SetPlacement(t) \/ Delete(t) \/ \E x \in Holder : Drain(t, x)
      PROVE  UNCHANGED owner
  BY <1>8 DEF SetPlacement, Delete, Drain
<1>9. ASSUME NEW x \in Holder, Carry(x) \/ Evict(x) \/ ChangeConsent(x) PROVE UNCHANGED owner
  BY <1>9 DEF Carry, Evict, ChangeConsent
<1>10. PlacementStop \/ UNCHANGED placement => UNCHANGED owner
  BY DEF PlacementStop, placement
<1>. QED
  BY <1>1, <1>2, <1>3, <1>4, <1>5, <1>6, <1>7, <1>8, <1>9, <1>10
     DEF PlacementNext, Handles, Pressed

(* Every step of it.                                                         *)
LEMMA PlacementKeepsTypes ==
    ASSUME Obeyed, [PlacementNext]_placement PROVE PlacementTypeOK'
<1>1. CASE UNCHANGED placement
  BY <1>1 DEF Obeyed, placement, owner, errands, holder, PlacementTypeOK
<1>. QED
  BY <1>1, AskingKeepsTypes, HandlingKeepsTypes, HoldersKeepTypes, StopKeepsTypes
     DEF PlacementNext, Obeyed

(* So the holders' part holds from one step to the next.                     *)
LEMMA ObeyedKeeps ==
    ASSUME Obeyed, [PlacementNext]_placement PROVE Obeyed'
<1>1. PlacementTypeOK' /\ RowsAreRight'
  BY PlacementKeepsTypes, RowsStayRight
<1>2. ASSUME UNCHANGED <<errands, holds, evicts, up>> PROVE LastIsTold' /\ ToldIsDone'
  BY <1>2, UntoldObey
<1>3. ASSUME NEW t \in Worker, Tell(t) PROVE LastIsTold' /\ ToldIsDone'
  <2>1. CASE UNCHANGED errands
    BY <1>2, <1>3, <2>1 DEF Tell, holder
  <2>2. ASSUME NEW x \in handler[t].whom, TellOne(t, x) PROVE LastIsTold' /\ ToldIsDone'
    BY <1>3, <2>2, TellingObeys DEF Tell
  <2>. QED
    BY <1>3, <2>1, <2>2 DEF Tell
<1>4. ASSUME NEW t \in Worker,
             Write(t) \/ Say(t) \/ Derive(t) \/ LetGo(t) \/ DeployAfter(t) \/ DeleteRows(t)
      PROVE  UNCHANGED <<errands, holds, evicts, up>>
  BY <1>4 DEF Write, Say, Derive, LetGo, DeployAfter, DeleteRows, holder
<1>5. ASSUME NEW t \in Handler, Pressed(t) PROVE UNCHANGED <<errands, holds, evicts, up>>
  BY <1>5 DEF Pressed, SetPlacement, Deploy, StopService, Delete, Drain, Report, holder
<1>6. PlacementStop \/ UNCHANGED placement => UNCHANGED <<errands, holds, evicts, up>>
  BY DEF PlacementStop, placement, holder
<1>7. ASSUME NEW x \in Holder, ChangeConsent(x) PROVE UNCHANGED <<errands, holds, evicts, up>>
  BY <1>7 DEF ChangeConsent
<1>8. LastIsTold' /\ ToldIsDone'
  BY <1>2, <1>3, <1>4, <1>5, <1>6, <1>7, CarryingObeys, EvictingObeys
     DEF PlacementNext, Handles
<1>. QED
  BY <1>1, <1>8 DEF Obeyed

(* Whatever is told is carried out or refused in the order it was told, and  *)
(* what is recorded as told is what was told last.                           *)
THEOREM HoldersObey == PlacementSpec => []Obeyed
BY ObeyedAtFirst, ObeyedKeeps, PTL DEF PlacementSpec

(* SilenceIsRight: a pass that would repeat itself finds the holder doing    *)
(* what it would say (network::errand::would_change).                        *)
THEOREM SilenceIsAlwaysRight == PlacementSpec => []SilenceIsRight
<1>1. ASSUME Obeyed PROVE SilenceIsRight
  <2>1. SUFFICES ASSUME NEW x \in Holder, queue[x] = << >>, told[x].subject,
                        ~WouldChange(x, Derived(x))
                 PROVE  /\ holds[x] \subseteq Placed(x) /\ Placed(x) \ holds[x] \subseteq evicts[x]
                        /\ Placed(x) # {} => up[x] = (desired = "running")
    BY DEF SilenceIsRight
  <2>2. derived[x].is = "sent" /\ derived[x].says = Derived(x)
    BY <2>1 DEF WouldChange
  <2>3. told[x].says = Derived(x) /\ DoesAsTold(x)
    BY <1>1, <2>1, <2>2 DEF Obeyed, LastIsTold, ToldIsDone
  <2>. QED
    BY <2>3 DEF DoesAsTold, Derived
<1>. QED
  BY <1>1, HoldersObey, PTL

------------------------------------------------------------------------------
(* What a handler still has to tell, with nobody beside it.                  *)

(* No copy is named that is not there, and none that is there left out but   *)
(* for those thrown off; and what is to become of them is the intent.        *)

NoMoreThanPlaced(x, slots) == \A s \in slots : rows[s] = x

RightWord(x, says) == NoMoreThanPlaced(x, says.slots) /\ Placed(x) \subseteq says.slots

Right(x) ==
    /\ RightWord(x, told[x].says)
    /\ told[x].subject /\ Placed(x) # {} => told[x].says.running = (desired = "running")

AllRight(but) == \A x \in Holder \ (unsaid \cup but) : Right(x)
NoneTooMany(but) ==
    \A x \in Holder \ (unsaid \cup but) : NoMoreThanPlaced(x, told[x].says.slots)

\* Each row is written once.
OnePerSlot(change) == \A c, d \in change : c.slot = d.slot => c = d

Forming(h) ==
    /\ h.todo = <<"write", "say", "tell", "deploy">>
    /\ OnePerSlot(h.change) /\ AllRight(h.also)
    /\ \A s \in Slots : rows[s] \in Holder => rows[s] \in h.also
    /\ \A c \in h.change : /\ c.to \in Holder => c.to \in h.also
                           /\ c.new => rows[c.slot] = Nowhere /\ desired # "deleted"

Saying(h) == h.todo = <<"say", "tell", "deploy">> /\ AllRight(h.also)

TellingForm(h) ==
    /\ h.todo = <<"tell", "deploy">> /\ ~h.subject /\ AllRight(h.whom)
    /\ \A x \in h.whom : RightWord(x, h.tell[x])

Deploying(h) == h.todo = <<"deploy">> /\ AllRight({})

Draining(h) ==
    /\ h.todo = <<"write", "derive", "tell">>
    /\ OnePerSlot(h.change) /\ NoneTooMany(h.also)
    /\ \A c \in h.change : /\ ~c.new
                           /\ rows[c.slot] \in Holder => rows[c.slot] \in h.also

Deriving(h) == h.todo = <<"derive", "tell">> /\ NoneTooMany(h.also)

TellingDerived(h) ==
    /\ h.todo = <<"tell">> /\ h.subject /\ AllRight(h.whom)
    /\ \A x \in h.whom : /\ RightWord(x, h.tell[x])
                         /\ h.tell[x].running = (desired = "running")

LettingGo(h) == h.todo = <<"let go", "tell", "delete">> /\ AllRight({})

TellingDeleted(h) ==
    /\ h.todo = <<"tell", "delete">> /\ h.subject
    /\ \A x \in h.whom : h.tell[x] = NoCopies
    /\ \A x \in Holder \ (unsaid \cup h.whom) : told[x].says.slots = {}

Deleting(h) ==
    /\ h.todo = <<"delete">>
    /\ \A x \in Holder \ unsaid : told[x].says.slots = {}

Minds(h) ==
    \/ Forming(h) \/ Saying(h) \/ TellingForm(h) \/ Deploying(h)
    \/ Draining(h) \/ Deriving(h) \/ TellingDerived(h)
    \/ LettingGo(h) \/ TellingDeleted(h) \/ Deleting(h)

Told ==
    ~beside =>
        /\ \A t, u \in Worker : handler[t] # AtEase /\ handler[u] # AtEase => t = u
        /\ \A t \in Worker : handler[t] # AtEase => Minds(handler[t])
        /\ NobodyAtWork => AllRight({})


------------------------------------------------------------------------------

PlacementInvariant == Obeyed /\ Told

(* What the lists of steps begin with, and leave.                            *)
LEMMA HeadsAndTails ==
    /\ Head(<<"write", "say", "tell", "deploy">>) = "write"
    /\ Tail(<<"write", "say", "tell", "deploy">>) = <<"say", "tell", "deploy">>
    /\ Head(<<"say", "tell", "deploy">>) = "say"
    /\ Tail(<<"say", "tell", "deploy">>) = <<"tell", "deploy">>
    /\ Head(<<"tell", "deploy">>) = "tell" /\ Tail(<<"tell", "deploy">>) = <<"deploy">>
    /\ Head(<<"deploy">>) = "deploy" /\ Tail(<<"deploy">>) = << >>
    /\ Head(<<"write", "derive", "tell">>) = "write"
    /\ Tail(<<"write", "derive", "tell">>) = <<"derive", "tell">>
    /\ Head(<<"derive", "tell">>) = "derive" /\ Tail(<<"derive", "tell">>) = <<"tell">>
    /\ Head(<<"tell">>) = "tell" /\ Tail(<<"tell">>) = << >>
    /\ Head(<<"let go", "tell", "delete">>) = "let go"
    /\ Tail(<<"let go", "tell", "delete">>) = <<"tell", "delete">>
    /\ Head(<<"tell", "delete">>) = "tell" /\ Tail(<<"tell", "delete">>) = <<"delete">>
    /\ Head(<<"delete">>) = "delete" /\ Tail(<<"delete">>) = << >>
    /\ <<"write", "say", "tell", "deploy">> # << >> /\ <<"say", "tell", "deploy">> # << >>
    /\ <<"tell", "deploy">> # << >> /\ <<"deploy">> # << >>
    /\ <<"write", "derive", "tell">> # << >> /\ <<"derive", "tell">> # << >>
    /\ <<"tell">> # << >> /\ <<"let go", "tell", "delete">> # << >>
    /\ <<"tell", "delete">> # << >> /\ <<"delete">> # << >>
OBVIOUS

(* What a handler that means this is about to do.                            *)
LEMMA MindsBegin ==
    ASSUME NEW h, Minds(h)
    PROVE  /\ h.todo # << >>
           /\ Head(h.todo) = "write" => Forming(h) \/ Draining(h)
           /\ Head(h.todo) = "say" => Saying(h)
           /\ Head(h.todo) = "derive" => Deriving(h)
           /\ Head(h.todo) = "let go" => LettingGo(h)
           /\ Head(h.todo) = "tell" => TellingForm(h) \/ TellingDerived(h) \/ TellingDeleted(h)
           /\ Head(h.todo) = "deploy" => Deploying(h)
           /\ Head(h.todo) = "delete" => Deleting(h)
<1>1. Forming(h) => h.todo # << >> /\ Head(h.todo) = "write"
  BY HeadsAndTails DEF Forming
<1>2. Saying(h) => h.todo # << >> /\ Head(h.todo) = "say"
  BY HeadsAndTails DEF Saying
<1>3. TellingForm(h) => h.todo # << >> /\ Head(h.todo) = "tell"
  BY HeadsAndTails DEF TellingForm
<1>4. Deploying(h) => h.todo # << >> /\ Head(h.todo) = "deploy"
  BY HeadsAndTails DEF Deploying
<1>5. Draining(h) => h.todo # << >> /\ Head(h.todo) = "write"
  BY HeadsAndTails DEF Draining
<1>6. Deriving(h) => h.todo # << >> /\ Head(h.todo) = "derive"
  BY HeadsAndTails DEF Deriving
<1>7. TellingDerived(h) => h.todo # << >> /\ Head(h.todo) = "tell"
  BY HeadsAndTails DEF TellingDerived
<1>8. LettingGo(h) => h.todo # << >> /\ Head(h.todo) = "let go"
  BY HeadsAndTails DEF LettingGo
<1>9. TellingDeleted(h) => h.todo # << >> /\ Head(h.todo) = "tell"
  BY HeadsAndTails DEF TellingDeleted
<1>10. Deleting(h) => h.todo # << >> /\ Head(h.todo) = "delete"
  BY HeadsAndTails DEF Deleting
<1>. QED
  BY <1>1, <1>2, <1>3, <1>4, <1>5, <1>6, <1>7, <1>8, <1>9, <1>10 DEF Minds

(* Before anybody asks every node was told of nothing, and has nothing.      *)
LEMMA ToldAtFirst == PlacementInit => Told
<1>. SUFFICES ASSUME PlacementInit PROVE Told
  OBVIOUS
<1>1. \A x \in Holder : Placed(x) = {}
  BY PlacementAssumption DEF PlacementInit, Placed
<1>2. AllRight({})
  BY <1>1 DEF PlacementInit, AllRight, Right, RightWord, NoMoreThanPlaced, NoErrand, NoCopies
<1>. QED
  BY <1>2 DEF PlacementInit, Told

(* Nobody is beside who takes something up, or everybody was told before.    *)
LEMMA TakingUpTells ==
    ASSUME PlacementTypeOK, Told, NEW t \in Worker, NEW h, TakesUp(t, h), h.todo # << >>,
           NobodyAtWork /\ AllRight({}) /\ ~beside => Minds(h)'
    PROVE  Told'
<1>1. SUFFICES ASSUME ~beside' PROVE Told'
  BY DEF Told
<1>2. ~beside /\ NobodyAtWork /\ AllRight({})
  BY <1>1 DEF TakesUp, NobodyAtWork, Told
<1>3. /\ handler'[t] = h /\ \A u \in Worker \ {t} : handler'[u] = AtEase
  BY <1>2 DEF TakesUp, NobodyAtWork, PlacementTypeOK
<1>4. h # AtEase /\ Minds(h)'
  BY <1>2 DEF AtEase
<1>. QED
  BY <1>3, <1>4 DEF Told, NobodyAtWork

(* A handler went on, and everybody was told when it has finished.           *)
LEMMA GoingOnTells ==
    ASSUME PlacementTypeOK, Told, NEW t \in Worker, NEW g,
           handler[t].todo # << >>, handler' = [handler EXCEPT ![t] = g], beside' = beside,
           Minds(handler[t]) => (g = AtEase /\ AllRight({})') \/ (g.todo # << >> /\ Minds(g)')
    PROVE  Told'
<1>1. SUFFICES ASSUME ~beside' PROVE Told'
  BY DEF Told
<1>2. handler[t] # AtEase
  BY DEF AtEase
<1>3. Minds(handler[t]) /\ \A u \in Worker \ {t} : handler[u] = AtEase
  BY <1>1, <1>2 DEF Told
<1>4. /\ handler'[t] = g /\ \A u \in Worker \ {t} : handler'[u] = AtEase
  BY <1>3 DEF PlacementTypeOK
<1>5. CASE g = AtEase /\ AllRight({})'
  BY <1>4, <1>5 DEF Told
<1>6. CASE g.todo # << >> /\ Minds(g)'
  <2>1. g # AtEase
    BY <1>6 DEF AtEase
  <2>. QED
    BY <1>4, <1>6, <2>1 DEF Told, NobodyAtWork
<1>. QED
  BY <1>3, <1>5, <1>6

(* A mark more on a row takes nothing from who was told right.               *)
LEMMA MarksTell ==
    ASSUME thrownOff \subseteq thrownOff', UNCHANGED <<rows, desired, told, unsaid>>,
           NEW h, NEW but
    PROVE  /\ AllRight(but) => AllRight(but)'
           /\ NoneTooMany(but) => NoneTooMany(but)'
           /\ Minds(h) => Minds(h)'
<1>1. \A x : Placed(x)' \subseteq Placed(x)
  BY DEF Placed
<1>2. ASSUME NEW x, NEW slots PROVE NoMoreThanPlaced(x, slots)' <=> NoMoreThanPlaced(x, slots)
  BY DEF NoMoreThanPlaced
<1>3. ASSUME NEW x, NEW says PROVE RightWord(x, says) => RightWord(x, says)'
  BY <1>1, <1>2 DEF RightWord
<1>4. ASSUME NEW x PROVE Right(x) => Right(x)'
  BY <1>1 DEF Right, RightWord, NoMoreThanPlaced
<1>5. ASSUME NEW b PROVE /\ AllRight(b) => AllRight(b)'
                         /\ NoneTooMany(b) => NoneTooMany(b)'
  BY <1>4, <1>2 DEF AllRight, NoneTooMany, NoMoreThanPlaced
<1>6. /\ Forming(h) => Forming(h)'
      /\ Saying(h) => Saying(h)'
      /\ Deploying(h) => Deploying(h)'
      /\ Draining(h) => Draining(h)'
      /\ Deriving(h) => Deriving(h)'
      /\ LettingGo(h) => LettingGo(h)'
  BY <1>5 DEF Forming, Saying, Deploying, Draining, Deriving, LettingGo, OnePerSlot
<1>7. /\ TellingForm(h) => TellingForm(h)'
      /\ TellingDerived(h) => TellingDerived(h)'
  BY <1>3, <1>5 DEF TellingForm, TellingDerived
<1>8. /\ TellingDeleted(h) => TellingDeleted(h)'
      /\ Deleting(h) => Deleting(h)'
  BY DEF TellingDeleted, Deleting
<1>9. Minds(h) => Minds(h)'
  BY <1>6, <1>7, <1>8, Zenon DEF Minds
<1>. QED
  BY <1>5, <1>9

(* So what no handler does changes nothing of what they mean.                *)
LEMMA OthersTell ==
    ASSUME Told, thrownOff \subseteq thrownOff',
           UNCHANGED <<rows, desired, told, unsaid, handler, beside>>
    PROVE  Told'
<1>1. ASSUME NEW t \in Worker, Minds(handler[t]) PROVE Minds(handler[t])'
  <2>1. PICK h : h = handler[t]
    OBVIOUS
  <2>2. Minds(h)'
    BY <1>1, <2>1, MarksTell
  <2>. QED
    BY <2>1, <2>2
<1>2. AllRight({}) => AllRight({})'
  BY MarksTell
<1>. QED
  BY <1>1, <1>2 DEF Told, NobodyAtWork

(* What is asked for is meant as it is asked.                                *)
LEMMA AskingTells ==
    ASSUME PlacementInvariant, NEW t \in Handler, Pressed(t)
    PROVE  Told'
<1>0. t \in Worker /\ PlacementTypeOK /\ Told
  BY DEF Worker, PlacementInvariant, Obeyed
<1>1. ASSUME AllRight({}), UNCHANGED <<rows, told, unsaid>>, NEW but
      PROVE  NoneTooMany(but)'
  BY <1>1 DEF AllRight, Right, RightWord, NoneTooMany, NoMoreThanPlaced
<1>2. CASE SetPlacement(t)
  <2>1. PICK form \in Forms :
          Asks(t, [AtEase EXCEPT !.todo = <<"write", "say", "tell", "deploy">>,
                     !.change = form, !.also = Touched(form)])
    BY <1>2 DEF SetPlacement
  <2>2. PICK g : g = [AtEase EXCEPT !.todo = <<"write", "say", "tell", "deploy">>,
                        !.change = form, !.also = Touched(form)]
    OBVIOUS
  <2>3. /\ g.todo = <<"write", "say", "tell", "deploy">> /\ g.change = form
        /\ g.also = Touched(form) /\ TakesUp(t, g) /\ desired # "deleted"
    BY <2>1, <2>2 DEF Asks, AtEase
  <2>4. UNCHANGED <<rows, thrownOff, desired, told, unsaid>>
    BY <1>2 DEF SetPlacement, owner, errands
  <2>5. ASSUME AllRight({}) PROVE Forming(g)
    <3>1. AllRight(g.also)
      BY <2>5 DEF AllRight
    <3>2. \A s \in Slots : rows[s] \in Holder => rows[s] \in g.also
      BY <2>3 DEF Touched
    <3>3. \A c \in g.change : c.to \in Holder => c.to \in g.also
      BY <2>3 DEF Touched
    <3>4. OnePerSlot(g.change) /\ \A c \in g.change : c.new => rows[c.slot] = Nowhere
      BY <2>3, FormsAreOfRows DEF OnePerSlot
    <3>. QED
      BY <2>3, <3>1, <3>2, <3>3, <3>4 DEF Forming
  <2>6. Forming(g) => Minds(g)'
    BY <2>4, MarksTell DEF Minds
  <2>7. g.todo # << >>
    BY <2>3, HeadsAndTails
  <2>. QED
    BY <1>0, <2>3, <2>5, <2>6, <2>7, TakingUpTells
<1>3. CASE Deploy(t) \/ StopService(t)
  <2>1. PICK g : g = [AtEase EXCEPT !.todo = Derives]
    OBVIOUS
  <2>2. g.todo = <<"derive", "tell">> /\ TakesUp(t, g) /\ UNCHANGED <<rows, told, unsaid>>
    BY <1>3, <2>1 DEF Deploy, StopService, Asks, AtEase, Derives, errands
  <2>3. AllRight({}) => Minds(g)'
    BY <1>1, <2>2 DEF Minds, Deriving
  <2>4. g.todo # << >>
    BY <2>2, HeadsAndTails
  <2>. QED
    BY <1>0, <2>2, <2>3, <2>4, TakingUpTells
<1>4. CASE Delete(t)
  <2>1. PICK g : g = [AtEase EXCEPT !.todo = <<"let go", "tell", "delete">>]
    OBVIOUS
  <2>2. /\ g.todo = <<"let go", "tell", "delete">> /\ TakesUp(t, g)
        /\ UNCHANGED <<rows, thrownOff, desired, told, unsaid>>
    BY <1>4, <2>1 DEF Delete, Asks, AtEase, owner, errands
  <2>3. AllRight({}) => Minds(g)
    BY <2>2 DEF Minds, LettingGo
  <2>4. g.todo # << >>
    BY <2>2, HeadsAndTails
  <2>. QED
    BY <1>0, <2>2, <2>3, <2>4, TakingUpTells, MarksTell
<1>5. ASSUME NEW x \in Holder, Drain(t, x) PROVE Told'
  <2>. DEFINE elsewhere == {Home} \cup {y \in allows \ {x} : \A s \in thrownOff : rows[s] # y}
  <2>1. PICK S \in (SUBSET Placed(x)) \ {{}} : \E to \in [S -> elsewhere] :
          Asks(t, [AtEase EXCEPT !.todo = <<"write", "derive", "tell">>, !.also = {x},
                     !.change = {[slot |-> s, to |-> to[s], new |-> FALSE] : s \in S}])
    BY <1>5 DEF Drain
  <2>2. PICK to \in [S -> elsewhere] :
          Asks(t, [AtEase EXCEPT !.todo = <<"write", "derive", "tell">>, !.also = {x},
                     !.change = {[slot |-> s, to |-> to[s], new |-> FALSE] : s \in S}])
    BY <2>1
  <2>. HIDE DEF elsewhere
  <2>. DEFINE change == {[slot |-> s, to |-> to[s], new |-> FALSE] : s \in S}
  <2>3. /\ OnePerSlot(change)
        /\ \A c \in change : ~c.new /\ rows[c.slot] = x
    <3>1. \A c \in change : \E s \in S : c = [slot |-> s, to |-> to[s], new |-> FALSE]
      OBVIOUS
    <3>2. \A s \in S : rows[s] = x
      BY DEF Placed
    <3>. HIDE DEF change
    <3>3. \A c \in change : c.slot \in S /\ c = [slot |-> c.slot, to |-> to[c.slot], new |-> FALSE]
      BY <3>1
    <3>4. OnePerSlot(change)
      BY <3>3 DEF OnePerSlot
    <3>5. \A c \in change : ~c.new
      <4>1. \A s : [slot |-> s, to |-> to[s], new |-> FALSE].new = FALSE
        OBVIOUS
      <4>. QED
        BY <3>3, <4>1
    <3>. QED
      BY <3>2, <3>3, <3>4, <3>5
  <2>. HIDE DEF change
  <2>4. PICK g : g = [AtEase EXCEPT !.todo = <<"write", "derive", "tell">>, !.also = {x},
                        !.change = change]
    OBVIOUS
  <2>6. /\ g.todo = <<"write", "derive", "tell">> /\ g.change = change /\ g.also = {x}
        /\ TakesUp(t, g)
    BY <2>2, <2>4 DEF Asks, AtEase, change
  <2>7. UNCHANGED <<rows, thrownOff, desired, told, unsaid>>
    BY <1>5 DEF Drain, owner, errands
  <2>8. AllRight({}) => Draining(g)
    BY <2>3, <2>6 DEF Draining, AllRight, Right, RightWord, NoneTooMany
  <2>9. g.todo # << >>
    BY <2>6, HeadsAndTails
  <2>10. Draining(g) => Minds(g)'
    BY <2>7, MarksTell DEF Minds
  <2>. QED
    BY <1>0, <2>6, <2>8, <2>9, <2>10, TakingUpTells
<1>6. ASSUME NEW x \in Holder, Report(t, x) PROVE Told'
  <2>1. UNCHANGED <<rows, desired, told, unsaid>> /\ thrownOff \subseteq thrownOff'
    BY <1>6 DEF Report, errands
  <2>2. CASE UNCHANGED <<handler, beside>>
    BY <1>0, <2>1, <2>2, OthersTell
  <2>3. CASE TakesUp(t, [AtEase EXCEPT !.todo = Derives, !.also = {x}])
    <3>1. PICK g : g = [AtEase EXCEPT !.todo = Derives, !.also = {x}]
      OBVIOUS
    <3>2. g.todo = <<"derive", "tell">> /\ TakesUp(t, g)
      BY <2>3, <3>1 DEF AtEase, Derives
    <3>3. AllRight({}) => Minds(g)'
      BY <1>1, <2>1, <3>2 DEF Minds, Deriving
    <3>4. g.todo # << >>
      BY <3>2, HeadsAndTails
    <3>. QED
      BY <1>0, <3>2, <3>3, <3>4, TakingUpTells
  <2>. QED
    BY <1>6, <2>2, <2>3 DEF Report
<1>. QED
  BY <1>2, <1>3, <1>4, <1>5, <1>6 DEF Pressed

(* Between a write and what is said there is nobody to leave out.            *)
LEMMA WritingTells ==
    ASSUME PlacementInvariant, NEW t \in Worker, Write(t)
    PROVE  Told'
<1>0. PlacementTypeOK /\ Told /\ handler[t].todo # << >> /\ beside' = beside
      /\ UNCHANGED <<desired, told, unsaid>>
  BY DEF PlacementInvariant, Obeyed, Write, At, errands
<1>1. PICK h : h = handler[t]
  OBVIOUS
<1>2. h \in Handling
  BY <1>0, <1>1 DEF PlacementTypeOK
<1>3. Minds(h) => Forming(h) \/ Draining(h)
  BY <1>1, MindsBegin DEF Write, At
<1>4. CASE handler' = [handler EXCEPT ![t] = Done(t)] /\ UNCHANGED <<rows, thrownOff>>
  <2>1. PICK g : g = Done(t)
    OBVIOUS
  <2>2. g.todo = Tail(h.todo) /\ g.also = h.also
    BY <1>1, <1>2, <2>1 DEF Done, Handling
  <2>3. Forming(h) => Saying(g)
    BY <2>2, HeadsAndTails DEF Forming, Saying
  <2>4. Draining(h) => Deriving(g)
    BY <2>2, HeadsAndTails DEF Draining, Deriving
  <2>5. Saying(g) \/ Deriving(g) => g.todo # << >> /\ Minds(g)'
    BY <1>0, <1>4, MarksTell, HeadsAndTails DEF Minds, Saying, Deriving
  <2>. QED
    BY <1>0, <1>1, <1>3, <1>4, <2>1, <2>3, <2>4, <2>5, GoingOnTells
<1>5. ASSUME NEW c \in handler[t].change, Refused(c),
             handler' = [handler EXCEPT ![t] = AtEase]
      PROVE  Told'
  <2>1. ~Forming(h) /\ ~Draining(h)
    BY <1>1, <1>5 DEF Forming, Draining, Refused
  <2>. QED
    BY <1>0, <1>1, <1>3, <1>5, <2>1, GoingOnTells
<1>6. ASSUME NEW c \in handler[t].change, ~Refused(c),
             handler' = [handler EXCEPT ![t].change = @ \ {c}],
             rows' = IF c.new \/ rows[c.slot] # Nowhere
                     THEN [rows EXCEPT ![c.slot] = c.to] ELSE rows,
             thrownOff' = thrownOff \ {c.slot}
      PROVE  Told'
  <2>. DEFINE k == [handler[t] EXCEPT !.change = @ \ {c}]
  <2>1. handler' = [handler EXCEPT ![t] = k]
    BY <1>6
  <2>2. PICK g : g = k
    OBVIOUS
  <2>3. g.todo = h.todo /\ g.also = h.also /\ g.change = h.change \ {c}
    BY <1>1, <1>2, <2>2 DEF Handling
  <2>. HIDE DEF k
  <2>4. c \in h.change /\ c.slot \in Slots /\ rows \in [Slots -> Place \cup {Nowhere}]
        /\ \A d \in h.change : d.slot \in Slots
    BY <1>0, <1>1, <1>2 DEF Handling, Change, PlacementTypeOK
  <2>5. \A s \in Slots \ {c.slot} : rows'[s] = rows[s]
    BY <1>6, <2>4
  <2>6. rows'[c.slot] = c.to \/ (rows'[c.slot] = Nowhere /\ rows[c.slot] = Nowhere)
    BY <1>6, <2>4
  <2>7. Nowhere \notin Holder
    BY PlacementAssumption
  <2>8. ASSUME Forming(h) PROVE Forming(g)'
    <3>1. OnePerSlot(h.change) /\ AllRight(h.also)
          /\ (\A s \in Slots : rows[s] \in Holder => rows[s] \in h.also)
          /\ \A d \in h.change : /\ d.to \in Holder => d.to \in h.also
                                 /\ d.new => rows[d.slot] = Nowhere /\ desired # "deleted"
      BY <2>8 DEF Forming
    <3>2. ASSUME NEW x \in Holder \ (unsaid \cup h.also) PROVE Right(x)'
      <4>1. Right(x) /\ rows[c.slot] # x /\ rows'[c.slot] # x
        BY <2>4, <2>6, <2>7, <3>1, <3>2 DEF AllRight
      <4>2. Placed(x)' = Placed(x)
        BY <1>6, <2>4, <2>5, <4>1 DEF Placed
      <4>3. \A s \in Slots : rows[s] = x <=> rows'[s] = x
        BY <2>5, <4>1
      <4>4. told[x].says.slots \subseteq Slots
        BY <1>0 DEF PlacementTypeOK, Errand, Says
      <4>. QED
        BY <1>0, <4>1, <4>2, <4>3, <4>4 DEF Right, RightWord, NoMoreThanPlaced
    <3>3. AllRight(g.also)'
      BY <1>0, <2>3, <3>2 DEF AllRight
    <3>4. \A s \in Slots : rows'[s] \in Holder => rows'[s] \in g.also
      BY <2>3, <2>4, <2>5, <2>6, <2>7, <3>1
    <3>5. \A d \in g.change : d \in h.change /\ d.slot # c.slot
      BY <2>3, <2>4, <3>1 DEF OnePerSlot
    <3>6. \A d \in g.change : /\ d.to \in Holder => d.to \in g.also
                              /\ d.new => rows'[d.slot] = Nowhere /\ desired' # "deleted"
      BY <1>0, <2>3, <2>4, <2>5, <3>1, <3>5
    <3>7. OnePerSlot(g.change) /\ g.todo = <<"write", "say", "tell", "deploy">>
      BY <2>3, <2>8, <3>1 DEF OnePerSlot, Forming
    <3>. QED
      BY <3>3, <3>4, <3>6, <3>7 DEF Forming, OnePerSlot
  <2>9. ASSUME Draining(h) PROVE Draining(g)'
    <3>1. OnePerSlot(h.change) /\ NoneTooMany(h.also)
          /\ \A d \in h.change : /\ ~d.new
                                 /\ rows[d.slot] \in Holder => rows[d.slot] \in h.also
      BY <2>9 DEF Draining
    <3>2. ASSUME NEW x \in Holder \ (unsaid \cup h.also)
          PROVE  NoMoreThanPlaced(x, told[x].says.slots)'
      <4>1. NoMoreThanPlaced(x, told[x].says.slots) /\ rows[c.slot] # x
        BY <2>4, <3>1, <3>2 DEF NoneTooMany
      <4>2. told[x].says.slots \subseteq Slots
        BY <1>0 DEF PlacementTypeOK, Errand, Says
      <4>. QED
        BY <1>0, <2>5, <4>1, <4>2 DEF NoMoreThanPlaced
    <3>3. NoneTooMany(g.also)'
      BY <1>0, <2>3, <3>2 DEF NoneTooMany
    <3>4. \A d \in g.change : d \in h.change /\ d.slot # c.slot
      BY <2>3, <2>4, <3>1 DEF OnePerSlot
    <3>5. \A d \in g.change : /\ ~d.new
                              /\ rows'[d.slot] \in Holder => rows'[d.slot] \in g.also
      BY <2>3, <2>4, <2>5, <3>1, <3>4
    <3>6. OnePerSlot(g.change) /\ g.todo = <<"write", "derive", "tell">>
      BY <2>3, <2>9, <3>1 DEF OnePerSlot, Draining
    <3>. QED
      BY <3>3, <3>5, <3>6 DEF Draining, OnePerSlot
  <2>10. Minds(h) => g.todo # << >> /\ Minds(g)'
    BY <1>0, <1>1, <1>3, <2>3, <2>8, <2>9 DEF Minds
  <2>. QED
    BY <1>0, <1>1, <2>1, <2>2, <2>10, GoingOnTells
<1>. QED
  BY <1>4, <1>5, <1>6 DEF Write

(* What is said of each node is right, and the rest were told before.        *)
LEMMA SayingTells ==
    ASSUME PlacementInvariant, NEW t \in Worker,
           Say(t) \/ Derive(t) \/ LetGo(t)
    PROVE  Told'
<1>0. /\ PlacementTypeOK /\ Told /\ RowsAreRight /\ handler[t].todo # << >> /\ beside' = beside
      /\ UNCHANGED <<rows, thrownOff, desired, told>>
  BY DEF PlacementInvariant, Obeyed, Say, Derive, LetGo, At, owner, errands
<1>1. PICK h : h = handler[t]
  OBVIOUS
<1>2. h \in Handling
  BY <1>0, <1>1 DEF PlacementTypeOK
<1>3. \A x \in Holder : Placed(x)' = Placed(x) /\ \A s \in Placed(x) : rows'[s] = x
  BY <1>0 DEF Placed
<1>5. CASE Say(t)
  <2>1. PICK tell, whom : /\ whom = handler[t].also
                          /\ tell = [x \in Holder |-> IF x \in whom
                               THEN [slots |-> Placed(x), running |-> TRUE] ELSE NoCopies]
    OBVIOUS
  <2>2. Tells(t, tell, whom, FALSE) /\ unsaid' = unsaid
    BY <1>5, <2>1 DEF Say
  <2>. PICK g : g = [Done(t) EXCEPT !.also = {}, !.tell = tell, !.whom = whom, !.subject = FALSE]
    OBVIOUS
  <2>3. /\ handler' = [handler EXCEPT ![t] = g]
        /\ g.todo = Tail(h.todo) /\ g.tell = tell /\ g.whom = whom /\ g.subject = FALSE
    BY <1>1, <1>2, <2>2 DEF Tells, Done, Handling
  <2>4. Minds(h) => Saying(h)
    BY <1>1, <1>5, MindsBegin DEF Say, At
  <2>5. ASSUME Saying(h) PROVE TellingForm(g)'
    <3>1. whom = h.also /\ whom \subseteq Holder /\ AllRight(whom)
      BY <1>1, <1>2, <2>1, <2>5 DEF Saying, Handling
    <3>2. AllRight(whom)'
      BY <1>0, <2>2, <3>1, MarksTell
    <3>3. ASSUME NEW x \in whom PROVE RightWord(x, tell[x])'
      <4>1. tell[x].slots = Placed(x)
        BY <2>1, <3>1
      <4>. QED
        BY <1>3, <3>1, <4>1 DEF RightWord, NoMoreThanPlaced
    <3>4. g.todo = <<"tell", "deploy">>
      BY <2>3, <2>5, HeadsAndTails DEF Saying
    <3>. QED
      BY <2>3, <3>2, <3>3, <3>4 DEF TellingForm
  <2>6. TellingForm(g)' => g.todo # << >> /\ Minds(g)'
    BY HeadsAndTails DEF TellingForm, Minds
  <2>. QED
    BY <1>0, <1>1, <2>3, <2>4, <2>5, <2>6, GoingOnTells
<1>6. CASE Derive(t)
  <2>1. PICK meant, whom, tell :
          /\ meant = Holders \cup handler[t].also /\ whom = meant \cap allows
          /\ tell = [x \in Holder |-> IF x \in meant \cap allows THEN Derived(x) ELSE NoCopies]
    OBVIOUS
  <2>2. Tells(t, tell, whom, TRUE) /\ unsaid' = unsaid \cup (meant \ allows)
    BY <1>6, <2>1 DEF Derive
  <2>. PICK g : g = [Done(t) EXCEPT !.also = {}, !.tell = tell, !.whom = whom, !.subject = TRUE]
    OBVIOUS
  <2>3. /\ handler' = [handler EXCEPT ![t] = g]
        /\ g.todo = Tail(h.todo) /\ g.tell = tell /\ g.whom = whom /\ g.subject = TRUE
    BY <1>1, <1>2, <2>2 DEF Tells, Done, Handling
  <2>4. Minds(h) => Deriving(h)
    BY <1>1, <1>6, MindsBegin DEF Derive, At
  <2>5. ASSUME Deriving(h) PROVE TellingDerived(g)'
    <3>1. whom \subseteq Holder /\ h.also \subseteq meant /\ Holders \subseteq meant
      BY <1>1, <1>2, <2>1 DEF Holders, Handling
    <3>2. ASSUME NEW x \in Holder \ (unsaid' \cup whom) PROVE Right(x)'
      <4>1. x \notin meant /\ x \notin unsaid
        BY <2>1, <2>2, <3>2
      <4>2. Placed(x) = {} /\ NoMoreThanPlaced(x, told[x].says.slots)
        BY <2>5, <3>1, <4>1 DEF Deriving, NoneTooMany, Holders
      <4>. QED
        BY <1>0, <1>3, <4>2 DEF Right, RightWord, NoMoreThanPlaced
    <3>3. ASSUME NEW x \in whom
          PROVE  RightWord(x, tell[x])' /\ tell[x].running = (desired' = "running")
      <4>1. tell[x].slots = Placed(x) /\ tell[x].running = (desired = "running")
        BY <2>1, <3>1 DEF Derived
      <4>. QED
        BY <1>0, <1>3, <3>1, <4>1 DEF RightWord, NoMoreThanPlaced
    <3>4. g.todo = <<"tell">>
      BY <2>3, <2>5, HeadsAndTails DEF Deriving
    <3>5. AllRight(whom)'
      BY <3>2 DEF AllRight
    <3>. QED
      BY <2>3, <3>3, <3>4, <3>5 DEF TellingDerived
  <2>6. TellingDerived(g)' => g.todo # << >> /\ Minds(g)'
    BY HeadsAndTails DEF TellingDerived, Minds
  <2>. QED
    BY <1>0, <1>1, <2>3, <2>4, <2>5, <2>6, GoingOnTells
<1>7. CASE LetGo(t)
  <2>1. PICK whom, tell : whom = Holders \cap allows /\ tell = [x \in Holder |-> NoCopies]
    OBVIOUS
  <2>2. /\ Tells(t, tell, whom, TRUE)
        /\ unsaid' = unsaid \cup (Holders \ allows) \cup {rows[s] : s \in thrownOff}
    BY <1>7, <2>1 DEF LetGo
  <2>. PICK g : g = [Done(t) EXCEPT !.also = {}, !.tell = tell, !.whom = whom, !.subject = TRUE]
    OBVIOUS
  <2>3. /\ handler' = [handler EXCEPT ![t] = g]
        /\ g.todo = Tail(h.todo) /\ g.tell = tell /\ g.whom = whom /\ g.subject = TRUE
    BY <1>1, <1>2, <2>2 DEF Tells, Done, Handling
  <2>4. Minds(h) => LettingGo(h)
    BY <1>1, <1>7, MindsBegin DEF LetGo, At
  <2>5. ASSUME LettingGo(h) PROVE TellingDeleted(g)'
    <3>1. whom \subseteq Holder /\ \A x \in whom : tell[x] = NoCopies
      BY <2>1 DEF Holders
    <3>2. ASSUME NEW x \in Holder \ (unsaid' \cup whom) PROVE told'[x].says.slots = {}
      <4>1. x \notin unsaid /\ x \notin Holders /\ \A s \in thrownOff : rows[s] # x
        BY <2>1, <2>2, <3>2
      <4>2. Placed(x) = {} /\ NoMoreThanPlaced(x, told[x].says.slots)
        BY <2>5, <4>1 DEF LettingGo, AllRight, Right, RightWord, Holders
      <4>3. told[x].says.slots \subseteq Slots
        BY <1>0 DEF PlacementTypeOK, Errand, Says
      <4>. QED
        BY <1>0, <4>1, <4>2, <4>3 DEF NoMoreThanPlaced, Placed
    <3>3. g.todo = <<"tell", "delete">>
      BY <2>3, <2>5, HeadsAndTails DEF LettingGo
    <3>. QED
      BY <2>3, <3>1, <3>2, <3>3 DEF TellingDeleted
  <2>6. TellingDeleted(g)' => g.todo # << >> /\ Minds(g)'
    BY HeadsAndTails DEF TellingDeleted, Minds
  <2>. QED
    BY <1>0, <1>1, <2>3, <2>4, <2>5, <2>6, GoingOnTells
<1>. QED
  BY <1>5, <1>6, <1>7

(* Who has just been told is told right, or is noted as told nothing.        *)
LEMMA TellingOneTells ==
    ASSUME PlacementInvariant, NEW t \in Worker, At(t, "tell"),
           NEW x \in handler[t].whom, TellOne(t, x),
           UNCHANGED <<owner, holder, beside>>
    PROVE  Told'
<1>0. /\ PlacementTypeOK /\ Told /\ handler[t].todo # << >> /\ beside' = beside
      /\ UNCHANGED <<rows, thrownOff, desired>>
  BY DEF PlacementInvariant, Obeyed, At, owner
<1>1. PICK h : h = handler[t]
  OBVIOUS
<1>2. h \in Handling /\ x \in h.whom /\ h.whom \subseteq Holder /\ x \in Holder
  BY <1>0, <1>1 DEF PlacementTypeOK, Handling
<1>3. PICK says, errand, g :
        /\ says = h.tell[x] /\ errand = [says |-> says, subject |-> h.subject]
        /\ g = [h EXCEPT !.whom = @ \ {x}, !.tell[x] = NoCopies]
  OBVIOUS
<1>4. /\ g.todo = h.todo /\ g.whom = h.whom \ {x} /\ g.subject = h.subject
      /\ \A y \in h.whom \ {x} : g.tell[y] = h.tell[y]
      /\ says \in Says
  BY <1>2, <1>3 DEF Handling
<1>5. /\ handler' = [handler EXCEPT ![t] = g]
      /\ unsaid' = IF (~h.subject \/ WouldChange(x, says)) \/ told[x].says = says
                   THEN unsaid \ {x} ELSE unsaid \cup {x}
      /\ \/ (~h.subject \/ WouldChange(x, says)) /\ told' = [told EXCEPT ![x] = errand]
         \/ ~(~h.subject \/ WouldChange(x, says)) /\ told' = told
  BY <1>1, <1>3 DEF TellOne, errands
<1>6. \A y \in Holder \ {x} : told'[y] = told[y] /\ (y \in unsaid' <=> y \in unsaid)
  BY <1>0, <1>2, <1>5 DEF PlacementTypeOK
<1>7. \/ told'[x].says = says /\ x \notin unsaid'
      \/ x \in unsaid' /\ told' = told
  BY <1>0, <1>2, <1>3, <1>5 DEF PlacementTypeOK
<1>8. ~h.subject => told'[x].says = says /\ ~told'[x].subject
  BY <1>0, <1>2, <1>3, <1>5 DEF PlacementTypeOK
<1>9. \A y : Placed(y)' = Placed(y)
  BY <1>0 DEF Placed
<1>10. ASSUME AllRight(h.whom), NEW y \in Holder \ (unsaid' \cup g.whom), y # x
       PROVE  Right(y)'
  <2>1. Right(y) /\ told'[y] = told[y]
    BY <1>4, <1>6, <1>10 DEF AllRight
  <2>. QED
    BY <1>0, <1>9, <2>1 DEF Right, RightWord, NoMoreThanPlaced
<1>11. Minds(h) => TellingForm(h) \/ TellingDerived(h) \/ TellingDeleted(h)
  BY <1>1, MindsBegin DEF At
<1>12. ASSUME TellingForm(h) PROVE TellingForm(g)'
  <2>1. RightWord(x, says) /\ AllRight(h.whom) /\ ~h.subject
    BY <1>2, <1>3, <1>12 DEF TellingForm
  <2>2. Right(x)'
    BY <1>0, <1>8, <1>9, <2>1 DEF Right, RightWord, NoMoreThanPlaced
  <2>3. AllRight(g.whom)'
    BY <1>10, <2>1, <2>2 DEF AllRight
  <2>4. \A y \in g.whom : RightWord(y, g.tell[y])'
    BY <1>0, <1>4, <1>9, <1>12 DEF TellingForm, RightWord, NoMoreThanPlaced
  <2>. QED
    BY <1>4, <1>12, <2>1, <2>3, <2>4 DEF TellingForm
<1>13. ASSUME TellingDerived(h) PROVE TellingDerived(g)'
  <2>1. /\ RightWord(x, says) /\ AllRight(h.whom) /\ h.subject
        /\ says.running = (desired = "running")
    BY <1>2, <1>3, <1>13 DEF TellingDerived
  <2>2. x \notin unsaid' => Right(x)'
    BY <1>0, <1>7, <1>9, <2>1 DEF Right, RightWord, NoMoreThanPlaced
  <2>3. AllRight(g.whom)'
    BY <1>10, <2>1, <2>2 DEF AllRight
  <2>4. \A y \in g.whom : RightWord(y, g.tell[y])' /\ g.tell[y].running = (desired' = "running")
    BY <1>0, <1>4, <1>9, <1>13 DEF TellingDerived, RightWord, NoMoreThanPlaced
  <2>. QED
    BY <1>4, <1>13, <2>1, <2>3, <2>4 DEF TellingDerived
<1>14. ASSUME TellingDeleted(h) PROVE TellingDeleted(g)'
  <2>1. says = NoCopies
    BY <1>2, <1>3, <1>14 DEF TellingDeleted
  <2>2. ASSUME NEW y \in Holder \ (unsaid' \cup g.whom) PROVE told'[y].says.slots = {}
    BY <1>4, <1>6, <1>7, <1>14, <2>1, <2>2 DEF TellingDeleted, NoCopies
  <2>3. \A y \in g.whom : g.tell[y] = NoCopies
    BY <1>4, <1>14 DEF TellingDeleted
  <2>. QED
    BY <1>4, <1>14, <2>2, <2>3 DEF TellingDeleted
<1>15. Minds(h) => g.todo # << >> /\ Minds(g)'
  BY <1>1, <1>0, <1>4, <1>11, <1>12, <1>13, <1>14 DEF Minds
<1>. QED
  BY <1>0, <1>1, <1>5, <1>15, GoingOnTells

(* Once all of them are told it goes on to what is left to do.               *)
LEMMA HavingToldTells ==
    ASSUME PlacementInvariant, NEW t \in Worker, Tell(t)
    PROVE  Told'
<1>1. ASSUME NEW x \in handler[t].whom, TellOne(t, x) PROVE Told'
  BY <1>1, TellingOneTells DEF Tell
<1>2. CASE /\ handler[t].whom = {}
           /\ handler' = [handler EXCEPT ![t] =
                IF Done(t).todo = << >> THEN AtEase ELSE [AtEase EXCEPT !.todo = Done(t).todo]]
           /\ UNCHANGED <<errands, unsaid>>
  <2>0. /\ PlacementTypeOK /\ Told /\ handler[t].todo # << >> /\ beside' = beside
        /\ UNCHANGED <<rows, thrownOff, desired, told, unsaid>>
    BY <1>2 DEF PlacementInvariant, Obeyed, Tell, At, owner, errands
  <2>1. PICK h : h = handler[t]
    OBVIOUS
  <2>2. h \in Handling /\ h.whom = {} /\ Done(t).todo = Tail(h.todo)
    BY <1>2, <2>0, <2>1 DEF PlacementTypeOK, Handling, Done
  <2>3. PICK g : g = IF Tail(h.todo) = << >> THEN AtEase ELSE [AtEase EXCEPT !.todo = Tail(h.todo)]
    OBVIOUS
  <2>4. /\ Tail(h.todo) = << >> => g = AtEase
        /\ Tail(h.todo) # << >> => g.todo = Tail(h.todo)
    BY <2>3 DEF AtEase
  <2>5. Minds(h) => TellingForm(h) \/ TellingDerived(h) \/ TellingDeleted(h)
    BY <2>1, MindsBegin DEF Tell, At
  <2>6. TellingForm(h) => g.todo # << >> /\ Minds(g)
    BY <2>2, <2>4, HeadsAndTails DEF TellingForm, Deploying, Minds
  <2>7. TellingDerived(h) => g = AtEase /\ AllRight({})
    BY <2>2, <2>4, HeadsAndTails DEF TellingDerived
  <2>8. TellingDeleted(h) => g.todo # << >> /\ Minds(g)
    BY <2>2, <2>4, HeadsAndTails DEF TellingDeleted, Deleting, Minds
  <2>9. /\ Minds(g) => Minds(g)'
        /\ AllRight({}) => AllRight({})'
    BY <2>0, MarksTell
  <2>10. handler' = [handler EXCEPT ![t] = g]
    BY <1>2, <2>2, <2>3
  <2>. QED
    BY <2>0, <2>1, <2>5, <2>6, <2>7, <2>8, <2>9, <2>10, GoingOnTells
<1>. QED
  BY <1>1, <1>2 DEF Tell

(* The deployment that follows a form has everybody told, and whom it starts *)
(* again to tell.                                                            *)
LEMMA DeployingTells ==
    ASSUME PlacementInvariant, NEW t \in Worker, DeployAfter(t)
    PROVE  Told'
<1>0. /\ PlacementTypeOK /\ Told /\ handler[t].todo # << >> /\ beside' = beside
      /\ UNCHANGED <<rows, thrownOff, told, unsaid>>
  BY DEF PlacementInvariant, Obeyed, DeployAfter, At, errands
<1>1. Minds(handler[t]) => AllRight({})
  BY MindsBegin DEF DeployAfter, At, Deploying
<1>2. CASE handler' = [handler EXCEPT ![t] = AtEase] /\ UNCHANGED desired
  <2>1. AllRight({}) => AllRight({})'
    BY <1>0, <1>2, MarksTell
  <2>. QED
    BY <1>0, <1>1, <1>2, <2>1, GoingOnTells
<1>3. CASE handler' = [handler EXCEPT ![t] = [AtEase EXCEPT !.todo = Derives]]
  <2>1. PICK g : g = [AtEase EXCEPT !.todo = Derives]
    OBVIOUS
  <2>2. g.todo = <<"derive", "tell">> /\ g.todo # << >>
    BY <2>1, HeadsAndTails DEF AtEase, Derives
  <2>3. AllRight({}) => Deriving(g)'
    BY <1>0, <2>2 DEF AllRight, Right, RightWord, Deriving, NoneTooMany, NoMoreThanPlaced
  <2>. QED
    BY <1>0, <1>1, <1>3, <2>1, <2>2, <2>3, GoingOnTells DEF Minds
<1>. QED
  BY <1>2, <1>3 DEF DeployAfter

(* With the rows gone nobody is told of one that there is.                   *)
LEMMA DeletingTells ==
    ASSUME PlacementInvariant, NEW t \in Worker, DeleteRows(t)
    PROVE  Told'
<1>0. /\ PlacementTypeOK /\ Told /\ handler[t].todo # << >> /\ beside' = beside
      /\ UNCHANGED <<told, unsaid>> /\ handler' = [handler EXCEPT ![t] = AtEase]
      /\ \A s \in Slots : rows'[s] = Nowhere
  BY DEF PlacementInvariant, Obeyed, DeleteRows, At, errands
<1>1. Minds(handler[t]) => \A x \in Holder \ unsaid : told[x].says.slots = {}
  BY MindsBegin DEF DeleteRows, At, Deleting
<1>2. \A x \in Holder : Placed(x)' = {}
  BY <1>0, PlacementAssumption DEF Placed
<1>3. Minds(handler[t]) => AllRight({})'
  BY <1>0, <1>1, <1>2 DEF AllRight, Right, RightWord, NoMoreThanPlaced
<1>. QED
  BY <1>0, <1>3, GoingOnTells

(* The next process has told nobody too much that is not noted as untold.    *)
LEMMA StoppingTells ==
    ASSUME PlacementInvariant, PlacementStop
    PROVE  Told'
<1>1. /\ UNCHANGED <<rows, told>>
      /\ \A t \in Worker : handler'[t] = IF t = Boot THEN [AtEase EXCEPT !.todo = Derives]
                                                      ELSE AtEase
  BY DEF PlacementStop, owner, errands
<1>2. PICK g : g = [AtEase EXCEPT !.todo = Derives]
  OBVIOUS
<1>3. g.todo = <<"derive", "tell">> /\ g # AtEase
  BY <1>2, HeadsAndTails DEF AtEase, Derives
<1>4. ASSUME NEW but PROVE NoneTooMany(but)'
  <2>1. CASE NobodyAtWork /\ ~beside
    <3>1. AllRight({}) /\ unsaid' = unsaid
      BY <2>1 DEF PlacementInvariant, Told, PlacementStop
    <3>. QED
      BY <1>1, <3>1 DEF AllRight, Right, RightWord, NoneTooMany, NoMoreThanPlaced
  <2>2. CASE ~(NobodyAtWork /\ ~beside)
    <3>1. unsaid' = Holder
      BY <2>2 DEF PlacementStop
    <3>. QED
      BY <3>1 DEF NoneTooMany
  <2>. QED
    BY <2>1, <2>2
<1>5. Minds(g)'
  BY <1>3, <1>4 DEF Minds, Deriving
<1>6. Boot \in Worker /\ handler'[Boot] = g
  BY <1>1, <1>2 DEF Worker
<1>. QED
  BY <1>1, <1>2, <1>3, <1>5, <1>6 DEF Told, NobodyAtWork

(* Every step of it.                                                         *)
LEMMA PlacementKeeps ==
    ASSUME PlacementInvariant, [PlacementNext]_placement PROVE PlacementInvariant'
<1>1. Obeyed'
  BY ObeyedKeeps DEF PlacementInvariant
<1>2. ASSUME NEW t \in Worker, Handles(t) PROVE Told'
  BY <1>2, WritingTells, SayingTells, HavingToldTells, DeployingTells, DeletingTells
     DEF Handles
<1>3. ASSUME NEW x \in Holder, Carry(x) \/ Evict(x) \/ ChangeConsent(x) PROVE Told'
  <2>1. /\ UNCHANGED <<rows, desired, told, unsaid, handler, beside>>
        /\ thrownOff \subseteq thrownOff'
    BY <1>3 DEF Carry, Evict, ChangeConsent, owner, errands
  <2>. QED
    BY <2>1, OthersTell DEF PlacementInvariant
<1>4. ASSUME UNCHANGED placement PROVE Told'
  <2>1. /\ UNCHANGED <<rows, desired, told, unsaid, handler, beside>>
        /\ thrownOff \subseteq thrownOff'
    BY <1>4 DEF placement, owner, errands
  <2>. QED
    BY <2>1, OthersTell DEF PlacementInvariant
<1>5. Told'
  BY <1>2, <1>3, <1>4, AskingTells, StoppingTells DEF PlacementNext
<1>. QED
  BY <1>1, <1>5 DEF PlacementInvariant

(* What the handlers mean, one at a time, and what the holders were told and *)
(* did, hold throughout.                                                     *)
THEOREM PlacementHolds == PlacementSpec => []PlacementInvariant
<1>1. PlacementInit => PlacementInvariant
  BY ObeyedAtFirst, ToldAtFirst DEF PlacementInvariant
<1>. QED
  BY <1>1, PlacementKeeps, PTL DEF PlacementSpec

(* ToldWhatIsPlaced: with one handler at a time, however they follow one     *)
(* another, the last word to each node is what the rows say it holds         *)
(* (deploy::drain, SetServicePlacement, the errands of deploy::stop).        *)
THEOREM EverybodyIsTold == PlacementSpec => []ToldWhatIsPlaced
<1>1. ASSUME PlacementInvariant PROVE ToldWhatIsPlaced
  <2>1. SUFFICES ASSUME NobodyAtWork, ~beside, NEW x \in allows \ unsaid
                 PROVE  /\ told[x].says.slots \ thrownOff = Placed(x)
                        /\ told[x].subject /\ Placed(x) # {} =>
                              told[x].says.running = (desired = "running")
    BY DEF ToldWhatIsPlaced
  <2>2. x \in Holder \ unsaid /\ told[x].says.slots \subseteq Slots
    BY <1>1 DEF PlacementInvariant, Obeyed, PlacementTypeOK, Errand, Says
  <2>3. Right(x)
    BY <1>1, <2>1, <2>2 DEF PlacementInvariant, Told, AllRight
  <2>. QED
    BY <2>2, <2>3 DEF Right, RightWord, NoMoreThanPlaced, Placed
<1>. QED
  BY <1>1, PlacementHolds, PTL

(* DeletedIsLetGo: a service that was deleted runs nowhere that a derived    *)
(* word reached last and nobody was passed over (deploy::tear_down).         *)
THEOREM DeletedIsAlwaysLetGo == PlacementSpec => []DeletedIsLetGo
<1>1. ASSUME PlacementInvariant PROVE DeletedIsLetGo
  <2>1. SUFFICES ASSUME NobodyAtWork, ~beside, desired = "deleted", NEW x \in Holder \ unsaid,
                        queue[x] = << >>, told[x].subject, derived[x].is # "refused"
                 PROVE  holds[x] = {}
    BY DEF DeletedIsLetGo
  <2>2. told[x].says.slots \subseteq Slots /\ x \in Holder
    BY <1>1 DEF PlacementInvariant, Obeyed, PlacementTypeOK, Errand, Says
  <2>3. Right(x) /\ \A s \in Slots : rows[s] = Nowhere
    BY <1>1, <2>1, <2>2
       DEF PlacementInvariant, Told, AllRight, Obeyed, RowsAreRight
  <2>4. told[x].says.slots = {}
    BY <2>2, <2>3, PlacementAssumption DEF Right, RightWord, NoMoreThanPlaced
  <2>5. DoesAsTold(x)
    BY <1>1, <2>1, <2>2 DEF PlacementInvariant, Obeyed, ToldIsDone
  <2>. QED
    BY <2>4, <2>5 DEF DoesAsTold
<1>. QED
  BY <1>1, PlacementHolds, PTL

------------------------------------------------------------------------------
(* Consents: the refusals kept are exactly those the operator last stated,   *)
(* whatever a join or the pass at start writes beside them.                  *)

(* The refusals are what was said last: no step writes the one without the  *)
(* other, since what is granted is kept in rows of its own.                 *)
RefusalsAreSaid == withdrawn = said

ConsentsInvariant == ConsentsTypeOK /\ RefusalsAreSaid

(* Before the first join nobody is granted or refused anything.             *)
LEMMA ConsentsStartsRight == ConsentsInit => ConsentsInvariant
BY RefusableAssumption
   DEF ConsentsInit, ConsentsInvariant, ConsentsTypeOK, RefusalsAreSaid, NoneHeld, Pending

(* Granting writes a set of capabilities for one peer, whatever is asked.   *)
LEMMA GrantsKeepsType ==
    ASSUME ConsentsTypeOK, NEW n \in Peer, NEW set \in SUBSET Capability, Grants(n, set)
    PROVE  given' \in [Peer -> SUBSET Capability]
BY DEF ConsentsTypeOK, Grants

(* NoneHeld to do is a state of a form and of the pass.                      *)
LEMMA NothingIsPending == NoneHeld \in Pending
BY DEF NoneHeld, Pending

(* Every step of the forms, of the joins and of the pass keeps the types    *)
(* and leaves the refusals as they were last said.                          *)
LEMMA ConsentsKeeps ==
    ASSUME ConsentsInvariant, [ConsentsNext]_consents
    PROVE  ConsentsInvariant'
<1>. USE NothingIsPending DEF ConsentsInvariant, ConsentsTypeOK, RefusalsAreSaid
<1>1. ASSUME NEW n \in Peer, NEW set \in SUBSET Capability, Join(n, set)
      PROVE  ConsentsInvariant'
  <2>1. given' \in [Peer -> SUBSET Capability]
    BY <1>1, GrantsKeepsType DEF Join
  <2>. QED
    BY <1>1, <2>1 DEF Join
<1>2. ASSUME NEW n \in Peer, NEW set \in SUBSET Capability, SetGranted(n, set)
      PROVE  ConsentsInvariant'
  <2>1. [set |-> set, on |-> TRUE] \in Pending
    BY DEF Pending
  <2>2. Capability \ set \in SUBSET Capability
    OBVIOUS
  <2>. QED
    BY <1>2, <2>1, <2>2 DEF SetGranted
<1>3. ASSUME NEW n \in Peer, GrantTicked(n)
      PROVE  ConsentsInvariant'
  <2>1. answering[n].set \in SUBSET Capability
    BY DEF Pending
  <2>2. given' \in [Peer -> SUBSET Capability]
    BY <1>3, <2>1, GrantsKeepsType DEF GrantTicked
  <2>. QED
    BY <1>3, <2>2 DEF GrantTicked
<1>4. ASSUME NEW n \in Peer, HonourReads(n)
      PROVE  ConsentsInvariant'
  <2>1. GrantedTo(n) \cup Missing(n) \in SUBSET Capability
    BY DEF GrantedTo, Missing
  <2>2. [set |-> GrantedTo(n) \cup Missing(n), on |-> TRUE] \in Pending
    BY <2>1 DEF Pending
  <2>. QED
    BY <1>4, <2>2 DEF HonourReads
<1>5. ASSUME NEW n \in Peer, HonourWrites(n)
      PROVE  ConsentsInvariant'
  <2>1. honouring[n].set \in SUBSET Capability
    BY DEF Pending
  <2>2. given' \in [Peer -> SUBSET Capability]
    BY <1>5, <2>1, GrantsKeepsType DEF HonourWrites
  <2>. QED
    BY <1>5, <2>2 DEF HonourWrites
<1>6. ASSUME NEW c \in Capability, SetProvides(c)
      PROVE  ConsentsInvariant'
  BY <1>6 DEF SetProvides
<1>7. CASE ConsentsStop
  BY <1>7 DEF ConsentsStop
<1>8. CASE UNCHANGED consents
  BY <1>8 DEF consents
<1>. QED
  BY <1>1, <1>2, <1>3, <1>4, <1>5, <1>6, <1>7, <1>8 DEF ConsentsNext

(* The inductive invariant holds throughout.                                *)
THEOREM ConsentsHold == ConsentsSpec => []ConsentsInvariant
<1>1. ConsentsInit => ConsentsInvariant
  BY ConsentsStartsRight
<1>2. ConsentsInvariant /\ [ConsentsNext]_consents => ConsentsInvariant'
  BY ConsentsKeeps
<1>. QED
  BY <1>1, <1>2, PTL DEF ConsentsSpec

(* What an operator took back from a node stays taken back until they say   *)
(* otherwise, for any number of peers and capabilities and through any      *)
(* start, join or pass.                                                     *)
THEOREM WithdrawalsHold == ConsentsSpec => []WithdrawalHolds
<1>1. ConsentsInvariant => WithdrawalHolds
  BY DEF ConsentsInvariant, ConsentsTypeOK, RefusalsAreSaid, WithdrawalHolds, GrantedTo
<1>. QED
  BY <1>1, ConsentsHold, PTL

------------------------------------------------------------------------------
(* Side by side: the parts have no variable in common, and a step is one of  *)
(* a single part.                                                            *)

(* What one part does leaves the four others where they are.                 *)
LEMMA PartsGoOnAlone ==
    ASSUME [MCNext]_parts
    PROVE  /\ [CommandNext]_all /\ [ConsentsNext]_consents /\ [BackupsNext]_backups
           /\ [UpdatesNext]_updates /\ [PlacementNext]_placement
BY DEF MCNext, parts

(* Each of the five does what it would do alone, so whatever is true of it   *)
(* alone is true of it here.                                                 *)
THEOREM SideBySide ==
    MCSpec => /\ CommandSpec /\ ConsentsSpec /\ BackupsSpec
              /\ UpdatesSpec /\ PlacementSpec
<1>1. MCInit => /\ CommandInit /\ ConsentsInit /\ BackupsInit
                /\ UpdatesInit /\ PlacementInit
  BY DEF MCInit
<1>. QED
  BY <1>1, PartsGoOnAlone, PTL
     DEF MCSpec, CommandSpec, ConsentsSpec, BackupsSpec, UpdatesSpec, PlacementSpec

(* Every variable of the five keeps its type, whatever each of them does and *)
(* whatever fails on the way, for any values of the constants.               *)
THEOREM PartsAreTyped == MCSpec => []PartsTypeOK
<1>1. ConsentsInvariant => ConsentsTypeOK
  BY DEF ConsentsInvariant
<1>2. Obeyed => PlacementTypeOK
  BY DEF Obeyed
<1>. QED
  BY <1>1, <1>2, SideBySide, CommandsAreTyped, ConsentsHold, BackupsTypesHold,
     UpdatesTypesHold, HoldersObey, PTL
     DEF PartsTypeOK

==============================================================================
