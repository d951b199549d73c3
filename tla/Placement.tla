----------------------------- MODULE Placement -----------------------------
(* One service at the node that owns it, the rows that say where its copies  *)
(* run, and what each of the other nodes was told about them: by the         *)
(* placement form, which says it outright, and by a pass that derives it     *)
(* from the rows and is silent where nothing changed                         *)
(* (deploy::{deploy, stop, tear_down, drain, holders},                       *)
(* SetServicePlacement, network::errand::would_change, the report endpoint,  *)
(* collect::host_service, EvictService).                                     *)
EXTENDS Naturals, Sequences, FiniteSets

CONSTANTS
    Holder,     \* the other nodes
    Slots,      \* the numbers a copy can have
    Home, Nowhere,
    Handler,    \* the handlers that may be at work at once
    Boot,       \* the pass of the process that started last
    MaxPresses  \* bound: how often somebody asks for something

ASSUME PlacementAssumption ==
    /\ Home \notin Holder /\ Nowhere \notin Holder /\ Home # Nowhere
    /\ Boot \notin Handler /\ Slots \subseteq Nat /\ MaxPresses \in Nat

VARIABLES
    rows,       \* slot -> where its copy is placed
    thrownOff,  \* the slots whose row carries the mark that it was evicted
    desired,    \* what the service is meant to be
    allows,     \* the holders this node believes it may ask
    queue,      \* holder -> the errands it has not carried out, oldest first
    told,       \* holder -> the last errand queued for it
    derived,    \* holder -> the last one queued with the subject, and how it ended
    handler,    \* what each handler has still to do
    agrees,     \* the holders that let this node ask
    holds,      \* holder -> the slots it runs
    evicts,     \* holder -> the slots it threw off, and keeps rows of
    up,         \* holder -> whether it means to run them
    presses,
    beside,     \* history: a handler began beside another, since the last start
    unsaid      \* history: holders left untold, by a stop, for want of consent, by
                \* the mark on their copy, or as the form's word hides the derived

owner == <<rows, thrownOff, desired, allows>>
errands == <<queue, told, derived>>
holder == <<agrees, holds, evicts, up>>
placement == <<owner, errands, handler, holder, presses, beside, unsaid>>

Place == Holder \cup {Home}
Worker == Handler \cup {Boot}
Says == [slots : SUBSET Slots, running : BOOLEAN]
Errand == [says : Says, subject : BOOLEAN]
Change == [slot : Slots, to : Place \cup {Nowhere}, new : BOOLEAN]
Doing == {"write", "say", "derive", "let go", "tell", "deploy", "delete"}
Handling == [todo : Seq(Doing), change : SUBSET Change, also : SUBSET Holder,
             tell : [Holder -> Says], whom : SUBSET Holder, subject : BOOLEAN]

NoCopies == [slots |-> {}, running |-> FALSE]
NoErrand == [says |-> NoCopies, subject |-> TRUE]
AtEase == [todo |-> << >>, change |-> {}, also |-> {},
           tell |-> [x \in Holder |-> NoCopies], whom |-> {}, subject |-> FALSE]

Derives == <<"derive", "tell">>

PlacementInit ==
    /\ rows = [s \in Slots |-> IF \A r \in Slots : s <= r THEN Home ELSE Nowhere]
    /\ thrownOff = {} /\ desired = "running" /\ allows = Holder
    /\ queue = [x \in Holder |-> << >>] /\ told = [x \in Holder |-> NoErrand]
    /\ derived = [x \in Holder |-> [says |-> NoCopies, is |-> "none"]]
    /\ handler = [t \in Worker |-> AtEase]
    /\ agrees = Holder
    /\ holds = [x \in Holder |-> {}] /\ evicts = [x \in Holder |-> {}]
    /\ up = [x \in Holder |-> FALSE]
    /\ presses = 0 /\ beside = FALSE /\ unsaid = {}

At(t, what) == handler[t].todo # << >> /\ Head(handler[t].todo) = what
Done(t) == [handler[t] EXCEPT !.todo = Tail(@)]
NobodyAtWork == \A t \in Worker : handler[t] = AtEase

\* Every copy placed there that was not thrown off.
Placed(x) == {s \in Slots : rows[s] = x /\ s \notin thrownOff}
Holders == {x \in Holder : Placed(x) # {}}

\* The intent is the row's, whoever asks.
Derived(x) == [slots |-> Placed(x), running |-> desired = "running"]

\* Faulty: the last one with the subject, however it ended.
WouldChangeOnce(x, says) == derived[x].is = "none" \/ derived[x].says # says

\* A refused instruction was not carried out: saying it again is no repetition.
WouldChange(x, says) == derived[x].is # "sent" \/ derived[x].says # says

------------------------------------------------------------------------------
(* Somebody asks *)

TakesUp(t, h) ==
    /\ handler[t] = AtEase
    /\ handler' = [handler EXCEPT ![t] = h]
    /\ beside' = (beside \/ \E u \in Worker \ {t} : handler[u] # AtEase)

Asks(t, h) ==
    /\ desired # "deleted" /\ presses < MaxPresses
    /\ TakesUp(t, h)
    /\ presses' = presses + 1

\* Copies are moved to the nodes chosen, the last taken away, or one put in
\* the lowest free slot; and whoever had or has one is told outright.
Forms ==
    LET taken == {s \in Slots : rows[s] # Nowhere}
        free == Slots \ taken
        going == IF taken \cap thrownOff # {} THEN taken \cap thrownOff ELSE taken
    IN  {{}}
        \cup {{[slot |-> s, to |-> p, new |-> FALSE]} : s \in taken, p \in Place}
        \cup {{[slot |-> s, to |-> Nowhere, new |-> FALSE]} :
                s \in {r \in going : Cardinality(taken) > 1 /\ \A q \in going : q <= r}}
        \cup {{[slot |-> s, to |-> p, new |-> TRUE]} :
                s \in {r \in free : \A q \in free : r <= q}, p \in Place}

Touched(form) == ({rows[s] : s \in Slots} \cup {c.to : c \in form}) \cap Holder

SetPlacement(t) ==
    \E form \in Forms :
        /\ \A c \in form : c.to # rows[c.slot]
        /\ Asks(t, [AtEase EXCEPT !.todo = <<"write", "say", "tell", "deploy">>,
              !.change = form, !.also = Touched(form)])
        /\ UNCHANGED <<owner, errands, holder, unsaid>>

Deploy(t) ==
    /\ Asks(t, [AtEase EXCEPT !.todo = Derives])
    /\ desired' = "running"
    /\ UNCHANGED <<rows, thrownOff, allows, errands, holder, unsaid>>

StopService(t) ==
    /\ Asks(t, [AtEase EXCEPT !.todo = Derives])
    /\ desired' = "stopped"
    /\ UNCHANGED <<rows, thrownOff, allows, errands, holder, unsaid>>

Delete(t) ==
    /\ Asks(t, [AtEase EXCEPT !.todo = <<"let go", "tell", "delete">>])
    /\ UNCHANGED <<owner, errands, holder, unsaid>>

\* Every copy there that has somewhere else to be, never where one of this
\* service was thrown off; the node is told even if it has none left.
Drain(t, x) ==
    LET elsewhere == {Home} \cup {y \in allows \ {x} : \A s \in thrownOff : rows[s] # y}
    IN  \E S \in (SUBSET Placed(x)) \ {{}} : \E to \in [S -> elsewhere] :
            /\ Asks(t, [AtEase EXCEPT !.todo = <<"write", "derive", "tell">>, !.also = {x},
                   !.change = {[slot |-> s, to |-> to[s], new |-> FALSE] : s \in S}])
            /\ UNCHANGED <<owner, errands, holder, unsaid>>

\* What it says it runs, and no row claims there.
Unclaimed(x) == desired # "deleted" /\ holds[x] \ Placed(x) # {}

\* What it says of itself is written down; and what it runs beside that
\* brings the placement to it again.
Report(t, x) ==
    LET thrown == {s \in evicts[x] : rows[s] = x}
    IN  /\ handler[t] = AtEase
        /\ thrownOff' = thrownOff \cup thrown
        /\ allows' = IF x \in agrees THEN allows \cup {x} ELSE allows \ {x}
        /\ IF Unclaimed(x)
           THEN TakesUp(t, [AtEase EXCEPT !.todo = Derives, !.also = {x}])
           ELSE UNCHANGED <<handler, beside>>
        /\ UNCHANGED <<rows, desired, errands, holder, presses, unsaid>>

------------------------------------------------------------------------------
(* What a handler does, a step at a time *)

Refused(c) == c.new /\ (rows[c.slot] # Nowhere \/ desired = "deleted")

\* One row at a time. A slot taken meanwhile is refused, and the form with it;
\* a row that is gone stays gone.
Write(t) ==
    /\ At(t, "write")
    /\ \/ /\ handler[t].change = {}
          /\ handler' = [handler EXCEPT ![t] = Done(t)]
          /\ UNCHANGED <<rows, thrownOff>>
       \/ \E c \in handler[t].change :
          /\ Refused(c)
          /\ handler' = [handler EXCEPT ![t] = AtEase]
          /\ UNCHANGED <<rows, thrownOff>>
       \/ \E c \in handler[t].change :
          /\ ~Refused(c)
          /\ handler' = [handler EXCEPT ![t].change = @ \ {c}]
          /\ rows' = IF c.new \/ rows[c.slot] # Nowhere
                     THEN [rows EXCEPT ![c.slot] = c.to] ELSE rows
          /\ thrownOff' = thrownOff \ {c.slot}
    /\ UNCHANGED <<desired, allows, errands, holder, presses, beside, unsaid>>

Tells(t, tell, whom, subject) ==
    handler' = [handler EXCEPT ![t] =
        [Done(t) EXCEPT !.also = {}, !.tell = tell, !.whom = whom, !.subject = subject]]

\* The form: run these, whatever the service is meant to be, allowed or not.
Say(t) ==
    /\ At(t, "say")
    /\ LET whom == handler[t].also
       IN Tells(t, [x \in Holder |-> IF x \in whom THEN [slots |-> Placed(x), running |-> TRUE]
                                                   ELSE NoCopies], whom, FALSE)
    /\ UNCHANGED <<owner, errands, holder, presses, beside, unsaid>>

\* Faulty: those the rows name, and nobody who is in no row any more.
DeriveFromRows(t) ==
    /\ At(t, "derive")
    /\ LET whom == Holders
       IN /\ Tells(t, [x \in Holder |-> IF x \in whom \cap allows THEN Derived(x) ELSE NoCopies],
                   whom \cap allows, TRUE)
          /\ unsaid' = unsaid \cup (whom \ allows)
    /\ UNCHANGED <<owner, errands, holder, presses, beside>>

\* Everybody with a copy, and whoever was named beside them, if it agrees.
Derive(t) ==
    /\ At(t, "derive")
    /\ LET whom == Holders \cup handler[t].also
       IN /\ Tells(t, [x \in Holder |-> IF x \in whom \cap allows THEN Derived(x) ELSE NoCopies],
                   whom \cap allows, TRUE)
          /\ unsaid' = unsaid \cup (whom \ allows)
    /\ UNCHANGED <<owner, errands, holder, presses, beside>>

\* Faulty: what a stop says.
LetGoAsStop(t) ==
    /\ At(t, "let go")
    /\ Tells(t, [x \in Holder |-> IF x \in Holders \cap allows
                                 THEN [Derived(x) EXCEPT !.running = FALSE] ELSE NoCopies],
             Holders \cap allows, TRUE)
    /\ unsaid' = unsaid \cup (Holders \ allows) \cup {rows[s] : s \in thrownOff}
    /\ UNCHANGED <<owner, errands, holder, presses, beside>>

\* NoCopies, and nothing to run while it is taken away. Who threw its copy
\* off is not told.
LetGo(t) ==
    /\ At(t, "let go")
    /\ Tells(t, [x \in Holder |-> NoCopies], Holders \cap allows, TRUE)
    /\ unsaid' = unsaid \cup (Holders \ allows) \cup {rows[s] : s \in thrownOff}
    /\ UNCHANGED <<owner, errands, holder, presses, beside>>

\* Without the subject it always goes out; with it, when it says something new.
TellOne(t, x) ==
    LET h == handler[t]
        says == h.tell[x]
        errand == [says |-> says, subject |-> h.subject]
        goes == ~h.subject \/ WouldChange(x, says)
        rest == [h EXCEPT !.whom = @ \ {x}, !.tell[x] = NoCopies]
    IN  /\ handler' = [handler EXCEPT ![t] = rest]
        /\ unsaid' = IF goes \/ told[x].says = says THEN unsaid \ {x} ELSE unsaid \cup {x}
        /\ IF goes
           THEN /\ queue' = [queue EXCEPT ![x] = Append(@, errand)]
                /\ told' = [told EXCEPT ![x] = errand]
                /\ derived' = IF h.subject
                              THEN [derived EXCEPT ![x] = [says |-> says, is |-> "sent"]]
                              ELSE derived
           ELSE UNCHANGED errands

Tell(t) ==
    /\ At(t, "tell")
    /\ \/ /\ handler[t].whom = {}
          /\ handler' = [handler EXCEPT ![t] =
                IF Done(t).todo = << >> THEN AtEase ELSE [AtEase EXCEPT !.todo = Done(t).todo]]
          /\ UNCHANGED <<errands, unsaid>>
       \/ \E x \in handler[t].whom : TellOne(t, x)
    /\ UNCHANGED <<owner, holder, presses, beside>>

\* A deployment is what follows the form, if a copy is here.
DeployAfter(t) ==
    /\ At(t, "deploy")
    /\ IF desired # "deleted" /\ Placed(Home) # {}
       THEN /\ desired' = "running"
            /\ handler' = [handler EXCEPT ![t] = [AtEase EXCEPT !.todo = Derives]]
       ELSE handler' = [handler EXCEPT ![t] = AtEase] /\ UNCHANGED desired
    /\ UNCHANGED <<rows, thrownOff, allows, errands, holder, presses, beside, unsaid>>

DeleteRows(t) ==
    /\ At(t, "delete")
    /\ rows' = [s \in Slots |-> Nowhere] /\ thrownOff' = {} /\ desired' = "deleted"
    /\ handler' = [handler EXCEPT ![t] = AtEase]
    /\ UNCHANGED <<allows, errands, holder, presses, beside, unsaid>>

\* The next process tells whoever has a copy. Who lost its last one to what
\* was interrupted is in no row.
PlacementStop ==
    /\ presses < MaxPresses /\ presses' = presses + 1
    /\ unsaid' = IF NobodyAtWork /\ ~beside THEN unsaid ELSE Holder
    /\ handler' = [t \in Worker |-> IF t = Boot THEN [AtEase EXCEPT !.todo = Derives] ELSE AtEase]
    /\ beside' = FALSE
    /\ UNCHANGED <<owner, errands, holder>>

------------------------------------------------------------------------------
(* At the holders *)

\* The next errand: refused without consent, or without room for what it
\* says to run; else these copies are the ones it has, a thrown one excepted.
Carry(x) ==
    LET e == Head(queue[x])
        S == e.says.slots
        last == \A i \in 2 .. Len(queue[x]) : ~queue[x][i].subject
    IN
    /\ queue[x] # << >>
    /\ queue' = [queue EXCEPT ![x] = Tail(@)]
    /\ \/ /\ x \notin agrees \/ (e.says.running /\ S # {})
          /\ derived' = IF e.subject /\ last THEN [derived EXCEPT ![x].is = "refused"] ELSE derived
          /\ UNCHANGED <<holds, evicts, up>>
       \/ /\ x \in agrees
          /\ evicts' = [evicts EXCEPT ![x] = @ \cap S]
          /\ holds' = [holds EXCEPT ![x] = S \ evicts[x]]
          /\ up' = [up EXCEPT ![x] = S # {} /\ e.says.running]
          /\ UNCHANGED derived
    /\ UNCHANGED <<told, owner, handler, agrees, presses, beside, unsaid>>

\* Its own decision, from its console or at its start without consent.
Evict(x) ==
    /\ holds[x] # {}
    /\ evicts' = [evicts EXCEPT ![x] = @ \cup holds[x]]
    /\ holds' = [holds EXCEPT ![x] = {}]
    /\ UNCHANGED <<owner, errands, handler, agrees, up, presses, beside, unsaid>>

ChangeConsent(x) ==
    /\ presses < MaxPresses /\ presses' = presses + 1
    /\ agrees' = IF x \in agrees THEN agrees \ {x} ELSE agrees \cup {x}
    /\ UNCHANGED <<owner, errands, handler, holds, evicts, up, beside, unsaid>>

------------------------------------------------------------------------------

Handles(t) ==
    Write(t) \/ Say(t) \/ Derive(t) \/ LetGo(t) \/ Tell(t) \/ DeployAfter(t) \/ DeleteRows(t)

Pressed(t) ==
    \/ SetPlacement(t) \/ Deploy(t) \/ StopService(t) \/ Delete(t)
    \/ \E x \in Holder : Drain(t, x) \/ Report(t, x)

PlacementNext ==
    \/ \E t \in Worker : Handles(t)
    \/ \E t \in Handler : Pressed(t)
    \/ \E x \in Holder : Carry(x) \/ Evict(x) \/ ChangeConsent(x)
    \/ PlacementStop

PlacementSpec == PlacementInit /\ [][PlacementNext]_placement

------------------------------------------------------------------------------

(* What every variable of the placement's part holds. *)
PlacementTypeOK ==
    /\ rows \in [Slots -> Place \cup {Nowhere}] /\ thrownOff \subseteq Slots
    /\ desired \in {"running", "stopped", "deleted"}
    /\ allows \subseteq Holder /\ agrees \subseteq Holder
    /\ queue \in [Holder -> Seq(Errand)] /\ told \in [Holder -> Errand]
    /\ derived \in [Holder -> [says : Says, is : {"none", "sent", "refused"}]]
    /\ handler \in [Worker -> Handling]
    /\ holds \in [Holder -> SUBSET Slots] /\ evicts \in [Holder -> SUBSET Slots]
    /\ up \in [Holder -> BOOLEAN]
    /\ presses \in 0 .. MaxPresses /\ beside \in BOOLEAN /\ unsaid \subseteq Holder

(* Once nobody is at work every node that may be asked was last told what      *)
(* the rows say it holds, whichever handler moved a copy, stopped the        *)
(* service or drained the node, a stop in between and a copy it threw off    *)
(* itself excepted.                                                          *)
ToldWhatIsPlaced ==
    NobodyAtWork /\ ~beside /\ desired # "deleted" =>
        \A x \in allows \ unsaid :
            /\ told[x].says.slots \ thrownOff = Placed(x)
            /\ told[x].subject /\ Placed(x) # {} => told[x].says.running = (desired = "running")

(* A pass that stays silent is right to: who last heard a derived word, and  *)
(* would hear the same one now, does just that, refusals and changes of mind *)
(* in between included, but for what it threw off.                           *)
SilenceIsRight ==
    \A x \in Holder :
        ( /\ queue[x] = << >> /\ told[x].subject /\ desired # "deleted"
          /\ ~WouldChange(x, Derived(x)) ) =>
        /\ holds[x] \subseteq Placed(x) /\ Placed(x) \ holds[x] \subseteq evicts[x]
        /\ Placed(x) # {} => up[x] = (desired = "running")

(* Nobody whose last word was a derived one, and who was not passed over,    *)
(* goes on with a service that was deleted: "a copy this never reached would *)
(* run on somewhere else with nobody left to contradict it".                 *)
DeletedIsLetGo ==
    NobodyAtWork /\ ~beside /\ desired = "deleted" =>
        \A x \in Holder \ unsaid :
            queue[x] = << >> /\ told[x].subject /\ derived[x].is # "refused" => holds[x] = {}

(* A service that is stopped is not left running anywhere: "A stop has to    *)
(* travel".                                                                  *)
StopTravels ==
    NobodyAtWork /\ ~beside /\ desired = "stopped" =>
        \A x \in allows : ~(told[x].says.running /\ told[x].says.slots # {})

==============================================================================
