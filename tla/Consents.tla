------------------------------ MODULE Consents ------------------------------
(* What a node has agreed to do for each of the others: the grants a join   *)
(* writes, the operator's own answer, and the pass at every start that      *)
(* records what was offered (network::capability, network::honour_offers).  *)
(* Each statement or transaction is a step; the pass runs beside the forms. *)

CONSTANTS
    Peer,        \* the nodes this one enrolled, or that enrolled it
    Capability,  \* what one node may ask of another
    Declinable    \* those that are provided until somebody says otherwise

ASSUME RefusableAssumption == Declinable \subseteq Capability

VARIABLES
    given,      \* node_grant
    withdrawn,  \* node_grant_withdrawn
    provided,   \* what this node does for anybody at all
    offered,    \* what the enrolment each of them spent had offered
    answering,  \* peer -> what the form still has to grant, between its two writes
    honouring,  \* peer -> what the pass read and is about to grant
    said        \* history: what the operator refused each, the last time they said

consents == <<given, withdrawn, provided, offered, answering, honouring, said>>

NoneHeld == [set |-> {}, on |-> FALSE]
Pending == [set : SUBSET Capability, on : BOOLEAN]

ConsentsInit ==
    /\ given = [n \in Peer |-> {}] /\ withdrawn = [n \in Peer |-> {}]
    /\ provided = Declinable
    /\ offered = [n \in Peer |-> {}]
    /\ answering = [n \in Peer |-> NoneHeld] /\ honouring = [n \in Peer |-> NoneHeld]
    /\ said = [n \in Peer |-> {}]

\* Faulty: what was withdrawn is left to those who grant.
GrantedAtAll(n) == given[n] \cap provided

GrantedTo(n) == (given[n] \ withdrawn[n]) \cap provided

\* The whole set each time, bounded by what is provided now.
Grants(n, set) == given' = [given EXCEPT ![n] = set \cap provided]

\* A token is minted with an offer, and its join records it, as agreed or offered.
Join(n, offer) ==
    /\ offered' = [offered EXCEPT ![n] = offer]
    /\ Grants(n, offer)
    /\ UNCHANGED <<withdrawn, provided, answering, honouring, said>>

\* What is not ticked is refused in rows of its own, which is the first write.
SetGranted(n, agreed) ==
    /\ ~answering[n].on
    /\ withdrawn' = [withdrawn EXCEPT ![n] = Capability \ agreed]
    /\ said' = [said EXCEPT ![n] = Capability \ agreed]
    /\ answering' = [answering EXCEPT ![n] = [set |-> agreed, on |-> TRUE]]
    /\ UNCHANGED <<given, provided, offered, honouring>>

GrantTicked(n) ==
    /\ answering[n].on
    /\ Grants(n, answering[n].set)
    /\ answering' = [answering EXCEPT ![n] = NoneHeld]
    /\ UNCHANGED <<withdrawn, provided, offered, honouring, said>>

SetProvides(c) ==
    /\ provided' = IF c \in provided THEN provided \ {c} ELSE provided \cup {c}
    /\ UNCHANGED <<given, withdrawn, offered, answering, honouring, said>>

Missing(n) == offered[n] \ (GrantedTo(n) \cup withdrawn[n])

HonourReads(n) ==
    /\ ~honouring[n].on /\ Missing(n) # {}
    /\ honouring' = [honouring EXCEPT ![n] = [set |-> GrantedTo(n) \cup Missing(n), on |-> TRUE]]
    /\ UNCHANGED <<given, withdrawn, provided, offered, answering, said>>

HonourWrites(n) ==
    /\ honouring[n].on
    /\ Grants(n, honouring[n].set)
    /\ honouring' = [honouring EXCEPT ![n] = NoneHeld]
    /\ UNCHANGED <<withdrawn, provided, offered, answering, said>>

ConsentsStop ==
    /\ answering' = [n \in Peer |-> NoneHeld] /\ honouring' = [n \in Peer |-> NoneHeld]
    /\ UNCHANGED <<given, withdrawn, provided, offered, said>>

ConsentsNext ==
    \/ \E n \in Peer, set \in SUBSET Capability : Join(n, set) \/ SetGranted(n, set)
    \/ \E n \in Peer : GrantTicked(n) \/ HonourReads(n) \/ HonourWrites(n)
    \/ \E c \in Capability : SetProvides(c)
    \/ ConsentsStop

ConsentsSpec == ConsentsInit /\ [][ConsentsNext]_consents

------------------------------------------------------------------------------

(* What every variable of the consents' part holds. *)
ConsentsTypeOK ==
    /\ given \in [Peer -> SUBSET Capability] /\ withdrawn \in [Peer -> SUBSET Capability]
    /\ provided \subseteq Capability
    /\ offered \in [Peer -> SUBSET Capability]
    /\ answering \in [Peer -> Pending] /\ honouring \in [Peer -> Pending]
    /\ said \in [Peer -> SUBSET Capability]

(* What an operator took back from a node stays taken back until they say   *)
(* otherwise: no start, no new join and no pass that had read the rows      *)
(* before gives it back, though each grants what was offered once.          *)
WithdrawalHolds == \A n \in Peer : GrantedTo(n) \cap said[n] = {}

==============================================================================
