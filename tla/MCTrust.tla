------------------------------ MODULE MCTrust ------------------------------
(* Two things others trust a node for, which share no state and are checked *)
(* side by side: a behaviour is one of one of them, while the other stays   *)
(* as it is.  In "enrolment" it lets others in: two that join, two tokens,  *)
(* two addresses, two requests under way at once.  In "certificates" it     *)
(* answers for a console and for a database.                                *)
EXTENDS Enrolment, Certificates, TLC

CONSTANTS n1, n2, t1, t2, c1, c2, web, db

VARIABLE part

MCJoiner == {n1, n2}
MCToken == {t1, t2}
MCCall == {c1, c2}
MCSymmetry == Permutations(MCJoiner) \cup Permutations(MCToken) \cup Permutations(MCCall)

MCName == {web, db}
MCManaged == {db}

MCInit ==
    part \in {"enrolment", "certificates"} /\ EnrolmentInit /\ CertificatesInit

MCNext ==
    /\ UNCHANGED part
    /\ \/ part = "enrolment" /\ EnrolmentNext /\ UNCHANGED certificates
       \/ part = "certificates" /\ CertificatesNext /\ UNCHANGED enrolment

MCSpec == MCInit /\ [][MCNext]_<<enrolment, certificates, part>>

==============================================================================
