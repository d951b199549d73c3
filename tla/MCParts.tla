------------------------------ MODULE MCParts ------------------------------
(* Five parts of a node that share no state in these modules, checked side   *)
(* by side: a behaviour is one of one part, while the others stay as they   *)
(* are.  In "commands" a member is asked to restart and to back up by the   *)
(* node that enrolled it, and may ask that node for the same.               *)
EXTENDS Commands, Consents, Backups, Updates, Placement, TLC

CONSTANTS node, hub, member, edge, dns, orders, v1, v2, v3, i1, i2,
          h1, h2, home, nowhere, f1, boot, r1, r2, b1

VARIABLE part

MCNode == {hub, member}
MCEnrolled == {<<member, hub>>}
MCAsking == {r1, r2, b1}
MCTwoRestarts == {r1, r2}
MCPresses == Permutations(MCTwoRestarts)
MCBothWays == hub :> 2 @@ member :> 1

MCCapability == {edge, dns}
MCDeclinable == {edge}

MCDatabase == {orders}
MCRunner == {node}

MCVersion == {v1, v2, v3}
MCInstaller == {i1, i2}

MCHolder == {h1, h2}

MCInit ==
    /\ part \in {"commands", "consents", "backups", "updates", "placement"}
    /\ CommandInit /\ ConsentsInit /\ BackupsInit /\ UpdatesInit
    /\ PlacementInit
    /\ part # "backups" => keep = Days(CHOOSE k \in KeepDays : TRUE)

MCNext ==
    /\ UNCHANGED part
    /\ \/ part = "commands" /\ CommandNext
       \/ part # "commands" /\ UNCHANGED all
    /\ \/ part = "consents" /\ ConsentsNext
       \/ part # "consents" /\ UNCHANGED consents
    /\ \/ part = "backups" /\ BackupsNext
       \/ part # "backups" /\ UNCHANGED backups
    /\ \/ part = "updates" /\ UpdatesNext
       \/ part # "updates" /\ UNCHANGED updates
    /\ \/ part = "placement" /\ PlacementNext
       \/ part # "placement" /\ UNCHANGED placement

parts == <<all, consents, backups, updates, placement, part>>

MCSpec == MCInit /\ [][MCNext]_parts

(* What every variable of the five parts holds.                             *)
PartsTypeOK ==
    /\ CommandTypeOK /\ ConsentsTypeOK /\ BackupsTypeOK
    /\ UpdatesTypeOK /\ PlacementTypeOK

==============================================================================
