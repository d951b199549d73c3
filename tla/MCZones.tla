------------------------------ MODULE MCZones ------------------------------
(* Two things nodes find each other by, which share no state and are         *)
(* checked side by side: a behaviour is one of one of them, while the other  *)
(* stays as it is.  In "zones" a node administers a zone and another serves  *)
(* it; in "overlay" a node joined a hub that has another member, and one     *)
(* node may join it in turn.                                                 *)
EXTENDS Zones, Overlay, TLC

CONSTANTS s1, me, a, cname, f1, f2, loop, hub, n1, n2

VARIABLE part

MCRecord == {a, cname}
MCAlone == {cname}
MCForm == {f1, f2}

MCPeer == {hub, n1, n2}
MCAuthority == {hub}
MCMember == {n2}
MCAddressOf == [h \in MCAuthority |-> 1]

\* The clock begins beyond what a serial holds, until somebody sets it.
MCInit ==
    /\ part \in {"zones", "overlay"} /\ ZonesInit /\ OverlayInit
    /\ \A c \in Clock : clock >= c

MCNext ==
    /\ UNCHANGED part
    /\ \/ part = "zones" /\ ZonesNext /\ UNCHANGED overlay
       \/ part = "overlay" /\ OverlayNext /\ UNCHANGED zones

MCSpec ==
    /\ MCInit /\ [][MCNext]_<<zones, overlay, part>>
    /\ WF_zones(part = "zones" /\ WorksOn(Loop))
    /\ WF_zones(part = "zones" /\ Recheck)

==============================================================================
