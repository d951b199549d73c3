----------------------------- MODULE MCEdgeNames -----------------------------
(* One owner, and one node that collects from it and serves its name; and   *)
(* the same two where the node changes what it agreed to.                   *)
EXTENDS NamesHeard, TLC

MCHostname == {name}
MCNode == {teller, server}
MCEnrolled == {<<server, teller>>}
MCMaxErrands == teller :> 3 @@ server :> 0
MCFickle == {server}

ASSUME MCOneTeller == OneTeller

\* Whether what the node agreed to changes in this behaviour.
VARIABLE wavers

MCInit == EdgeInit /\ wavers \in {FALSE, Fickle # {}}

OnePlace == CHOOSE p \in Place : TRUE

\* Copies are moved by deployments only.
ByDeployments == UNCHANGED untold /\ (where' # where => \A n \in Node : task'[n]["form"] = Idle)

(* Where it does, fewer instructions, places, failures and ways to move.    *)
MCNext ==
    /\ EdgeSpecNext /\ UNCHANGED wavers
    /\ IF wavers
       THEN /\ Len(table'[teller]) <= 2 /\ faults' <= 1
            /\ where'[teller][name] \in {Nowhere, OnePlace}
            /\ ByDeployments
       ELSE UNCHANGED grants

(* Start-up is a task of its own that waits for nobody.                     *)
MCSpec ==
    /\ MCInit /\ [][MCNext]_<<all, wavers>>
    /\ \A m, a \in Node, h \in Hostname : WF_all(ReleaseUngranted(m, <<h, a>>))

==============================================================================
