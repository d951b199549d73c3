---------------------------- MODULE MCEdgeModes ----------------------------
(* Three nodes and two questions about them: two owners that chose one node *)
(* for the same name; and, with the rival out of it, an owner that collects *)
(* from the node that serves its name, so that its errands are handed up.   *)
EXTENDS EdgeNames, TLC

CONSTANTS hub, rival, member, h1

VARIABLE mode

MCNode == {hub, rival, member}
MCEnrolled == {<<member, hub>>, <<member, rival>>}
MCMaxErrands == hub :> 2 @@ rival :> 1 @@ member :> 2
MCHostname == {h1}
MCFickle == {hub, member}

\* Who owns names, and who changes its mind.
Owns == [rivals |-> {hub, rival}, upwards |-> {member}]
Wavers == [rivals |-> {}, upwards |-> {hub}]

Present == IF mode = "rivals" THEN MCNode ELSE {hub, member}

\* Copies are moved by deployments only.
ByDeployments == UNCHANGED untold /\ (where' # where => \A n \in Node : task'[n]["form"] = Idle)

MCInit == mode \in DOMAIN Owns /\ EdgeInit

MCNext ==
    /\ UNCHANGED mode
    /\ \/ \E n \in Present : OwnerNext(n) \/ EdgeNext(n) \/ WireNext(n)
       \/ \E m \in flight : LateNext(m)
    /\ \A n \in MCNode :
         /\ <<chosen'[n], where'[n]>> # <<chosen[n], where[n]>> => n \in Owns[mode]
         /\ grants'[n] # grants[n] => n \in Wavers[mode]
         /\ chosen'[n] \subseteq MCHostname \X Present
         /\ pass'[n].with \in Present
    /\ ByDeployments
    /\ mode # "upwards" => flight' = {}

MCSpec == MCInit /\ [][MCNext]_<<all, mode>>

==============================================================================
