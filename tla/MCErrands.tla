------------------------------ MODULE MCErrands ------------------------------
(* One node that enrolled another.  Both queue errands: the authority for    *)
(* its member and for itself, the member for its authority.                  *)
EXTENDS Errands, TLC

CONSTANTS hub, member

MCNode == {hub, member}
MCEnrolled == {<<member, hub>>}
MCMaxErrands == hub :> 2 @@ member :> 1

==============================================================================
