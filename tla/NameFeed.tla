------------------------------ MODULE NameFeed ------------------------------
(* What an owner may think of a node that answers for one of its names: it  *)
(* reads what it is told from first to last, takes nothing up before the    *)
(* answer to what came before, and serves what it read last -- as long as   *)
(* it agrees to.                                                            *)
EXTENDS Naturals

CONSTANTS Place, Nowhere

VARIABLES
    told,       \* number -> what the owner said about the name, in that order
    heard,      \* the numbers that were answered
    serving,    \* what the node serves: Nowhere is nothing
    agrees      \* whether the node never changed its mind about what it serves

feed == <<told, heard, serving, agrees>>

FeedInit ==
    /\ told = [i \in {} |-> Nowhere] /\ heard = {}
    /\ serving = Nowhere /\ agrees = TRUE

\* The first thing said that was not answered.
IsNext(i) ==
    /\ i \in DOMAIN told \ heard
    /\ \A j \in DOMAIN told \ heard : i <= j

Tell(i, says) ==
    /\ \A j \in DOMAIN told : j < i
    /\ told' = [j \in DOMAIN told \cup {i} |-> IF j = i THEN says ELSE told[j]]
    /\ UNCHANGED <<heard, serving, agrees>>

(* Also what it does again when its answer did not get back. *)
Obey(i) ==
    /\ IsNext(i)
    /\ serving' = told[i]
    /\ UNCHANGED <<told, heard, agrees>>

Answer(i) ==
    /\ IsNext(i)
    /\ serving = told[i]
    /\ heard' = heard \cup {i}
    /\ UNCHANGED <<told, serving, agrees>>

(* Nothing is promised of a node that changed its mind. *)
Waver == agrees' = FALSE

FeedNext ==
    \/ \E i \in DOMAIN told', says \in Place \cup {Nowhere} : Tell(i, says)
    \/ \E i \in DOMAIN told : Obey(i) \/ Answer(i)
    \/ Waver

FeedSpec == FeedInit /\ [][FeedNext]_feed

(* Once everything said was answered, the node serves what was said last.    *)
ServesTheLast ==
    agrees /\ heard = DOMAIN told =>
        IF told = [i \in {} |-> Nowhere] THEN serving = Nowhere
        ELSE \E i \in DOMAIN told :
               serving = told[i] /\ \A j \in DOMAIN told : j <= i

==============================================================================
