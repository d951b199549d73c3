----------------------------- MODULE NamesHeard -----------------------------
(* What one owner told one node about one name, as a feed of its own: where *)
(* nobody else may ask that node for anything, the errands between the two  *)
(* are read in order.                                                       *)
EXTENDS EdgeNames

CONSTANTS
    teller,     \* the owner
    server,     \* the node it looks to
    name        \* for this name

(* The server collects from the teller, and no other owner deals with it.   *)
OneTeller ==
    /\ teller \in Node /\ server \in Node \ {teller} /\ name \in Hostname
    /\ <<teller, server>> \notin Enrolled
    /\ \A o \in Owner \ {teller} :
         <<o, server>> \notin Enrolled /\ <<server, o>> \notin Enrolled

\* The rows of the teller's table that tell the server about the name.
Rows ==
    {i \in DOMAIN table[teller] :
        table[teller][i].to = server /\ table[teller][i].order.name = name}

Told == [i \in Rows |-> table[teller][i].order.says]
Answered == {i \in Rows : table[teller][i].done}
Serving == route[server][name]
Agrees == server \notin wavered

Hears ==
    INSTANCE NameFeed WITH
        told <- Told, heard <- Answered, serving <- Serving, agrees <- Agrees

(* A node that agrees to what a name's only owner asks reads what it is told *)
(* in order and serves the last of it: moves, withdrawals, refreshes and    *)
(* restarts on either side never make it skip an instruction, or go back.   *)
ReadsInOrder == Hears!FeedSpec

==============================================================================
