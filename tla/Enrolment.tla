----------------------------- MODULE Enrolment -----------------------------
(* How a node comes to take errands from an authority: a join token minted  *)
(* there, spent by whoever presents it first, and the writes on both sides  *)
(* that the call in between holds together (network::enrolment, ::join,     *)
(* ::overlay, ::capability, the join endpoint).  One authority, the nodes   *)
(* that join it; a call can be answered late or never, either side can      *)
(* stop between any two writes, and the same token can be tried again.      *)
EXTENDS Naturals

CONSTANTS
    Joiner,      \* the nodes that may join
    Token,       \* every token there can be
    Address,     \* the addresses of the overlay, naturals
    Call,        \* how many calls to the join endpoint are on their way at once
    NoToken, NoAddress, NoJoiner,
    Apart        \* bound: nothing else happens there inside a call or a mint

ASSUME EnrolmentAssumption ==
    /\ Address \subseteq Nat
    /\ NoAddress \notin Address /\ NoToken \notin Token /\ NoJoiner \notin Joiner

VARIABLES
    token,      \* the authority's enrolment rows
    minting,    \* the address a mint has read and not written yet
    row,        \* the authority's node rows: the address it has for each
    calls,      \* calls to the join endpoint, on their way or half way
    join,       \* joiner -> how far its join has come
    trusts,     \* joiner -> the token its authority row is live with
    mine,       \* joiner -> its own address
    strayed     \* history: joiners a stop cut short, or that were forgotten

there == <<token, minting, row, calls>>
enrolment == <<there, join, trusts, mine, strayed>>

Promise == [is : {"unminted", "live", "withdrawn"}, addr : Address \cup {NoAddress}, by : Joiner \cup {NoJoiner}]
Halfway == {"idle", "sent", "looked", "spent", "saved"}
Calling == [at : Halfway, joiner : Joiner \cup {NoJoiner}, token : Token \cup {NoToken},
            known : Address \cup {NoAddress}, late : BOOLEAN]
Joining == [at : {"idle", "waiting", "answered", "trusted"},
            token : Token \cup {NoToken}, addr : Address \cup {NoAddress}]

NoCall == [at |-> "idle", joiner |-> NoJoiner, token |-> NoToken,
           known |-> NoAddress, late |-> FALSE]
AtRest == [at |-> "idle", token |-> NoToken, addr |-> NoAddress]

EnrolmentInit ==
    /\ token = [t \in Token |->
         [is |-> "unminted", addr |-> NoAddress, by |-> NoJoiner]]
    /\ minting = NoAddress
    /\ row = [n \in Joiner |-> NoAddress]
    /\ calls = [c \in Call |-> NoCall]
    /\ join = [n \in Joiner |-> AtRest]
    /\ trusts = [n \in Joiner |-> NoToken] /\ mine = [n \in Joiner |-> NoAddress]
    /\ strayed = {}

------------------------------------------------------------------------------
(* At the authority: tokens *)

InTheDoor(c) == calls[c].at \in {"looked", "spent"}
Quiet == ~Apart \/ (minting = NoAddress /\ \A c \in Call : ~InTheDoor(c))

\* Faulty: what was promised and not what is recorded.
Promised == {token[t].addr : t \in {u \in Token : token[u].is = "live"}}

\* Every address promised or recorded.
Taken == {row[n] : n \in Joiner} \cup {token[t].addr : t \in {u \in Token : token[u].is = "live"}}

Allocate ==
    /\ Quiet /\ minting = NoAddress
    /\ \E a \in Address \ Taken :
         /\ \A b \in Address \ Taken : a <= b
         /\ minting' = a
    /\ UNCHANGED <<token, row, calls, join, trusts, mine, strayed>>

\* The column is unique, so a second token for one address is not written.
Create(t) ==
    /\ minting # NoAddress /\ token[t].is = "unminted"
    /\ minting' = NoAddress
    /\ token' = IF \E u \in Token : token[u].is = "live" /\ token[u].addr = minting
                THEN token
                ELSE [token EXCEPT ![t] =
                        [is |-> "live", addr |-> minting, by |-> NoJoiner]]
    /\ UNCHANGED <<row, calls, join, trusts, mine, strayed>>

Withdraw(t) ==
    /\ Quiet /\ token[t].is = "live"
    /\ token' = [token EXCEPT ![t].is = "withdrawn"]
    /\ UNCHANGED <<minting, row, calls, join, trusts, mine, strayed>>

Forget(n) ==
    /\ Quiet /\ row[n] # NoAddress
    /\ row' = [row EXCEPT ![n] = NoAddress]
    /\ strayed' = strayed \cup {n}
    /\ UNCHANGED <<token, minting, calls, join, trusts, mine>>

------------------------------------------------------------------------------
(* The call *)

\* Anybody who holds a token that was minted may present it, again too.
Announce(n, t, c) ==
    /\ join[n].at = "idle" /\ calls[c] = NoCall /\ token[t].is # "unminted"
    /\ calls' = [calls EXCEPT ![c] =
         [at |-> "sent", joiner |-> n, token |-> t, known |-> NoAddress, late |-> FALSE]]
    /\ join' = [join EXCEPT ![n] = [at |-> "waiting", token |-> t, addr |-> NoAddress]]
    /\ UNCHANGED <<token, minting, row, trusts, mine, strayed>>

\* Whoever still waits for the call is told no.
Refuses(c) ==
    /\ calls' = [calls EXCEPT ![c] = NoCall]
    /\ join' = IF calls[c].late THEN join
               ELSE [join EXCEPT ![calls[c].joiner] = AtRest]

\* Unknown or expired; else what the authority has for that node is read.
DoorLooks(c) ==
    /\ calls[c].at = "sent" /\ Quiet
    /\ \/ Refuses(c)
       \/ /\ token[calls[c].token].is = "live"
          /\ calls' = [calls EXCEPT ![c].at = "looked", ![c].known = row[calls[c].joiner]]
          /\ UNCHANGED join
    /\ UNCHANGED <<token, minting, row, trusts, mine, strayed>>

\* Faulty: whoever presents a token it finds there has it.
DoorSpendsAgain(c) ==
    LET t == calls[c].token IN
    /\ calls[c].at = "looked"
    /\ token' = [token EXCEPT ![t].by = calls[c].joiner]
    /\ calls' = [calls EXCEPT ![c].at = "spent"]
    /\ UNCHANGED <<join, minting, row, trusts, mine, strayed>>

\* Taken by whoever is first, and again by them only.
DoorSpends(c) ==
    LET t == calls[c].token
        n == calls[c].joiner
    IN
    /\ calls[c].at = "looked"
    /\ IF token[t].is = "live" /\ token[t].by \in {NoJoiner, n}
       THEN /\ token' = [token EXCEPT ![t].by = n]
            /\ calls' = [calls EXCEPT ![c].at = "spent"]
            /\ UNCHANGED join
       ELSE Refuses(c) /\ UNCHANGED token
    /\ UNCHANGED <<minting, row, trusts, mine, strayed>>

\* Faulty: the token's address, whatever the node had.
AddressOfToken(c) == token[calls[c].token].addr

\* A node that is known keeps the address it has.
AddressFor(c) ==
    IF calls[c].known # NoAddress THEN calls[c].known ELSE token[calls[c].token].addr

\* One row for an address: a second is not written, and the call fails.
DoorSaves(c) ==
    LET n == calls[c].joiner IN
    /\ calls[c].at = "spent"
    /\ IF \E m \in Joiner \ {n} : row[m] = AddressFor(c)
       THEN Refuses(c) /\ UNCHANGED row
       ELSE /\ row' = [row EXCEPT ![n] = AddressFor(c)]
            /\ calls' = [calls EXCEPT ![c].at = "saved", ![c].known = AddressFor(c)]
            /\ UNCHANGED join
    /\ UNCHANGED <<token, minting, trusts, mine, strayed>>

\* What was offered, recorded where it is asked; and the answer.
DoorAnswers(c) ==
    LET n == calls[c].joiner IN
    /\ calls[c].at = "saved"
    /\ calls' = [calls EXCEPT ![c] = NoCall]
    /\ join' = IF calls[c].late THEN join
               ELSE [join EXCEPT ![n].at = "answered", ![n].addr = calls[c].known]
    /\ UNCHANGED <<token, minting, row, trusts, mine, strayed>>

GivesUpOn(n) == [c \in Call |->
    IF calls[c].joiner = n THEN [calls[c] EXCEPT !.late = TRUE] ELSE calls[c]]

\* Nobody can tell a call that never arrived from an answer that was lost.
AnnounceTimesOut(n) ==
    /\ join[n].at = "waiting"
    /\ join' = [join EXCEPT ![n] = AtRest]
    /\ calls' = GivesUpOn(n)
    /\ UNCHANGED <<token, minting, row, trusts, mine, strayed>>

CallLost(c) ==
    /\ calls[c].at = "sent"
    /\ calls' = [calls EXCEPT ![c] = NoCall]
    /\ UNCHANGED <<token, minting, row, join, trusts, mine, strayed>>

------------------------------------------------------------------------------
(* On the node, after the answer.  Before the grant it writes the          *)
(* authority's row and what it agreed to, which nothing here asks about.    *)

Trust(n) ==
    /\ join[n].at = "answered"
    /\ join' = [join EXCEPT ![n].at = "trusted"]
    /\ trusts' = [trusts EXCEPT ![n] = join[n].token]
    /\ UNCHANGED <<there, mine, strayed>>

SaveMyself(n) ==
    /\ join[n].at = "trusted"
    /\ mine' = [mine EXCEPT ![n] = join[n].addr]
    /\ join' = [join EXCEPT ![n] = AtRest]
    /\ UNCHANGED <<there, trusts, strayed>>

RevokeAuthority(n) ==
    /\ trusts[n] # NoToken
    /\ trusts' = [trusts EXCEPT ![n] = NoToken]
    /\ UNCHANGED <<there, join, mine, strayed>>

NodeStops(n) ==
    /\ join[n].at # "idle"
    /\ join' = [join EXCEPT ![n] = AtRest]
    /\ calls' = GivesUpOn(n)
    /\ strayed' = IF join[n].at \in {"answered", "trusted"}
                  THEN strayed \cup {n} ELSE strayed
    /\ UNCHANGED <<token, minting, row, trusts, mine>>

\* Every call in the door is lost, and an address read and not promised.
AuthorityStops ==
    /\ calls' = [c \in Call |-> NoCall]
    /\ minting' = NoAddress
    /\ UNCHANGED <<token, row, join, trusts, mine, strayed>>

------------------------------------------------------------------------------

AtTheDoor(c) == DoorLooks(c) \/ DoorSpends(c) \/ DoorSaves(c) \/ DoorAnswers(c) \/ CallLost(c)

JoiningStep(n) ==
    \/ \E t \in Token, c \in Call : Announce(n, t, c)
    \/ AnnounceTimesOut(n) \/ Trust(n) \/ SaveMyself(n)
    \/ RevokeAuthority(n) \/ NodeStops(n)

Operates ==
    \/ Allocate \/ AuthorityStops
    \/ \E t \in Token : Create(t) \/ Withdraw(t)
    \/ \E n \in Joiner : Forget(n)

EnrolmentNext ==
    (\E c \in Call : AtTheDoor(c)) \/ (\E n \in Joiner : JoiningStep(n)) \/ Operates

EnrolmentSpec == EnrolmentInit /\ [][EnrolmentNext]_enrolment

------------------------------------------------------------------------------

(* What every variable of the enrolment's part holds. *)
EnrolmentTypeOK ==
    /\ token \in [Token -> Promise]
    /\ minting \in Address \cup {NoAddress}
    /\ row \in [Joiner -> Address \cup {NoAddress}]
    /\ calls \in [Call -> Calling]
    /\ join \in [Joiner -> Joining]
    /\ trusts \in [Joiner -> Token \cup {NoToken}]
    /\ mine \in [Joiner -> Address \cup {NoAddress}]
    /\ strayed \in SUBSET Joiner

(* Nobody takes errands from an authority that did not enrol them with that *)
(* very token, and so no token ever stands for two nodes: through answers   *)
(* that come late or not at all, stops between the writes of either side,   *)
(* and a token tried again, by its node or by another.                      *)
TrustIsMutual == \A n \in Joiner : trusts[n] # NoToken => token[trusts[n]].by = n

(* The address in a token somebody is still carrying is nobody's yet        *)
(* ("allocating it again would put two nodes on one address"), and no two   *)
(* tokens that still stand carry the same one.                              *)
PromisedAddressIsFree ==
    \A t \in Token : token[t].is = "live" =>
        /\ token[t].by = NoJoiner => \A n \in Joiner : row[n] # token[t].addr
        /\ \A u \in Token : token[u].is = "live" /\ token[u].addr = token[t].addr => u = t

(* Once its join is over a node has the address its authority has for it,   *)
(* however often it joined and whatever answers it missed: a node that is   *)
(* known there keeps its address, so no late call moves it.                 *)
AddressAgreed ==
    \A n \in Joiner :
        ( /\ trusts[n] # NoToken /\ join[n].at = "idle" /\ n \notin strayed )
            => mine[n] = row[n]

==============================================================================
