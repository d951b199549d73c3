------------------------------- MODULE Overlay -------------------------------
(* The overlay as one node sees it: the rows it keeps of other nodes, which *)
(* a census of its authority, an errand, a report, a join and a person all  *)
(* write, and the WireGuard interface that tunnel::ensure brings to what    *)
(* the rows say.  The interface is the kernel's: it outlives the process    *)
(* with its sessions, and loses everything when the machine starts again.   *)
(* A node's key is its own for good, so a peer is known by its node; names, *)
(* anchors and DNS names are left out.                                      *)
EXTENDS Naturals

CONSTANTS
    Peer,        \* the other nodes this one may come to know
    Authority,   \* those of them it takes instructions from
    Member,      \* those that joined this one, or may
    Addr,     \* addresses of the overlay
    AddressOf,   \* the one each authority has
    NoRow,       \* no row of a node, nobody in the census, no peer in the kernel
    FaultKinds,  \* which of the things that fail do
    MaxNews,     \* bound: how often others change what they are
    MaxFaults    \* bound: how often something fails or stops

ASSUME OverlayAssumption ==
    /\ Authority \subseteq Peer /\ Member \subseteq Peer \ Authority
    /\ AddressOf \in [Authority -> Addr]
    /\ \A g, h \in Authority : AddressOf[g] = AddressOf[h] => g = h
    /\ FaultKinds \subseteq {"kernel", "unread", "names", "database", "stop", "reboot"}
    /\ MaxNews \in Nat /\ MaxFaults \in Nat

VARIABLES
    census,   \* what an authority answers about each node of its network
    rows,     \* table node
    kernel,   \* the interface: whether it is there, and its peers
    actor,    \* the start, the collection loop and the handler of a join
    owed,     \* history: peers nobody has been asked to bring up to their row
    news, faults

overlay == <<census, rows, kernel, actor, owed, news, faults>>

\* What is known of a node: dialled is an endpoint the world can reach, lan
\* an address on a network this machine is on.
Known == [address : Addr, dialled : BOOLEAN, lan : BOOLEAN]

\* A peer as the kernel holds it, and as this node asks for it.
Held == [address : Addr, keepalive : BOOLEAN, session : BOOLEAN,
         endpoint : {"none", "public", "lan", "learned"}]
Wanted == [address : Addr, endpoint : {"none", "public", "lan"}]

ASSUME NoRowAssumption == NoRow \notin Known \cup Held \cup Wanted

Actor == {"start", "loop", "join"}
Nothing == [p \in Peer |-> NoRow]
AtEase == [at |-> "rest", roster |-> Nothing, changed |-> {}, wanted |-> Nothing]
Ensures == [AtEase EXCEPT !.at = "read"]
Looking == [at : {"rest", "apply", "read", "write"},
            roster : [Peer -> Known \cup {NoRow}], changed : SUBSET Peer,
            wanted : [Peer -> Wanted \cup {NoRow}]]
InTable(t) == {p \in Peer : t[p] # NoRow}

OverlayTypeOK ==
    /\ census \in [Authority -> [Peer -> Known \cup {NoRow}]]
    /\ rows \in [Peer -> Known \cup {NoRow}]
    /\ kernel \in [up : BOOLEAN, peers : [Peer -> Held \cup {NoRow}]]
    /\ actor \in [Actor -> Looking]
    /\ owed \subseteq Peer
    /\ news \in 0 .. MaxNews /\ faults \in 0 .. MaxFaults

\* Joined, started, and nothing on the interface yet.
OverlayInit ==
    /\ rows = [p \in Peer |->
          IF p \notin Authority THEN NoRow
          ELSE [address |-> AddressOf[p], dialled |-> TRUE, lan |-> FALSE]]
    /\ census = [h \in Authority |-> [Nothing EXCEPT ![h] = rows[h]]]
    /\ kernel = [up |-> FALSE, peers |-> Nothing]
    /\ actor = [a \in Actor |-> IF a = "start" THEN Ensures ELSE AtEase]
    /\ owed = {} /\ news = 0 /\ faults = 0

\* The listeners and the loop begin after the start has brought the
\* interface up, or failed to.
Started == actor["start"].at = "rest"
MayFail(kind) == kind \in FaultKinds /\ faults < MaxFaults

\* Somebody else read its list of peers before p was written.
HasOlderList(a) == \E b \in Actor \ {a} : actor[b].at = "write"
OwedBy(a, p) == IF HasOlderList(a) THEN owed \cup {p} ELSE owed

\* ------------------------------------------------------------- the rows
Holds(p, address) == \E q \in Peer \ {p} : rows[q] # NoRow /\ rows[q].address = address

\* learn_the_network: the authority answers with its census.
Ask(h) ==
    /\ Started /\ actor["loop"].at = "rest" /\ rows[h] # NoRow
    /\ actor' = [actor EXCEPT !["loop"] =
                    [AtEase EXCEPT !.at = "apply", !.roster = census[h]]]
    /\ UNCHANGED <<census, rows, kernel, owed, news, faults>>

\* Whether a member is not as its row says, but for where it is on a LAN.
Moved(p, said) ==
    rows[p] = NoRow \/ [rows[p] EXCEPT !.lan = said.lan] # said

\* Faulty: each member says anew whether anything moved.
CountedLast(p, moved) == IF moved THEN {p} ELSE {}

\* How many members moved so far: what is asked for at the end.
Counted(p, moved) == actor["loop"].changed \cup (IF moved THEN {p} ELSE {})

\* One member of the roster: an authority is never described, an address
\* another node holds here is refused, and a LAN address is no change.
ApplyMember(p) ==
    LET said == actor["loop"].roster[p]
        taken == p \notin Authority /\ ~Holds(p, said.address)
        moved == taken /\ Moved(p, said)
    IN  /\ actor["loop"].at = "apply" /\ said # NoRow
        /\ rows' = IF taken THEN [rows EXCEPT ![p] = said] ELSE rows
        /\ actor' = [actor EXCEPT !["loop"].roster[p] = NoRow,
                                  !["loop"].changed = Counted(p, moved)]
        /\ owed' = IF rows' = rows THEN owed
                   ELSE IF moved THEN OwedBy("loop", p) ELSE owed \cup {p}
        /\ UNCHANGED <<census, kernel, news, faults>>

\* Only what moved is worth asking the kernel for.
Applied ==
    /\ actor["loop"].at = "apply" /\ actor["loop"].roster = Nothing
    /\ actor' = [actor EXCEPT !["loop"] = IF @.changed # {} THEN Ensures ELSE AtEase]
    /\ UNCHANGED <<census, rows, kernel, owed, news, faults>>

\* A row that cannot be read or written ends the roster, and what it had
\* changed so far is not put on the interface.
ApplyFails ==
    /\ MayFail("database") /\ actor["loop"].at = "apply"
    /\ actor' = [actor EXCEPT !["loop"] = AtEase]
    /\ owed' = owed \cup actor["loop"].changed
    /\ faults' = faults + 1
    /\ UNCHANGED <<census, rows, kernel, news>>

\* serve_name: an edge errand names a co-edge by its address, and the
\* interface is looked at whether or not that was new.
LearnPeer(p, address) ==
    /\ Started /\ actor["loop"].at = "rest"
    /\ \E h \in Authority : census[h][p] # NoRow /\ census[h][p].address = address
    /\ rows' = IF Holds(p, address) THEN rows
               ELSE [rows EXCEPT ![p] = IF @ = NoRow
                        THEN [address |-> address, dialled |-> FALSE, lan |-> FALSE]
                        ELSE [@ EXCEPT !.address = address]]
    /\ actor' = [actor EXCEPT !["loop"] = Ensures]
    /\ owed' = IF rows' = rows THEN owed ELSE OwedBy("loop", p)
    /\ UNCHANGED <<census, kernel, news, faults>>

\* RemoteNodeRestController::join: a node enrolls here, again perhaps, and
\* keeps the address it had.
Arrives(p, address) ==
    /\ Started /\ actor["join"].at = "rest" /\ p \in Member /\ news < MaxNews
    /\ IF rows[p] = NoRow THEN ~Holds(p, address) ELSE rows[p].address = address
    /\ rows' = [rows EXCEPT ![p] = [address |-> address, dialled |-> FALSE,
                                    lan |-> rows[p] # NoRow /\ rows[p].lan]]
    /\ actor' = [actor EXCEPT !["join"] = Ensures]
    /\ owed' = OwedBy("join", p) /\ news' = news + 1
    /\ UNCHANGED <<census, kernel, faults>>

\* RemoteNodeRestController::report: where it is, and nothing follows.
Reports(p, said) ==
    /\ Started /\ p \in Member /\ rows[p] # NoRow /\ news < MaxNews
    /\ said.address = rows[p].address /\ said # rows[p]
    /\ rows' = [rows EXCEPT ![p] = said]
    /\ owed' = owed \cup {p} /\ news' = news + 1
    /\ UNCHANGED <<census, kernel, actor, faults>>

\* network::forget, by a person, and nothing follows.
ForgetNode(p) ==
    /\ Started /\ rows[p] # NoRow /\ news < MaxNews
    /\ rows' = [rows EXCEPT ![p] = NoRow]
    /\ owed' = owed \cup {p} /\ news' = news + 1
    /\ UNCHANGED <<census, kernel, actor, faults>>

\* -------------------------------------------------------- the interface
\* Where this node sends to a peer first, when names can be resolved.
Endpoint(r, resolved) ==
    IF r.dialled /\ resolved THEN "public" ELSE IF r.lan THEN "lan" ELSE "none"

WantedOf(r, resolved) ==
    IF r = NoRow THEN NoRow
    ELSE [address |-> r.address, endpoint |-> Endpoint(r, resolved)]

\* tunnel::peers: every row there is, each with the name of its endpoint
\* looked up; the kernel is not told before all have been.
ReadPeers(a) ==
    /\ actor[a].at = "read"
    /\ \E unresolved \in SUBSET {p \in InTable(rows) : rows[p].dialled} :
        /\ unresolved # {} => MayFail("names")
        /\ actor' = [actor EXCEPT ![a] = [AtEase EXCEPT !.at = "write",
              !.wanted = [p \in Peer |-> WantedOf(rows[p], p \notin unresolved)]]]
        /\ owed' = owed \cup unresolved
        /\ faults' = IF unresolved = {} THEN faults ELSE faults + 1
    /\ UNCHANGED <<census, rows, kernel, news>>

\* difference: only what this node writes.  An endpoint it did not ask for
\* is one the kernel learned.
Differs(held, wanted) ==
    \/ held = NoRow
    \/ held.address # wanted.address
    \/ held.keepalive # (wanted.endpoint = "public")
    \/ wanted.endpoint # "none" /\ held.endpoint # wanted.endpoint

\* configure_peer: what is not said stays, and the session with it.
Configured(held, wanted) ==
    [address |-> wanted.address, keepalive |-> wanted.endpoint = "public",
     session |-> held # NoRow /\ held.session,
     endpoint |-> IF wanted.endpoint = "none" /\ held # NoRow THEN held.endpoint
                  ELSE wanted.endpoint]

\* configure_interface replaces every peer.
Rebuilt(wanted) ==
    [up |-> TRUE, peers |-> [p \in Peer |->
        IF wanted[p] = NoRow THEN NoRow ELSE Configured(NoRow, wanted[p])]]

\* Faulty: a key the kernel does not give back is another key.
EverythingUnkeyed(keyed) == ~kernel.up \/ ~keyed

\* needed: everything, when the interface cannot be read, or no peer has
\* ever answered and the kernel does not say which key it has.
Everything(keyed) ==
    \/ ~kernel.up
    \/ /\ ~keyed /\ InTable(kernel.peers) # {}
       /\ \A p \in InTable(kernel.peers) : ~kernel.peers[p].session

Brought(held, wanted) ==
    IF wanted = NoRow THEN NoRow
    ELSE IF Differs(held, wanted) THEN Configured(held, wanted) ELSE held

\* apply, all of it: the peers that differ are set and those nobody wants
\* removed, one call each.
Apply(wanted, keyed) ==
    IF Everything(keyed) THEN Rebuilt(wanted)
    ELSE [up |-> TRUE, peers |-> [p \in Peer |-> Brought(kernel.peers[p], wanted[p])]]

\* A peer is as its row asks.  It may be heard from elsewhere than it is
\* sent to first.
AsItsRow(p, k) ==
    IF rows[p] = NoRow THEN k.peers[p] = NoRow
    ELSE LET r == rows[p]  held == k.peers[p]
         IN  /\ held # NoRow /\ held.address = r.address /\ held.keepalive = r.dialled
             /\ \/ Endpoint(r, TRUE) = "none"
                \/ held.endpoint \in {Endpoint(r, TRUE), "learned"}

WritePeers(a, keyed) ==
    /\ actor[a].at = "write"
    /\ kernel' = Apply(actor[a].wanted, keyed)
    /\ actor' = [actor EXCEPT ![a] = AtEase]
    /\ owed' = {p \in owed : HasOlderList(a) \/ ~AsItsRow(p, kernel')}
    /\ UNCHANGED <<census, rows, news, faults>>

\* A call to the kernel fails, with some of them done; or the interface is
\* there and cannot be read, and everything is replaced.
WriteFails(a) ==
    /\ MayFail("kernel") /\ actor[a].at = "write"
    /\ \E done \in SUBSET Peer :
        kernel' = IF ~kernel.up THEN kernel
                  ELSE [kernel EXCEPT !.peers = [p \in Peer |->
                     IF p \in done THEN Apply(actor[a].wanted, TRUE).peers[p] ELSE @[p]]]
    /\ actor' = [actor EXCEPT ![a] = AtEase]
    /\ owed' = owed \cup {p \in Peer : ~AsItsRow(p, kernel')}
    /\ faults' = faults + 1
    /\ UNCHANGED <<census, rows, news>>

WriteUnread(a) ==
    /\ MayFail("unread") /\ actor[a].at = "write"
    /\ kernel' = Rebuilt(actor[a].wanted)
    /\ actor' = [actor EXCEPT ![a] = AtEase]
    /\ owed' = {p \in owed : HasOlderList(a) \/ ~AsItsRow(p, kernel')}
    /\ faults' = faults + 1
    /\ UNCHANGED <<census, rows, news>>

\* A packet of a peer arrives: there is a session, at the address it came
\* from.
Hear(p) ==
    /\ kernel.up /\ kernel.peers[p] # NoRow
    /\ \E from \in {kernel.peers[p].endpoint, "learned"} \ {"none"} :
          kernel' = [kernel EXCEPT !.peers[p].session = TRUE, !.peers[p].endpoint = from]
    /\ UNCHANGED <<census, rows, actor, owed, news, faults>>

\* ---------------------------------------------------- others, and stops
\* A node joins the authority's network, moves, says where it is, or is
\* forgotten there; no two nodes of one network have one address.
Changes(h, p, said) ==
    /\ news < MaxNews /\ p # h /\ census[h][p] # said
    /\ said # NoRow => \A q \in Peer \ {p} :
          census[h][q] # NoRow => census[h][q].address # said.address
    /\ census' = [census EXCEPT ![h][p] = said] /\ news' = news + 1
    /\ UNCHANGED <<rows, kernel, actor, owed, faults>>

Stop(machine) ==
    /\ MayFail(IF machine THEN "reboot" ELSE "stop")
    /\ actor' = [a \in Actor |-> IF a = "start" THEN Ensures ELSE AtEase]
    /\ kernel' = IF machine THEN [up |-> FALSE, peers |-> Nothing] ELSE kernel
    /\ owed' = {} /\ faults' = faults + 1
    /\ UNCHANGED <<census, rows, news>>

OverlayNext ==
    \/ \E h \in Authority : Ask(h)
    \/ \E p \in Peer : ApplyMember(p) \/ ForgetNode(p) \/ Hear(p)
    \/ Applied \/ ApplyFails
    \/ \E p \in Peer, address \in Addr : LearnPeer(p, address) \/ Arrives(p, address)
    \/ \E p \in Member, said \in Known : Reports(p, said)
    \/ \E a \in Actor : ReadPeers(a) \/ WriteFails(a) \/ WriteUnread(a)
    \/ \E a \in Actor, keyed \in BOOLEAN : WritePeers(a, keyed)
    \/ \E h \in Authority, p \in Peer, said \in Known \cup {NoRow} : Changes(h, p, said)
    \/ \E machine \in BOOLEAN : Stop(machine)

OverlaySpec == OverlayInit /\ [][OverlayNext]_overlay

\* ----------------------------------------------------------- properties
NobodyLooks == \A a \in Actor : actor[a].at = "rest"

(* "The overlay follows the rows": when nobody is at work the interface has *)
(* exactly the peers of the rows, each at its address and sent to where it  *)
(* can be reached, whatever came out of censuses, errands, joins and stops. *)
(* Excepted are the peers that changed where the code asks nobody to look:  *)
(* a report, a forgotten node, an address on a LAN, a call that failed, and *)
(* a row written while somebody else already had its list.                  *)
FollowsTheRows == NobodyLooks => \A p \in Peer \ owed : AsItsRow(p, kernel)

(* No start, pass or join costs a peer its session, unless its machine      *)
(* starts again, the interface cannot be read, or that peer's own row went  *)
(* or came while it was not looked at.                                      *)
HasSession(p) == kernel.peers[p] # NoRow /\ kernel.peers[p].session
SessionsSurvive ==
    [][\A p \in Peer : HasSession(p) /\ ~HasSession(p)' =>
          faults' # faults \/ rows[p] = NoRow \/ p \in owed]_overlay

==============================================================================
