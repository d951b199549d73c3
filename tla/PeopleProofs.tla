---------------------------- MODULE PeopleProofs ----------------------------
(* Nobody has an account who was not let in, for any number of people,       *)
(* links, requests half way, organisations and projects, and however the     *)
(* administrators' checks overlap.                                           *)
EXTENDS People, TLAPS

Visiting == {"looked", "made", "spent", "undoing", "erasing"}

(* A request that has a link came by it at the door; one that made somebody  *)
(* goes on with them and with the link they came by.                         *)
HalfWay ==
    \A r \in Request :
        /\ asked[r].link # NoLink => asked[r].at \in Visiting
        /\ asked[r].at = "looked" => asked[r].link \in Link /\ asked[r].who = Nobody
        /\ asked[r].at = "erasing" => asked[r].who \in Person
        /\ asked[r].at \in {"made", "spent", "undoing"} =>
             /\ asked[r].who \in Person /\ asked[r].link \in Link
             /\ account[asked[r].who].is # "never"
             /\ account[asked[r].who].by = asked[r].link

(* Past the claim, the link is spent on the one it made.                     *)
SpentOnThem ==
    \A r \in Request : asked[r].at = "spent" => link[asked[r].link].on = asked[r].who

(* What was looked up, or came of it, was minted; and an unspent link was    *)
(* spent on nobody.                                                          *)
LinksAreMinted ==
    /\ \A r \in Request : asked[r].link # NoLink => link[asked[r].link].is # "unminted"
    /\ \A p \in Person : account[p].is # "never" /\ account[p].by # NoLink
                            => link[account[p].by].is # "unminted"
    /\ \A l \in Link : link[l].is \in {"unminted", "live"} => link[l].on = Nobody

PeopleInvariant ==
    /\ PeopleTypeOK /\ HalfWay /\ SpentOnThem /\ LinksAreMinted /\ Invited

------------------------------------------------------------------------------
(* What most steps leave alone.                                              *)

(* Nobody is made, and nobody who was gone comes back.                       *)
NobodyAppears ==
    \A p \in Person : /\ account'[p].by = account[p].by
                      /\ account'[p].is = "never" <=> account[p].is = "never"
                      /\ account'[p].is = "here" => account[p].is = "here"

(* No link is minted or spent.                                               *)
NoLinkSpent ==
    \A l \in Link : /\ link'[l].on = link[l].on
                    /\ link'[l].is = "unminted" <=> link[l].is = "unminted"
                    /\ link'[l].is = "live" => link[l].is = "live"

(* A request stays, goes on to undo what it made, or is done with somebody   *)
(* who is accounted for.                                                     *)
Excused(r) ==
    asked[r].link # NoLink /\ asked[r].who \in Person =>
        \/ account'[asked[r].who].is # "here"
        \/ link'[account'[asked[r].who].by].on = asked[r].who
        \/ asked[r].who \in cut' \cup kept'

GoesOnOrEnds(r) ==
    \/ asked'[r] = asked[r]
    \/ /\ asked[r].at \in {"made", "undoing"} /\ asked'[r].at \in {"undoing", "erasing"}
       /\ asked'[r].link = asked[r].link /\ asked'[r].who = asked[r].who
    \/ /\ asked'[r].link = NoLink
       /\ asked'[r].at \in {"idle", "claiming", "found", "claimed", "erasing", "demoting"}
       /\ asked'[r].at = "erasing" => asked'[r].who \in Person
       /\ Excused(r)

(* A request that is at rest is waiting for nobody.                          *)
LEMMA IdleIsHalf == Idle \in Half /\ Idle.at = "idle" /\ Idle.link = NoLink
BY DEF Idle, Half

(* Steps that make nobody and spend nothing keep the invariant.              *)
LEMMA QuietStepKeeps ==
    ASSUME PeopleInvariant, PeopleTypeOK', NobodyAppears, NoLinkSpent,
           cut \subseteq cut', kept \subseteq kept',
           \A r \in Request : GoesOnOrEnds(r)
    PROVE  PeopleInvariant'
<1>. USE DEF PeopleInvariant
<1>1. HalfWay'
  <2>. SUFFICES ASSUME NEW r \in Request
                PROVE  /\ asked'[r].link # NoLink => asked'[r].at \in Visiting
                       /\ asked'[r].at = "looked" => asked'[r].link \in Link /\ asked'[r].who = Nobody
                       /\ asked'[r].at = "erasing" => asked'[r].who \in Person
                       /\ asked'[r].at \in {"made", "spent", "undoing"} =>
                            /\ asked'[r].who \in Person /\ asked'[r].link \in Link
                            /\ account'[asked'[r].who].is # "never"
                            /\ account'[asked'[r].who].by = asked'[r].link
    BY DEF HalfWay
  <2>1. CASE asked'[r] = asked[r]
    BY <2>1 DEF HalfWay, NobodyAppears
  <2>2. CASE /\ asked[r].at \in {"made", "undoing"} /\ asked'[r].at \in {"undoing", "erasing"}
             /\ asked'[r].link = asked[r].link /\ asked'[r].who = asked[r].who
    BY <2>2 DEF HalfWay, NobodyAppears, Visiting
  <2>3. CASE /\ asked'[r].link = NoLink
             /\ asked'[r].at \in {"idle", "claiming", "found", "claimed", "erasing", "demoting"}
             /\ asked'[r].at = "erasing" => asked'[r].who \in Person
    BY <2>3
  <2>. QED
    BY <2>1, <2>2, <2>3 DEF GoesOnOrEnds
<1>2. SpentOnThem'
  BY DEF SpentOnThem, HalfWay, GoesOnOrEnds, NoLinkSpent
<1>3. LinksAreMinted'
  <2>1. \A r \in Request : asked'[r].link # NoLink => link'[asked'[r].link].is # "unminted"
    <3>1. \A r \in Request : asked'[r].link # NoLink => asked'[r].link = asked[r].link
      BY DEF GoesOnOrEnds
    <3>2. \A r \in Request : asked[r].link \in Link \cup {NoLink}
      BY DEF PeopleTypeOK, Half
    <3>. QED
      BY <3>1, <3>2 DEF LinksAreMinted, NoLinkSpent
  <2>2. \A p \in Person : account[p].by \in Link \cup {NoLink}
    BY DEF PeopleTypeOK, Account
  <2>3. \A p \in Person : account'[p].is # "never" /\ account'[p].by # NoLink
                            => link'[account'[p].by].is # "unminted"
    BY <2>2 DEF LinksAreMinted, NobodyAppears, NoLinkSpent
  <2>4. \A l \in Link : link'[l].is \in {"unminted", "live"} => link'[l].on = Nobody
    BY DEF LinksAreMinted, NoLinkSpent
  <2>. QED
    BY <2>1, <2>3, <2>4 DEF LinksAreMinted
<1>4. Invited'
  <2>. SUFFICES ASSUME NEW p \in Person, account'[p].is = "here", account'[p].by # NoLink
                PROVE  \/ link'[account'[p].by].on = p
                       \/ \E r \in Request : asked'[r].who = p /\ asked'[r].link # NoLink
                       \/ p \in cut' \cup kept'
    BY DEF Invited, Here, InHand, Claim
  <2>1. account[p].is = "here" /\ account[p].by = account'[p].by /\ account[p].by \in Link
    BY DEF NobodyAppears, PeopleTypeOK, Account
  <2>2. CASE link[account[p].by].on = p
    BY <2>1, <2>2 DEF NoLinkSpent
  <2>3. CASE p \in cut \cup kept
    BY <2>3
  <2>4. ASSUME NEW r \in Request, asked[r].who = p, asked[r].link # NoLink
        PROVE  \/ link'[account'[p].by].on = p
               \/ \E q \in Request : asked'[q].who = p /\ asked'[q].link # NoLink
               \/ p \in cut' \cup kept'
    <3>1. CASE asked'[r].link = asked[r].link /\ asked'[r].who = asked[r].who
      BY <2>4, <3>1
    <3>2. CASE Excused(r)
      BY <2>4, <3>2 DEF Excused
    <3>. QED
      BY <3>1, <3>2 DEF GoesOnOrEnds
  <2>. QED
    BY <2>1, <2>2, <2>3, <2>4 DEF Invited, Here, InHand, Claim
<1>. QED
  BY <1>1, <1>2, <1>3, <1>4

(* Going on to the next place keeps the link and who it is about.            *)
LEMMA BecomingSomething ==
    ASSUME PeopleTypeOK, NEW r \in Request,
           NEW at \in {"idle", "claiming", "found", "claimed", "looked", "made", "spent",
                       "undoing", "erasing", "demoting"},
           Becomes(r, at)
    PROVE  /\ asked' \in [Request -> Half]
           /\ asked'[r].at = at /\ asked'[r].link = asked[r].link /\ asked'[r].who = asked[r].who
           /\ \A q \in Request \ {r} : asked'[q] = asked[q]
<1>. DEFINE h == [asked[r] EXCEPT !.at = at]
<1>1. asked' = [asked EXCEPT ![r] = h]
  BY Zenon DEF Becomes
<1>2. asked[r] \in Half
  BY DEF PeopleTypeOK
<1>3. h \in Half /\ h.at = at /\ h.link = asked[r].link /\ h.who = asked[r].who
  BY <1>2 DEF Half
<1>. HIDE DEF h
<1>. QED
  BY <1>1, <1>3 DEF PeopleTypeOK

(* So does ending, which forgets both.                                       *)
LEMMA EndingIsIdle ==
    ASSUME PeopleTypeOK, NEW r \in Request, Ends(r)
    PROVE  /\ asked' \in [Request -> Half] /\ asked'[r] = Idle
           /\ \A q \in Request \ {r} : asked'[q] = asked[q]
BY IdleIsHalf DEF Ends, PeopleTypeOK

(* And a request that begins.                                                *)
LEMMA BeginningSomething ==
    ASSUME PeopleTypeOK, NEW r \in Request, NEW h \in Half, asked' = [asked EXCEPT ![r] = h]
    PROVE  /\ asked' \in [Request -> Half] /\ asked'[r] = h
           /\ \A q \in Request \ {r} : asked'[q] = asked[q]
BY DEF PeopleTypeOK

(* Accounts and links that are as they were.                                 *)
LEMMA LeftAlone ==
    /\ account' = account => NobodyAppears
    /\ link' = link => NoLinkSpent
BY DEF NobodyAppears, NoLinkSpent

------------------------------------------------------------------------------
(* One lemma for each step: the first account.                               *)

(* A setup token lets nobody in yet.                                         *)
LEMMA IssueSetupTokenKeeps ==
    ASSUME PeopleInvariant, IssueSetupToken
    PROVE  PeopleInvariant'
<1>1. /\ setup' = TRUE /\ account' = account /\ link' = link /\ member' = member
      /\ tenants' = tenants /\ projects' = projects /\ asked' = asked
      /\ cut' = cut /\ kept' = kept
  BY DEF IssueSetupToken
<1>2. PeopleTypeOK'
  BY <1>1 DEF PeopleInvariant, PeopleTypeOK
<1>. QED
  BY <1>1, <1>2, LeftAlone, QuietStepKeeps DEF GoesOnOrEnds

(* Claiming a node needs no link until the account is made.                  *)
LEMMA ClaimingKeeps ==
    ASSUME PeopleInvariant, NEW r \in Request,
           LookForAnyAccount(r) \/ FindSetupToken(r) \/ SpendSetupToken(r)
    PROVE  PeopleInvariant'
<1>1. /\ account' = account /\ link' = link /\ member' = member
      /\ tenants' = tenants /\ projects' = projects /\ cut' = cut /\ kept' = kept
      /\ setup' \in BOOLEAN
  BY DEF LookForAnyAccount, FindSetupToken, SpendSetupToken, PeopleInvariant, PeopleTypeOK
<1>2. asked[r].link = NoLink
  <2>1. asked[r] = Idle \/ asked[r].at \in {"claiming", "found"}
    BY DEF LookForAnyAccount, FindSetupToken, SpendSetupToken
  <2>. QED
    BY <2>1, IdleIsHalf DEF PeopleInvariant, HalfWay, Visiting
<1>3. \/ Becomes(r, "claiming") \/ Becomes(r, "found") \/ Becomes(r, "claimed") \/ Ends(r)
  BY DEF LookForAnyAccount, FindSetupToken, SpendSetupToken
<1>4. PeopleTypeOK
  BY DEF PeopleInvariant
<1>5. /\ asked' \in [Request -> Half]
      /\ asked'[r].link = NoLink /\ asked'[r].at \in {"idle", "claiming", "found", "claimed"}
      /\ \A q \in Request \ {r} : asked'[q] = asked[q]
  BY <1>2, <1>3, <1>4, BecomingSomething, EndingIsIdle, IdleIsHalf
<1>6. PeopleTypeOK'
  BY <1>1, <1>4, <1>5 DEF PeopleTypeOK
<1>7. \A q \in Request : GoesOnOrEnds(q)
  BY <1>2, <1>5 DEF GoesOnOrEnds, Excused
<1>. QED
  BY <1>1, <1>6, <1>7, LeftAlone, QuietStepKeeps

(* The first account comes by no link, and nobody else is made.              *)
LEMMA InsertFirstKeeps ==
    ASSUME PeopleInvariant, NEW r \in Request, NEW p \in Person, InsertFirst(r, p)
    PROVE  PeopleInvariant'
<1>. DEFINE a == [is |-> "here", role |-> "admin", scope |-> Machine, by |-> Claim]
<1>. USE DEF PeopleInvariant
<1>1. /\ asked[r].at = "claimed" /\ account[p].is = "never"
      /\ account' = [account EXCEPT ![p] = a] /\ Ends(r)
      /\ setup' = setup /\ link' = link /\ member' = member /\ tenants' = tenants
      /\ projects' = projects /\ cut' = cut /\ kept' = kept
  BY DEF InsertFirst
<1>2. a \in Account /\ a.is = "here" /\ a.by = NoLink
  BY DEF Account, Role, Scope, Claim
<1>. HIDE DEF a
<1>3. account'[p] = a /\ \A q \in Person \ {p} : account'[q] = account[q]
  BY <1>1 DEF PeopleTypeOK
<1>4. /\ asked' \in [Request -> Half] /\ asked'[r] = Idle
      /\ \A q \in Request \ {r} : asked'[q] = asked[q]
  BY <1>1, EndingIsIdle
<1>5. asked[r].link = NoLink
  BY <1>1 DEF HalfWay, Visiting
<1>6. PeopleTypeOK'
  BY <1>1, <1>2, <1>4 DEF PeopleTypeOK
<1>7. HalfWay'
  BY <1>1, <1>3, <1>4, IdleIsHalf DEF HalfWay
<1>8. SpentOnThem'
  BY <1>1, <1>4, IdleIsHalf DEF SpentOnThem
<1>9. LinksAreMinted'
  BY <1>1, <1>2, <1>3, <1>4, IdleIsHalf DEF LinksAreMinted
<1>10. Invited'
  <2>. SUFFICES ASSUME NEW q \in Person, account'[q].is = "here", account'[q].by # NoLink
                PROVE  \/ link[account'[q].by].on = q
                       \/ \E s \in Request : asked'[s].who = q /\ asked'[s].link # NoLink
                       \/ q \in cut \cup kept
    BY <1>1 DEF Invited, Here, InHand, Claim
  <2>1. account'[q] = account[q]
    BY <1>2, <1>3
  <2>. QED
    BY <1>4, <1>5, <2>1 DEF Invited, Here, InHand, Claim
<1>. QED
  BY <1>6, <1>7, <1>8, <1>9, <1>10

------------------------------------------------------------------------------
(* Invitations.                                                              *)

(* A link that is minted is nobody's, and was nobody's before.               *)
LEMMA CreateIntoKeeps ==
    ASSUME PeopleInvariant, NEW l \in Link, NEW by \in Person, NEW f \in Form,
           CreateInto(l, by, f)
    PROVE  PeopleInvariant'
<1>. DEFINE k == [is |-> "live", role |-> f.role, scope |-> f.scope, project |-> f.project,
                  by |-> by, on |-> Nobody]
<1>. USE DEF PeopleInvariant
<1>1. /\ link[l].is = "unminted" /\ link' = [link EXCEPT ![l] = k]
      /\ setup' = setup /\ account' = account /\ member' = member /\ tenants' = tenants
      /\ projects' = projects /\ asked' = asked /\ cut' = cut /\ kept' = kept
  BY DEF CreateInto
<1>2. k \in Invitation /\ k.is = "live" /\ k.on = Nobody
  BY PeopleAssumption DEF Invitation, Role, Scope
<1>. HIDE DEF k
<1>3. link'[l] = k /\ \A m \in Link \ {l} : link'[m] = link[m]
  BY <1>1 DEF PeopleTypeOK
<1>4. PeopleTypeOK'
  BY <1>1, <1>2 DEF PeopleTypeOK
<1>5. /\ \A r \in Request : asked[r].link # NoLink => asked[r].link \in Link \ {l}
      /\ \A p \in Person : account[p].is # "never" /\ account[p].by # NoLink
                             => account[p].by \in Link \ {l}
  BY <1>1 DEF LinksAreMinted, PeopleTypeOK, Half, Account
<1>6. HalfWay'
  BY <1>1 DEF HalfWay
<1>7. SpentOnThem'
  BY <1>1, <1>3, <1>5, PeopleAssumption DEF SpentOnThem, HalfWay
<1>8. LinksAreMinted'
  BY <1>1, <1>2, <1>3, <1>5 DEF LinksAreMinted
<1>9. Invited'
  BY <1>1, <1>3, <1>5 DEF Invited, Here, InHand, Claim
<1>. QED
  BY <1>4, <1>6, <1>7, <1>8, <1>9

(* A link that goes takes nobody with it.                                    *)
LEMMA LinksGo ==
    ASSUME PeopleTypeOK, NEW gone \in SUBSET Link,
           \A l \in gone : link[l].is \in {"live", "spent"},
           link' = [l \in Link |-> IF l \in gone THEN [link[l] EXCEPT !.is = "gone"] ELSE link[l]]
    PROVE  link' \in [Link -> Invitation] /\ NoLinkSpent
<1>. DEFINE g(l) == [link[l] EXCEPT !.is = "gone"]
<1>1. \A l \in Link : link[l] \in Invitation
  BY DEF PeopleTypeOK
<1>2. \A l \in Link : g(l) \in Invitation /\ g(l).is = "gone" /\ g(l).on = link[l].on
  BY <1>1 DEF Invitation
<1>3. link' = [l \in Link |-> IF l \in gone THEN g(l) ELSE link[l]]
  OBVIOUS
<1>. HIDE DEF g
<1>. QED
  BY <1>1, <1>2, <1>3 DEF NoLinkSpent

(* Withdrawing a link leaves whoever it let in.                              *)
LEMMA RevokeKeeps ==
    ASSUME PeopleInvariant, NEW l \in Link, NEW by \in Person, Revoke(l, by)
    PROVE  PeopleInvariant'
<1>. DEFINE k == [link[l] EXCEPT !.is = "gone"]
<1>. USE DEF PeopleInvariant
<1>1. /\ link[l].is \in {"live", "spent"} /\ link' = [link EXCEPT ![l] = k]
      /\ setup' = setup /\ account' = account /\ member' = member /\ tenants' = tenants
      /\ projects' = projects /\ asked' = asked /\ cut' = cut /\ kept' = kept
  BY Zenon DEF Revoke
<1>2. link[l] \in Invitation
  BY DEF PeopleTypeOK
<1>3. k \in Invitation /\ k.is = "gone" /\ k.on = link[l].on
  BY <1>2 DEF Invitation
<1>. HIDE DEF k
<1>4. PeopleTypeOK'
  BY <1>1, <1>3 DEF PeopleTypeOK
<1>5. NoLinkSpent
  BY <1>1, <1>3 DEF NoLinkSpent, PeopleTypeOK
<1>. HIDE DEF PeopleInvariant
<1>. QED
  BY <1>1, <1>4, <1>5, LeftAlone, QuietStepKeeps DEF GoesOnOrEnds

(* Looking a link up claims nothing of it.                                   *)
LEMMA LookUpKeeps ==
    ASSUME PeopleInvariant, NEW r \in Request, NEW l \in Link, LookUp(r, l)
    PROVE  PeopleInvariant'
<1>. DEFINE h == [at |-> "looked", link |-> l, who |-> Nobody]
<1>. USE DEF PeopleInvariant
<1>1. /\ asked[r] = Idle /\ link[l].is = "live" /\ asked' = [asked EXCEPT ![r] = h]
      /\ setup' = setup /\ account' = account /\ link' = link /\ member' = member
      /\ tenants' = tenants /\ projects' = projects /\ cut' = cut /\ kept' = kept
  BY DEF LookUp
<1>2. h \in Half /\ h.at = "looked" /\ h.link = l /\ h.who = Nobody
  BY DEF Half
<1>. HIDE DEF h
<1>3. /\ asked' \in [Request -> Half] /\ asked'[r] = h
      /\ \A q \in Request \ {r} : asked'[q] = asked[q]
  BY <1>1, <1>2, BeginningSomething
<1>4. PeopleTypeOK'
  BY <1>1, <1>3 DEF PeopleTypeOK
<1>5. HalfWay'
  BY <1>1, <1>2, <1>3 DEF HalfWay, Visiting
<1>6. SpentOnThem'
  BY <1>1, <1>2, <1>3 DEF SpentOnThem
<1>7. LinksAreMinted'
  BY <1>1, <1>2, <1>3 DEF LinksAreMinted
<1>8. Invited'
  BY <1>1, <1>3, IdleIsHalf DEF Invited, Here, InHand, Claim
<1>. QED
  BY <1>4, <1>5, <1>6, <1>7, <1>8

(* The account is made by a link that was minted, and its request goes on    *)
(* with it.                                                                  *)
LEMMA CreateInKeeps ==
    ASSUME PeopleInvariant, NEW r \in Request, NEW p \in Person, CreateIn(r, p)
    PROVE  PeopleInvariant'
<1>. DEFINE l == asked[r].link
            a == [is |-> "here", role |-> link[l].role, scope |-> link[l].scope, by |-> l]
            h == [at |-> "made", link |-> l, who |-> p]
<1>. USE DEF PeopleInvariant
<1>1. /\ asked[r].at = "looked" /\ account[p].is = "never"
      /\ account' = [account EXCEPT ![p] = a] /\ asked' = [asked EXCEPT ![r] = h]
      /\ setup' = setup /\ link' = link /\ member' = member
      /\ tenants' = tenants /\ projects' = projects /\ cut' = cut /\ kept' = kept
  BY DEF CreateIn
<1>2. l \in Link /\ asked[r].who = Nobody /\ link[l] \in Invitation /\ l # NoLink
  BY <1>1, PeopleAssumption DEF HalfWay, PeopleTypeOK
<1>3. a \in Account /\ a.is = "here" /\ a.by = l
  BY <1>2 DEF Account, Invitation
<1>4. h \in Half /\ h.at = "made" /\ h.link = l /\ h.who = p
  BY <1>2 DEF Half
<1>5. link[l].is # "unminted"
  BY <1>2 DEF LinksAreMinted
<1>. HIDE DEF a, h, l
<1>6. /\ asked' \in [Request -> Half] /\ asked'[r] = h
      /\ \A q \in Request \ {r} : asked'[q] = asked[q]
  BY <1>1, <1>4, BeginningSomething
<1>7. account'[p] = a /\ \A q \in Person \ {p} : account'[q] = account[q]
  BY <1>1 DEF PeopleTypeOK
<1>8. PeopleTypeOK'
  BY <1>1, <1>3, <1>6 DEF PeopleTypeOK
<1>9. HalfWay'
  BY <1>1, <1>2, <1>3, <1>4, <1>6, <1>7 DEF HalfWay, Visiting
<1>10. SpentOnThem'
  BY <1>1, <1>4, <1>6 DEF SpentOnThem
<1>11. LinksAreMinted'
  BY <1>1, <1>3, <1>4, <1>5, <1>6, <1>7 DEF LinksAreMinted
<1>12. Invited'
  <2>. SUFFICES ASSUME NEW q \in Person, account'[q].is = "here", account'[q].by # NoLink
                PROVE  \/ link[account'[q].by].on = q
                       \/ \E s \in Request : asked'[s].who = q /\ asked'[s].link # NoLink
                       \/ q \in cut \cup kept
    BY <1>1 DEF Invited, Here, InHand, Claim
  <2>1. CASE q = p
    BY <1>2, <1>4, <1>6, <2>1
  <2>2. CASE q # p
    <3>1. account'[q] = account[q] /\ q # Nobody
      BY <1>7, <2>2, PeopleAssumption
    <3>2. \A s \in Request : asked[s].who = q => s # r
      BY <1>2, <3>1
    <3>. QED
      BY <1>6, <3>1, <3>2 DEF Invited, Here, InHand, Claim
  <2>. QED
    BY <2>1, <2>2
<1>. QED
  BY <1>8, <1>9, <1>10, <1>11, <1>12

(* A request that is refused made nobody.                                    *)
LEMMA CreateRefusedKeeps ==
    ASSUME PeopleInvariant, NEW r \in Request, CreateRefused(r)
    PROVE  PeopleInvariant'
<1>1. /\ asked[r].at = "looked" /\ Ends(r)
      /\ setup' = setup /\ account' = account /\ link' = link /\ member' = member
      /\ tenants' = tenants /\ projects' = projects /\ cut' = cut /\ kept' = kept
  BY DEF CreateRefused
<1>2. PeopleTypeOK
  BY DEF PeopleInvariant
<1>3. /\ asked' \in [Request -> Half] /\ asked'[r] = Idle
      /\ \A q \in Request \ {r} : asked'[q] = asked[q]
  BY <1>1, <1>2, EndingIsIdle
<1>4. asked[r].who \notin Person
  BY <1>1, PeopleAssumption DEF PeopleInvariant, HalfWay
<1>5. PeopleTypeOK'
  BY <1>1, <1>2, <1>3 DEF PeopleTypeOK
<1>6. \A q \in Request : GoesOnOrEnds(q)
  BY <1>3, <1>4, IdleIsHalf DEF GoesOnOrEnds, Excused
<1>. QED
  BY <1>1, <1>5, <1>6, LeftAlone, QuietStepKeeps

(* The claim itself: the link was on nobody, and is on whom it made.         *)
LEMMA ClaimKeeps ==
    ASSUME PeopleInvariant, NEW r \in Request, asked[r].at = "made",
           link[asked[r].link].is = "live", Here(asked[r].who),
           link' = [link EXCEPT ![asked[r].link].is = "spent",
                                ![asked[r].link].on = asked[r].who],
           Ends(r) \/ Becomes(r, "spent"),
           UNCHANGED <<setup, account, member, tenants, projects, cut, kept>>
    PROVE  PeopleInvariant'
<1>. DEFINE l == asked[r].link
            p == asked[r].who
            k == [link[l] EXCEPT !.is = "spent", !.on = p]
<1>. USE DEF PeopleInvariant
<1>1. /\ setup' = setup /\ account' = account /\ member' = member /\ tenants' = tenants
      /\ projects' = projects /\ cut' = cut /\ kept' = kept
  OBVIOUS
<1>2. l \in Link /\ p \in Person /\ account[p].is = "here" /\ account[p].by = l /\ l # NoLink
  BY PeopleAssumption DEF HalfWay, Here
<1>3. link' = [link EXCEPT ![l] = k]
  BY Zenon
<1>4. link[l] \in Invitation
  BY <1>2 DEF PeopleTypeOK
<1>5. k \in Invitation /\ k.is = "spent" /\ k.on = p
  BY <1>2, <1>4 DEF Invitation
<1>. HIDE DEF k
<1>6. link'[l] = k /\ \A m \in Link \ {l} : link'[m] = link[m]
  BY <1>2, <1>3 DEF PeopleTypeOK
<1>7. /\ asked' \in [Request -> Half]
      /\ asked'[r] = Idle \/ ( /\ asked'[r].at = "spent"
                               /\ asked'[r].link = l /\ asked'[r].who = p )
      /\ \A q \in Request \ {r} : asked'[q] = asked[q]
  BY EndingIsIdle, BecomingSomething
<1>8. link[l].on = Nobody
  BY <1>2 DEF LinksAreMinted
<1>. HIDE DEF l, p
<1>9. PeopleTypeOK'
  BY <1>1, <1>2, <1>3, <1>5, <1>7 DEF PeopleTypeOK
<1>10. HalfWay'
  BY <1>1, <1>2, <1>7, IdleIsHalf DEF HalfWay, Visiting
<1>11. SpentOnThem'
  <2>. SUFFICES ASSUME NEW q \in Request, asked'[q].at = "spent"
                PROVE  link'[asked'[q].link].on = asked'[q].who
    BY DEF SpentOnThem
  <2>1. CASE q = r
    BY <1>5, <1>6, <1>7, <2>1, IdleIsHalf
  <2>2. CASE q # r
    <3>1. /\ asked'[q] = asked[q] /\ asked[q].link \in Link /\ asked[q].who \in Person
          /\ link[asked[q].link].on = asked[q].who
      BY <1>7, <2>2 DEF SpentOnThem, HalfWay
    <3>2. asked[q].link # l
      BY <1>8, <3>1, PeopleAssumption
    <3>. QED
      BY <1>6, <3>1, <3>2
  <2>. QED
    BY <2>1, <2>2
<1>12. LinksAreMinted'
  <2>1. \A q \in Request : asked'[q].link # NoLink => link'[asked'[q].link].is # "unminted"
    <3>1. \A q \in Request : asked[q].link \in Link \cup {NoLink}
      BY DEF PeopleTypeOK, Half
    <3>2. \A m \in Link : link[m].is # "unminted" => link'[m].is # "unminted"
      BY <1>5, <1>6
    <3>3. \A q \in Request : asked'[q].link # NoLink => asked'[q].link = asked[q].link
      BY <1>7, IdleIsHalf DEF l
    <3>. QED
      BY <3>1, <3>2, <3>3 DEF LinksAreMinted
  <2>2. \A q \in Person : account'[q].is # "never" /\ account'[q].by # NoLink
                             => link'[account'[q].by].is # "unminted"
    <3>1. \A q \in Person : account[q].by \in Link \cup {NoLink}
      BY DEF PeopleTypeOK, Account
    <3>. QED
      BY <1>1, <1>5, <1>6, <3>1 DEF LinksAreMinted
  <2>3. \A m \in Link : link'[m].is \in {"unminted", "live"} => link'[m].on = Nobody
    BY <1>5, <1>6 DEF LinksAreMinted
  <2>. QED
    BY <2>1, <2>2, <2>3 DEF LinksAreMinted
<1>13. Invited'
  <2>. SUFFICES ASSUME NEW q \in Person, account[q].is = "here", account[q].by # NoLink
                PROVE  \/ link'[account[q].by].on = q
                       \/ \E s \in Request : asked'[s].who = q /\ asked'[s].link # NoLink
                       \/ q \in cut \cup kept
    BY <1>1 DEF Invited, Here, InHand, Claim
  <2>1. CASE q = p
    BY <1>2, <1>5, <1>6, <2>1
  <2>2. CASE q # p
    <3>1. account[q].by \in Link
      BY DEF PeopleTypeOK, Account
    <3>2. link[account[q].by].on = q => account[q].by # l
      BY <1>8, PeopleAssumption
    <3>3. \A s \in Request : asked[s].who = q => s # r
      BY <2>2 DEF p
    <3>4. CASE link[account[q].by].on = q
      BY <1>6, <3>1, <3>2, <3>4
    <3>5. CASE \E s \in Request : asked[s].who = q /\ asked[s].link # NoLink
      <4>1. PICK s \in Request : asked[s].who = q /\ asked[s].link # NoLink
        BY <3>5
      <4>2. asked'[s] = asked[s]
        BY <1>7, <3>3, <4>1
      <4>. QED
        BY <4>1, <4>2
    <3>6. CASE q \in cut \cup kept
      BY <3>6
    <3>. QED
      BY <3>4, <3>5, <3>6 DEF Invited, Here, InHand, Claim
  <2>. QED
    BY <2>1, <2>2
<1>. QED
  BY <1>9, <1>10, <1>11, <1>12, <1>13

(* Whoever finds the link spent goes on to undo what was made.               *)
LEMMA SpendKeeps ==
    ASSUME PeopleInvariant, NEW r \in Request, Spend(r)
    PROVE  PeopleInvariant'
<1>1. /\ asked[r].at = "made"
      /\ setup' = setup /\ account' = account /\ member' = member /\ tenants' = tenants
      /\ projects' = projects /\ cut' = cut /\ kept' = kept
  BY DEF Spend
<1>2. PeopleTypeOK
  BY DEF PeopleInvariant
<1>3. CASE /\ link[asked[r].link].is = "live" /\ Here(asked[r].who)
           /\ link' = [link EXCEPT ![asked[r].link].is = "spent",
                                   ![asked[r].link].on = asked[r].who]
           /\ Ends(r) \/ Becomes(r, "spent")
  BY <1>1, <1>3, ClaimKeeps
<1>4. CASE link' = link /\ ~Here(asked[r].who) /\ Ends(r)
  <2>1. /\ asked' \in [Request -> Half] /\ asked'[r] = Idle
        /\ \A q \in Request \ {r} : asked'[q] = asked[q]
    BY <1>2, <1>4, EndingIsIdle
  <2>2. PeopleTypeOK'
    BY <1>1, <1>2, <1>4, <2>1 DEF PeopleTypeOK
  <2>3. \A q \in Request : GoesOnOrEnds(q)
    BY <1>1, <1>4, <2>1, IdleIsHalf DEF GoesOnOrEnds, Excused, Here
  <2>. QED
    BY <1>1, <1>4, <2>2, <2>3, LeftAlone, QuietStepKeeps
<1>5. CASE link' = link /\ Becomes(r, "undoing")
  <2>1. /\ asked' \in [Request -> Half]
        /\ asked'[r].at = "undoing" /\ asked'[r].link = asked[r].link
        /\ asked'[r].who = asked[r].who
        /\ \A q \in Request \ {r} : asked'[q] = asked[q]
    BY <1>2, <1>5, BecomingSomething
  <2>2. PeopleTypeOK'
    BY <1>1, <1>2, <1>5, <2>1 DEF PeopleTypeOK
  <2>3. \A q \in Request : GoesOnOrEnds(q)
    BY <1>1, <2>1 DEF GoesOnOrEnds
  <2>. QED
    BY <1>1, <1>5, <2>2, <2>3, LeftAlone, QuietStepKeeps
<1>. QED
  BY <1>3, <1>4, <1>5 DEF Spend

(* What follows the claim can be lost without anybody being uninvited.       *)
LEMMA GrantKeeps ==
    ASSUME PeopleInvariant, NEW r \in Request, Grant(r)
    PROVE  PeopleInvariant'
<1>1. /\ asked[r].at = "spent" /\ Ends(r)
      /\ setup' = setup /\ account' = account /\ link' = link /\ tenants' = tenants
      /\ projects' = projects /\ cut' = cut /\ kept' = kept
  BY DEF Grant
<1>2. PeopleTypeOK
  BY DEF PeopleInvariant
<1>3. /\ asked' \in [Request -> Half] /\ asked'[r] = Idle
      /\ \A q \in Request \ {r} : asked'[q] = asked[q]
  BY <1>1, <1>2, EndingIsIdle
<1>4. /\ asked[r].who \in Person /\ account[asked[r].who].by = asked[r].link
      /\ link[asked[r].link].on = asked[r].who
  BY <1>1 DEF PeopleInvariant, HalfWay, SpentOnThem
<1>5. member' \subseteq Person \X Project
  BY <1>2, <1>4 DEF Grant, PeopleTypeOK
<1>6. PeopleTypeOK'
  BY <1>1, <1>2, <1>3, <1>5 DEF PeopleTypeOK
<1>7. \A q \in Request : GoesOnOrEnds(q)
  BY <1>1, <1>3, <1>4, IdleIsHalf DEF GoesOnOrEnds, Excused
<1>. QED
  BY <1>1, <1>6, <1>7, LeftAlone, QuietStepKeeps

------------------------------------------------------------------------------
(* Taking people out, and down.                                              *)

(* Asking for somebody to be removed or demoted concerns no link.            *)
LEMMA AskingKeeps ==
    ASSUME PeopleInvariant, NEW r \in Request, NEW by \in Person, NEW p \in Person,
           RemovePerson(r, by, p) \/ Demote(r, by, p)
    PROVE  PeopleInvariant'
<1>1. /\ asked[r] = Idle
      /\ setup' = setup /\ account' = account /\ link' = link /\ member' = member
      /\ tenants' = tenants /\ projects' = projects /\ cut' = cut /\ kept' = kept
  BY DEF RemovePerson, Demote
<1>2. PICK h \in Half : /\ asked' = [asked EXCEPT ![r] = h]
                        /\ h.at \in {"erasing", "demoting"} /\ h.link = NoLink /\ h.who = p
  <2>1. /\ [at |-> "erasing", link |-> NoLink, who |-> p] \in Half
        /\ [at |-> "demoting", link |-> NoLink, who |-> p] \in Half
    BY DEF Half
  <2>2. \/ asked' = [asked EXCEPT ![r] = [at |-> "erasing", link |-> NoLink, who |-> p]]
        \/ asked' = [asked EXCEPT ![r] = [at |-> "demoting", link |-> NoLink, who |-> p]]
    BY DEF RemovePerson, Demote
  <2>. QED
    BY <2>1, <2>2
<1>3. PeopleTypeOK
  BY DEF PeopleInvariant
<1>4. /\ asked' \in [Request -> Half] /\ asked'[r] = h
      /\ \A q \in Request \ {r} : asked'[q] = asked[q]
  BY <1>2, <1>3, BeginningSomething
<1>5. PeopleTypeOK'
  BY <1>1, <1>3, <1>4 DEF PeopleTypeOK
<1>6. \A q \in Request : GoesOnOrEnds(q)
  BY <1>1, <1>2, <1>4, IdleIsHalf DEF GoesOnOrEnds, Excused
<1>. QED
  BY <1>1, <1>5, <1>6, LeftAlone, QuietStepKeeps

(* The rule may keep somebody the undoing would have taken back.             *)
LEMMA UndoAccountKeeps ==
    ASSUME PeopleInvariant, NEW r \in Request, UndoAccount(r)
    PROVE  PeopleInvariant'
<1>1. /\ asked[r].at = "undoing"
      /\ setup' = setup /\ account' = account /\ link' = link /\ member' = member
      /\ tenants' = tenants /\ projects' = projects /\ cut' = cut
      /\ \/ Ends(r) /\ kept' = kept \cup {asked[r].who}
         \/ Becomes(r, "erasing") /\ kept' = kept
  BY DEF UndoAccount
<1>2. PeopleTypeOK /\ asked[r].who \in Person
  BY <1>1 DEF PeopleInvariant, HalfWay
<1>3. /\ asked' \in [Request -> Half]
      /\ \/ asked'[r] = Idle /\ asked[r].who \in kept'
         \/ /\ asked'[r].at = "erasing" /\ asked'[r].link = asked[r].link
            /\ asked'[r].who = asked[r].who
      /\ \A q \in Request \ {r} : asked'[q] = asked[q]
  BY <1>1, <1>2, EndingIsIdle, BecomingSomething
<1>4. kept \subseteq kept' /\ kept' \subseteq Person
  BY <1>1, <1>2 DEF PeopleTypeOK
<1>5. PeopleTypeOK'
  BY <1>1, <1>2, <1>3, <1>4 DEF PeopleTypeOK
<1>6. \A q \in Request : GoesOnOrEnds(q)
  BY <1>1, <1>3, IdleIsHalf DEF GoesOnOrEnds, Excused
<1>. QED
  BY <1>1, <1>4, <1>5, <1>6, LeftAlone, QuietStepKeeps

(* Erasing people makes nobody, and takes their memberships with them.       *)
LEMMA ErasingIsQuiet ==
    ASSUME PeopleTypeOK, NEW who, Erases(who)
    PROVE  /\ account' \in [Person -> Account] /\ member' \subseteq Person \X Project
           /\ NobodyAppears /\ \A p \in Person : p \in who => account'[p].is # "here"
<1>. DEFINE g(p) == [account[p] EXCEPT !.is = "gone"]
<1>1. \A p \in Person : account[p] \in Account
  BY DEF PeopleTypeOK
<1>2. \A p \in Person : g(p) \in Account /\ g(p).is = "gone" /\ g(p).by = account[p].by
  BY <1>1 DEF Account
<1>3. /\ account' = [p \in Person |->
           IF p \in who /\ account[p].is = "here" THEN g(p) ELSE account[p]]
      /\ member' = {m \in member : m[1] \notin who}
  BY DEF Erases, Here
<1>. HIDE DEF g
<1>4. account' \in [Person -> Account] /\ member' \subseteq Person \X Project
  BY <1>1, <1>2, <1>3 DEF PeopleTypeOK
<1>5. NobodyAppears /\ \A p \in Person : p \in who => account'[p].is # "here"
  BY <1>2, <1>3 DEF NobodyAppears
<1>. QED
  BY <1>4, <1>5

(* Erasing ends with somebody who is not here.                               *)
LEMMA EraseKeeps ==
    ASSUME PeopleInvariant, NEW r \in Request, Erase(r)
    PROVE  PeopleInvariant'
<1>. DEFINE gone == {l \in Link : Deletes(l, {asked[r].who})}
<1>1. /\ asked[r].at = "erasing" /\ Erases({asked[r].who}) /\ Ends(r)
      /\ link' = [l \in Link |-> IF l \in gone THEN [link[l] EXCEPT !.is = "gone"] ELSE link[l]]
      /\ setup' = setup /\ tenants' = tenants /\ projects' = projects
      /\ cut' = cut /\ kept' = kept
  BY DEF Erase
<1>2. PeopleTypeOK /\ gone \in SUBSET Link /\ \A l \in gone : link[l].is \in {"live", "spent"}
  BY DEF PeopleInvariant, Deletes
<1>. HIDE DEF gone
<1>3. link' \in [Link -> Invitation] /\ NoLinkSpent
  BY <1>1, <1>2, LinksGo
<1>4. /\ account' \in [Person -> Account] /\ member' \subseteq Person \X Project
      /\ NobodyAppears /\ \A p \in Person : p \in {asked[r].who} => account'[p].is # "here"
  BY <1>1, <1>2, ErasingIsQuiet
<1>5. /\ asked' \in [Request -> Half] /\ asked'[r] = Idle
      /\ \A q \in Request \ {r} : asked'[q] = asked[q]
  BY <1>1, <1>2, EndingIsIdle
<1>6. PeopleTypeOK'
  BY <1>1, <1>2, <1>3, <1>4, <1>5 DEF PeopleTypeOK
<1>7. \A q \in Request : GoesOnOrEnds(q)
  BY <1>4, <1>5, IdleIsHalf DEF GoesOnOrEnds, Excused
<1>. QED
  BY <1>1, <1>3, <1>4, <1>6, <1>7, QuietStepKeeps

(* Roles have no say in who was let in.                                      *)
LEMMA RolesAreQuiet ==
    ASSUME PeopleTypeOK, NEW p \in Person, NEW role \in Role,
           account' = [account EXCEPT ![p].role = role]
    PROVE  account' \in [Person -> Account] /\ NobodyAppears
<1>. DEFINE a == [account[p] EXCEPT !.role = role]
<1>1. account' = [account EXCEPT ![p] = a]
  BY Zenon
<1>2. account[p] \in Account
  BY DEF PeopleTypeOK
<1>3. a \in Account /\ a.is = account[p].is /\ a.by = account[p].by
  BY <1>2 DEF Account
<1>. HIDE DEF a
<1>. QED
  BY <1>1, <1>3 DEF PeopleTypeOK, NobodyAppears

(* Demoting somebody leaves how they came.                                   *)
LEMMA WriteRoleKeeps ==
    ASSUME PeopleInvariant, NEW r \in Request, WriteRole(r)
    PROVE  PeopleInvariant'
<1>. DEFINE p == asked[r].who
<1>1. /\ asked[r].at = "demoting" /\ Ends(r)
      /\ account' = IF Here(p) THEN [account EXCEPT ![p].role = "member"] ELSE account
      /\ setup' = setup /\ link' = link /\ member' = member
      /\ tenants' = tenants /\ projects' = projects /\ cut' = cut /\ kept' = kept
  BY DEF WriteRole
<1>2. PeopleTypeOK /\ asked[r].link = NoLink
  BY <1>1 DEF PeopleInvariant, HalfWay, Visiting
<1>3. account' \in [Person -> Account] /\ NobodyAppears
  <2>1. CASE p \in Person /\ Here(p)
    <3>1. "member" \in Role
      BY DEF Role
    <3>. QED
      BY <1>1, <1>2, <2>1, <3>1, RolesAreQuiet
  <2>2. CASE ~Here(p)
    BY <1>1, <1>2, <2>2, LeftAlone DEF PeopleTypeOK
  <2>3. CASE p \notin Person
    <3>1. account' = account
      BY <1>1, <1>2, <2>3 DEF PeopleTypeOK
    <3>. QED
      BY <1>2, <3>1, LeftAlone DEF PeopleTypeOK
  <2>. QED
    BY <2>1, <2>2, <2>3
<1>4. /\ asked' \in [Request -> Half] /\ asked'[r] = Idle
      /\ \A q \in Request \ {r} : asked'[q] = asked[q]
  BY <1>1, <1>2, EndingIsIdle
<1>5. PeopleTypeOK'
  BY <1>1, <1>2, <1>3, <1>4 DEF PeopleTypeOK
<1>6. \A q \in Request : GoesOnOrEnds(q)
  BY <1>2, <1>4, IdleIsHalf DEF GoesOnOrEnds, Excused
<1>. QED
  BY <1>1, <1>3, <1>5, <1>6, LeftAlone, QuietStepKeeps

(* So does promoting them.                                                   *)
LEMMA PromoteKeeps ==
    ASSUME PeopleInvariant, NEW by \in Person, NEW p \in Person, Promote(by, p)
    PROVE  PeopleInvariant'
<1>1. /\ account' = [account EXCEPT ![p].role = "admin"]
      /\ setup' = setup /\ link' = link /\ member' = member /\ asked' = asked
      /\ tenants' = tenants /\ projects' = projects /\ cut' = cut /\ kept' = kept
  BY DEF Promote
<1>2. PeopleTypeOK /\ "admin" \in Role
  BY DEF PeopleInvariant, Role
<1>3. account' \in [Person -> Account] /\ NobodyAppears
  BY <1>1, <1>2, RolesAreQuiet
<1>4. PeopleTypeOK'
  BY <1>1, <1>2, <1>3 DEF PeopleTypeOK
<1>. QED
  BY <1>1, <1>3, <1>4, LeftAlone, QuietStepKeeps DEF GoesOnOrEnds

------------------------------------------------------------------------------
(* What people are in, and stops.                                            *)

(* A project that goes takes its links with it, and nobody.                  *)
LEMMA DeleteProjectKeeps ==
    ASSUME PeopleInvariant, NEW j \in Project, DeleteProject(j)
    PROVE  PeopleInvariant'
<1>. DEFINE gone == {l \in Link : link[l].is \in {"live", "spent"} /\ link[l].project = j}
<1>1. /\ link' = [l \in Link |-> IF l \in gone THEN [link[l] EXCEPT !.is = "gone"] ELSE link[l]]
      /\ projects' = projects \ {j} /\ member' = {m \in member : m[2] # j}
      /\ setup' = setup /\ account' = account /\ tenants' = tenants /\ asked' = asked
      /\ cut' = cut /\ kept' = kept
  BY DEF DeleteProject
<1>2. PeopleTypeOK /\ gone \in SUBSET Link /\ \A l \in gone : link[l].is \in {"live", "spent"}
  BY DEF PeopleInvariant
<1>. HIDE DEF gone
<1>3. link' \in [Link -> Invitation] /\ NoLinkSpent
  BY <1>1, <1>2, LinksGo
<1>4. PeopleTypeOK'
  BY <1>1, <1>2, <1>3 DEF PeopleTypeOK
<1>. QED
  BY <1>1, <1>3, <1>4, LeftAlone, QuietStepKeeps DEF GoesOnOrEnds

(* An organisation that goes takes its people and its links.                 *)
LEMMA DeleteTenantKeeps ==
    ASSUME PeopleInvariant, NEW t \in Tenant, DeleteTenant(t)
    PROVE  PeopleInvariant'
<1>. DEFINE its == {p \in Person : account[p].scope = t}
            gone == {l \in Link : \/ link[l].is \in {"live", "spent"} /\ link[l].scope = t
                                  \/ Deletes(l, its)}
<1>1. /\ link' = [l \in Link |-> IF l \in gone THEN [link[l] EXCEPT !.is = "gone"] ELSE link[l]]
      /\ tenants' = tenants \ {t} /\ Erases(its)
      /\ setup' = setup /\ projects' = projects /\ asked' = asked
      /\ cut' = cut /\ kept' = kept
  BY DEF DeleteTenant
<1>2. PeopleTypeOK /\ gone \in SUBSET Link /\ \A l \in gone : link[l].is \in {"live", "spent"}
  BY DEF PeopleInvariant, Deletes
<1>. HIDE DEF gone, its
<1>3. link' \in [Link -> Invitation] /\ NoLinkSpent
  BY <1>1, <1>2, LinksGo
<1>4. /\ account' \in [Person -> Account] /\ member' \subseteq Person \X Project
      /\ NobodyAppears
  BY <1>1, <1>2, ErasingIsQuiet
<1>5. PeopleTypeOK'
  BY <1>1, <1>2, <1>3, <1>4 DEF PeopleTypeOK
<1>. QED
  BY <1>1, <1>3, <1>4, <1>5, QuietStepKeeps DEF GoesOnOrEnds

(* A stop loses every request; whom it cut off half way is noted.            *)
LEMMA StopKeeps ==
    ASSUME PeopleInvariant, Stop
    PROVE  PeopleInvariant'
<1>1. /\ cut' = cut \cup {asked[r].who : r \in {q \in Request : asked[q].link # NoLink}}
      /\ asked' = [r \in Request |-> Idle]
      /\ setup' = setup /\ account' = account /\ link' = link /\ member' = member
      /\ tenants' = tenants /\ projects' = projects /\ kept' = kept
  BY DEF Stop
<1>2. PeopleTypeOK
  BY DEF PeopleInvariant
<1>3. cut \subseteq cut' /\ cut' \subseteq Person \cup {Nobody}
  BY <1>1, <1>2 DEF PeopleTypeOK, Half
<1>4. PeopleTypeOK'
  BY <1>1, <1>2, <1>3, IdleIsHalf DEF PeopleTypeOK
<1>5. \A q \in Request : asked[q].link # NoLink => asked[q].who \in cut'
  BY <1>1
<1>6. \A q \in Request : GoesOnOrEnds(q)
  BY <1>1, <1>5, IdleIsHalf DEF GoesOnOrEnds, Excused
<1>. QED
  BY <1>1, <1>3, <1>4, <1>6, LeftAlone, QuietStepKeeps

------------------------------------------------------------------------------

(* Before anybody is let in there is nobody.                                 *)
LEMMA PeopleStartRight == PeopleInit => PeopleInvariant
<1>. SUFFICES ASSUME PeopleInit PROVE PeopleInvariant
  OBVIOUS
<1>1. [is |-> "never", role |-> "member", scope |-> Machine, by |-> NoLink] \in Account
  BY DEF Account, Role, Scope
<1>2. [is |-> "unminted", role |-> "member", scope |-> Machine, project |-> NoProject,
       by |-> Nobody, on |-> Nobody] \in Invitation
  BY DEF Invitation, Role, Scope
<1>3. PeopleTypeOK
  BY <1>1, <1>2, IdleIsHalf DEF PeopleInit, PeopleTypeOK
<1>4. HalfWay /\ SpentOnThem /\ LinksAreMinted
  BY IdleIsHalf DEF PeopleInit, HalfWay, SpentOnThem, LinksAreMinted
<1>5. Invited
  BY DEF PeopleInit, Invited, Here
<1>. QED
  BY <1>3, <1>4, <1>5 DEF PeopleInvariant

(* Every step keeps it.                                                      *)
LEMMA PeopleKeeps ==
    ASSUME PeopleInvariant, [PeopleNext]_people
    PROVE  PeopleInvariant'
<1>1. CASE UNCHANGED people
  <2>1. /\ setup' = setup /\ account' = account /\ link' = link /\ member' = member
        /\ tenants' = tenants /\ projects' = projects /\ asked' = asked
        /\ cut' = cut /\ kept' = kept
    BY <1>1 DEF people
  <2>2. PeopleTypeOK'
    BY <2>1 DEF PeopleInvariant, PeopleTypeOK
  <2>. QED
    BY <2>1, <2>2, LeftAlone, QuietStepKeeps DEF GoesOnOrEnds
<1>2. ASSUME NEW r \in Request, Accepts(r) PROVE PeopleInvariant'
  BY <1>2, LookUpKeeps, CreateInKeeps, CreateRefusedKeeps, SpendKeeps, GrantKeeps,
     UndoAccountKeeps DEF Accepts
<1>3. ASSUME NEW r \in Request, Claims(r) PROVE PeopleInvariant'
  BY <1>3, ClaimingKeeps, InsertFirstKeeps DEF Claims
<1>4. ASSUME NEW r \in Request, Administers(r) PROVE PeopleInvariant'
  BY <1>4, AskingKeeps, EraseKeeps, WriteRoleKeeps DEF Administers
<1>5. ASSUME NEW by \in Person, Manages(by) PROVE PeopleInvariant'
  BY <1>5, CreateIntoKeeps, RevokeKeeps, PromoteKeeps DEF Manages
<1>. QED
  BY <1>1, <1>2, <1>3, <1>4, <1>5, IssueSetupTokenKeeps, StopKeeps, DeleteProjectKeeps,
     DeleteTenantKeeps DEF PeopleNext

(* The inductive invariant holds throughout.                                 *)
THEOREM PeopleHold == PeopleSpec => []PeopleInvariant
<1>1. PeopleInit => PeopleInvariant
  BY PeopleStartRight
<1>2. PeopleInvariant /\ [PeopleNext]_people => PeopleInvariant'
  BY PeopleKeeps
<1>. QED
  BY <1>1, <1>2, PTL DEF PeopleSpec

(* Nobody is here who was not let in, and no link lets two in: for any       *)
(* number of visitors and links at once, whatever is revoked, removed,       *)
(* deleted or stopped meanwhile.                                             *)
THEOREM EverybodyWasInvited == PeopleSpec => []Invited
<1>1. PeopleInvariant => Invited
  BY DEF PeopleInvariant
<1>. QED
  BY <1>1, PeopleHold, PTL


------------------------------------------------------------------------------
(* The last administrator                                                    *)

Claimed == \E p \in Person : account[p].is # "never" /\ account[p].by = Claim
Removing(r) == asked[r].at \in {"erasing", "demoting"}

(* One request at a time is between the rule's check and its write.          *)
OneRemoves == \A r, q \in Request : Removing(r) /\ Removing(q) => r = q

(* Whoever it is about, somebody else administers the node.                  *)
AnotherRemains ==
    \A r \in Request : Removing(r) =>
        /\ asked[r].who \in Person /\ account[asked[r].who].is # "never"
        /\ Claimed => \E q \in Person \ {asked[r].who} : IsAdmin(q)

AdminsInvariant == OneRemoves /\ AnotherRemains /\ AdministratorRemains

(* Steps that take no administrator away, claim nothing and put nobody       *)
(* between the check and the write.                                          *)
LEMMA AdminsStay ==
    ASSUME AdminsInvariant,
           \A p \in Person : IsAdmin(p) => IsAdmin(p)',
           \A p \in Person : account[p].is # "never" => account'[p].is # "never",
           Claimed' => Claimed,
           \A r \in Request : Removing(r)' => Removing(r) /\ asked'[r].who = asked[r].who
    PROVE  AdminsInvariant'
<1>1. OneRemoves'
  BY DEF AdminsInvariant, OneRemoves
<1>2. AnotherRemains'
  BY DEF AdminsInvariant, AnotherRemains
<1>3. AdministratorRemains'
  BY DEF AdminsInvariant, AdministratorRemains, Claimed
<1>. QED
  BY <1>1, <1>2, <1>3 DEF AdminsInvariant

(* With the accounts as they are, only the requests matter.                  *)
LEMMA AccountsStay ==
    ASSUME AdminsInvariant, account' = account,
           \A r \in Request : Removing(r)' => Removing(r) /\ asked'[r].who = asked[r].who
    PROVE  AdminsInvariant'
<1>1. \A p \in Person : IsAdmin(p) => IsAdmin(p)'
  BY DEF IsAdmin, Here
<1>2. Claimed' => Claimed
  BY DEF Claimed
<1>. QED
  BY <1>1, <1>2, AdminsStay

(* The request that passes the check finds somebody else to administer.      *)
LEMMA CheckFindsAnother ==
    ASSUME AdminsInvariant, ~OwnRules, NEW r \in Request, NEW p \in Person,
           RuleIsFree, ~OnlyAdministrator(p), account[p].is # "never",
           account' = account, asked'[r].who = p,
           \A q \in Request \ {r} : asked'[q] = asked[q]
    PROVE  AdminsInvariant'
<1>1. \A q \in Request : ~Removing(q)
  BY DEF RuleIsFree, Removing
<1>2. OneRemoves'
  BY <1>1 DEF OneRemoves, Removing
<1>3. AdministratorRemains'
  BY DEF AdminsInvariant, AdministratorRemains, IsAdmin, Here
<1>4. Claimed => \E q \in Person \ {p} : IsAdmin(q)
  BY DEF AdminsInvariant, AdministratorRemains, Claimed, OnlyAdministrator
<1>5. AnotherRemains'
  BY <1>1, <1>4 DEF AnotherRemains, Removing, Claimed, IsAdmin, Here
<1>. QED
  BY <1>2, <1>3, <1>5 DEF AdminsInvariant

(* And the write that follows takes away at most the one it is about.        *)
LEMMA WriteLeavesAnother ==
    ASSUME AdminsInvariant, NEW r \in Request, Removing(r), ~Removing(r)',
           \A q \in Request \ {r} : asked'[q] = asked[q],
           \A p \in Person \ {asked[r].who} : account'[p] = account[p],
           Claimed' => Claimed
    PROVE  AdminsInvariant'
<1>1. \A q \in Request : ~Removing(q)'
  BY DEF AdminsInvariant, OneRemoves, Removing
<1>2. Claimed => \E q \in Person \ {asked[r].who} : IsAdmin(q)
  BY DEF AdminsInvariant, AnotherRemains
<1>3. AdministratorRemains'
  <2>1. \A q \in Person \ {asked[r].who} : IsAdmin(q) => IsAdmin(q)'
    BY DEF IsAdmin, Here
  <2>. QED
    BY <1>2, <2>1 DEF AdministratorRemains, Claimed
<1>. QED
  BY <1>1, <1>3 DEF AdminsInvariant, OneRemoves, AnotherRemains

(* Requests at the door, but for the undoing, remove nobody.                 *)
LEMMA DoorLeavesAdmins ==
    ASSUME PeopleInvariant, AdminsInvariant, NEW r \in Request,
           \/ \E l \in Link : LookUp(r, l)
           \/ CreateRefused(r) \/ Spend(r) \/ Grant(r)
           \/ LookForAnyAccount(r) \/ FindSetupToken(r) \/ SpendSetupToken(r)
    PROVE  AdminsInvariant'
<1>1. account' = account
  BY DEF LookUp, CreateRefused, Spend, Grant, LookForAnyAccount, FindSetupToken, SpendSetupToken
<1>2. PeopleTypeOK
  BY DEF PeopleInvariant
<1>3. \/ \E l \in Link : asked' = [asked EXCEPT ![r] = [at |-> "looked", link |-> l, who |-> Nobody]]
      \/ Ends(r) \/ Becomes(r, "spent") \/ Becomes(r, "undoing")
      \/ Becomes(r, "claiming") \/ Becomes(r, "found") \/ Becomes(r, "claimed")
  BY DEF LookUp, CreateRefused, Spend, Grant, LookForAnyAccount, FindSetupToken, SpendSetupToken
<1>4. /\ \A q \in Request \ {r} : asked'[q] = asked[q]
      /\ asked'[r].at \in {"looked", "idle", "spent", "undoing", "claiming", "found", "claimed"}
  <2>1. CASE \E l \in Link :
               asked' = [asked EXCEPT ![r] = [at |-> "looked", link |-> l, who |-> Nobody]]
    BY <1>2, <2>1 DEF PeopleTypeOK
  <2>2. CASE Ends(r)
    BY <1>2, <2>2, EndingIsIdle, IdleIsHalf
  <2>3. CASE \/ Becomes(r, "spent") \/ Becomes(r, "undoing")
             \/ Becomes(r, "claiming") \/ Becomes(r, "found") \/ Becomes(r, "claimed")
    BY <1>2, <2>3, BecomingSomething
  <2>. QED
    BY <1>3, <2>1, <2>2, <2>3
<1>5. \A q \in Request : Removing(q)' => Removing(q) /\ asked'[q].who = asked[q].who
  BY <1>4 DEF Removing
<1>. QED
  BY <1>1, <1>5, AccountsStay

(* Somebody new takes nothing from those who administer; and the first       *)
(* account administers.                                                      *)
LEMMA NewcomersLeaveAdmins ==
    ASSUME PeopleInvariant, AdminsInvariant, NEW r \in Request, NEW p \in Person,
           CreateIn(r, p) \/ InsertFirst(r, p)
    PROVE  AdminsInvariant'
<1>1. PeopleTypeOK
  BY DEF PeopleInvariant
<1>2. /\ account[p].is = "never" /\ account'[p].is = "here"
      /\ \A q \in Person \ {p} : account'[q] = account[q]
  BY <1>1 DEF CreateIn, InsertFirst, PeopleTypeOK
<1>3. \A q \in Person : IsAdmin(q) => IsAdmin(q)'
  BY <1>2 DEF IsAdmin, Here
<1>4. \A q \in Person : account[q].is # "never" => account'[q].is # "never"
  BY <1>2
<1>5. \A q \in Request : Removing(q)' => Removing(q) /\ asked'[q].who = asked[q].who
  <2>1. CASE CreateIn(r, p)
    BY <1>1, <2>1 DEF CreateIn, Removing, PeopleTypeOK
  <2>2. CASE InsertFirst(r, p)
    BY <1>1, <2>2, EndingIsIdle, IdleIsHalf DEF InsertFirst, Removing
  <2>. QED
    BY <2>1, <2>2
<1>6. CASE CreateIn(r, p)
  <2>1. account'[p].by = asked[r].link /\ asked[r].link # Claim
    BY <1>1, <1>6, PeopleAssumption DEF CreateIn, PeopleTypeOK, PeopleInvariant, HalfWay, Claim
  <2>2. Claimed' => Claimed
    BY <1>2, <2>1 DEF Claimed
  <2>. QED
    BY <1>3, <1>4, <1>5, <2>2, AdminsStay
<1>7. CASE InsertFirst(r, p)
  <2>1. account'[p] = [is |-> "here", role |-> "admin", scope |-> Machine, by |-> Claim]
    BY <1>1, <1>7 DEF InsertFirst, PeopleTypeOK
  <2>2. IsAdmin(p)'
    BY <2>1 DEF IsAdmin, Here
  <2>3. OneRemoves'
    BY <1>5 DEF AdminsInvariant, OneRemoves
  <2>4. AnotherRemains'
    BY <1>2, <1>4, <1>5, <2>2 DEF AdminsInvariant, AnotherRemains
  <2>5. AdministratorRemains'
    BY <2>2 DEF AdministratorRemains
  <2>. QED
    BY <2>3, <2>4, <2>5 DEF AdminsInvariant
<1>. QED
  BY <1>6, <1>7

(* Those the rule lets through.                                              *)
LEMMA RuleLeavesAdmins ==
    ASSUME ~OwnRules, PeopleInvariant, AdminsInvariant, NEW r \in Request,
           \/ \E by, p \in Person : RemovePerson(r, by, p) \/ Demote(r, by, p)
           \/ UndoAccount(r)
    PROVE  AdminsInvariant'
<1>1. PeopleTypeOK
  BY DEF PeopleInvariant
<1>2. ASSUME NEW by \in Person, NEW p \in Person, RemovePerson(r, by, p) \/ Demote(r, by, p)
      PROVE  AdminsInvariant'
  <2>1. /\ RuleIsFree /\ ~OnlyAdministrator(p) /\ account[p].is # "never" /\ account' = account
    BY <1>2 DEF RemovePerson, Demote, Here
  <2>2. asked'[r].who = p /\ \A q \in Request \ {r} : asked'[q] = asked[q]
    BY <1>1, <1>2 DEF RemovePerson, Demote, PeopleTypeOK
  <2>. QED
    BY <2>1, <2>2, CheckFindsAnother
<1>3. CASE UndoAccount(r)
  <2>1. account' = account /\ RuleIsFree
    BY <1>3 DEF UndoAccount
  <2>2. CASE Ends(r)
    <3>1. \A q \in Request : Removing(q)' => Removing(q) /\ asked'[q].who = asked[q].who
      BY <1>1, <2>2, EndingIsIdle, IdleIsHalf DEF Removing
    <3>. QED
      BY <2>1, <3>1, AccountsStay
  <2>3. CASE Becomes(r, "erasing") /\ ~OnlyAdministrator(asked[r].who)
    <3>1. asked[r].who \in Person /\ account[asked[r].who].is # "never"
      BY <1>3 DEF UndoAccount, PeopleInvariant, HalfWay
    <3>2. asked'[r].who = asked[r].who /\ \A q \in Request \ {r} : asked'[q] = asked[q]
      BY <1>1, <2>3, BecomingSomething
    <3>. QED
      BY <2>1, <2>3, <3>1, <3>2, CheckFindsAnother
  <2>. QED
    BY <1>3, <2>2, <2>3 DEF UndoAccount
<1>. QED
  BY <1>2, <1>3

(* What they write.                                                          *)
LEMMA WritesLeaveAdmins ==
    ASSUME PeopleInvariant, AdminsInvariant, NEW r \in Request, Erase(r) \/ WriteRole(r)
    PROVE  AdminsInvariant'
<1>1. PeopleTypeOK /\ Removing(r) /\ asked[r].who \in Person
  BY DEF PeopleInvariant, Erase, WriteRole, Removing, AdminsInvariant, AnotherRemains
<1>2. ~Removing(r)' /\ \A q \in Request \ {r} : asked'[q] = asked[q]
  BY <1>1, EndingIsIdle, IdleIsHalf DEF Erase, WriteRole, Removing
<1>3. NobodyAppears
  <2>1. CASE Erase(r)
    BY <1>1, <2>1, ErasingIsQuiet DEF Erase
  <2>2. CASE WriteRole(r)
    <3>1. "member" \in Role
      BY DEF Role
    <3>. QED
      BY <1>1, <2>2, <3>1, RolesAreQuiet, LeftAlone DEF WriteRole
  <2>. QED
    BY <2>1, <2>2
<1>4. Claimed' => Claimed
  BY <1>3 DEF NobodyAppears, Claimed
<1>5. \A p \in Person \ {asked[r].who} : account'[p] = account[p]
  <2>1. CASE Erase(r)
    BY <1>1, <2>1 DEF Erase, Erases, PeopleTypeOK
  <2>2. CASE WriteRole(r)
    BY <1>1, <2>2 DEF WriteRole, PeopleTypeOK
  <2>. QED
    BY <2>1, <2>2
<1>. QED
  BY <1>1, <1>2, <1>4, <1>5, WriteLeavesAnother

(* What an operator does otherwise: an organisation's people are none of     *)
(* the node's.                                                               *)
LEMMA OthersLeaveAdmins ==
    ASSUME PeopleInvariant, AdminsInvariant,
           \/ IssueSetupToken \/ Stop
           \/ \E by \in Person : Manages(by)
           \/ \E j \in Project : DeleteProject(j)
           \/ \E t \in Tenant : DeleteTenant(t)
    PROVE  AdminsInvariant'
<1>1. PeopleTypeOK
  BY DEF PeopleInvariant
<1>2. CASE Stop
  <2>1. account' = account /\ \A q \in Request : ~Removing(q)'
    BY <1>2, IdleIsHalf DEF Stop, Removing
  <2>. QED
    BY <2>1, AccountsStay
<1>3. \A q \in Request : asked' = asked =>
        (Removing(q)' => Removing(q) /\ asked'[q].who = asked[q].who)
  BY DEF Removing
<1>4. CASE \/ IssueSetupToken \/ \E j \in Project : DeleteProject(j)
           \/ \E by \in Person, l \in Link : Revoke(l, by) \/ \E f \in Form : CreateInto(l, by, f)
  <2>1. account' = account /\ asked' = asked
    BY <1>4 DEF IssueSetupToken, DeleteProject, Revoke, CreateInto
  <2>. QED
    BY <1>3, <2>1, AccountsStay
<1>5. ASSUME NEW by \in Person, NEW p \in Person, Promote(by, p) PROVE AdminsInvariant'
  <2>1. asked' = asked /\ account' = [account EXCEPT ![p].role = "admin"] /\ "admin" \in Role
    BY <1>5 DEF Promote, Role
  <2>2. NobodyAppears
    BY <1>1, <2>1, RolesAreQuiet
  <2>3. \A q \in Person : IsAdmin(q) => IsAdmin(q)'
    <3>1. \A q \in Person : /\ account'[q].is = account[q].is
                            /\ account'[q].scope = account[q].scope
                            /\ account[q].role = "admin" => account'[q].role = "admin"
      BY <1>1, <2>1 DEF PeopleTypeOK, Account
    <3>. QED
      BY <3>1 DEF IsAdmin, Here
  <2>4. Claimed' => Claimed
    BY <2>2 DEF NobodyAppears, Claimed
  <2>. QED
    BY <1>3, <2>1, <2>2, <2>3, <2>4, AdminsStay DEF NobodyAppears
<1>6. ASSUME NEW t \in Tenant, DeleteTenant(t) PROVE AdminsInvariant'
  <2>. DEFINE its == {p \in Person : account[p].scope = t}
  <2>1. asked' = asked /\ Erases(its)
    BY <1>6 DEF DeleteTenant
  <2>2. \A p \in Person : IsAdmin(p) => p \notin its
    BY PeopleAssumption DEF IsAdmin
  <2>3. \A p \in Person : p \notin its => account'[p] = account[p]
    BY <2>1 DEF Erases
  <2>. HIDE DEF its
  <2>4. NobodyAppears
    BY <1>1, <2>1, ErasingIsQuiet
  <2>5. \A p \in Person : IsAdmin(p) => IsAdmin(p)'
    BY <2>2, <2>3 DEF IsAdmin, Here
  <2>6. Claimed' => Claimed
    BY <2>4 DEF NobodyAppears, Claimed
  <2>. QED
    BY <1>3, <2>1, <2>4, <2>5, <2>6, AdminsStay DEF NobodyAppears
<1>. QED
  BY <1>2, <1>4, <1>5, <1>6 DEF Manages

(* Every step leaves a node that was claimed an administrator.               *)
LEMMA AdminsKeep ==
    ASSUME ~OwnRules, PeopleInvariant, AdminsInvariant, [PeopleNext]_people
    PROVE  AdminsInvariant'
<1>1. CASE UNCHANGED people
  <2>1. account' = account /\ asked' = asked
    BY <1>1 DEF people
  <2>. QED
    BY <2>1, AccountsStay DEF Removing
<1>. QED
  BY <1>1, DoorLeavesAdmins, NewcomersLeaveAdmins, RuleLeavesAdmins, WritesLeaveAdmins,
     OthersLeaveAdmins DEF PeopleNext, Accepts, Claims, Administers

(* A node that was claimed keeps an administrator, for any number of people  *)
(* and requests, when no two are between the rule's check and its write.     *)
THEOREM AnAdministratorRemains == ASSUME ~OwnRules PROVE PeopleSpec => []AdministratorRemains
<1>1. PeopleInit => AdminsInvariant
  BY IdleIsHalf DEF PeopleInit, AdminsInvariant, OneRemoves, AnotherRemains, Removing,
     AdministratorRemains
<1>2. PeopleInvariant /\ AdminsInvariant /\ [PeopleNext]_people => AdminsInvariant'
  BY AdminsKeep
<1>3. AdminsInvariant => AdministratorRemains
  BY DEF AdminsInvariant
<1>. QED
  BY <1>1, <1>2, <1>3, PeopleHold, PTL DEF PeopleSpec

------------------------------------------------------------------------------
(* The projects people are in                                                *)

Making == {"made", "spent", "undoing"}

(* No two requests make the same account.                                    *)
EachTheirOwn ==
    \A r, q \in Request :
        asked[r].at \in Making /\ asked[q].at \in Making /\ asked[r].who = asked[q].who
            => r = q

(* The link is not theirs before the claim, nor if somebody else had it.     *)
NotTheirsYet ==
    \A r \in Request : asked[r].at \in {"made", "undoing"} =>
        link[asked[r].link].on # asked[r].who

(* A link is spent on somebody there is, or was.                             *)
SpentOnSomebody ==
    \A l \in Link, p \in Person : link[l].on = p => account[p].is # "never"

ProjectsInvariant == EachTheirOwn /\ NotTheirsYet /\ SpentOnSomebody /\ InTheirProject

(* Whoever a request leaves is not here, or not through that link, or in     *)
(* their project, or there is none to be in, or a stop is what left them.    *)
Settled(p) ==
    \/ account'[p].is # "here"
    \/ link'[account'[p].by].on # p
    \/ link'[account'[p].by].project \notin projects'
    \/ <<p, link'[account'[p].by].project>> \in member'
    \/ p \in cut'

StaysOrSettles(r) ==
    /\ asked'[r].at \in Making =>
         /\ asked[r].at \in Making
         /\ asked'[r].who = asked[r].who /\ asked'[r].link = asked[r].link
         /\ asked'[r].at # "spent" => asked[r].at # "spent"
    /\ \/ asked[r].link = NoLink
       \/ asked'[r].link = asked[r].link /\ asked'[r].who = asked[r].who
       \/ asked[r].who \in Person => Settled(asked[r].who)

SameLinks ==
    \A l \in Link : /\ link'[l].on = link[l].on
                    /\ link[l].is # "unminted" => link'[l].project = link[l].project

(* Memberships go with a person or a project, and not otherwise.             *)
MembersStay ==
    /\ \A m \in member' : account'[m[1]].is = "here" /\ m[2] \in projects'
    /\ \A m \in member : account'[m[1]].is = "here" /\ m[2] \in projects' => m \in member'

(* Steps that make nobody and spend nothing keep everybody in their project. *)
LEMMA ProjectsStay ==
    ASSUME PeopleInvariant, PeopleTypeOK', ProjectsInvariant, NobodyAppears, SameLinks,
           MembersStay, projects' \subseteq projects, cut \subseteq cut',
           \A r \in Request : StaysOrSettles(r)
    PROVE  ProjectsInvariant'
<1>. USE DEF ProjectsInvariant
<1>1. EachTheirOwn'
  BY DEF EachTheirOwn, StaysOrSettles
<1>2. NotTheirsYet'
  <2>. SUFFICES ASSUME NEW r \in Request, asked'[r].at \in {"made", "undoing"}
                PROVE  link'[asked'[r].link].on # asked'[r].who
    BY DEF NotTheirsYet
  <2>1. /\ asked[r].at \in {"made", "undoing"}
        /\ asked'[r].who = asked[r].who /\ asked'[r].link = asked[r].link
    BY DEF StaysOrSettles, Making
  <2>2. asked[r].link \in Link
    BY <2>1 DEF PeopleInvariant, HalfWay
  <2>. QED
    BY <2>1, <2>2 DEF NotTheirsYet, SameLinks
<1>3. SpentOnSomebody'
  BY DEF SpentOnSomebody, SameLinks, NobodyAppears
<1>4. ASSUME NEW p \in Person, account'[p].is = "here", account'[p].by # NoLink,
             link'[account'[p].by].on = p,
             link'[account'[p].by].project \in projects'
      PROVE  \/ <<p, link'[account'[p].by].project>> \in member'
             \/ \E r \in Request : asked'[r].who = p /\ asked'[r].link # NoLink
             \/ p \in cut'
  <2>1. account[p].is = "here" /\ account'[p].by = account[p].by /\ account[p].by \in Link
    BY <1>4 DEF NobodyAppears, PeopleTypeOK, Account
  <2>2. link[account[p].by].is # "unminted"
    BY <1>4, <2>1 DEF PeopleInvariant, LinksAreMinted
  <2>3. /\ link[account[p].by].on = p
        /\ link'[account'[p].by].project = link[account[p].by].project
    BY <1>4, <2>1, <2>2 DEF SameLinks
  <2>4. \/ <<p, link[account[p].by].project>> \in member
        \/ \E r \in Request : asked[r].who = p /\ asked[r].link # NoLink
        \/ p \in cut
    BY <1>4, <2>1, <2>3 DEF InTheirProject, Here, Claim, InHand
  <2>5. CASE <<p, link[account[p].by].project>> \in member
    BY <1>4, <2>3, <2>5 DEF MembersStay
  <2>6. ASSUME NEW r \in Request, asked[r].who = p, asked[r].link # NoLink
        PROVE  \/ <<p, link'[account'[p].by].project>> \in member'
               \/ \E q \in Request : asked'[q].who = p /\ asked'[q].link # NoLink
               \/ p \in cut'
    BY <1>4, <2>6 DEF StaysOrSettles, Settled
  <2>. QED
    BY <2>4, <2>5, <2>6
<1>5. InTheirProject'
  BY <1>4 DEF InTheirProject, MembersStay, Here, Claim, InHand
<1>. QED
  BY <1>1, <1>2, <1>3, <1>5

(* With people, links and projects as they are only the requests matter.     *)
LEMMA OnlyRequestsMove ==
    ASSUME PeopleInvariant, PeopleTypeOK', ProjectsInvariant,
           UNCHANGED <<account, link, member, projects>>, cut \subseteq cut',
           \A r \in Request : StaysOrSettles(r)
    PROVE  ProjectsInvariant'
<1>1. NobodyAppears
  BY LeftAlone
<1>2. SameLinks
  BY DEF SameLinks
<1>3. MembersStay
  BY DEF MembersStay, ProjectsInvariant, InTheirProject, Here
<1>. QED
  BY <1>1, <1>2, <1>3, ProjectsStay

(* Requests at the door that make nobody and spend nothing.                  *)
LEMMA DoorKeepsProjects ==
    ASSUME PeopleInvariant, PeopleTypeOK', ProjectsInvariant, NEW r \in Request,
           \/ \E l \in Link : LookUp(r, l)
           \/ CreateRefused(r)
           \/ LookForAnyAccount(r) \/ FindSetupToken(r) \/ SpendSetupToken(r)
           \/ \E by, p \in Person : RemovePerson(r, by, p) \/ Demote(r, by, p)
    PROVE  ProjectsInvariant'
<1>1. PeopleTypeOK
  BY DEF PeopleInvariant
<1>2. UNCHANGED <<account, link, member, projects, cut>>
  BY DEF LookUp, CreateRefused, LookForAnyAccount, FindSetupToken, SpendSetupToken,
         RemovePerson, Demote
<1>3. asked[r].link = NoLink \/ asked[r].who \notin Person
  <2>1. asked[r] = Idle \/ asked[r].at \in {"looked", "claiming", "found"}
    BY DEF LookUp, CreateRefused, LookForAnyAccount, FindSetupToken, SpendSetupToken,
           RemovePerson, Demote
  <2>. QED
    BY <2>1, IdleIsHalf, PeopleAssumption DEF PeopleInvariant, HalfWay, Visiting
<1>5. asked'[r].at \notin Making /\ \A q \in Request \ {r} : asked'[q] = asked[q]
  <2>1. CASE \/ CreateRefused(r) \/ LookForAnyAccount(r) \/ FindSetupToken(r)
             \/ SpendSetupToken(r)
    <3>1. \/ Ends(r) \/ Becomes(r, "claiming") \/ Becomes(r, "found")
          \/ Becomes(r, "claimed")
      BY <2>1 DEF CreateRefused, LookForAnyAccount, FindSetupToken, SpendSetupToken
    <3>. QED
      BY <1>1, <3>1, EndingIsIdle, BecomingSomething, IdleIsHalf DEF Making
  <2>2. ASSUME NEW l \in Link, LookUp(r, l)
        PROVE  asked'[r].at \notin Making /\ \A q \in Request \ {r} : asked'[q] = asked[q]
    BY <1>1, <2>2 DEF LookUp, Making, PeopleTypeOK
  <2>3. ASSUME NEW by \in Person, NEW p \in Person, RemovePerson(r, by, p) \/ Demote(r, by, p)
        PROVE  asked'[r].at \notin Making /\ \A q \in Request \ {r} : asked'[q] = asked[q]
    BY <1>1, <2>3 DEF RemovePerson, Demote, Making, PeopleTypeOK
  <2>. QED
    BY <2>1, <2>2, <2>3
<1>6. \A q \in Request : StaysOrSettles(q)
  BY <1>3, <1>5 DEF StaysOrSettles
<1>. QED
  BY <1>2, <1>6, OnlyRequestsMove

(* Undoing takes nobody back whose link it was.                              *)
LEMMA UndoKeepsProjects ==
    ASSUME PeopleInvariant, PeopleTypeOK', ProjectsInvariant, NEW r \in Request,
           UndoAccount(r)
    PROVE  ProjectsInvariant'
<1>1. PeopleTypeOK
  BY DEF PeopleInvariant
<1>2. UNCHANGED <<account, link, member, projects, cut>> /\ asked[r].at = "undoing"
      /\ (Ends(r) \/ Becomes(r, "erasing"))
  BY DEF UndoAccount
<1>3. asked[r].who \in Person /\ account[asked[r].who].by = asked[r].link
      /\ link[asked[r].link].on # asked[r].who
  BY <1>2 DEF PeopleInvariant, HalfWay, ProjectsInvariant, NotTheirsYet
<1>4. Settled(asked[r].who)
  BY <1>2, <1>3 DEF Settled
<1>5. asked'[r].at \notin Making /\ \A q \in Request \ {r} : asked'[q] = asked[q]
  BY <1>1, <1>2, EndingIsIdle, BecomingSomething, IdleIsHalf DEF Making
<1>6. \A q \in Request : StaysOrSettles(q)
  BY <1>4, <1>5 DEF StaysOrSettles
<1>. QED
  BY <1>2, <1>6, OnlyRequestsMove

(* Whoever is made is in nobody's hands but those of the request that made   *)
(* them, and no link is spent on them.                                       *)
LEMMA NewcomersKeepProjects ==
    ASSUME PeopleInvariant, PeopleTypeOK', ProjectsInvariant, NEW r \in Request,
           NEW p \in Person, CreateIn(r, p) \/ InsertFirst(r, p)
    PROVE  ProjectsInvariant'
<1>. USE DEF ProjectsInvariant
<1>1. PeopleTypeOK /\ asked[r].at \in {"looked", "claimed"}
  BY DEF PeopleInvariant, CreateIn, InsertFirst
<1>2. UNCHANGED <<link, member, projects, cut>>
  BY DEF CreateIn, InsertFirst
<1>3. /\ account[p].is = "never" /\ account'[p].is = "here"
      /\ \A q \in Person \ {p} : account'[q] = account[q]
  BY <1>1 DEF CreateIn, InsertFirst, PeopleTypeOK
<1>4. \A q \in Request \ {r} : asked'[q] = asked[q]
  BY <1>1 DEF CreateIn, InsertFirst, Ends, PeopleTypeOK
<1>5. asked'[r].at \in Making => asked'[r].at = "made" /\ asked'[r].who = p
                                /\ asked'[r].link = asked[r].link /\ asked[r].link \in Link
  <2>1. CASE CreateIn(r, p)
    BY <1>1, <2>1 DEF CreateIn, PeopleTypeOK, PeopleInvariant, HalfWay
  <2>2. CASE InsertFirst(r, p)
    BY <1>1, <2>2, EndingIsIdle, IdleIsHalf DEF InsertFirst, Making
  <2>. QED
    BY <2>1, <2>2
<1>6. account'[p].by # NoLink =>
          \E s \in Request : asked'[s].who = p /\ asked'[s].link # NoLink
  <2>1. CASE CreateIn(r, p)
    BY <1>1, <2>1 DEF CreateIn, PeopleTypeOK
  <2>2. CASE InsertFirst(r, p)
    BY <1>1, <2>2 DEF InsertFirst, PeopleTypeOK, Claim
  <2>. QED
    BY <2>1, <2>2
<1>7. \A q \in Request \ {r} : asked[q].at \in Making => asked[q].who # p
  BY <1>3 DEF PeopleInvariant, HalfWay, Making
<1>8. EachTheirOwn'
  BY <1>4, <1>5, <1>7 DEF EachTheirOwn
<1>9. NotTheirsYet'
  <2>1. asked'[r].at \in {"made", "undoing"} => link'[asked'[r].link].on # asked'[r].who
    BY <1>2, <1>3, <1>5 DEF SpentOnSomebody, Making
  <2>. QED
    BY <1>2, <1>4, <2>1 DEF NotTheirsYet
<1>10. SpentOnSomebody'
  BY <1>2, <1>3 DEF SpentOnSomebody
<1>11. asked[r].who \notin Person \/ asked[r].link = NoLink
  BY <1>1, PeopleAssumption DEF PeopleInvariant, HalfWay, Visiting
<1>12. ASSUME NEW q \in Person, account'[q].is = "here", account'[q].by # NoLink,
              link'[account'[q].by].on = q,
              link'[account'[q].by].project \in projects'
       PROVE  \/ <<q, link'[account'[q].by].project>> \in member'
              \/ \E s \in Request : asked'[s].who = q /\ asked'[s].link # NoLink
              \/ q \in cut'
  <2>1. CASE q = p
    BY <1>6, <1>12, <2>1
  <2>2. CASE q # p
    <3>1. account'[q] = account[q]
      BY <1>3, <2>2
    <3>2. \/ <<q, link[account[q].by].project>> \in member
          \/ \E s \in Request : asked[s].who = q /\ asked[s].link # NoLink
          \/ q \in cut
      BY <1>2, <1>12, <3>1 DEF InTheirProject, Here, Claim, InHand
    <3>. QED
      BY <1>2, <1>4, <1>11, <3>1, <3>2
  <2>. QED
    BY <2>1, <2>2
<1>13. \A m \in member' : account'[m[1]].is = "here" /\ m[2] \in projects'
  <2>1. \A m \in member : m[1] \in Person /\ account[m[1]].is = "here" /\ m[2] \in projects
    BY <1>1 DEF InTheirProject, Here, PeopleTypeOK
  <2>. QED
    BY <1>2, <1>3, <2>1
<1>14. InTheirProject'
  BY <1>12, <1>13 DEF InTheirProject, Here, Claim, InHand
<1>. QED
  BY <1>8, <1>9, <1>10, <1>14

(* The claim: with no project to grant they are done with; otherwise the     *)
(* request goes on.                                                          *)
LEMMA LinkOfTheirsKeepsProjects ==
    ASSUME PeopleInvariant, ProjectsInvariant, NEW r \in Request, NEW l \in Link,
           NEW p \in Person, asked[r].at = "made", asked[r].link = l, asked[r].who = p,
           account[p].is = "here", account[p].by = l, link[l].is = "live",
           link'[l].on = p, link'[l].project = link[l].project,
           \A m \in Link \ {l} : link'[m] = link[m],
           \A q \in Request \ {r} : asked'[q] = asked[q],
           \/ asked'[r] = Idle /\ link[l].project = NoProject
           \/ asked'[r].at = "spent" /\ asked'[r].link = l /\ asked'[r].who = p,
           account' = account, member' = member, projects' = projects, cut' = cut
    PROVE  ProjectsInvariant'
<1>. USE DEF ProjectsInvariant
<1>1. PeopleTypeOK /\ link[l].on = Nobody
  BY DEF PeopleInvariant, LinksAreMinted
<1>2. l # NoLink /\ NoProject \notin projects
  BY <1>1, PeopleAssumption DEF PeopleTypeOK
<1>3. \A q \in Request \ {r} : asked[q].at \in Making => asked[q].who # p
  BY DEF EachTheirOwn, Making
<1>4. EachTheirOwn'
  BY <1>3, IdleIsHalf DEF EachTheirOwn, Making
<1>5. NotTheirsYet'
  <2>. SUFFICES ASSUME NEW q \in Request, asked'[q].at \in {"made", "undoing"}
                PROVE  link'[asked'[q].link].on # asked'[q].who
    BY DEF NotTheirsYet
  <2>1. q # r
    BY IdleIsHalf
  <2>2. asked'[q] = asked[q] /\ asked[q].link \in Link /\ asked[q].who # p
    BY <1>3, <2>1 DEF PeopleInvariant, HalfWay, Making
  <2>3. CASE asked[q].link = l
    BY <2>2, <2>3
  <2>4. CASE asked[q].link # l
    BY <2>2, <2>4 DEF NotTheirsYet
  <2>. QED
    BY <2>3, <2>4
<1>6. SpentOnSomebody'
  BY DEF SpentOnSomebody
<1>7. ASSUME NEW q \in Person, account[q].is = "here", account[q].by # NoLink,
             link'[account[q].by].on = q, link'[account[q].by].project \in projects
      PROVE  \/ <<q, link'[account[q].by].project>> \in member
             \/ \E s \in Request : asked'[s].who = q /\ asked'[s].link # NoLink
             \/ q \in cut
  <2>1. account[q].by \in Link
    BY <1>1, <1>7 DEF PeopleTypeOK, Account
  <2>2. CASE q = p
    BY <1>2, <1>7, <2>2
  <2>3. CASE q # p
    <3>1. account[q].by # l /\ link'[account[q].by] = link[account[q].by]
      BY <1>7, <2>1, <2>3
    <3>2. \/ <<q, link[account[q].by].project>> \in member
          \/ \E s \in Request : asked[s].who = q /\ asked[s].link # NoLink
          \/ q \in cut
      BY <1>7, <3>1 DEF InTheirProject, Here, Claim, InHand
    <3>3. ASSUME NEW s \in Request, asked[s].who = q, asked[s].link # NoLink
          PROVE  asked'[s].who = q /\ asked'[s].link # NoLink
      BY <2>3, <3>3
    <3>. QED
      BY <3>1, <3>2, <3>3
  <2>. QED
    BY <2>2, <2>3
<1>8. InTheirProject'
  BY <1>7 DEF InTheirProject, Here, Claim, InHand
<1>. QED
  BY <1>4, <1>5, <1>6, <1>8

(* And otherwise nothing is spent.                                           *)
LEMMA SpendKeepsProjects ==
    ASSUME PeopleInvariant, PeopleTypeOK', ProjectsInvariant, NEW r \in Request, Spend(r)
    PROVE  ProjectsInvariant'
<1>1. PeopleTypeOK /\ asked[r].at = "made" /\ UNCHANGED <<account, member, projects, cut>>
  BY DEF PeopleInvariant, Spend
<1>2. CASE link' = link /\ ~Here(asked[r].who) /\ Ends(r)
  <2>1. asked'[r] = Idle /\ \A q \in Request \ {r} : asked'[q] = asked[q]
    BY <1>1, <1>2, EndingIsIdle
  <2>2. \A q \in Request : StaysOrSettles(q)
    BY <1>1, <1>2, <2>1, IdleIsHalf DEF StaysOrSettles, Settled, Here, Making
  <2>. QED
    BY <1>1, <1>2, <2>2, OnlyRequestsMove
<1>3. CASE link' = link /\ Becomes(r, "undoing")
  <2>1. \A q \in Request : StaysOrSettles(q)
    BY <1>1, <1>3, BecomingSomething DEF StaysOrSettles, Making
  <2>. QED
    BY <1>1, <1>3, <2>1, OnlyRequestsMove
<1>4. CASE link[asked[r].link].is = "live" /\ Here(asked[r].who) /\ link' # link
  <2>1. PICK l \in Link, p \in Person :
          /\ asked[r].link = l /\ asked[r].who = p
          /\ account[p].is = "here" /\ account[p].by = l
    BY <1>1, <1>4 DEF PeopleInvariant, HalfWay, Here
  <2>. DEFINE k == [link[l] EXCEPT !.is = "spent", !.on = p]
  <2>2. link' = [link EXCEPT ![l] = k]
    BY <1>4, <2>1, Zenon DEF Spend
  <2>3. k.on = p /\ k.project = link[l].project
    BY <1>1 DEF PeopleTypeOK, Invitation
  <2>. HIDE DEF k
  <2>4. /\ link'[l].on = p /\ link'[l].project = link[l].project
        /\ \A m \in Link \ {l} : link'[m] = link[m]
    BY <1>1, <2>2, <2>3 DEF PeopleTypeOK
  <2>5. \/ Ends(r) /\ link[l].project = NoProject
        \/ Becomes(r, "spent")
    BY <1>4, <2>1, <2>4 DEF Spend
  <2>6. /\ \A q \in Request \ {r} : asked'[q] = asked[q]
        /\ \/ asked'[r] = Idle /\ link[l].project = NoProject
           \/ asked'[r].at = "spent" /\ asked'[r].link = l /\ asked'[r].who = p
    BY <1>1, <2>1, <2>5, EndingIsIdle, BecomingSomething
  <2>. QED
    BY <1>1, <1>4, <2>1, <2>4, <2>6, LinkOfTheirsKeepsProjects
<1>5. CASE link' = link /\ link[asked[r].link].is = "live" /\ Here(asked[r].who)
  <2>1. PICK l \in Link, p \in Person :
          /\ asked[r].link = l /\ asked[r].who = p
          /\ account[p].is = "here" /\ account[p].by = l
    BY <1>1, <1>5 DEF PeopleInvariant, HalfWay, Here
  <2>. DEFINE k == [link[l] EXCEPT !.is = "spent", !.on = p]
  <2>2. link' = [link EXCEPT ![l] = k]
    BY <1>5, <2>1, Zenon DEF Spend
  <2>3. k.is = "spent"
    BY <1>1 DEF PeopleTypeOK, Invitation
  <2>. HIDE DEF k
  <2>. QED
    BY <1>1, <1>5, <2>1, <2>2, <2>3 DEF PeopleTypeOK
<1>. QED
  BY <1>2, <1>3, <1>4, <1>5, Zenon DEF Spend

(* Whoever the link named a project for is in it from here on.               *)
LEMMA GrantKeepsProjects ==
    ASSUME PeopleInvariant, PeopleTypeOK', ProjectsInvariant, NEW r \in Request, Grant(r)
    PROVE  ProjectsInvariant'
<1>1. PICK p \in Person : asked[r].who = p /\ account[p].by = asked[r].link
  BY DEF PeopleInvariant, HalfWay, Grant
<1>. DEFINE j == link[asked[r].link].project
<1>2. /\ PeopleTypeOK /\ UNCHANGED <<account, link, projects, cut>> /\ Ends(r)
      /\ member' = IF Here(p) /\ j \in projects THEN member \cup {<<p, j>>} ELSE member
  BY <1>1 DEF PeopleInvariant, Grant
<1>3. asked'[r] = Idle /\ \A q \in Request \ {r} : asked'[q] = asked[q]
  BY <1>2, EndingIsIdle
<1>4. Settled(p)
  BY <1>1, <1>2 DEF Settled, Here
<1>5. \A q \in Request : StaysOrSettles(q)
  BY <1>1, <1>3, <1>4, IdleIsHalf DEF StaysOrSettles, Making
<1>6. MembersStay
  BY <1>2 DEF MembersStay, ProjectsInvariant, InTheirProject, Here
<1>7. NobodyAppears /\ SameLinks
  BY <1>2, LeftAlone DEF SameLinks
<1>. QED
  BY <1>2, <1>5, <1>6, <1>7, ProjectsStay

(* Links that go let in whom they let in.                                    *)
LEMMA LinksGoUnchanged ==
    ASSUME PeopleTypeOK, NEW gone \in SUBSET Link,
           link' = [l \in Link |-> IF l \in gone THEN [link[l] EXCEPT !.is = "gone"] ELSE link[l]]
    PROVE  SameLinks
<1>. DEFINE g(l) == [link[l] EXCEPT !.is = "gone"]
<1>1. \A l \in Link : link[l] \in Invitation
  BY DEF PeopleTypeOK
<1>2. \A l \in Link : g(l).on = link[l].on /\ g(l).project = link[l].project
  BY <1>1 DEF Invitation
<1>3. link' = [l \in Link |-> IF l \in gone THEN g(l) ELSE link[l]]
  OBVIOUS
<1>. HIDE DEF g
<1>. QED
  BY <1>2, <1>3 DEF SameLinks

(* Erasing people takes their memberships and nobody else's.                 *)
LEMMA ErasingTakesTheirs ==
    ASSUME PeopleTypeOK, ProjectsInvariant, NEW who, Erases(who), projects' = projects
    PROVE  MembersStay
<1>1. \A m \in member : m[1] \in Person /\ account[m[1]].is = "here" /\ m[2] \in projects
  BY DEF ProjectsInvariant, InTheirProject, Here, PeopleTypeOK
<1>2. \A p \in Person : p \notin who => account'[p] = account[p]
  BY DEF Erases
<1>3. \A p \in Person : p \in who => account'[p].is # "here"
  BY ErasingIsQuiet
<1>4. member' = {m \in member : m[1] \notin who}
  BY DEF Erases
<1>. QED
  BY <1>1, <1>2, <1>3, <1>4 DEF MembersStay

(* A request that ends with its write names a project that is still there.   *)
LEMMA WritesKeepProjects ==
    ASSUME PeopleInvariant, PeopleTypeOK', ProjectsInvariant, NEW r \in Request,
           Erase(r) \/ WriteRole(r)
    PROVE  ProjectsInvariant'
<1>1. PeopleTypeOK /\ Ends(r) /\ UNCHANGED <<projects, cut>>
  BY DEF PeopleInvariant, Erase, WriteRole
<1>2. asked'[r] = Idle /\ \A q \in Request \ {r} : asked'[q] = asked[q]
  BY <1>1, EndingIsIdle
<1>3. CASE Erase(r)
  <2>. DEFINE gone == {l \in Link : Deletes(l, {asked[r].who})}
  <2>1. /\ Erases({asked[r].who}) /\ gone \in SUBSET Link
        /\ link' = [l \in Link |-> IF l \in gone THEN [link[l] EXCEPT !.is = "gone"] ELSE link[l]]
    BY <1>3 DEF Erase
  <2>. HIDE DEF gone
  <2>2. SameLinks /\ MembersStay
    BY <1>1, <2>1, LinksGoUnchanged, ErasingTakesTheirs
  <2>3. NobodyAppears /\ (asked[r].who \in Person => account'[asked[r].who].is # "here")
    BY <1>1, <2>1, ErasingIsQuiet
  <2>4. \A q \in Request : StaysOrSettles(q)
    BY <1>2, <2>3, IdleIsHalf DEF StaysOrSettles, Settled, Making
  <2>. QED
    BY <1>1, <2>2, <2>3, <2>4, ProjectsStay
<1>4. CASE WriteRole(r)
  <2>1. PICK p \in Person \cup {Nobody} :
          /\ asked[r].who = p /\ asked[r].link = NoLink /\ UNCHANGED <<link, member>>
          /\ account' = IF Here(p) THEN [account EXCEPT ![p].role = "member"] ELSE account
    BY <1>1, <1>4 DEF WriteRole, PeopleInvariant, HalfWay, Visiting, PeopleTypeOK, Half
  <2>2. \A q \in Person : account'[q].is = account[q].is /\ account'[q].by = account[q].by
    BY <1>1, <2>1 DEF PeopleTypeOK, Account
  <2>3. NobodyAppears /\ SameLinks
    BY <2>1, <2>2 DEF NobodyAppears, SameLinks
  <2>4. MembersStay
    BY <1>1, <2>1, <2>2
       DEF MembersStay, ProjectsInvariant, InTheirProject, Here, PeopleTypeOK
  <2>5. \A q \in Request : StaysOrSettles(q)
    BY <1>2, <2>1, IdleIsHalf DEF StaysOrSettles, Making
  <2>. QED
    BY <1>1, <2>3, <2>4, <2>5, ProjectsStay
<1>. QED
  BY <1>3, <1>4

(* What is decided about others leaves them in the projects they are in.     *)
LEMMA ManagingKeepsProjects ==
    ASSUME PeopleInvariant, PeopleTypeOK', ProjectsInvariant, NEW by \in Person, Manages(by)
    PROVE  ProjectsInvariant'
<1>1. PeopleTypeOK /\ UNCHANGED <<member, projects, asked, cut>>
  BY DEF PeopleInvariant, Manages, CreateInto, Revoke, Promote
<1>2. \A q \in Request : StaysOrSettles(q)
  BY <1>1 DEF StaysOrSettles
<1>3. \A m \in member : m[1] \in Person /\ account[m[1]].is = "here" /\ m[2] \in projects
  BY <1>1 DEF ProjectsInvariant, InTheirProject, Here, PeopleTypeOK
<1>4. ASSUME NEW l \in Link, NEW f \in Form, CreateInto(l, by, f) PROVE ProjectsInvariant'
  <2>1. link[l].is = "unminted" /\ account' = account
        /\ link'[l].on = Nobody /\ \A m \in Link \ {l} : link'[m] = link[m]
    BY <1>1, <1>4 DEF CreateInto, PeopleTypeOK
  <2>2. SameLinks
    BY <2>1 DEF SameLinks, PeopleInvariant, LinksAreMinted
  <2>. QED
    BY <1>1, <1>2, <1>3, <2>1, <2>2, LeftAlone, ProjectsStay DEF MembersStay
<1>5. ASSUME NEW l \in Link, Revoke(l, by) PROVE ProjectsInvariant'
  <2>. DEFINE k == [link[l] EXCEPT !.is = "gone"]
  <2>1. link' = [link EXCEPT ![l] = k] /\ account' = account
    BY <1>5, Zenon DEF Revoke
  <2>2. k.on = link[l].on /\ k.project = link[l].project
    BY <1>1 DEF PeopleTypeOK, Invitation
  <2>. HIDE DEF k
  <2>3. SameLinks
    BY <1>1, <2>1, <2>2 DEF SameLinks, PeopleTypeOK
  <2>. QED
    BY <1>1, <1>2, <1>3, <2>1, <2>3, LeftAlone, ProjectsStay DEF MembersStay
<1>6. ASSUME NEW p \in Person, Promote(by, p) PROVE ProjectsInvariant'
  <2>1. \A q \in Person : account'[q].is = account[q].is /\ account'[q].by = account[q].by
    BY <1>1, <1>6 DEF Promote, PeopleTypeOK, Account
  <2>2. link' = link
    BY <1>6 DEF Promote
  <2>. QED
    BY <1>1, <1>2, <1>3, <2>1, <2>2, ProjectsStay DEF MembersStay, NobodyAppears, SameLinks
<1>. QED
  BY <1>4, <1>5, <1>6 DEF Manages

(* A project or a tenant that goes takes its members' places with it.        *)
LEMMA EndingsKeepProjects ==
    ASSUME PeopleInvariant, PeopleTypeOK', ProjectsInvariant,
           \/ IssueSetupToken \/ Stop
           \/ \E j \in Project : DeleteProject(j)
           \/ \E t \in Tenant : DeleteTenant(t)
    PROVE  ProjectsInvariant'
<1>1. PeopleTypeOK
  BY DEF PeopleInvariant
<1>2. \A m \in member : m[1] \in Person /\ account[m[1]].is = "here" /\ m[2] \in projects
  BY <1>1 DEF ProjectsInvariant, InTheirProject, Here, PeopleTypeOK
<1>3. CASE IssueSetupToken
  BY <1>3, OnlyRequestsMove DEF IssueSetupToken, StaysOrSettles
<1>4. CASE Stop
  <2>1. /\ UNCHANGED <<account, link, member, projects>> /\ cut \subseteq cut'
        /\ \A r \in Request : /\ asked'[r] = Idle
                              /\ asked[r].link # NoLink => asked[r].who \in cut'
    BY <1>4 DEF Stop
  <2>2. \A r \in Request : StaysOrSettles(r)
    BY <2>1, IdleIsHalf DEF StaysOrSettles, Settled, Making
  <2>. QED
    BY <2>1, <2>2, OnlyRequestsMove
<1>5. ASSUME NEW j \in Project, DeleteProject(j) PROVE ProjectsInvariant'
  <2>. DEFINE gone == {l \in Link : link[l].is \in {"live", "spent"} /\ link[l].project = j}
  <2>1. /\ link' = [l \in Link |-> IF l \in gone THEN [link[l] EXCEPT !.is = "gone"] ELSE link[l]]
        /\ projects' = projects \ {j} /\ member' = {m \in member : m[2] # j}
        /\ gone \in SUBSET Link /\ UNCHANGED <<account, asked, cut>>
    BY <1>5 DEF DeleteProject
  <2>. HIDE DEF gone
  <2>2. SameLinks
    BY <1>1, <2>1, LinksGoUnchanged
  <2>3. MembersStay
    BY <1>2, <2>1 DEF MembersStay
  <2>. QED
    BY <1>1, <2>1, <2>2, <2>3, LeftAlone, ProjectsStay DEF StaysOrSettles
<1>6. ASSUME NEW t \in Tenant, DeleteTenant(t) PROVE ProjectsInvariant'
  <2>. DEFINE its == {p \in Person : account[p].scope = t}
              gone == {l \in Link : \/ link[l].is \in {"live", "spent"} /\ link[l].scope = t
                                    \/ Deletes(l, its)}
  <2>1. /\ link' = [l \in Link |-> IF l \in gone THEN [link[l] EXCEPT !.is = "gone"] ELSE link[l]]
        /\ Erases(its) /\ gone \in SUBSET Link /\ UNCHANGED <<projects, asked, cut>>
    BY <1>6 DEF DeleteTenant
  <2>. HIDE DEF gone, its
  <2>2. SameLinks /\ MembersStay /\ NobodyAppears
    BY <1>1, <2>1, LinksGoUnchanged, ErasingTakesTheirs, ErasingIsQuiet
  <2>. QED
    BY <1>1, <2>1, <2>2, ProjectsStay DEF StaysOrSettles
<1>. QED
  BY <1>3, <1>4, <1>5, <1>6

(* Every step of it.                                                         *)
LEMMA ProjectsKeep ==
    ASSUME PeopleInvariant, ProjectsInvariant, [PeopleNext]_people
    PROVE  ProjectsInvariant'
<1>1. PeopleTypeOK'
  BY PeopleKeeps DEF PeopleInvariant
<1>2. CASE UNCHANGED people
  BY <1>1, <1>2, OnlyRequestsMove DEF people, StaysOrSettles
<1>3. CASE PeopleNext
  BY <1>1, <1>3, DoorKeepsProjects, UndoKeepsProjects, NewcomersKeepProjects,
     SpendKeepsProjects, GrantKeepsProjects, WritesKeepProjects, ManagingKeepsProjects,
     EndingsKeepProjects
     DEF PeopleNext, Accepts, Claims, Administers
<1>. QED
  BY <1>2, <1>3

(* Whoever joined through a link that named a project is in it while it      *)
(* exists, and nobody is in one that does not: for any number of people,     *)
(* links, requests and projects, and whatever is deleted meanwhile.          *)
THEOREM EverybodyInTheirProject == PeopleSpec => []InTheirProject
<1>1. PeopleInit => ProjectsInvariant
  BY IdleIsHalf, PeopleAssumption
     DEF PeopleInit, ProjectsInvariant, EachTheirOwn, NotTheirsYet, SpentOnSomebody,
         InTheirProject, Making, Here
<1>2. PeopleInvariant /\ ProjectsInvariant /\ [PeopleNext]_people => ProjectsInvariant'
  BY ProjectsKeep
<1>3. ProjectsInvariant => InTheirProject
  BY DEF ProjectsInvariant
<1>. QED
  BY <1>1, <1>2, <1>3, PeopleHold, PTL DEF PeopleSpec

==============================================================================
