------------------------------- MODULE People -------------------------------
(* Who has an account on a node: the first one, made against the setup      *)
(* token; every other, made by whoever opens an invitation; and the rules   *)
(* that keep a node from losing its last administrator (infra::accounts,    *)
(* accounts::invitations, features::people, features::organisations).       *)
(* Each read and each write of the database is one step; requests run       *)
(* beside one another and stop wherever the process does.                   *)

CONSTANTS
    Person,     \* every account there can be; an id is never used twice
    Link,       \* every invitation there can be
    Request,    \* how many requests can be half way at once
    Machine,    \* the scope of the node's own people
    Tenant,     \* the organisations there are, a scope each
    Project,    \* the projects there are
    HomeOf,     \* project -> the scope it belongs to
    Form,       \* every way the form of an invitation is filled in
    Nobody, NoLink, NoProject,
    OwnRules    \* bound: two checks of the administrators' rule overlap

ASSUME PeopleAssumption ==
    /\ Machine \notin Tenant
    /\ HomeOf \in [Project -> Tenant \cup {Machine}]
    /\ Form \subseteq [role : {"admin", "member"}, scope : Tenant \cup {Machine},
                       project : Project \cup {NoProject}]
    /\ Nobody \notin Person /\ NoLink \notin Link /\ NoProject \notin Project

VARIABLES
    setup,      \* the setup token is issued and not spent
    account,    \* person -> what there is, or was, of their account
    link,       \* link -> what there is, or was, of an invitation
    member,     \* who is in which project
    tenants,    \* the organisations that still exist
    projects,   \* the projects that still exist
    asked,      \* request -> what it has read and goes on with
    cut,        \* history: whoever a stop left half way
    kept        \* history: whoever the rule kept when they had to go

people == <<setup, account, link, member, tenants, projects, asked, cut, kept>>

Role == {"admin", "member"}
Scope == Tenant \cup {Machine}
Claim == NoLink  \* made by the setup token and by no invitation

Account == [is : {"never", "here", "gone"}, role : Role, scope : Scope,
            by : Link \cup {NoLink}]
Invitation == [is : {"unminted", "live", "spent", "gone"}, role : Role,
               scope : Scope, project : Project \cup {NoProject},
               by : Person \cup {Nobody}, on : Person \cup {Nobody}]
Half == [at : {"idle", "claiming", "found", "claimed", "looked", "made", "spent",
               "undoing", "erasing", "demoting"},
         link : Link \cup {NoLink}, who : Person \cup {Nobody}]

Idle == [at |-> "idle", link |-> NoLink, who |-> Nobody]

PeopleInit ==
    /\ setup = FALSE
    /\ account = [p \in Person |->
         [is |-> "never", role |-> "member", scope |-> Machine, by |-> NoLink]]
    /\ link = [l \in Link |->
         [is |-> "unminted", role |-> "member", scope |-> Machine,
          project |-> NoProject, by |-> Nobody, on |-> Nobody]]
    /\ member = {} /\ tenants = Tenant /\ projects = Project
    /\ asked = [r \in Request |-> Idle]
    /\ cut = {} /\ kept = {}

Here(p) == account[p].is = "here"
AnyAccount == \E p \in Person : account[p].is = "here"
IsAdmin(p) == Here(p) /\ account[p].role = "admin" /\ account[p].scope = Machine
AdministersScope(p, s) ==
    Here(p) /\ account[p].role = "admin" /\ account[p].scope = s

\* The count is one at most, and it is them.
OnlyAdministrator(p) == IsAdmin(p) /\ \A q \in Person : IsAdmin(q) => q = p

Becomes(r, at) == asked' = [asked EXCEPT ![r].at = at]
Ends(r) == asked' = [asked EXCEPT ![r] = Idle]

------------------------------------------------------------------------------
(* The first account *)

IssueSetupToken ==
    /\ ~AnyAccount
    /\ setup' = TRUE
    /\ UNCHANGED <<account, link, member, tenants, projects, asked, cut, kept>>

LookForAnyAccount(r) ==
    /\ asked[r] = Idle /\ ~AnyAccount
    /\ Becomes(r, "claiming")
    /\ UNCHANGED <<setup, account, link, member, tenants, projects, cut, kept>>

FindSetupToken(r) ==
    /\ asked[r].at = "claiming"
    /\ IF setup THEN Becomes(r, "found") ELSE Ends(r)
    /\ UNCHANGED <<setup, account, link, member, tenants, projects, cut, kept>>

\* Spent before the account is there, and also if somebody spent it meanwhile.
SpendSetupToken(r) ==
    /\ asked[r].at = "found"
    /\ setup' = FALSE
    /\ Becomes(r, "claimed")
    /\ UNCHANGED <<account, link, member, tenants, projects, cut, kept>>

InsertFirst(r, p) ==
    /\ asked[r].at = "claimed" /\ account[p].is = "never"
    /\ account' = [account EXCEPT ![p] =
         [is |-> "here", role |-> "admin", scope |-> Machine, by |-> Claim]]
    /\ Ends(r)
    /\ UNCHANGED <<setup, link, member, tenants, projects, cut, kept>>

------------------------------------------------------------------------------
(* Invitations *)

\* The three forms that mint one, and what each lets who ask for.
MayInvite(by, f) ==
    \/ IsAdmin(by) /\ f.scope = Machine
    \/ IsAdmin(by) /\ f.scope \in tenants /\ f.role = "admin" /\ f.project = NoProject
    \/ f.scope \in Tenant /\ AdministersScope(by, f.scope)

CreateInto(l, by, f) ==
    /\ link[l].is = "unminted" /\ MayInvite(by, f)
    /\ f.project # NoProject => f.project \in projects /\ HomeOf[f.project] = f.scope
    /\ link' = [link EXCEPT ![l] =
         [is |-> "live", role |-> f.role, scope |-> f.scope, project |-> f.project,
          by |-> by, on |-> Nobody]]
    /\ UNCHANGED <<setup, account, member, tenants, projects, asked, cut, kept>>

\* A spent one too: the row goes, and what was made with it stays.
Revoke(l, by) ==
    /\ link[l].is \in {"live", "spent"}
    /\ IsAdmin(by) \/ AdministersScope(by, link[l].scope)
    /\ link' = [link EXCEPT ![l].is = "gone"]
    /\ UNCHANGED <<setup, account, member, tenants, projects, asked, cut, kept>>

LookUp(r, l) ==
    /\ asked[r] = Idle /\ link[l].is = "live"
    /\ asked' = [asked EXCEPT ![r] = [at |-> "looked", link |-> l, who |-> Nobody]]
    /\ UNCHANGED <<setup, account, link, member, tenants, projects, cut, kept>>

CreateIn(r, p) ==
    LET seen == link[asked[r].link] IN
    /\ asked[r].at = "looked" /\ account[p].is = "never"
    /\ seen.scope \in tenants \cup {Machine}
    /\ account' = [account EXCEPT ![p] =
         [is |-> "here", role |-> seen.role, scope |-> seen.scope, by |-> asked[r].link]]
    /\ asked' = [asked EXCEPT ![r] = [at |-> "made", link |-> @.link, who |-> p]]
    /\ UNCHANGED <<setup, link, member, tenants, projects, cut, kept>>

\* The name is taken, the password too short, the organisation gone.
CreateRefused(r) ==
    /\ asked[r].at = "looked"
    /\ Ends(r)
    /\ UNCHANGED <<setup, account, link, member, tenants, projects, cut, kept>>

\* Faulty: the update does not ask whether the link is unspent.
SpendAnyway(r) ==
    LET l == asked[r].link IN
    /\ asked[r].at = "made" /\ Here(asked[r].who)
    /\ link' = [link EXCEPT ![l].is = "spent", ![l].on = asked[r].who]
    /\ IF link[l].project = NoProject THEN Ends(r) ELSE Becomes(r, "spent")
    /\ UNCHANGED <<setup, account, member, tenants, projects, cut, kept>>

\* Only while it is unspent; `used_by` has to name an account that is there.
Spend(r) ==
    LET l == asked[r].link IN
    /\ asked[r].at = "made"
    /\ \/ /\ link[l].is = "live" /\ Here(asked[r].who)
          /\ link' = [link EXCEPT ![l].is = "spent", ![l].on = asked[r].who]
          /\ IF link[l].project = NoProject THEN Ends(r) ELSE Becomes(r, "spent")
       \/ link[l].is = "live" /\ ~Here(asked[r].who) /\ Ends(r) /\ UNCHANGED link
       \/ link[l].is # "live" /\ Becomes(r, "undoing") /\ UNCHANGED link
    /\ UNCHANGED <<setup, account, member, tenants, projects, cut, kept>>

\* Faulty: the project is not asked whether it is still there.
GrantAnyway(r) ==
    /\ asked[r].at = "spent"
    /\ member' = member \cup {<<asked[r].who, link[asked[r].link].project>>}
    /\ Ends(r)
    /\ UNCHANGED <<setup, account, link, tenants, projects, cut, kept>>

\* Membership of the project the link named, if the project is still there.
Grant(r) ==
    LET p == asked[r].who
        j == link[asked[r].link].project
    IN
    /\ asked[r].at = "spent"
    /\ member' = IF Here(p) /\ j \in projects THEN member \cup {<<p, j>>} ELSE member
    /\ Ends(r)
    /\ UNCHANGED <<setup, account, link, tenants, projects, cut, kept>>

------------------------------------------------------------------------------
(* Taking people out, and down *)

\* Nobody else is between this rule's check and its write.
RuleIsFree == OwnRules \/ \A r \in Request : asked[r].at \notin {"erasing", "demoting"}

\* node_user_remove_person, tenant_user_remove_person, node_user_remove_owner.
MayRemove(by, p) ==
    \/ IsAdmin(by) /\ by # p /\ account[p].scope = Machine
    \/ account[p].scope \in Tenant /\ AdministersScope(by, account[p].scope)
    \/ IsAdmin(by) /\ account[p].scope \in Tenant /\ account[p].role = "admin"

RemovePerson(r, by, p) ==
    /\ asked[r] = Idle /\ RuleIsFree
    /\ Here(p) /\ MayRemove(by, p) /\ ~OnlyAdministrator(p)
    /\ asked' = [asked EXCEPT ![r] = [at |-> "erasing", link |-> NoLink, who |-> p]]
    /\ UNCHANGED <<setup, account, link, member, tenants, projects, cut, kept>>

\* The same delete, for an account whose link somebody else had spent.
UndoAccount(r) ==
    /\ asked[r].at = "undoing" /\ RuleIsFree
    /\ IF OnlyAdministrator(asked[r].who)
       THEN Ends(r) /\ kept' = kept \cup {asked[r].who}
       ELSE Becomes(r, "erasing") /\ UNCHANGED kept
    /\ UNCHANGED <<setup, account, link, member, tenants, projects, cut>>

\* What goes with the accounts: their memberships, the invitations they made.
Erases(who) ==
    /\ account' = [p \in Person |->
         IF p \in who /\ Here(p) THEN [account[p] EXCEPT !.is = "gone"] ELSE account[p]]
    /\ member' = {m \in member : m[1] \notin who}

Deletes(l, who) == link[l].is \in {"live", "spent"} /\ link[l].by \in who

Erase(r) ==
    /\ asked[r].at = "erasing"
    /\ Erases({asked[r].who})
    /\ link' = [l \in Link |->
         IF Deletes(l, {asked[r].who}) THEN [link[l] EXCEPT !.is = "gone"] ELSE link[l]]
    /\ Ends(r)
    /\ UNCHANGED <<setup, tenants, projects, cut, kept>>

MaySetRole(by, p) ==
    \/ IsAdmin(by) /\ account[p].scope = Machine
    \/ account[p].scope \in Tenant /\ AdministersScope(by, account[p].scope)

\* Faulty: the check reads the role that is asked for and not who is left.
DemoteAnybody(r, by, p) ==
    /\ asked[r] = Idle /\ RuleIsFree
    /\ Here(p) /\ MaySetRole(by, p)
    /\ asked' = [asked EXCEPT ![r] = [at |-> "demoting", link |-> NoLink, who |-> p]]
    /\ UNCHANGED <<setup, account, link, member, tenants, projects, cut, kept>>

Demote(r, by, p) ==
    /\ asked[r] = Idle /\ RuleIsFree
    /\ Here(p) /\ MaySetRole(by, p) /\ ~OnlyAdministrator(p)
    /\ asked' = [asked EXCEPT ![r] = [at |-> "demoting", link |-> NoLink, who |-> p]]
    /\ UNCHANGED <<setup, account, link, member, tenants, projects, cut, kept>>

WriteRole(r) ==
    LET p == asked[r].who IN
    /\ asked[r].at = "demoting"
    /\ account' = IF Here(p) THEN [account EXCEPT ![p].role = "member"] ELSE account
    /\ Ends(r)
    /\ UNCHANGED <<setup, link, member, tenants, projects, cut, kept>>

Promote(by, p) ==
    /\ Here(p) /\ MaySetRole(by, p)
    /\ account' = [account EXCEPT ![p].role = "admin"]
    /\ UNCHANGED <<setup, link, member, tenants, projects, asked, cut, kept>>

------------------------------------------------------------------------------
(* What people are in *)

DeleteProject(j) ==
    /\ j \in projects
    /\ projects' = projects \ {j}
    /\ member' = {m \in member : m[2] # j}
    /\ link' = [l \in Link |->
         IF link[l].is \in {"live", "spent"} /\ link[l].project = j
         THEN [link[l] EXCEPT !.is = "gone"] ELSE link[l]]
    /\ UNCHANGED <<setup, account, tenants, asked, cut, kept>>

\* Refused while it owns projects; its people and its invitations go with it.
DeleteTenant(t) ==
    LET its == {p \in Person : account[p].scope = t} IN
    /\ t \in tenants /\ \A j \in projects : HomeOf[j] # t
    /\ tenants' = tenants \ {t}
    /\ Erases(its)
    /\ link' = [l \in Link |->
         IF (link[l].is \in {"live", "spent"} /\ link[l].scope = t) \/ Deletes(l, its)
         THEN [link[l] EXCEPT !.is = "gone"] ELSE link[l]]
    /\ UNCHANGED <<setup, projects, asked, cut, kept>>

\* Every request is lost where it was; what it wrote is written.  With none
\* on its way a stop changes nothing here.
Stop ==
    /\ \E r \in Request : asked[r] # Idle
    /\ cut' = cut \cup {asked[r].who : r \in {q \in Request : asked[q].link # NoLink}}
    /\ asked' = [r \in Request |-> Idle]
    /\ UNCHANGED <<setup, account, link, member, tenants, projects, kept>>

------------------------------------------------------------------------------

Accepts(r) ==
    \/ \E l \in Link : LookUp(r, l)
    \/ \E p \in Person : CreateIn(r, p)
    \/ CreateRefused(r) \/ Spend(r) \/ Grant(r) \/ UndoAccount(r)

Claims(r) ==
    \/ LookForAnyAccount(r) \/ FindSetupToken(r) \/ SpendSetupToken(r)
    \/ \E p \in Person : InsertFirst(r, p)

Administers(r) ==
    \/ \E by, p \in Person : RemovePerson(r, by, p) \/ Demote(r, by, p)
    \/ Erase(r) \/ WriteRole(r)

Manages(by) ==
    \/ \E l \in Link, f \in Form : CreateInto(l, by, f)
    \/ \E l \in Link : Revoke(l, by)
    \/ \E p \in Person : Promote(by, p)

PeopleNext ==
    \/ IssueSetupToken \/ Stop
    \/ \E r \in Request : Accepts(r) \/ Claims(r) \/ Administers(r)
    \/ \E by \in Person : Manages(by)
    \/ \E j \in Project : DeleteProject(j)
    \/ \E t \in Tenant : DeleteTenant(t)

PeopleSpec == PeopleInit /\ [][PeopleNext]_people

------------------------------------------------------------------------------

(* What every variable of the people's part holds. *)
PeopleTypeOK ==
    /\ setup \in BOOLEAN
    /\ account \in [Person -> Account]
    /\ link \in [Link -> Invitation]
    /\ member \subseteq Person \X Project
    /\ tenants \subseteq Tenant /\ projects \subseteq Project
    /\ asked \in [Request -> Half]
    /\ cut \subseteq Person \cup {Nobody} /\ kept \subseteq Person

\* A request is still making their account, or taking it back.
InHand(p) == \E r \in Request : asked[r].who = p /\ asked[r].link # NoLink

(* Nobody is here who was not let in: whoever opened a link has that link   *)
(* spent on them and on nobody else, however many visitors opened it at     *)
(* once, whatever became of the link, its maker or its project meanwhile.   *)
(* The exceptions are whoever a stop cut off between the account and the    *)
(* link, and whoever the last administrator's rule kept from being undone.  *)
Invited ==
    \A p \in Person :
        Here(p) /\ account[p].by # Claim =>
            \/ link[account[p].by].on = p
            \/ InHand(p) \/ p \in cut \cup kept

(* A node that has been claimed keeps an administrator, through removals,   *)
(* demotions, joins that are undone and stops ("a node with no              *)
(* administrator has nobody who can create one").                           *)
AdministratorRemains ==
    (\E p \in Person : account[p].is # "never" /\ account[p].by = Claim)
        => \E p \in Person : IsAdmin(p)

(* Whoever joined through a link that named a project is in it while it     *)
(* exists, and nobody is in a project that does not, or after they left.    *)
InTheirProject ==
    /\ \A p \in Person :
         LET j == link[account[p].by].project IN
         ( /\ Here(p) /\ account[p].by # Claim /\ link[account[p].by].on = p
           /\ j \in projects )
             => <<p, j>> \in member \/ InHand(p) \/ p \in cut
    /\ \A m \in member : Here(m[1]) /\ m[2] \in projects

==============================================================================
