------------------------------ MODULE Backups ------------------------------
(* When a node backs its databases up, what it keeps of that, and which     *)
(* moments a restore can still reach: the plan and its slots, a run of      *)
(* base backups, the archived log, and the hourly pass that drops what      *)
(* expired (infra::backup, backup::plan, repositories::wal_archive,         *)
(* cli::backup, the loops of cli::serve).  Backups stay in the node's own   *)
(* directory; a moment is one segment of a database's log, archived at once. *)
EXTENDS Naturals, FiniteSets

CONSTANTS
    Database,   \* the databases this node runs
    Runner,     \* who takes backups: the node's own process, and a command
    Here,       \* the one of them that holds the flag and follows the plan
    Failing,    \* bound: the databases whose base backup may be refused
    Stubborn,   \* bound: a directory may refuse to be removed
    KeepDays,   \* what somebody may ask the window to be
    Every,      \* from one slot of the plan to the next
    Late,       \* bound: the moment everything stops
    Most,       \* bound: how many backups there are on disk at once
    NoCopy      \* where a backup holds no copy of a database

ASSUME BackupsAssumption ==
    /\ Here \in Runner /\ Failing \subseteq Database
    /\ KeepDays \subseteq Nat /\ KeepDays # {}
    /\ Every \in Nat \ {0} /\ Late \in Nat /\ Most \in Nat /\ NoCopy \notin Nat

VARIABLES
    now,
    keep,       \* the plan's window
    attempt,    \* the row of the last attempt: when it began
    taking,     \* runner -> the backup it is taking
    disk,       \* the backups with a manifest
    pruned,     \* database -> every segment before this one is gone
    sweeping,   \* what the retention pass read, and has left to drop
    horizon,    \* history: how far the widest pass let go of the past
    first       \* history: database -> when a backup first held it

backups == <<now, keep, attempt, taking, disk, pruned, sweeping, horizon, first>>

Moment == 0 .. Late
Copies == [Database -> Moment \cup {NoCopy}]
Manifest == [at : Moment, start : Copies]
Taking == [on : BOOLEAN, at : Moment, left : SUBSET Database, start : Copies, sent : BOOLEAN]
Sweeping == [on : BOOLEAN, kept : SUBSET Manifest, expired : SUBSET Manifest]

NotTaking == [on |-> FALSE, at |-> 0, left |-> {}, start |-> [d \in Database |-> NoCopy],
              sent |-> FALSE]
NotSweeping == [on |-> FALSE, kept |-> {}, expired |-> {}]
Never == Late + 1

\* No shorter than a day: a pass would drop the backup it follows.
Days(k) == IF k < 1 THEN 1 ELSE k

BackupsInit ==
    /\ now = 0 /\ attempt = Never
    /\ keep \in {Days(k) : k \in KeepDays}
    /\ taking = [r \in Runner |-> NotTaking]
    /\ disk = {}
    /\ pruned = [d \in Database |-> 0]
    /\ sweeping = NotSweeping
    /\ horizon = 0 /\ first = [d \in Database |-> Never]


------------------------------------------------------------------------------
(* What a restore can reach *)

Holds(b, d) == b.start[d] # NoCopy

\* The newest at or before the moment that holds the database, or none.
BaseFor(d, m) ==
    {b \in disk : /\ b.at <= m /\ Holds(b, d)
                  /\ \A c \in disk : c.at <= m /\ Holds(c, d) => c.at <= b.at}

\* Every segment from where the base begins: replay stops at a hole.
Reaches(b, d, m) == pruned[d] <= b.start[d] /\ b.start[d] <= m

Reachable(d, m) == \E b \in BaseFor(d, m) : Reaches(b, d, m)

\* What the page of a database promises: from its oldest backup, to its log.
Window(d) ==
    {m \in 0 .. now : \E b \in disk : Holds(b, d) /\ b.at <= m}

------------------------------------------------------------------------------
(* Taking one *)

Slot(t) == t - (t % Every)

Due == attempt = Never \/ attempt < Slot(now)

Starts(r) ==
    /\ ~taking[r].on /\ Cardinality(disk) < Most
    /\ taking' = [taking EXCEPT ![r] =
         [on |-> TRUE, at |-> now, left |-> Database, start |-> [d \in Database |-> NoCopy],
          sent |-> FALSE]]
    /\ UNCHANGED <<now, keep, attempt, disk, pruned, sweeping, horizon, first>>

\* The loop's own: refused, and nothing recorded, while the flag is up.
Scheduled == Due /\ Starts(Here)

\* A button, an errand, or the command in a process of its own.
ByHand(r) == Starts(r)

\* The engine's own copy begins where the log is now; a refusal is skipped.
BacksUp(r, d) ==
    /\ taking[r].on /\ d \in taking[r].left
    /\ \/ taking' = [taking EXCEPT ![r].left = @ \ {d}, ![r].start[d] = now]
       \/ d \in Failing /\ taking' = [taking EXCEPT ![r].left = @ \ {d}]
    /\ UNCHANGED <<now, keep, attempt, disk, pruned, sweeping, horizon, first>>

TakenAt(r) == now

\* Without this file a directory is no backup.
WritesManifest(r) ==
    LET b == [at |-> TakenAt(r), start |-> taking[r].start] IN
    /\ taking[r].on /\ taking[r].left = {} /\ ~taking[r].sent
    /\ \A c \in disk : c.at # b.at
    /\ disk' = disk \cup {b}
    /\ taking' = [taking EXCEPT ![r].sent = TRUE]
    /\ first' = [d \in Database |-> IF Holds(b, d) /\ first[d] = Never THEN b.at ELSE first[d]]
    /\ UNCHANGED <<now, keep, attempt, pruned, sweeping, horizon>>

\* Nowhere to put it, no node.db, no room for the manifest: nothing was taken.
RunFails(r) ==
    /\ taking[r].on /\ ~taking[r].sent
    /\ taking' = [taking EXCEPT ![r].sent = TRUE]
    /\ UNCHANGED <<now, keep, attempt, disk, pruned, sweeping, horizon, first>>

\* One that missed a database is recorded too, as one that did not work.
Records(r) ==
    /\ taking[r].on /\ taking[r].sent
    /\ attempt' = taking[r].at
    /\ taking' = [taking EXCEPT ![r] = NotTaking]
    /\ UNCHANGED <<now, keep, disk, pruned, sweeping, horizon, first>>

------------------------------------------------------------------------------
(* The retention pass *)

Horizon == IF keep > now THEN 0 ELSE now - keep

\* Faulty: what is inside the window and nothing that anchors it.
KeepsInside == {b \in disk : b.at >= Horizon}

\* Everything in the window, and the newest one before it.
Keeping == {b \in disk : b.at >= Horizon \/ \A c \in disk : c.at < Horizon => c.at <= b.at}

SweepReads ==
    /\ ~sweeping.on
    /\ sweeping' = [on |-> TRUE, kept |-> Keeping, expired |-> disk \ Keeping]
    /\ horizon' = IF Horizon > horizon THEN Horizon ELSE horizon
    /\ UNCHANGED <<now, keep, attempt, taking, disk, pruned, first>>

Drops(b) ==
    /\ sweeping.on /\ b \in sweeping.expired
    /\ disk' = disk \ {b} \/ (Stubborn /\ UNCHANGED disk)
    /\ sweeping' = [sweeping EXCEPT !.expired = @ \ {b}]
    /\ UNCHANGED <<now, keep, attempt, taking, pruned, horizon, first>>

\* Faulty: the newest.
NewestKept == {b \in sweeping.kept : \A c \in sweeping.kept : c.at <= b.at}

OldestKept == {b \in sweeping.kept : \A c \in sweeping.kept : b.at <= c.at}

\* Each archive by its own; a database the oldest does not hold keeps its log.
Prunes ==
    /\ sweeping.on /\ sweeping.expired = {}
    /\ pruned' = [d \in Database |->
         IF \E b \in OldestKept : Holds(b, d) /\ b.start[d] > pruned[d]
         THEN (CHOOSE b \in OldestKept : TRUE).start[d] ELSE pruned[d]]
    /\ sweeping' = NotSweeping
    /\ UNCHANGED <<now, keep, attempt, taking, disk, horizon, first>>

------------------------------------------------------------------------------
(* What goes on meanwhile *)

TimePasses ==
    /\ now < Late
    /\ now' = now + 1
    /\ UNCHANGED <<keep, attempt, taking, disk, pruned, sweeping, horizon, first>>

StorePlan(k) ==
    /\ keep' = Days(k)
    /\ UNCHANGED <<now, attempt, taking, disk, pruned, sweeping, horizon, first>>

\* What is on its way is lost, and the flag with it.
BackupsStop ==
    /\ taking' = [taking EXCEPT ![Here] = NotTaking]
    /\ sweeping' = NotSweeping
    /\ UNCHANGED <<now, keep, attempt, disk, pruned, horizon, first>>

------------------------------------------------------------------------------

BackupsNext ==
    \/ Scheduled \/ SweepReads \/ Prunes \/ TimePasses \/ BackupsStop
    \/ \E r \in Runner : ByHand(r) \/ WritesManifest(r) \/ RunFails(r) \/ Records(r)
                       \/ \E d \in Database : BacksUp(r, d)
    \/ \E b \in sweeping.expired : Drops(b)
    \/ \E k \in KeepDays : StorePlan(k)

BackupsSpec == BackupsInit /\ [][BackupsNext]_backups

------------------------------------------------------------------------------

(* What every variable of the backups' part holds. *)
BackupsTypeOK ==
    /\ now \in Moment /\ keep \in Nat \ {0}
    /\ attempt \in Moment \cup {Never}
    /\ taking \in [Runner -> Taking]
    /\ disk \subseteq Manifest
    /\ pruned \in [Database -> Moment]
    /\ sweeping \in Sweeping
    /\ horizon \in Moment /\ first \in [Database -> Moment \cup {Never}]

(* Every moment of the window can be restored, of every database a backup    *)
(* ever held before it: an expired backup goes only once a newer one took    *)
(* over ("which is what makes the whole window reachable"), and no log goes  *)
(* that a restore inside the window replays, whatever is being taken, cut    *)
(* off or shortened meanwhile.                                               *)
WindowReachable ==
    \A d \in Database : \A m \in 0 .. now :
        horizon <= m /\ first[d] <= m => Reachable(d, m)

(* What the page of a database promises is what a restore reaches: any      *)
(* moment from its oldest backup to the end of its log, also in the middle  *)
(* of a pass, and of a database that was left out of some backups.          *)
PromiseKept == \A d \in Database : \A m \in Window(d) : Reachable(d, m)

==============================================================================
