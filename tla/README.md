# wabot-deploy, in TLA+

wabot-deploy turns a Linux machine into a deployment platform: containers,
databases, names with certificates, an image registry, backups, and a network
of such nodes that serve and run things for one another.  This directory models
the part of it that is hardest to test: what nodes ask of one another, and what
becomes of rows, containers, interfaces and certificates when calls are lost,
processes stop and two handlers cross.

Paths below are those of the repository; `infra/` and `web/` are under
`src/src/`.

## 1. Inventory

| part | state it keeps | operations | what makes it correct | module |
|---|---|---|---|---|
| errand network (`infra/network/errand.rs`, `collect.rs`, `call.rs`, `web/remote_node_rest_controller.rs`) | table `node_errand`; the collection loop's place | queue, hand over, collect, carry out, settle, revoke | nothing is settled that was not done; order; every errand answered; outcomes final | `Errands` |
| names answered elsewhere (`Deployer::tell_edges`, `edge_withdrawals.rs`, `edges.rs`, `collect::serve_name`, `network::claim/release`) | `service_edge`; `hostname_claim`; `edge_route` | tick, untick, tell, withdraw, claim, serve, release | a node serves exactly what its holder last asked; nobody is left serving an unticked name | `EdgeNames`, `NamesHeard`, `NameFeed` |
| one-time commands (`network::ask_once`, `collect::do_once`) | `obeyed:<action>` settings | restart, take a backup | not twice for one errand; answered means done | `Commands` |
| grants (`capability.rs`, `network::honour_offers`, `errand::consent_for`) | `node_grant`, `node_grant_withdrawn`, what is provided | join, form, report, the pass of a start | what was taken back stays taken back; taking on needs consent, putting down never does | `Consents`, `EdgeNames`, `Placement` |
| enrolment (`enrolment.rs`, `join.rs`, `token.rs`) | tokens, addresses, the rows of both sides | mint, join, confirm, forget | a token stands for one node; an address has one owner; no trust without an answer | `Enrolment` |
| tunnel and overlay (`tunnel.rs`, `roster.rs`, `lan.rs`, `overlay.rs`) | table `node`, WireGuard interface | census, ensure, rebuild, forget | the interface follows the rows; a healthy session is not rebuilt | `Overlay` |
| deployments (`infra/deploy/mod.rs`, `jobs.rs`, `restarts.rs`) | `service`, `replica`, containers, jobs | deploy, stop, watch, reconcile | one actor at a name; a stopped service stays stopped; what ends comes back | `Copies` |
| placement (`set_service_placement_command.rs`, `tell_holders`, `collect::host_service`) | where each copy is, what its node was told | place, deploy, stop, delete, drain, evict, report | whoever has a copy was told what is meant; who has none was told to let go | `Placement` |
| DNS zones (`infra/dns/`, `repositories/zones.rs`) | zone rows, the listener's table, what servers were told | edit, refresh, tell, recheck | serials never go back; servers end on the last zone; who was taken off is told | `Zones` |
| certificates (`infra/edge/acme.rs`, `certs.rs`, `policy.rs`) | certificates, policies, what the listener has loaded, what a database runs with | order, reinstall, sign, prune, hand over | what is stored is what is served; what was chosen answers; nothing lapses in silence | `Certificates` |
| backups (`infra/backup/`) | plan, attempt, manifests, archived log | schedule, take, note, sweep, prune | a restore reaches what the window promises | `Backups` |
| updates (`infra/update/`) | `update_run`, binary, staging file | look, stage, check, swap, restart, settle, put back | what was installed is never lost; "done" is what runs | `Updates` |
| accounts (`infra/accounts/`) | accounts, invitations, memberships | set up, invite, accept, demote, delete | nobody enters uninvited; an administrator remains | `People` |
| standbys (`deploy/standbys.rs`, `database.rs`) | replication of a managed database | dispatch, hold, withdraw | -- | not modelled |
| registry, runtime, repositories, console, cli | files, containerd, rows, forms | | mostly I/O and plain queries | as far as the above call them |

How they meet: console and API handlers write rows and call the deployer; the
deployer, the DNS dispatcher and the backup plan queue errands for other nodes;
the collection loop of the other node, which is the one that dials, carries
them out by calling the same deployer and repositories there, and reports back.
Everything is one process per node over one SQLite file: a statement or
transaction is atomic, and what is read before an `await` may be stale after it.

The hard behaviours, line by line, are the `hazards` of `PROJECT.json`.

## 2. What is modelled

### Errands (`Errands.tla`) -- the queue

| model | code |
|---|---|
| `table[n]` | the rows of `node_errand` in insertion order (`errand.rs`, `Record`); `to` is the node it is for, `from` the `asked_by` of one taken in, `subject` the column compared by `would_change` |
| `authority[n]` | `network::authorities`: the nodes n takes instructions from |
| `pass[n]` | where `collect::run_once` is: with which authority, at which of its legs (`hand_over`, the request, `carry_out`, `settle`), and the batch of rows it read when the leg began |
| `flight` | requests whose caller timed out and that may still arrive |
| `obeyed`, `faults` | history: what was carried out with what outcome; how many faults there were |

One leg hands over what is queued for the authority (`Begin`, `HandOver...`),
asks for what is queued here (`Collect`), and carries out and answers each row,
oldest first (`CarryOut`, `Settle...`).  `BeginHere` is the last leg, for rows a
node addressed to itself or took in.  Every call may fail, and a settlement or
a hand-over that timed out may arrive later, or never (`LateAsk`, `LateSettle`,
`Lose`).  A `Crash` loses the pass and no row.

### EdgeNames (`EdgeNames.tla`, `NamesHeard.tla`, `NameFeed.tla`) -- names

Extends `Errands` with edge errands (`name`, and what it `says`: a list of
upstreams, or none) and adds the two ends: the owner's rows and its two
concurrent actors (`task`: the form's handler and the deployer, each with a
list of things left to do: `tell_edges`, `sync_routes` with `withdraw_unwanted`,
the handler's own withdrawals), and the serving node's grants, claims, routes
and the two writes of `serve_name`.  `would_change` decides whether a telling is
queued.  Copies move in four ways (`Move`), told apart by what follows: a deployment
(`Deploy`) and a placement form (`SetPlacement`) tell the edges and rebuild the
routes; a report of a new port or an eviction (`Recorded`) only rebuilds the routes; a
drain (`Drained`) does neither.  `untold` remembers, until the next `tell_edges`, the
names that moved in the last two ways.  A start runs `Boot` on the owner (`reconcile`) and `release_ungranted`
on the serving node, beside the collection loop.  `Report` is the report that
opens each leg and carries the grants both ways.  `NameFeed` is the abstract
view an owner may have of one serving node: it reads what it is told in order,
takes nothing up before the answer to what came before, and serves what it read
last.  `NamesHeard` picks a `teller`, a `server` and a `name` and reads the three off
the rows and the route of the two nodes (`INSTANCE NameFeed WITH ...`).

### Commands (`Commands.tla`) -- restart and backup

Extends `Errands` with askings, and adds the ledger (`noted`, one id for
each action), the steps of `do_once` (refuse, skip, note, perform), the process
restart it leads to, and the backup flag that the schedule shares.

### Copies (`Copies.tla`) -- containers

One service on one node, and the four kinds of actor that move its copies:
deployment jobs, the pass over the rows at a start (`reconcile`), the watch, and
a stop.

| model | code |
|---|---|
| `wanted`, `address`, `reason` | `service.desired_state`; `replica.address` and `last_error` (`note`: what a restart leaves, `failure`: what a deployment leaves) |
| `container[c]` | what containerd holds under the copy's name: nothing, something that does not run, something that runs |
| `lock` | `deploy_lock()` for this service |
| `route` | the upstreams of its names, as `routing::sync` last wrote them |
| `episode` | `Restarts.episodes`, in memory |
| `tries` | how often a queued job failed; `task[j]` with `at = "lock"` is a job that waits, also for its retry |
| `task[a]` | where an actor is, with everything it read when it began: `meant`, `deployed`, `noted` of a pass, and the `rows` a sync read before it writes the routes |

A deployment is `Acquire` (lock and intent), then for each copy `Remove`,
`Create`, `Record`, then `ReadRows` and one of the `...Writes`, after which a job
and a start's deployment let go of the lock; a restart by the watch lets go at
`Record`.  The watch observes only while nobody has the lock (`Observing`), and
`Forget`, `Leave`, `Settle`, `StartAgain` are the answers of `Restarts::decide`;
waits and ten minutes of calm are choices.  A stop (`StopBegins`, `TakeDown`,
`ClearRow`, `StopWrites`) has no lock.  A `Crash` loses tasks, lock and episodes;
containers and jobs outlive it, and the start's pass begins.  Removing and
creating may fail half way and leave whatever came before the failure.

The service is not a managed database (those also dispatch standbys and look at
the container once more), has an image, and each copy is here.  The two writes of
`deploy_one` to one row are one step, and a pass visits the copies in any order.

### Placement (`Placement.tla`) -- where copies run

One service at its owner.  `rows` is `replica` (slot to place), `told` the last
errand queued for each holder and `derived` the last tagged one, which is what
`would_change` compares with (`errand.rs:772`).  The three ways of telling are
kept apart because the code keeps them apart: the form says `{running}` without
a subject, `tell_holders` derives it from rows and intent with a subject and is
silent when nothing changed, and a drain tells what is left.  `Handles` is a
handler's next step, from a list of those it has still to do; `Carry` is the
holder's `host_service`, `Evict` its operator, `PlacementStop` a stop of the
owner between any two steps.  Histories (`beside`, `unsaid`) name the
circumstances in which the code promises nothing: handlers that crossed since the
last start, holders told nothing because of a stop or for want of consent, and
holders whose derived word equals an older one that an untagged word hides.

Abstracted: submissions of one form change; a report is taken and arrives in one
step; no room on a node is any refusal of a running errand; managed databases,
volumes and `handed_up` are left out; a deleted service stays deleted.

### Consents (`Consents.tla`)

`given` and `withdrawn` are the two tables; `answering` is the form between its
two writes, `honouring` what `honour_offers` read at a start and will write.
`said` is what the operator last refused.

### Enrolment (`Enrolment.tla`)

Both sides of a join.  `token` and `row` are the authority's, `join`, `trusts`
and `mine` the joining node's, and `calls` what is on its way to the door: a
call can be answered late, or never, and the same token tried again.  The door's
writes, the joiner's writes and mints are single steps; `strayed` are the
joiners a stop cut short or somebody forgot, of which only less is promised.
`Apart` says that nothing else happens at the authority inside a call or a mint.

### People (`People.tla`)

`setup`, `account`, `link`, `member`, and `asked`, what each request has read
and goes on with: looking an invitation up, creating the account, spending the
link, and undoing it when the spending found it gone are separate steps
(`invitations.rs:205-290`), and so are counting the administrators and changing
one (`accounts/mod.rs:310-341`).  `OwnRules = FALSE` keeps those last two from
overlapping.  Sessions, sign-in, expiry and membership forms are left out.

### Backups (`Backups.tla`)

A moment is one segment of a database's log, archived at once.  `attempt` is the
row of the last attempt (written before the backup), `taking` a run under way,
`disk` the backups with a manifest, `sweeping` what the hourly pass read.
`horizon` and `first` record how far the widest window let go of the past, and
since when a database is backed up.  `Failing` are databases whose dump fails,
`Stubborn` says a directory may refuse to be removed.

### Updates (`Updates.tla`)

`runs` are the rows of `update_run`; `install[i]` is how far an install has come:
looked, started, staged, checked, the old binary put aside, the new one put
there, restarting.  `binary`, `incoming`, `previous` are the three files.  Every
step may fail, and the second of the two renames (`PutsThere`) with the first one
done: the row says so and nothing is at the path.  A process may stop and start anywhere (`StopsAndStarts`), or stop between the two
renames with nothing to start (`StopsForGood`), or the operator puts the old one
back.  `AtOnce` says that no two looks overlap between looking and writing their row.

### Zones (`Zones.tla`)

A zone at the node that administers it: the rows, the table its own listener
answers from, and what each other server was told.  `work[t].todo` is what a task
still does: insert or save, `read` and `store` the listener's table, `find`,
`gather` and `send` to the servers.  `names` is what the node answers as, which
goes into the NS records and not into any row.  The clock may go back,
and beyond what a serial holds: a serial has a largest (`MaxSerial`, `u32::MAX` in the
code), where it stays (`NextSerial`, `zone_serial.rs:7-10`).
`crossed` is set while forms have run beside another task since the last start;
`left` are servers a stop left untold.  Creating and deleting run alone; all
servers agreed to answer; one refresh's reads are one step.

### Certificates (`Certificates.tla`)

`choice` is the policy of a name, `file` what lies on disk, `stored` the
database, `served` and `shown` what the listener has, `cover` the node's own
certificate for all other names, `volume` what a database runs with.  `loop` is
where the certificate loop is with what it read, `hand` the pass over the
databases beside it.  Time is counted in windows of renewal and moves between
passes: with ACME on, after two whole passes (the loop runs twice a day, a window
is thirty days), and after every database was gone over.  With ACME off the loop
has no timer at all and runs when something changed.  An order brings a
certificate or not; challenges, accounts, DNS checks, backoff and other edges of
a name are left out.

### Overlay (`Overlay.tla`)

One node.  `rows` is table `node`, `census` what each authority would answer,
`kernel` the WireGuard interface, which outlives the process.  The start, the
collection loop and the handler of a join are three actors that each read all
rows (`ReadPeers`) and write the interface later (`WritePeers`), with no lock.
`ApplyMember` is one member of a roster and counts whether it moved;
`Configured`, `Rebuilt`, `Everything` and `Differs` are what `tunnel::needed` and
`tunnel::apply` compare and write; `Hear` is the kernel that learns an endpoint.
`owed` are the peers somebody changed without asking anybody to look: a report,
a forgotten node, a LAN address, a call that failed, a row written while another
had its list.  Names, anchors, recorded conflicts, the node's own key and port,
and how the kernel moves an address between peers are left out.

## 3. Runs

No run checks deadlock: people, containers and faults are bounded, and a node
with nothing to do really rests.

Modules that share no state are checked in one run, as a *sum*: `part` is chosen
at the start, one part moves, and the others stay as they are.  A state of the
sum is a state of one part with the initial states of the others, so the run
visits each part's states and no products; invariants of one part hold trivially
in the others' behaviours and are checked in its own.  `MCParts`, `MCTrust` and
`MCZones` are such sums; `MCEdgeModes` and `MCEdgeNames` do the same for two
questions about one module.

| run | question | bounds |
|---|---|---|
| `errands` | the promises of the queue, its answers in the end included | a hub and a member; 2 errands by the hub, 1 by the member, each for either or for itself; a fault of any of four kinds; revocations at any time |
| `edge_names` | the channel is used as `Errands` says (`Spec`), the feed is read in order (`ReadsInOrder`), names are where the copies are, a start lets go of what is not agreed to | 1 name, 2 places, 3 errands, 2 crashes or failed collections, copies moved in each of the four ways; and with a node that changes its mind 2 errands, 1 place, 1 fault, moved by deployments (`ByDeployments`) |
| `edge_modes` | two owners of one name keep apart; an owner whose errands are handed up | 3 nodes, 2 + 1 errands and a crash; the member as owner, 2 errands, a lost answer or a crash, a hub that changes its mind; moved by deployments |
| `copies` | deployments take turns, an answered stop holds, what stops comes back, notes go away | 2 copies, 1 deployment with its retries, 1 stop, 1 container that ends, 1 failing call or crash |
| `zones` | zone: servers told, others told to stop, serials, the listener catches up.  Overlay: the interface follows, sessions survive | one other server, 2 records (one a CNAME), 2 forms, 4 changes or clock moves or stops, serials up to 4 and a clock that says 5, 3 or 1.  A hub, another member and a node that joins, 3 addresses, 2 changes, 1 fault of any of six kinds |
| `people` | invited, an administrator remains, in their own project | 3 people, 2 links, 2 requests at once, one organisation and project, a stop anywhere |
| `trust` | enrolment: trust is mutual, addresses agree.  Certificates: stored is served, chosen answers, time takes nothing | 2 nodes, 2 tokens, 2 calls, 2 addresses.  A console and a database, 2 changes, a lifetime of 2 windows, 2 ticks |
| `parts` | commands once, consent holds, backups reach, updates lose no binary, placement is told | 2 restarts and a backup, hub 2 errands, member 1, any fault; 2 capabilities; 1 database, 4 moments, windows 0 and 2; 3 releases, 2 installers, 3 attempts; 2 holders, 2 slots, 1 handler, 3 presses |
| `edge_replay`, `copies_stopped`, `placement_stopped`, `certificates_lapse` | disagreements between the code and its own documents, each with a shortest trace | see section 5 |

Why the bounds are enough to be interesting: an overtaken answer needs two
errands to one node and one lost settlement; a crash half way needs one crash; a
late settlement against a repeated one needs one call that timed out and a second
pass; a rival needs a second owner; two visitors with one link, two
administrators who demote each other, and two forms of one zone need two
requests; a backup that anchors a window needs two before it expires; a listener
that is behind needs one change between two passes; a serial at its largest
needs two changes after it was made, or one with a clock that is ahead; an older list of peers
written last needs two actors and one change.  Each bound admits at least that.
Larger ones that were run as well: `Placement` with four presses (9.3 million
states), and with one slot and two handlers.

Each inductive invariant of section 4 was model-checked before it was proved:
`OwnersInvariant` and `RoutesInvariant` of names in both edge runs (1.36 million and
229 thousand states), `PlacementInvariant` with one holder, one slot and six presses
(1.35 million), `HeardInvariant` and `FeedHolds` in `edge_names` (229 thousand),
`TellingInvariant` with two records, two forms and four changes (1.65
million) and with two servers and three changes, `UpdatesInvariant` with 3 releases, 2 installers and 3 attempts (119 thousand), those of commands with three errands
of the hub and a fault (313 thousand), those of `Enrolment`, and of `People` also with
`OwnRules = TRUE`.

The passing runs leave out, by a constant, exactly the circumstance a finding or
a known hole needs, so that what holds otherwise is shown to hold: `FaultKinds`
without a lost settlement in the runs of names and `Patient` for commands (a
second asking waits for the first's answer), `Beside = {}` in `copies` (nobody is
at work when a stop is asked for), `OwnRules = FALSE` in `people`, `Apart = TRUE`
in `trust`, `AtOnce = TRUE`, one `Runner`, `Failing = {}` and `Stubborn = FALSE` in `parts`.
With the other value the property is false, and section 5 says what that means.

### Fairness

`FairSpec` (errands) asks: strong fairness of beginning a leg with each authority
and with the node's own rows, because `loop_forever` runs a pass every fifteen
seconds (or when the doorbell rings) and `run_once` visits each authority and then
its own rows every time; weak fairness of each step inside a leg, because they
wait for nothing but a call with a timeout.  No fairness is asked of crashes, lost
calls or people.  Faults are finite in a run: an answer that is lost every time
is never settled, in the code too.  `edge_names` adds that start-up clears each
claim it listed, which waits for nobody.  `CopiesFairness` asks that every task
goes on (a held lock is always let go of: each call under it has a timeout and
the faults of a run are finite); and strong fairness of `StartAgain` and
`Settle`, because passes come every ten seconds, the longest wait between two
starts is five minutes, and a copy that stays up is up for ten minutes.
`ZonesSpec` asks that the listener's own loop goes on with what it began, and
rechecks: it does so once a minute whatever happens.  The others state safety only.

### Mutants

Each property of a passing run is paired with a faulty form of a definition it
depends on (the operators commented `Faulty:`), which the run refutes.

## 4. What is proved

| module | theorem | says |
|---|---|---|
| `ErrandsProofs` | `BooksAreKept`, `TypesHold` | the queue is well formed: `Spec => [](TypeOK /\ Bookkeeping)` |
| | `AnswersAreReal` | `Spec => []SettledMeansAnswered` |
| | `OrderIsKept` | `Spec => []FirstInOrder` |
| | `OutcomesAreFinal` | `Spec => SettledIsFinal` |
| `CopiesProofs` | `CopiesTypesHold` | `CopiesSpec => []CopiesTypeOK` |
| | `NamesAreFree` | `CopiesSpec => []NameIsFree`, whoever is in `Beside` |
| | `AnsweredStopsHold` | `Beside = {}` implies `CopiesSpec => []StopHolds` |
| `EdgeNamesProofs` | `NamesUseTheQueue` | `EdgeSpec => Spec`: every step about a name is a step of the queue or leaves it alone |
| | `OwnersFinishWhatTheyBegin`, `OnlyTheChosenAreTold`, `TheLastInstructionIsCurrent` | `~Concurrent` implies `EdgeSpec => []OnlyChosenTold` and `[]LastInstructionIsCurrent` |
| | `ServersHoldWhatTheyServe`, `RoutesAreTheHolders` | `EdgeSpec => []RouteIsHolders`, whatever `Concurrent` |
| | `TheServerIsTheTellersOnly`, `NamesAreReadInOrder`, `TheLastIsServed` | `OneTeller` and `AnswersArrive` imply `EdgeSpec => ReadsInOrder` and `[]Hears!ServesTheLast`, whatever `Concurrent` |
| `PartsProofs` | `HoldersObey`, `SilenceIsAlwaysRight` | `PlacementSpec => []SilenceIsRight` |
| | `PlacementHolds`, `EverybodyIsTold`, `DeletedIsAlwaysLetGo` | `PlacementSpec => []ToldWhatIsPlaced` and `[]DeletedIsLetGo` |
| | `ConsentsHold`, `WithdrawalsHold` | `ConsentsSpec => []WithdrawalHolds` |
| | `PartsAreTyped` | `MCSpec => []PartsTypeOK`, with no other hypothesis |
| `TrustProofs` | `EnrolmentHolds`, `TrustedBothWays` | `EnrolmentSpec => []TrustIsMutual`, whatever `Apart` |
| | `AddressesHold`, `PromisesAreFree`, `AddressesAgree` | `Apart` implies `EnrolmentSpec => []PromisedAddressIsFree` and `[]AddressAgreed` |
| | `ListenerHolds`, `ServedAsStored` | `CertificatesSpec => []ServedIsStored` |
| | `WindowHolds`, `NamesAnsweredAsChosen`, `HeldThroughTheWindow` | `CertificatesSpec => []AnsweredAsChosen`, `CertificatesSpec => HeldInTime` |
| `UpkeepProofs` | `UpdatesHold`, `BinaryStaysBeside`, `DoneIsRunning` | `AtOnce` implies `UpdatesSpec => []BinaryIsKept` and `[]DoneIsWhatRuns` |
| | `BackupsHold`, `PromisesAreKept`, `WindowsAreReachable` | `Smoothly` implies `PromiseKept` and `WindowReachable` |
| | `UpdatesTypesHold`, `BackupsTypesHold` | `UpdatesSpec => []UpdatesTypeOK`, `BackupsSpec => []BackupsTypeOK`, whatever `AtOnce`, `Runner`, `Failing` and `Stubborn` |
| | `RestartsAreHeard`, `AnsweredRestartsHappen` | `CommandSpec => []AnsweredRestartHappened` |
| | `OneNoteIsEnough`, `ErrandsAreDoneOnce` | `OneSource` and `Patient` imply `CommandSpec => []OnceForEachErrand` |
| `NetworkProofs` | `ZonesAreTyped`, `SerialsAreKept`, `SerialsMoveForward` | `ZonesSpec => SerialMovesForward` |
| | `TellingHolds`, `ServersAreTold`, `OthersAreTold` | `ZonesSpec => []CurrentIsTold`, `ZonesSpec => []NobodyElseAnswers` |
| | `OverlayHolds`, `InterfaceFollows`, `SessionsAreKept` | `OverlaySpec => []FollowsTheRows`, `OverlaySpec => SessionsSurvive` |
| `PeopleProofs` | `PeopleHold`, `EverybodyWasInvited` | `PeopleSpec => []Invited`, whatever `OwnRules` |
| | `AnAdministratorRemains` | `~OwnRules` implies `PeopleSpec => []AdministratorRemains` |
| | `EverybodyInTheirProject` | `PeopleSpec => []InTheirProject`, whatever `OwnRules` |

Each is for every value of the constants that satisfies the named assumptions
beside their declarations, which TLC evaluates in the runs that extend the module; the bounds are only
natural numbers.

### The queue

**The inductive invariant.**  Neither `SettledMeansAnswered` nor `FirstInOrder`
is inductive: a state in which an answer is under way for something nobody
carried out satisfies both until the answer arrives.  `Bookkeeping` is what is
missing: a leg never is with oneself as an authority (`ReachesOthers`), its batch
holds rows that exist and are addressed as they should (`HoldsRows`), whatever
is older than the batch and not in it has been dealt with (`HoldsTheOldest`), the
answer in hand, and every late one, is of something carried out (`AnswersTruly`,
`ArrivesTrue`).  TLC finds it kept in the instance of `errands`.

**The argument.**  Every step only lets the tables *grow*: a row is never removed
or rewritten, a settled one never changes, and what was carried out stays so.
So each fact about a row survives every step, and only what a step newly writes,
reads into a batch or puts in flight has to be looked at: one lemma for each
action.  That the oldest of a non-empty batch exists rests on the well-ordering
of the naturals (`OldestIsLeast`).

**Assumptions.**  `NobodyJoinsItself` (a node refuses its own token),
`NoSubjectIsNone` and `BoundsAreNaturals`, which TLC evaluates in every run.

### The copies

**Taking turns.**  `NameIsFree` needs `LockHeld`: whoever moves a container has the
lock.  That the watch does, which lets go of the lock at the first row it
writes, rests on its having exactly one copy in hand.  One lemma
(`OneActorKeepsTurns`) says what any single actor's step must respect, and each
actor is shown to respect it; a crash drops the lock together with every task.

**Stopping.**  `StopHolds` only looks at a stop that was answered, so the invariant
must say what a stop under way has already achieved and why nobody undoes it
behind its back: `Calm` (from its beginning nothing is wanted, no job is there
and the passes that begin see that), `Stopping` (every copy it went over is down
and has no address, and what it read for the routes is empty) and `Stopped` (so is what
the start's pass reads after).  The argument has two halves: before a stop,
nothing but its beginning matters (`NoStopYet`); from then on only reading steps,
the stop itself, exits and crashes can happen (`NobodyStarts`), and each keeps
what was achieved.  `Beside = {}` is a hypothesis of the theorem and not a
convenience: without it the statement is false (`copies_stopped`).

### Consent, enrolment, people

*Consents.*  What another node is granted is what was given less what was
withdrawn, and the two are tables of their own: `withdrawn = said` is inductive
because only the form writes it, whatever a join or the pass of a start gives
beside it.

*Enrolment.*  `TrustIsMutual` speaks of two nodes' rows and its invariant of the
call between them: a call under way is somebody's, and that joiner still waits for
it unless it was given up on (`StillAwaited`); a joiner waits for one at a time
(`OneAwaited`); past the door's own claim the token is that joiner's for good
(`SpentByCaller`), and so it is when the answer is in hand (`SpentByAnswered`).
The door claims a token in one statement, and the argument needs nothing else of
it, which is why `Apart` does not matter.

The two promises about addresses do need `Apart`, and their invariant
(`AddressInvariant`) says what it buys: one call inside the door at a time
(`OneInTheDoor`) and nothing there while an address is chosen (`MintsAlone`), so
what the door read of token and row is still so when it writes (`DoorReadsRight`);
every token has an address (`MintedHasAddress`); and what an answer carries, what
a joiner was answered and what it trusts is what the authority has for it
(`RowIsTold`), but for those a stop cut short or somebody forgot.  A token tried
again, and an answer that comes late, are in it: the address is the token's, so a
second answer says the same.

*People.*  A link spent names one account; the account made for a visitor whose
link is found spent is still in that request's hands until it is undone; so whoever
is here and in nobody's hands has a link of their own.  A stop half way leaves
exactly those in `cut`.

`InTheirProject` needs three more facts: no two requests make the same account
(`EachTheirOwn`), a link is not yet a visitor's while their account is made or
undone (`NotTheirsYet`), and a link spent is spent on somebody who was made
(`SpentOnSomebody`), so deleting an account and deleting a project both leave
nobody listed.

### Names answered elsewhere

*The queue below.*  `EdgeNames` extends `Errands` and its actions are those of the
queue with something added, so `NamesUseTheQueue` maps each to one (or to a
stutter), and `Bookkeeping`, proved for the queue, is there for the rest.

*Owners.*  `OnlyChosenTold` and `LastInstructionIsCurrent` say nothing while a form,
a deployment or a start is under way, and that is where every step happens.
`OwnersInvariant` says what is owed meanwhile.  Who was last told to serve and is
not chosen is on the list of a withdrawal, or a `sync_routes` is still to come
that will find it (`OthersWillStop`); who is chosen and agrees was last told where
the copies are, or a `tell_edges` is still to come or has it in hand
(`ChosenWillKnow`), of names that are not in `untold`; a list in hand is still what the rows say (`TellsTheTruth`),
because one task runs at a time (`OneAtATime`).  `Goes` says how a task gets from
one thing to the next and is what each step of a task is reduced to.  A telling
that `would_change` keeps silent is right because the last instruction was the same.
`~Concurrent` is a hypothesis the code does not enforce: a deployment that read
the chosen nodes before a form unticked one tells it to serve (section 5).
`wavered` are nodes whose operator has changed what they grant; of them the second
property promises nothing, since a report that did not arrive yet may hide it.

*Servers.*  `RoutesInvariant` speaks of the other end.  Nobody asks itself
(`NoneAsksItself`), nobody holds a name for itself (`HoldsForOthers`), between
the claim and the route of one errand the name is still held for whoever asked
(`HoldsWhatItServes`), and a route says what its holder asked for
(`RoutesAreHolders`).  It needs no hypothesis: rivals, crashes between the two
writes and late answers are all in it.  A start that lets go of what is not agreed
to could break the middle one, and only does on a node in `wavered`.

*The feed.*  `NamesAreReadInOrder` maps every step about a name to one of `NameFeed`
or a stutter: `told` is what the teller's rows for the server say of the name
(`Told`), `heard` those that were answered, `serving` the server's route.  A queued
row is a `Tell`, the route written in the second half of an errand an `Obey`, a
settlement that arrives an `Answer`, and a changed grant a `Waver`.  What has to
hold for it is `HeardInvariant`: besides `RoutesInvariant`, nobody but the teller asks
anything of the server and nothing is under way from an earlier pass
(`OthersKeepAway`); while the server works through a batch, no row older than
one in hand is still to be answered and left out of it (`ReadsAll`), so what it obeys and
answers is what is `IsNext`; and it holds names for the teller alone and, when it
answers, serves what it answers for (`ServesTheTeller`).  A crash or a failed
collection empties a batch and settles nothing, so the next pass begins again at the
oldest row.  Both hypotheses are needed.  With a second owner a claim is refused, and
the refusal is answered while the route stays as it was (`OneTeller`).  When
the answer is lost of what was carried out (`AnswersArrive` leaves that kind of fault
out and crashes, lost askings and lost collections in), an older errand may be carried out
again after a newer one, which is finding 1.
`TheLastIsServed` is then a matter of the feed: of what was answered nothing is
missing in between, and the route says what the last of it said (`FeedHolds`).

### Placement

`Obeyed` ties the records of an errand together: the last in a holder's queue is
`told`, and `derived` says the same when that word was a derived one and not refused
(`LastIsTold`); with nothing left in the queue such a holder runs what it was told, less
what its operator threw off (`ToldIsDone`).  `SilenceIsRight` follows: a word that
would be repeated was obeyed.
`Told` is about the owner, and says for each handler at each of its steps
(`Minds`: `Forming`, `Saying`, `TellingForm`, `Deploying` and so on) what it has still
to write and to say, and that everybody it leaves out has the right word already
(`AllRight`).  Rows only ever move a copy towards somebody the handler will tell,
and marks of a refusal or of an eviction only shrink what is `Placed`, so neither
makes a word wrong that was right.  `Told` supposes that no handler ran beside
another since the last start (`beside`) and excepts those in `unsaid`, exactly as
the properties do.

### Commands

*Restarts.*  A note stands for an errand that was heard of, and each restart heard of
is in hand, or due, or followed by a start (`RestartInvariant`).  Refusing, skipping
and performing keep that, and a crash is itself a start.

*Once.*  One id is noted for each action, so doing once stands on the errands of
one action coming one after another: of two rows of one asker for one node the older
is answered (`RowsTakeTurns`, which is what `Patient` gives), a node's own rows are
worked through in order and a batch has one errand of a kind (`LegsTakeTurns`), so
whatever was carried out and may come again is what the note of its action says
(`Knows`, and `Stepping` between the note and the deed).  The times an asking was done
are then at most the errands that carried it and were obeyed (`CountsRight`).  `OneSource` says
that a node has its errands from one place: with two, the note of one hides the
other's, and the finding at `collect.rs:994` (section 5) is the result.

### Updates

With looks that do not overlap, whoever looks finds no attempt on its way, so at most
one installer is at work, its row is the last, and the staging file is its
own.  The path is empty from the first of its two renames until the second, or, where that
fails or is never reached, until a later attempt or an operator puts something
there.  All that while the binary that was there is the file beside it: a later
attempt finds nothing to put aside and leaves that file alone (`SwappedIsThere`: what
is past the second rename has something at the path).  That is what `BinaryIsKept`
says, and not that there is always something to start: the code does not see to
that (section 5).  `AtOnce` is a hypothesis and
not a convenience: with `FALSE` two installers share the staging file and
`BinaryIsKept` is false.  The types do not need it (`UpdatesTypesHold`): however
many attempts cross, each changes its own row, and what it puts in place is a release
or nothing.

### Backups

`BackupsAreWhole`: a backup has every database, from a moment whose log is still
there.  `BackupsTakeTurns`: each was begun after the one before it was done, so the
log kept for the oldest serves the rest, and (`TakenAfterAll`) the one being taken.
`SweepsTheOldest`: whatever appears during a pass is newer than what it keeps.
`WindowIsAnchored`: what a pass keeps of the past, the newest before the window,
reaches the first moment of it; a newest one exists because the moments before
another are finitely many (well-founded induction).  Both theorems then say that
some backup lies before the moment asked for, and the newest of those reaches it.
`Smoothly` (one runner, no database refused, no directory kept) is a hypothesis
`BackupsTakeTurns` and `BackupsAreWhole` need; section 5 says what happens without.
`BackupsTypesHold` does without it, but not without an invariant of its own: a log is
cut off where the oldest backup kept began, and that is a moment only because no two
kept are of one moment (`BackupsAreTyped`), so the oldest is the one that has the database.

### Side by side

`SideBySide`: the five parts of `MCParts` have no variable in common, so a behaviour
of the sum is a behaviour of each, and a theorem of one is a theorem of the run.
`PartsAreTyped` puts the five type invariants together and assumes none of what the
stronger theorems do: not `AtOnce`, not `Smoothly`, not `OneSource` or `Patient`.

### Zones, overlay, certificates

*Zones.*  `NextSerial` is above the old serial wherever the clock stands, unless that
is the largest there is, and then it is that one again (`Later`); every
step leaves the row, makes or deletes it, or writes it through `Bumped`.
`TellingInvariant` says what a task that tells has still to do (`Listed`), that what
it has in hand is of this life of the zone (`OfThisLife`), that the record of each
server is of the last thing sent to it (`AboutIsLast`), and, while no two tellings crossed,
that they take turns (`TellsInTurn`): whatever the servers were not told yet, the one
task that tells has in hand or has still to read (`InHand`), and whoever answers without
being chosen is about to be told to stop, unless a stop left it untold (`OthersAreOff`).

*Overlay.*  `FollowsTheRows` is not inductive: it says nothing while somebody is at
work.  `ListsAreFresh` says what is in every list on its way to the interface (what
the row asks, but for peers owed), `OwedOrComing` that a peer which is not as
its row is owed or somebody is about to look, `DownIsEmpty` what an interface that
went away has.  A step that changes a row must either make a look follow or add to
`owed`; one that writes the interface leaves every peer of a fresh list as its row.
`SessionsAreKept` follows from the same invariant: a peer of a fresh list is
wanted, so it is not removed, and a rebuild happens only with nothing answered.

*Certificates.*  `ListenerFollows`: the listener is behind only between a write of
the loop and the reload that follows it; the pass over the databases writes under
names of databases alone.  `AnsweredAsChosen` looks back over two passes, so
`WindowInvariant` says of each place the loop can be at that every name it does not
have in hand or ahead of it is as it was chosen, and all of them when two passes are
over (`PassIsRight`), and that what a database was handed in this window outlasts the
next (`HandIsRight`): whatever is changed behind the loop's back resets `passes`.  `HeldInTime` is
an action property of `Tick`: time moves when everything was seen to, by two passes
where there is a timer and by the pass over the databases, and what was seen to is
good for another window.

### What is not proved

**Out of the prover's reach**, and left to TLC: liveness under fairness
(`EveryErrandAnswered`, `ComesBack`, `NoteClears`, `ListenerCatchesUp`,
`UngrantedReleased`) and anything with ENABLED; what a recursive definition computes
for every input (induction over data).  Every other property of a passing run is stated
by a theorem.  `RestartsAreHeard` and `OneNoteIsEnough` build on the bookkeeping of the queue all the same, each step of
`Commands` shown to keep it.
`Commands` does not refine `Spec`: a restart that was asked for resets the pass
without counting as a fault.

## 5. What the runs found

With a run, and quoted in `findings`:

1. An older errand is carried out again after a newer one when its answer was
   lost, and the node ends up with the older instruction (`edge_replay`).
2. A stop takes no lock, and the pass at a start and the watch act on what they
   read when they began: a stop asked for while one of them puts a copy up is
   answered, and the copy runs (`copies_stopped`).  Allowing `Beside` a queued
   job shows the same of a deployment, or its retry, that waited.
3. A placement form sent in for a stopped service tells its holders to run it, and
   no later pass tells them to stop (`placement_stopped`).
4. The node's own certificate is signed again in time, stored, and not put in
   front of the listener, which serves the old one until it expires
   (`certificates_lapse`).

Met while modelling, and seen in the model with other constants or bounds:

- Untick a node and tick it again while the copies stay put: it is never told to
  serve again.  A withdrawal carries no subject and `would_change`
  (`errand.rs:772`) compares only with rows that do; `deploy/mod.rs:2641-2643`
  calls that "the fault that row exists to prevent".  `LastInstructionIsCurrent`
  compares the same rows and is not violated by it.
- Where the copies of a service answer changes without its edges being told.  A report
  records another overlay port of a copy, or an eviction, and only `sync_routes`
  follows (`web/remote_node_rest_controller.rs:661`, `network/api.rs:666-735`); a drain
  moves copies and tells those that hold them (`deploy/mod.rs:2606`), `tell_edges` being
  part of `tell_holders` only (2775-2781).  The node that answers for the name goes
  on sending requests where a copy was until a form, a deployment or a start
  tells it, against "Sent whenever the placement changes, because that is when the answer
  changes" (`set_service_placement_command.rs:549-550`).  `untold` names these names and
  `LastInstructionIsCurrent` excepts them; without the exception a run of `edge_names`
  violates it.
- A deployment that read the chosen nodes before an untick tells the unticked
  node to serve (`deploy/mod.rs:2649`, against `edge_withdrawals.rs:7-9`).
- Two restarts queued and one lost answer: the first happens twice
  (`collect.rs:994` keeps one id for each action, against 924 and 934-935).
  Handed up with a lost answer, one asking is two errands.
- A claim may be deleted at a start between the claim and the route of one errand
  (`collect.rs:1500`): with a member that changes its mind a route stands that no
  claim holds, so `RouteIsHolders` is stated for nodes that never changed theirs.
- A holder that takes its consent back and gives it again refuses, in between, a
  withdrawal without a subject; no row names it any more, so when the service is
  deleted nobody tells it, and it goes on running its copy (five presses;
  `DeletedIsLetGo` speaks only of holders whose last word was a derived one).
- A form's `{}` or `{running}` without a subject hides an equal older derived word,
  the letting go of a deleted service included; a deployment that crosses a stop
  tells `running`.
- Two updates that look at once share the staging file (`update/mod.rs:204`); the
  swap is two renames (386-398) where 13-14 says "a rename — atomic", and a
  process killed between them, or a second one that fails for any reason
  (397, 236-239), leaves nothing at the path to start: what was installed lies beside it
  until somebody, or the next update, puts something there (`BinaryIsKept`); a run whose restart was refused is
  never settled; an install that takes more than twenty minutes is taken for dead.
- `set_role` and `delete` count the administrators in one read and write in
  another (`accounts/mod.rs:310-341`); the setup token is spent before the account
  exists (`accounts/mod.rs:116-155`).
- Two backups at once, the node's and the `backup` command's (`cli/backup.rs:18-21`
  calls `once` in a process of its own; the flag is kept in memory because "both
  callers are in this process", `plan.rs:345`): one begun first and written last
  is on disk with a log that a pass in between let go of, and promises moments no
  restore reaches (`Runner` of two in `Backups`).
- One backup anchors the window of the whole node (`backup/mod.rs:723-726`): a
  database it missed loses the older one that had it; a backup chosen for a
  restore that waits may expire first (`backup/mod.rs:845`).
- A tick between `honour_offers`' read and write is lost (`network/mod.rs:1441`).
- With a mint or another call inside a call at the door, two nodes can be promised
  one address, and the two sides can disagree on it (`Apart = FALSE`).
- Two LAN facts: an address that a later roster brings is stored and not counted
  (`roster.rs:231`), so nobody dials it until something else changes
  (`docs/network.md:1261-1266` says the census relays them and `tunnel::peers` dials
  at one).  A failed `ensure` is not repeated, since the next pass finds nothing
  changed (`collect.rs:406`); names that do not resolve at a start cost the
  keepalive as well.  A report and a forgotten node change rows and nobody looks.
  Nothing removes a node from its members' rows, so one enrolled at a forgotten
  node's address conflicts for ever.
- A certificate signed to hold the floor is never signed again
  (`acme.rs:532-536`).  With ACME off a file an operator chose is never installed by
  the loop, although `policy.rs` refuses to store "a source the renewal loop will
  never act on".  The pass over the databases writes rows the listener is not told of
  (`deploy/mod.rs:3038-3056`), so names of databases are left out of
  `ServedIsStored`.
- At `u32::MAX` a serial no longer grows (`zone_serial.rs:7-10`, and the test at 21
  asserts it), so another name server keeps the zone it has, which line 5 says of a
  serial that does not move; a clock far ahead once is enough to get there.
- A zone deleted and made again within a second has the serial it had; a stop
  between deleting and telling leaves the others answering; two CNAMEs can pass
  one check (`zones.rs:237`).

## 6. What is left

| what | why it comes next |
|---|---|
| standbys over `Errands` | a node that lost its last standby is told once, and a stop, a missing address or a missing grant in between leave it with its copy for ever, although `withdraw` says every other one is recomputed at the next boot |
| an owner that answers for its own names | a claim without an authority, and the node itself ticked in the form, are left out of `EdgeNames` |
| several services in `Placement`, room on a node | what a node refuses depends on what else it was given |
| health and the proxy's choice of upstream | `Copies` keeps routes and not requests |

## 7. Not modelled, and why

*Standbys and databases:* replication is the database server's; the rows and
errands around it are those of `Placement` once more, with the hole named above.
*Edge proxy and health:* a request picks an upstream by counters that are reset
by use and no promise of order is written down.  *Image registry:* content-addressed
files without garbage collection.  *Sessions, sign-in, limits:* plain queries with an expiry.
*Packets and keys, TLS, ACME conversations, containerd and S3 calls, pages and
forms:* I/O or an external system's protocol.  Payload fields that only decorate
an errand (certificate relays, co-edges, redirect targets) are part of what it
`says`.  Time is abstracted: a pass may begin whenever it is not under way, a
timed-out request may arrive at any later moment.
