------------------------------ MODULE Updates ------------------------------
(* Putting a release on a node and restarting into it (infra::update,       *)
(* update::runs, update::jobs, collect::be_at_release): the rows that       *)
(* record each attempt, the binary and its staging file, and the start that *)
(* settles what the last process was in the middle of.                      *)
EXTENDS Naturals, Sequences

CONSTANTS
    Version,    \* the releases there are
    Shipped,    \* the one the node was installed with
    Installer,  \* the installs that may be on their way at once
    MaxRuns,    \* bound: attempts in all
    NoFile,     \* no file, and no process
    AtOnce      \* bound: nobody starts between a look at the rows and its own row

ASSUME UpdatesAssumption ==
    Shipped \in Version /\ NoFile \notin Version /\ MaxRuns \in Nat

VARIABLES
    runs,       \* update_run, oldest first
    install,    \* installer -> how far it has come
    binary,     \* what is at the installed path
    incoming,   \* what is in the staging file beside it
    previous,   \* what the last swap put aside
    runsNow     \* the version this process is

updates == <<runs, install, binary, incoming, previous, runsNow>>

File == Version \cup {NoFile}
Status == {"running", "restarting", "done", "failed"}
Run == [to : Version, is : Status, stale : BOOLEAN]
Installing == [at : {"idle", "looked", "started", "staged", "checked",
                     "aside", "swapped"}, to : Version, run : 0 .. MaxRuns]
NotInstalling == [at |-> "idle", to |-> Shipped, run |-> 0]

UpdatesInit ==
    /\ runs = <<>>
    /\ install = [i \in Installer |-> NotInstalling]
    /\ binary = Shipped /\ incoming = NoFile /\ previous = NoFile
    /\ runsNow = Shipped

Latest == runs[Len(runs)]
InFlight == runs # <<>> /\ Latest.is \in {"running", "restarting"} /\ ~Latest.stale
Looking == \E i \in Installer : install[i].at = "looked"
Working(k) == \E i \in Installer : install[i].run = k

\* The console's button, or the job an errand queued: one and the same rule.
Looks(i, v) ==
    /\ install[i].at = "idle" /\ v # runsNow /\ runsNow # NoFile
    /\ ~InFlight /\ (AtOnce => ~Looking)
    /\ install' = [install EXCEPT ![i] = [at |-> "looked", to |-> v, run |-> 0]]
    /\ UNCHANGED <<runs, binary, incoming, previous, runsNow>>

\* Faulty: the row is counted when it is there already.
CountsItself(i) ==
    /\ install[i].at = "looked" /\ Len(runs) < MaxRuns
    /\ runs' = Append(runs, [to |-> install[i].to, is |-> "running", stale |-> FALSE])
    /\ install' = [install EXCEPT ![i].at = "started", ![i].run = Len(runs') + 1]
    /\ UNCHANGED <<binary, incoming, previous, runsNow>>

StartsRun(i) ==
    /\ install[i].at = "looked" /\ Len(runs) < MaxRuns
    /\ runs' = Append(runs, [to |-> install[i].to, is |-> "running", stale |-> FALSE])
    /\ install' = [install EXCEPT ![i].at = "started", ![i].run = Len(runs) + 1]
    /\ UNCHANGED <<binary, incoming, previous, runsNow>>

\* The checksum agrees, and what arrived is written beside the binary.
Stages(i) ==
    /\ install[i].at = "started"
    /\ incoming' = install[i].to
    /\ install' = [install EXCEPT ![i].at = "staged"]
    /\ UNCHANGED <<runs, binary, previous, runsNow>>

Failed(i) ==
    /\ runs' = [runs EXCEPT ![install[i].run].is = "failed"]
    /\ install' = [install EXCEPT ![i] = NotInstalling]

\* The download, the checksum, the copy of the database, a disk that is full.
InstallFails(i) ==
    /\ install[i].at \in {"started", "staged", "checked"}
    /\ Failed(i)
    /\ UNCHANGED <<binary, incoming, previous, runsNow>>

\* It is run, and has to say it is the release that was asked for.
Checks(i) ==
    /\ install[i].at = "staged"
    /\ IF incoming = install[i].to
       THEN /\ install' = [install EXCEPT ![i].at = "checked"]
            /\ UNCHANGED <<runs, incoming>>
       ELSE Failed(i) /\ incoming' = NoFile
    /\ UNCHANGED <<binary, previous, runsNow>>

\* Faulty: what an earlier swap put aside is cleared away first.
ClearsThenPutsAside(i) ==
    /\ install[i].at = "checked"
    /\ previous' = binary /\ binary' = NoFile
    /\ install' = [install EXCEPT ![i].at = "aside"]
    /\ UNCHANGED <<runs, incoming, runsNow>>

\* The first of two renames; after a swap that failed there is nothing to move.
PutsAside(i) ==
    /\ install[i].at = "checked"
    /\ previous' = IF binary = NoFile THEN previous ELSE binary
    /\ binary' = NoFile
    /\ install' = [install EXCEPT ![i].at = "aside"]
    /\ UNCHANGED <<runs, incoming, runsNow>>

\* The second.  It fails where the file was moved away, and may for any other
\* reason; what was put aside stays there, and nothing is at the path.
PutsThere(i) ==
    /\ install[i].at = "aside"
    /\ \/ /\ incoming # NoFile
          /\ binary' = incoming /\ incoming' = NoFile
          /\ install' = [install EXCEPT ![i].at = "swapped"] /\ UNCHANGED runs
       \/ Failed(i) /\ UNCHANGED <<binary, incoming>>
    /\ UNCHANGED <<previous, runsNow>>

\* Then the restart is asked for; it may be refused, and the row stays as it is.
StartsOver(i) ==
    /\ install[i].at = "swapped"
    /\ runs' = [runs EXCEPT ![install[i].run].is = "restarting"]
    /\ install' = [install EXCEPT ![i] = NotInstalling]
    /\ UNCHANGED <<binary, incoming, previous, runsNow>>

\* Faulty: coming back at all is taken for having worked.
SettledAnyway == IF InFlight THEN [runs EXCEPT ![Len(runs)].is = "done"] ELSE runs

\* Only the last attempt, and only if it got as far as the binary.
Settled ==
    IF runs = <<>> \/ Latest.is # "restarting" THEN runs
    ELSE [runs EXCEPT ![Len(runs)].is = IF binary = Latest.to THEN "done" ELSE "failed"]

\* However it stopped: the installs are lost, and the next process settles.
StopsAndStarts ==
    /\ binary # NoFile
    /\ runsNow' = binary /\ runs' = Settled
    /\ install' = [i \in Installer |-> NotInstalling]
    /\ UNCHANGED <<binary, incoming, previous>>

\* Between the two renames, or after the second one failed.
StopsForGood ==
    /\ binary = NoFile /\ runsNow # NoFile
    /\ runsNow' = NoFile
    /\ install' = [i \in Installer |-> NotInstalling]
    /\ UNCHANGED <<runs, binary, incoming, previous>>

\* Twenty minutes: more than a download may take, so nobody works on it any more.
GrowsStale(k) ==
    /\ runs[k].is \in {"running", "restarting"} /\ ~runs[k].stale /\ ~Working(k)
    /\ runs' = [runs EXCEPT ![k].stale = TRUE]
    /\ UNCHANGED <<install, binary, incoming, previous, runsNow>>

\* What `previous` is kept for.
PutsBack ==
    /\ previous # NoFile /\ \A i \in Installer : install[i] = NotInstalling
    /\ binary' = previous /\ previous' = NoFile
    /\ UNCHANGED <<runs, install, incoming, runsNow>>

UpdatesNext ==
    \/ \E i \in Installer :
         \/ \E v \in Version : Looks(i, v)
         \/ StartsRun(i) \/ Stages(i) \/ InstallFails(i) \/ Checks(i)
         \/ PutsAside(i) \/ PutsThere(i) \/ StartsOver(i)
    \/ \E k \in DOMAIN runs : GrowsStale(k)
    \/ StopsAndStarts \/ StopsForGood \/ PutsBack

UpdatesSpec == UpdatesInit /\ [][UpdatesNext]_updates

------------------------------------------------------------------------------

(* What every variable of the updates' part holds. *)
UpdatesTypeOK ==
    /\ runs \in Seq(Run) /\ Len(runs) <= MaxRuns
    /\ install \in [Installer -> Installing]
    /\ binary \in File /\ incoming \in File /\ previous \in File
    /\ runsNow \in File

(* Whatever fails or is cut off between the two renames, and however often  *)
(* it is tried again: while nothing is at the installed path, a binary that *)
(* was there is still kept beside it, and the last row does not say that    *)
(* the update worked or is being restarted into.                            *)
BinaryIsKept ==
    binary = NoFile =>
        previous # NoFile /\ runs # <<>> /\ Latest.is \in {"running", "failed"}

(* What the page says was installed is what runs, and what the next start   *)
(* brings up, unless somebody put the previous binary back by hand.         *)
DoneIsWhatRuns ==
    runs # <<>> /\ Latest.is = "done" /\ previous # NoFile
        => runsNow = Latest.to /\ binary = Latest.to

==============================================================================
