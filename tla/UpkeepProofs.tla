---------------------------- MODULE UpkeepProofs ----------------------------
(* What keeps a node going. Installing a release, for any number of attempts,*)
(* releases and installers that take their turn at the rows: the attempt on  *)
(* its way is the last row, and the only one at the staging file. Backups,   *)
(* for any number of databases: they follow one another, and what a pass     *)
(* leaves anchors the window of every database. One-time commands, for any   *)
(* number of nodes, presses and faults: an errand is done once at most, and  *)
(* a restart that was answered for happened.                                 *)
EXTENDS Updates, Backups, Commands, ErrandsProofs, FiniteSetTheorems,
        SequenceTheorems, WellFoundedInduction, TLAPS

OnItsWay == {"started", "staged", "checked", "aside", "swapped"}

(* Whoever looks finds no attempt on its way, so there is never a second.    *)
OneAtWork ==
    \A i, j \in Installer :
        install[i].at # "idle" /\ install[j].at # "idle" => i = j

(* What is on its way is what the last row says is running, and fresh.       *)
AtWorkIsLatest ==
    \A i \in Installer : install[i].at \in OnItsWay =>
        /\ Len(runs) > 0 /\ install[i].run = Len(runs)
        /\ runs[Len(runs)].is = "running" /\ ~runs[Len(runs)].stale

(* The staging file holds what the one attempt put there.                    *)
StagedIsThere ==
    \A i \in Installer : install[i].at \in {"staged", "checked", "aside"} =>
        incoming = install[i].to

(* After both renames there is something to restart into.                    *)
SwappedIsThere ==
    \A i \in Installer : install[i].at = "swapped" => binary # NoFile

UpdatesInvariant ==
    /\ UpdatesTypeOK /\ OneAtWork /\ AtWorkIsLatest /\ StagedIsThere /\ SwappedIsThere
    /\ BinaryIsKept /\ DoneIsWhatRuns

------------------------------------------------------------------------------

(* Changing what one row says keeps the rows what they are.                  *)
LEMMA RowsChange ==
    ASSUME NEW s \in Seq(Run), NEW k \in 1 .. Len(s), NEW st \in Status
    PROVE  /\ [s EXCEPT ![k].is = st] \in Seq(Run)
           /\ Len([s EXCEPT ![k].is = st]) = Len(s)
           /\ [s EXCEPT ![k].is = st][k].is = st
           /\ [s EXCEPT ![k].is = st][k].to = s[k].to
           /\ [s EXCEPT ![k].is = st][k].stale = s[k].stale
<1>1. s[k] \in Run
  OBVIOUS
<1>2. [s[k] EXCEPT !.is = st] \in Run
  BY <1>1 DEF Run
<1>3. [s EXCEPT ![k].is = st] = [s EXCEPT ![k] = [s[k] EXCEPT !.is = st]]
  OBVIOUS
<1>4. /\ [s EXCEPT ![k] = [s[k] EXCEPT !.is = st]] \in Seq(Run)
      /\ Len([s EXCEPT ![k] = [s[k] EXCEPT !.is = st]]) = Len(s)
      /\ [s EXCEPT ![k] = [s[k] EXCEPT !.is = st]][k] = [s[k] EXCEPT !.is = st]
  BY <1>2, ExceptSeq
<1>. QED
  BY <1>1, <1>3, <1>4 DEF Run

(* Before the first attempt nothing is on its way.                           *)
LEMMA UpdatesStartRight == UpdatesInit => UpdatesInvariant
<1>. SUFFICES ASSUME UpdatesInit PROVE UpdatesInvariant
  OBVIOUS
<1>1. NotInstalling \in Installing /\ NotInstalling.at = "idle"
  BY UpdatesAssumption DEF NotInstalling, Installing
<1>2. UpdatesTypeOK
  BY <1>1, UpdatesAssumption DEF UpdatesInit, UpdatesTypeOK, File
<1>. QED
  BY <1>1, <1>2, UpdatesAssumption
     DEF UpdatesInit, UpdatesInvariant, OneAtWork, AtWorkIsLatest, StagedIsThere,
         SwappedIsThere, BinaryIsKept, DoneIsWhatRuns, OnItsWay

(* There is a last row exactly when there are rows.                          *)
LEMMA SomeRow ==
    ASSUME NEW s \in Seq(Run)
    PROVE  /\ s # <<>> <=> Len(s) > 0
           /\ Len(s) \in Nat
           /\ Len(s) > 0 => Len(s) \in 1 .. Len(s) /\ s[Len(s)] \in Run
<1>1. Len(s) \in Nat /\ (s # <<>> <=> Len(s) > 0)
  BY LenProperties, EmptySeq
<1>2. ASSUME Len(s) > 0 PROVE Len(s) \in 1 .. Len(s) /\ s[Len(s)] \in Run
  BY <1>1, <1>2, ElementOfSeq
<1>. QED
  BY <1>1, <1>2

------------------------------------------------------------------------------
(* One lemma for each step.                                                  *)

(* Looking finds nobody on the way, and starts nothing yet.                  *)
LEMMA LooksKeeps ==
    ASSUME AtOnce, UpdatesInvariant, NEW i \in Installer, NEW v \in Version, Looks(i, v)
    PROVE  UpdatesInvariant'
<1>. USE DEF UpdatesInvariant, UpdatesTypeOK
<1>1. /\ install' = [install EXCEPT ![i] = [at |-> "looked", to |-> v, run |-> 0]]
      /\ runs' = runs /\ binary' = binary /\ incoming' = incoming
      /\ previous' = previous /\ runsNow' = runsNow
      /\ ~InFlight /\ ~Looking
  BY DEF Looks
<1>2. [at |-> "looked", to |-> v, run |-> 0] \in Installing
  BY UpdatesAssumption DEF Installing
<1>3. UpdatesTypeOK'
  BY <1>1, <1>2
<1>4. \A j \in Installer : install[j].at = "idle"
  <2>1. \A j \in Installer : install[j].at \notin OnItsWay
    BY <1>1, SomeRow DEF AtWorkIsLatest, InFlight, Latest
  <2>. QED
    BY <1>1, <2>1 DEF Looking, OnItsWay, Installing
<1>5. OneAtWork' /\ AtWorkIsLatest' /\ StagedIsThere' /\ SwappedIsThere'
  BY <1>1, <1>4 DEF OneAtWork, AtWorkIsLatest, StagedIsThere, SwappedIsThere, OnItsWay
<1>6. BinaryIsKept'
  BY <1>1 DEF BinaryIsKept, Latest
<1>7. DoneIsWhatRuns'
  BY <1>1 DEF DoneIsWhatRuns, Latest
<1>. QED
  BY <1>3, <1>5, <1>6, <1>7

(* A new row is the last one, and that of the only one at work.              *)
LEMMA StartsRunKeeps ==
    ASSUME UpdatesInvariant, NEW i \in Installer, StartsRun(i)
    PROVE  UpdatesInvariant'
<1>. USE DEF UpdatesInvariant, UpdatesTypeOK
<1>. DEFINE r == [to |-> install[i].to, is |-> "running", stale |-> FALSE]
<1>1. /\ install[i].at = "looked" /\ Len(runs) < MaxRuns
      /\ runs' = Append(runs, r)
      /\ install' = [install EXCEPT ![i].at = "started", ![i].run = Len(runs) + 1]
      /\ binary' = binary /\ incoming' = incoming
      /\ previous' = previous /\ runsNow' = runsNow
  BY DEF StartsRun
<1>2. r \in Run
  BY DEF Run, Installing, Status
<1>3. /\ runs' \in Seq(Run) /\ Len(runs') = Len(runs) + 1 /\ runs'[Len(runs')] = r
  BY <1>1, <1>2, AppendProperties, SomeRow
<1>4. /\ r.is = "running" /\ ~r.stale
  OBVIOUS
<1>5. Len(runs) \in Nat
  BY SomeRow
<1>. HIDE DEF r
<1>6. /\ install' \in [Installer -> Installing]
      /\ install'[i].at = "started" /\ install'[i].run = Len(runs')
      /\ \A j \in Installer \ {i} : install'[j] = install[j]
  <2>. DEFINE t == [install[i] EXCEPT !.at = "started", !.run = Len(runs) + 1]
  <2>1. install' = [install EXCEPT ![i] = t]
    BY <1>1, Zenon
  <2>2. install[i] \in Installing /\ Len(runs) + 1 \in 0 .. MaxRuns
    BY <1>1, <1>5, UpdatesAssumption
  <2>3. t \in Installing /\ t.at = "started" /\ t.run = Len(runs) + 1
    BY <2>2 DEF Installing
  <2>. HIDE DEF t
  <2>. QED
    BY <1>3, <2>1, <2>3
<1>7. \A j \in Installer \ {i} : install[j].at = "idle"
  BY <1>1 DEF OneAtWork
<1>8. UpdatesTypeOK'
  BY <1>1, <1>3, <1>5, <1>6, UpdatesAssumption
<1>9. OneAtWork' /\ StagedIsThere' /\ SwappedIsThere'
  BY <1>1, <1>6, <1>7 DEF OneAtWork, StagedIsThere, SwappedIsThere
<1>10. AtWorkIsLatest'
  BY <1>3, <1>4, <1>5, <1>6, <1>7 DEF AtWorkIsLatest, OnItsWay
<1>11. BinaryIsKept'
  <2>1. runs' # <<>> /\ Latest'.is = "running"
    BY <1>3, <1>4, <1>5, SomeRow DEF Latest
  <2>. QED
    BY <1>1, <2>1 DEF BinaryIsKept
<1>12. DoneIsWhatRuns'
  <2>1. Latest'.is = "running"
    BY <1>3, <1>4 DEF Latest
  <2>. QED
    BY <2>1 DEF DoneIsWhatRuns
<1>. QED
  BY <1>8, <1>9, <1>10, <1>11, <1>12

(* Going on to the next place keeps the installer's run and release.         *)
LEMMA GoingOn ==
    ASSUME UpdatesTypeOK, OneAtWork, NEW i \in Installer,
           NEW p \in {"started", "staged", "checked", "aside", "swapped"},
           install[i].at # "idle", install' = [install EXCEPT ![i].at = p]
    PROVE  /\ install' \in [Installer -> Installing]
           /\ install'[i].at = p /\ install'[i].to = install[i].to
           /\ install'[i].run = install[i].run
           /\ \A j \in Installer \ {i} : install'[j] = install[j] /\ install[j].at = "idle"
           /\ OneAtWork'
<1>1. /\ install' \in [Installer -> Installing]
      /\ install'[i].at = p /\ install'[i].to = install[i].to
      /\ install'[i].run = install[i].run
      /\ \A j \in Installer \ {i} : install'[j] = install[j]
  BY DEF UpdatesTypeOK, Installing
<1>2. \A j \in Installer \ {i} : install[j].at = "idle"
  BY DEF OneAtWork
<1>. QED
  BY <1>1, <1>2 DEF OneAtWork

(* What is staged is what that one attempt asked for.                        *)
LEMMA StagesKeeps ==
    ASSUME UpdatesInvariant, NEW i \in Installer, Stages(i)
    PROVE  UpdatesInvariant'
<1>. USE DEF UpdatesInvariant
<1>1. /\ install[i].at = "started" /\ incoming' = install[i].to
      /\ install' = [install EXCEPT ![i].at = "staged"]
      /\ runs' = runs /\ binary' = binary /\ previous' = previous /\ runsNow' = runsNow
  BY DEF Stages
<1>2. /\ install' \in [Installer -> Installing]
      /\ install'[i].at = "staged" /\ install'[i].to = install[i].to
      /\ install'[i].run = install[i].run
      /\ \A j \in Installer \ {i} : install'[j] = install[j] /\ install[j].at = "idle"
      /\ OneAtWork'
  BY <1>1, GoingOn
<1>3. UpdatesTypeOK'
  BY <1>1, <1>2 DEF UpdatesTypeOK, Installing, File
<1>4. AtWorkIsLatest' /\ StagedIsThere' /\ SwappedIsThere'
  BY <1>1, <1>2 DEF AtWorkIsLatest, StagedIsThere, SwappedIsThere, OnItsWay
<1>5. BinaryIsKept' /\ DoneIsWhatRuns'
  BY <1>1, <1>2 DEF BinaryIsKept, DoneIsWhatRuns, Latest
<1>. QED
  BY <1>2, <1>3, <1>4, <1>5

(* An attempt that fails leaves nobody on the way.                           *)
LEMMA FailedLeavesNobody ==
    ASSUME UpdatesInvariant, NEW i \in Installer, install[i].at \in OnItsWay, Failed(i)
    PROVE  /\ install' \in [Installer -> Installing]
           /\ \A j \in Installer : install'[j].at = "idle"
           /\ runs' \in Seq(Run) /\ Len(runs') = Len(runs)
           /\ runs' # <<>> /\ Latest'.is = "failed"
<1>. USE DEF UpdatesInvariant
<1>1. /\ runs' = [runs EXCEPT ![install[i].run].is = "failed"]
      /\ install' = [install EXCEPT ![i] = NotInstalling]
  BY DEF Failed
<1>2. runs \in Seq(Run) /\ Len(runs) \in 1 .. Len(runs) /\ install[i].run = Len(runs)
  BY SomeRow DEF UpdatesTypeOK, AtWorkIsLatest
<1>3. "failed" \in Status
  BY DEF Status
<1>4. /\ runs' \in Seq(Run) /\ Len(runs') = Len(runs)
      /\ runs'[Len(runs)].is = "failed"
  BY <1>1, <1>2, <1>3, RowsChange
<1>5. NotInstalling \in Installing /\ NotInstalling.at = "idle"
  BY UpdatesAssumption DEF NotInstalling, Installing
<1>6. \A j \in Installer \ {i} : install[j].at = "idle"
  BY DEF OneAtWork, OnItsWay
<1>7. /\ install' \in [Installer -> Installing]
      /\ \A j \in Installer : install'[j].at = "idle"
  BY <1>1, <1>5, <1>6 DEF UpdatesTypeOK
<1>8. runs' # <<>> /\ Latest'.is = "failed"
  BY <1>2, <1>4, SomeRow DEF Latest
<1>. QED
  BY <1>4, <1>7, <1>8

(* With nobody on the way, the last row failed and no file moved, nothing    *)
(* more can be wrong than there was: a path that is empty stays so, and what *)
(* was put aside stays there.                                                *)
LEMMA FailedIsRight ==
    ASSUME UpdatesInvariant, NEW i \in Installer, install[i].at \in OnItsWay, Failed(i),
           incoming' \in File, UNCHANGED <<binary, previous, runsNow>>
    PROVE  UpdatesInvariant'
<1>1. /\ install' \in [Installer -> Installing]
      /\ \A j \in Installer : install'[j].at = "idle"
      /\ runs' \in Seq(Run) /\ Len(runs') = Len(runs)
      /\ runs' # <<>> /\ Latest'.is = "failed"
  BY FailedLeavesNobody
<1>2. UpdatesTypeOK'
  BY <1>1 DEF UpdatesInvariant, UpdatesTypeOK, File
<1>3. OneAtWork' /\ AtWorkIsLatest' /\ StagedIsThere' /\ SwappedIsThere'
  BY <1>1 DEF OneAtWork, AtWorkIsLatest, StagedIsThere, SwappedIsThere, OnItsWay
<1>4. DoneIsWhatRuns' /\ BinaryIsKept'
  BY <1>1 DEF DoneIsWhatRuns, UpdatesInvariant, BinaryIsKept
<1>. QED
  BY <1>2, <1>3, <1>4 DEF UpdatesInvariant

(* It fails before the first rename: the binary was not touched.             *)
LEMMA InstallFailsKeeps ==
    ASSUME UpdatesInvariant, NEW i \in Installer, InstallFails(i)
    PROVE  UpdatesInvariant'
<1>1. /\ install[i].at \in {"started", "staged", "checked"} /\ Failed(i)
      /\ binary' = binary /\ incoming' = incoming
      /\ previous' = previous /\ runsNow' = runsNow
  BY DEF InstallFails
<1>2. install[i].at \in OnItsWay
  BY <1>1 DEF OnItsWay
<1>. QED
  BY <1>1, <1>2, FailedIsRight DEF UpdatesInvariant, UpdatesTypeOK

(* The check reads back what this attempt wrote, since nobody else writes    *)
(* there.                                                                    *)
LEMMA ChecksKeeps ==
    ASSUME UpdatesInvariant, NEW i \in Installer, Checks(i)
    PROVE  UpdatesInvariant'
<1>. USE DEF UpdatesInvariant
<1>1. /\ install[i].at = "staged" /\ incoming = install[i].to
      /\ install' = [install EXCEPT ![i].at = "checked"]
      /\ runs' = runs /\ incoming' = incoming
      /\ binary' = binary /\ previous' = previous /\ runsNow' = runsNow
  <2>1. install[i].at = "staged"
    BY DEF Checks
  <2>2. incoming = install[i].to
    BY <2>1 DEF StagedIsThere
  <2>. QED
    BY <2>1, <2>2 DEF Checks
<1>2. /\ install' \in [Installer -> Installing]
      /\ install'[i].at = "checked" /\ install'[i].to = install[i].to
      /\ install'[i].run = install[i].run
      /\ \A j \in Installer \ {i} : install'[j] = install[j] /\ install[j].at = "idle"
      /\ OneAtWork'
  BY <1>1, GoingOn
<1>3. UpdatesTypeOK'
  BY <1>1, <1>2 DEF UpdatesTypeOK
<1>4. AtWorkIsLatest' /\ StagedIsThere' /\ SwappedIsThere'
  BY <1>1, <1>2 DEF AtWorkIsLatest, StagedIsThere, SwappedIsThere, OnItsWay
<1>5. BinaryIsKept' /\ DoneIsWhatRuns'
  BY <1>1, <1>2 DEF BinaryIsKept, DoneIsWhatRuns, Latest
<1>. QED
  BY <1>2, <1>3, <1>4, <1>5

(* Putting the binary aside is what leaves nothing there, by the attempt     *)
(* whose row still says it is running; where there was nothing, what was put *)
(* aside before is left.                                                     *)
LEMMA PutsAsideKeeps ==
    ASSUME UpdatesInvariant, NEW i \in Installer, PutsAside(i)
    PROVE  UpdatesInvariant'
<1>. USE DEF UpdatesInvariant
<1>1. /\ install[i].at = "checked" /\ binary' = NoFile
      /\ previous' = IF binary = NoFile THEN previous ELSE binary
      /\ install' = [install EXCEPT ![i].at = "aside"]
      /\ runs' = runs /\ incoming' = incoming /\ runsNow' = runsNow
  BY DEF PutsAside
<1>2. /\ install' \in [Installer -> Installing]
      /\ install'[i].at = "aside" /\ install'[i].to = install[i].to
      /\ install'[i].run = install[i].run
      /\ \A j \in Installer \ {i} : install'[j] = install[j] /\ install[j].at = "idle"
      /\ OneAtWork'
  BY <1>1, GoingOn
<1>3. UpdatesTypeOK'
  BY <1>1, <1>2 DEF UpdatesTypeOK, File
<1>4. AtWorkIsLatest' /\ StagedIsThere' /\ SwappedIsThere'
  BY <1>1, <1>2 DEF AtWorkIsLatest, StagedIsThere, SwappedIsThere, OnItsWay
<1>5. runs' # <<>> /\ Latest'.is = "running"
  BY <1>1, SomeRow DEF AtWorkIsLatest, OnItsWay, Latest, UpdatesTypeOK
<1>6. BinaryIsKept' /\ DoneIsWhatRuns'
  BY <1>1, <1>5 DEF BinaryIsKept, DoneIsWhatRuns
<1>. QED
  BY <1>2, <1>3, <1>4, <1>5, <1>6

(* The second rename puts there what was checked; or it fails, and the row   *)
(* says so.                                                                  *)
LEMMA PutsThereKeeps ==
    ASSUME UpdatesInvariant, NEW i \in Installer, PutsThere(i)
    PROVE  UpdatesInvariant'
<1>. USE DEF UpdatesInvariant
<1>1. install[i].at = "aside" /\ UNCHANGED <<previous, runsNow>>
  BY DEF PutsThere
<1>2. CASE Failed(i) /\ UNCHANGED <<binary, incoming>>
  <2>1. install[i].at \in OnItsWay
    BY <1>1 DEF OnItsWay
  <2>. QED
    BY <1>1, <1>2, <2>1, FailedIsRight DEF UpdatesTypeOK
<1>3. CASE /\ incoming # NoFile
           /\ binary' = incoming /\ incoming' = NoFile
           /\ install' = [install EXCEPT ![i].at = "swapped"] /\ runs' = runs
  <2>1. /\ install' \in [Installer -> Installing]
        /\ install'[i].at = "swapped" /\ install'[i].to = install[i].to
        /\ install'[i].run = install[i].run
        /\ \A j \in Installer \ {i} : install'[j] = install[j] /\ install[j].at = "idle"
        /\ OneAtWork'
    BY <1>1, <1>3, GoingOn
  <2>2. UpdatesTypeOK'
    BY <1>1, <1>3, <2>1 DEF UpdatesTypeOK, File
  <2>3. AtWorkIsLatest' /\ StagedIsThere' /\ SwappedIsThere'
    BY <1>1, <1>3, <2>1 DEF AtWorkIsLatest, StagedIsThere, SwappedIsThere, OnItsWay
  <2>4. Latest'.is = "running"
    BY <1>1, <1>3 DEF AtWorkIsLatest, OnItsWay, Latest
  <2>5. BinaryIsKept' /\ DoneIsWhatRuns'
    BY <1>3, <2>4 DEF BinaryIsKept, DoneIsWhatRuns
  <2>. QED
    BY <2>1, <2>2, <2>3, <2>5
<1>. QED
  BY <1>2, <1>3 DEF PutsThere

(* Asking for the restart leaves nobody on the way, and the row unsettled.   *)
LEMMA RestartsKeeps ==
    ASSUME UpdatesInvariant, NEW i \in Installer, StartsOver(i)
    PROVE  UpdatesInvariant'
<1>. USE DEF UpdatesInvariant
<1>1. /\ install[i].at = "swapped"
      /\ runs' = [runs EXCEPT ![install[i].run].is = "restarting"]
      /\ install' = [install EXCEPT ![i] = NotInstalling]
      /\ binary' = binary /\ incoming' = incoming
      /\ previous' = previous /\ runsNow' = runsNow
  BY DEF StartsOver
<1>2. runs \in Seq(Run) /\ Len(runs) \in 1 .. Len(runs) /\ install[i].run = Len(runs)
  BY <1>1, SomeRow DEF UpdatesTypeOK, AtWorkIsLatest, OnItsWay
<1>3. "restarting" \in Status
  BY DEF Status
<1>4. /\ runs' \in Seq(Run) /\ Len(runs') = Len(runs)
      /\ runs'[Len(runs)].is = "restarting"
  BY <1>1, <1>2, <1>3, RowsChange
<1>5. NotInstalling \in Installing /\ NotInstalling.at = "idle"
  BY UpdatesAssumption DEF NotInstalling, Installing
<1>6. \A j \in Installer \ {i} : install[j].at = "idle"
  BY <1>1 DEF OneAtWork, OnItsWay
<1>7. /\ install' \in [Installer -> Installing]
      /\ \A j \in Installer : install'[j].at = "idle"
  BY <1>1, <1>5, <1>6 DEF UpdatesTypeOK
<1>8. UpdatesTypeOK'
  BY <1>1, <1>4, <1>7 DEF UpdatesTypeOK
<1>9. OneAtWork' /\ AtWorkIsLatest' /\ StagedIsThere' /\ SwappedIsThere'
  BY <1>7 DEF OneAtWork, AtWorkIsLatest, StagedIsThere, SwappedIsThere, OnItsWay
<1>10. BinaryIsKept'
  BY <1>1 DEF SwappedIsThere, BinaryIsKept
<1>11. DoneIsWhatRuns'
  BY <1>4 DEF DoneIsWhatRuns, Latest
<1>. QED
  BY <1>8, <1>9, <1>10, <1>11

(* The next process settles the last row by what it finds itself to be.      *)
LEMMA StopsAndStartsKeeps ==
    ASSUME UpdatesInvariant, StopsAndStarts
    PROVE  UpdatesInvariant'
<1>. USE DEF UpdatesInvariant
<1>1. /\ binary # NoFile /\ runsNow' = binary /\ runs' = Settled
      /\ install' = [i \in Installer |-> NotInstalling]
      /\ binary' = binary /\ incoming' = incoming /\ previous' = previous
  BY DEF StopsAndStarts
<1>2. NotInstalling \in Installing /\ NotInstalling.at = "idle"
  BY UpdatesAssumption DEF NotInstalling, Installing
<1>3. /\ install' \in [Installer -> Installing]
      /\ \A j \in Installer : install'[j].at = "idle"
  BY <1>1, <1>2
<1>4. /\ runs' \in Seq(Run) /\ Len(runs') = Len(runs)
      /\ Len(runs) > 0 => \/ runs' = runs /\ Latest.is # "restarting"
                          \/ /\ runs'[Len(runs)].to = Latest.to
                             /\ runs'[Len(runs)].is =
                                    IF binary = Latest.to THEN "done" ELSE "failed"
  <2>. DEFINE st == IF binary = Latest.to THEN "done" ELSE "failed"
  <2>1. st \in Status
    BY DEF Status
  <2>2. runs \in Seq(Run)
    BY DEF UpdatesTypeOK
  <2>3. CASE runs = <<>> \/ Latest.is # "restarting"
    BY <1>1, <2>2, <2>3, SomeRow DEF Settled
  <2>4. CASE ~(runs = <<>> \/ Latest.is # "restarting")
    <3>1. runs' = [runs EXCEPT ![Len(runs)].is = st]
      BY <1>1, <2>4 DEF Settled
    <3>2. Len(runs) \in 1 .. Len(runs)
      BY <2>2, <2>4, SomeRow
    <3>. HIDE DEF st
    <3>3. /\ runs' \in Seq(Run) /\ Len(runs') = Len(runs)
          /\ runs'[Len(runs)].is = st /\ runs'[Len(runs)].to = runs[Len(runs)].to
      BY <2>1, <2>2, <3>1, <3>2, RowsChange
    <3>. QED
      BY <3>3 DEF st, Latest
  <2>. QED
    BY <2>3, <2>4
<1>5. UpdatesTypeOK'
  BY <1>1, <1>3, <1>4 DEF UpdatesTypeOK
<1>6. OneAtWork' /\ AtWorkIsLatest' /\ StagedIsThere' /\ SwappedIsThere'
  BY <1>3 DEF OneAtWork, AtWorkIsLatest, StagedIsThere, SwappedIsThere, OnItsWay
<1>7. BinaryIsKept'
  BY <1>1 DEF BinaryIsKept
<1>8. DoneIsWhatRuns'
  <2>. SUFFICES ASSUME runs' # <<>>, Latest'.is = "done", previous' # NoFile
                PROVE  runsNow' = Latest'.to /\ binary' = Latest'.to
    BY DEF DoneIsWhatRuns
  <2>1. Len(runs) > 0 /\ runs # <<>>
    BY <1>4, SomeRow DEF UpdatesTypeOK
  <2>2. Latest'.to = Latest.to /\ (runs' = runs \/ binary = Latest.to)
    BY <1>4, <2>1 DEF Latest
  <2>3. CASE runs' = runs
    BY <1>1, <2>1, <2>3 DEF DoneIsWhatRuns, Latest
  <2>4. CASE binary = Latest.to
    BY <1>1, <2>2, <2>4
  <2>. QED
    BY <2>2, <2>3, <2>4
<1>. QED
  BY <1>5, <1>6, <1>7, <1>8

(* A stop with nothing at the path leaves no process to say anything.        *)
LEMMA StopsForGoodKeeps ==
    ASSUME UpdatesInvariant, StopsForGood
    PROVE  UpdatesInvariant'
<1>. USE DEF UpdatesInvariant
<1>1. /\ binary = NoFile /\ runsNow' = NoFile
      /\ install' = [i \in Installer |-> NotInstalling]
      /\ runs' = runs /\ binary' = binary /\ incoming' = incoming /\ previous' = previous
  BY DEF StopsForGood
<1>2. NotInstalling \in Installing /\ NotInstalling.at = "idle"
  BY UpdatesAssumption DEF NotInstalling, Installing
<1>3. /\ install' \in [Installer -> Installing]
      /\ \A j \in Installer : install'[j].at = "idle"
  BY <1>1, <1>2
<1>4. UpdatesTypeOK'
  BY <1>1, <1>3 DEF UpdatesTypeOK, File
<1>5. OneAtWork' /\ AtWorkIsLatest' /\ StagedIsThere' /\ SwappedIsThere'
  BY <1>3 DEF OneAtWork, AtWorkIsLatest, StagedIsThere, SwappedIsThere, OnItsWay
<1>7. BinaryIsKept'
  BY <1>1 DEF BinaryIsKept, Latest
<1>6. DoneIsWhatRuns'
  <2>1. runs # <<>> => Latest.to # NoFile
    BY SomeRow, UpdatesAssumption DEF UpdatesTypeOK, Latest, Run
  <2>. QED
    BY <1>1, <2>1 DEF DoneIsWhatRuns, Latest
<1>. QED
  BY <1>4, <1>5, <1>6, <1>7

(* A row nobody works on any more is not the one that is on its way.         *)
LEMMA GrowsStaleKeeps ==
    ASSUME UpdatesInvariant, NEW k \in DOMAIN runs, GrowsStale(k)
    PROVE  UpdatesInvariant'
<1>. USE DEF UpdatesInvariant
<1>. DEFINE r == [runs[k] EXCEPT !.stale = TRUE]
<1>1. /\ ~Working(k) /\ runs' = [runs EXCEPT ![k] = r]
      /\ install' = install /\ binary' = binary /\ incoming' = incoming
      /\ previous' = previous /\ runsNow' = runsNow
  BY DEF GrowsStale
<1>2. runs \in Seq(Run) /\ k \in 1 .. Len(runs) /\ runs[k] \in Run
  BY LenProperties, ElementOfSeq DEF UpdatesTypeOK
<1>3. r \in Run /\ r.is = runs[k].is /\ r.to = runs[k].to
  BY <1>2 DEF Run
<1>. HIDE DEF r
<1>4. /\ runs' \in Seq(Run) /\ Len(runs') = Len(runs)
      /\ \A j \in 1 .. Len(runs) : runs'[j] = IF j = k THEN r ELSE runs[j]
  BY <1>1, <1>2, <1>3, ExceptSeq
<1>5. UpdatesTypeOK' /\ OneAtWork' /\ StagedIsThere' /\ SwappedIsThere'
  BY <1>1, <1>4 DEF UpdatesTypeOK, OneAtWork, StagedIsThere, SwappedIsThere
<1>6. AtWorkIsLatest'
  <2>. SUFFICES ASSUME NEW i \in Installer, install[i].at \in OnItsWay
                PROVE  /\ Len(runs') > 0 /\ install[i].run = Len(runs')
                       /\ runs'[Len(runs')].is = "running" /\ ~runs'[Len(runs')].stale
    BY <1>1 DEF AtWorkIsLatest
  <2>1. install[i].run # k
    BY <1>1 DEF Working
  <2>2. /\ Len(runs) > 0 /\ install[i].run = Len(runs)
        /\ runs[Len(runs)].is = "running" /\ ~runs[Len(runs)].stale
    BY DEF AtWorkIsLatest
  <2>3. Len(runs) \in 1 .. Len(runs)
    BY <1>2, <2>2, SomeRow
  <2>. QED
    BY <1>4, <2>1, <2>2, <2>3
<1>7. DoneIsWhatRuns' /\ BinaryIsKept'
  <2>1. /\ runs # <<>> /\ runs' # <<>>
        /\ Latest'.is = Latest.is /\ Latest'.to = Latest.to
    BY <1>2, <1>3, <1>4, SomeRow DEF Latest
  <2>. QED
    BY <1>1, <2>1 DEF DoneIsWhatRuns, BinaryIsKept
<1>. QED
  BY <1>5, <1>6, <1>7

(* Putting the previous one back by hand is done with nobody at work.        *)
LEMMA PutsBackKeeps ==
    ASSUME UpdatesInvariant, PutsBack
    PROVE  UpdatesInvariant'
<1>. USE DEF UpdatesInvariant
<1>1. /\ previous # NoFile /\ binary' = previous /\ previous' = NoFile
      /\ runs' = runs /\ install' = install /\ incoming' = incoming /\ runsNow' = runsNow
  BY DEF PutsBack
<1>2. UpdatesTypeOK' /\ BinaryIsKept' /\ DoneIsWhatRuns'
  BY <1>1 DEF UpdatesTypeOK, File, BinaryIsKept, DoneIsWhatRuns
<1>3. OneAtWork' /\ AtWorkIsLatest' /\ StagedIsThere' /\ SwappedIsThere'
  BY <1>1 DEF OneAtWork, AtWorkIsLatest, StagedIsThere, SwappedIsThere
<1>. QED
  BY <1>2, <1>3

------------------------------------------------------------------------------

(* Every step keeps it, while nobody starts between a look at the rows and   *)
(* the row that follows from it.                                             *)
LEMMA UpdatesKeeps ==
    ASSUME AtOnce, UpdatesInvariant, [UpdatesNext]_updates
    PROVE  UpdatesInvariant'
<1>1. CASE UNCHANGED updates
  <2>1. /\ runs' = runs /\ install' = install /\ binary' = binary
        /\ incoming' = incoming /\ previous' = previous /\ runsNow' = runsNow
    BY <1>1 DEF updates
  <2>. QED
    BY <2>1 DEF UpdatesInvariant, UpdatesTypeOK, OneAtWork, AtWorkIsLatest,
                StagedIsThere, SwappedIsThere, BinaryIsKept, DoneIsWhatRuns, Latest
<1>. QED
  BY <1>1, LooksKeeps, StartsRunKeeps, StagesKeeps, InstallFailsKeeps, ChecksKeeps,
     PutsAsideKeeps, PutsThereKeeps, RestartsKeeps, GrowsStaleKeeps,
     StopsAndStartsKeeps, StopsForGoodKeeps, PutsBackKeeps DEF UpdatesNext

(* The inductive invariant holds throughout, when looking at the rows and    *)
(* adding one are not interleaved with another's.                            *)
THEOREM UpdatesHold == ASSUME AtOnce PROVE UpdatesSpec => []UpdatesInvariant
<1>1. UpdatesInit => UpdatesInvariant
  BY UpdatesStartRight
<1>2. UpdatesInvariant /\ [UpdatesNext]_updates => UpdatesInvariant'
  BY UpdatesKeeps
<1>. QED
  BY <1>1, <1>2, PTL DEF UpdatesSpec

(* However often the second rename fails or is never reached, and whatever   *)
(* is tried after it: while nothing is at the installed path, a binary that  *)
(* was there is kept beside it, and the last row does not say it worked.     *)
THEOREM BinaryStaysBeside == ASSUME AtOnce PROVE UpdatesSpec => []BinaryIsKept
<1>1. UpdatesInvariant => BinaryIsKept
  BY DEF UpdatesInvariant
<1>. QED
  BY <1>1, UpdatesHold, PTL

(* What the page says was installed is what runs and what starts next.       *)
THEOREM DoneIsRunning == ASSUME AtOnce PROVE UpdatesSpec => []DoneIsWhatRuns
<1>1. UpdatesInvariant => DoneIsWhatRuns
  BY DEF UpdatesInvariant
<1>. QED
  BY <1>1, UpdatesHold, PTL


------------------------------------------------------------------------------
(* Updates keep their types, also where two attempts cross.                  *)

(* A row that is not there is not changed either.                            *)
LEMMA RowsStayRows ==
    ASSUME NEW s \in Seq(Run), NEW k \in Nat, NEW st \in Status
    PROVE  [s EXCEPT ![k].is = st] \in Seq(Run) /\ Len([s EXCEPT ![k].is = st]) = Len(s)
<1>1. CASE k \in 1 .. Len(s)
  BY <1>1, RowsChange
<1>2. CASE k \notin 1 .. Len(s)
  <2>1. [s EXCEPT ![k].is = st] = s
    BY <1>2
  <2>. QED
    BY <2>1
<1>. QED
  BY <1>1, <1>2

(* An attempt goes on to another place, with the release and the row it has. *)
LEMMA MovingOnIsTyped ==
    ASSUME UpdatesTypeOK, NEW i \in Installer,
           NEW at \in {"idle", "looked", "started", "staged", "checked", "aside", "swapped"}
    PROVE  /\ [install EXCEPT ![i].at = at] \in [Installer -> Installing]
           /\ \A k \in 0 .. MaxRuns :
                 [install EXCEPT ![i].at = at, ![i].run = k] \in [Installer -> Installing]
           /\ [install EXCEPT ![i] = NotInstalling] \in [Installer -> Installing]
<1>1. install[i] \in Installing /\ install \in [Installer -> Installing]
  BY DEF UpdatesTypeOK
<1>2. \A inst \in Installing : [install EXCEPT ![i] = inst] \in [Installer -> Installing]
  BY <1>1
<1>3. NotInstalling \in Installing
  BY UpdatesAssumption DEF Installing, NotInstalling
<1>4. [install EXCEPT ![i].at = at] \in [Installer -> Installing]
  <2>1. [install[i] EXCEPT !.at = at] \in Installing
    BY <1>1 DEF Installing
  <2>2. [install EXCEPT ![i].at = at] = [install EXCEPT ![i] = [install[i] EXCEPT !.at = at]]
    BY <1>1
  <2>. QED
    BY <1>2, <2>1, <2>2, Zenon
<1>5. ASSUME NEW k \in 0 .. MaxRuns
      PROVE  [install EXCEPT ![i].at = at, ![i].run = k] \in [Installer -> Installing]
  <2>1. [install[i] EXCEPT !.at = at, !.run = k] \in Installing
    BY <1>1 DEF Installing
  <2>2. [install EXCEPT ![i].at = at, ![i].run = k]
          = [install EXCEPT ![i] = [install[i] EXCEPT !.at = at, !.run = k]]
    BY <1>1
  <2>. QED
    BY <1>2, <2>1, <2>2, Zenon
<1>. QED
  BY <1>2, <1>3, <1>4, <1>5

(* One that fails leaves a row that says so.                                 *)
LEMMA FailingIsTyped ==
    ASSUME UpdatesTypeOK, NEW i \in Installer, Failed(i)
    PROVE  /\ runs' \in Seq(Run) /\ Len(runs') = Len(runs)
           /\ install' \in [Installer -> Installing]
<1>1. install[i].run \in Nat /\ runs \in Seq(Run)
  BY UpdatesAssumption DEF UpdatesTypeOK, Installing
<1>2. "failed" \in Status /\ "idle" \in {"idle", "looked"}
  BY DEF Status
<1>. QED
  BY <1>1, <1>2, RowsStayRows, MovingOnIsTyped DEF Failed

(* Every step of updates, with nothing else assumed.                         *)
LEMMA UpdatesStayTyped ==
    ASSUME UpdatesTypeOK, [UpdatesNext]_updates
    PROVE  UpdatesTypeOK'
<1>1. /\ runs \in Seq(Run) /\ Len(runs) <= MaxRuns /\ install \in [Installer -> Installing]
      /\ binary \in File /\ incoming \in File /\ previous \in File /\ runsNow \in File
      /\ NoFile \in File /\ MaxRuns \in Nat /\ Len(runs) \in Nat
  BY UpdatesAssumption DEF UpdatesTypeOK, File
<1>2. \A i \in Installer : install[i].to \in Version /\ install[i].run \in Nat
  BY <1>1 DEF Installing
<1>3. ASSUME NEW i \in Installer, NEW v \in Version, Looks(i, v) PROVE UpdatesTypeOK'
  <2>1. [at |-> "looked", to |-> v, run |-> 0] \in Installing
    BY <1>1 DEF Installing
  <2>. QED
    BY <1>1, <1>3, <2>1 DEF Looks, UpdatesTypeOK
<1>4. ASSUME NEW i \in Installer, StartsRun(i) PROVE UpdatesTypeOK'
  <2>. DEFINE r == [to |-> install[i].to, is |-> "running", stale |-> FALSE]
              k == Len(runs) + 1
  <2>1. r \in Run /\ k \in 0 .. MaxRuns
    BY <1>1, <1>2, <1>4 DEF Run, Status, StartsRun
  <2>2. /\ runs' = Append(runs, r)
        /\ install' = [install EXCEPT ![i].at = "started", ![i].run = k]
        /\ UNCHANGED <<binary, incoming, previous, runsNow>>
    BY <1>4 DEF StartsRun
  <2>3. install' \in [Installer -> Installing]
    BY <2>1, <2>2, MovingOnIsTyped
  <2>. HIDE DEF r
  <2>4. runs' \in Seq(Run) /\ Len(runs') = k
    BY <1>1, <2>1, <2>2, AppendProperties
  <2>. QED
    BY <1>1, <2>1, <2>2, <2>3, <2>4 DEF UpdatesTypeOK
<1>5. ASSUME NEW i \in Installer, Stages(i) PROVE UpdatesTypeOK'
  <2>1. [install EXCEPT ![i].at = "staged"] \in [Installer -> Installing]
    BY <1>1, MovingOnIsTyped
  <2>. QED
    BY <1>1, <1>2, <1>5, <2>1 DEF Stages, UpdatesTypeOK, File
<1>6. ASSUME NEW i \in Installer, InstallFails(i) PROVE UpdatesTypeOK'
  BY <1>1, <1>6, FailingIsTyped DEF InstallFails, UpdatesTypeOK
<1>7. ASSUME NEW i \in Installer, Checks(i) PROVE UpdatesTypeOK'
  <2>1. [install EXCEPT ![i].at = "checked"] \in [Installer -> Installing]
    BY <1>1, MovingOnIsTyped
  <2>2. UNCHANGED <<binary, previous, runsNow>>
    BY <1>7 DEF Checks
  <2>3. CASE incoming = install[i].to
    BY <1>1, <1>7, <2>1, <2>2, <2>3 DEF Checks, UpdatesTypeOK
  <2>4. CASE incoming # install[i].to
    BY <1>1, <1>7, <2>2, <2>4, FailingIsTyped DEF Checks, UpdatesTypeOK
  <2>. QED
    BY <2>3, <2>4
<1>8. ASSUME NEW i \in Installer, PutsAside(i) PROVE UpdatesTypeOK'
  <2>1. [install EXCEPT ![i].at = "aside"] \in [Installer -> Installing]
    BY <1>1, MovingOnIsTyped
  <2>. QED
    BY <1>1, <1>8, <2>1 DEF PutsAside, UpdatesTypeOK
<1>9. ASSUME NEW i \in Installer, PutsThere(i) PROVE UpdatesTypeOK'
  <2>1. [install EXCEPT ![i].at = "swapped"] \in [Installer -> Installing]
    BY <1>1, MovingOnIsTyped
  <2>2. UNCHANGED <<previous, runsNow>>
    BY <1>9 DEF PutsThere
  <2>3. CASE Failed(i) /\ UNCHANGED <<binary, incoming>>
    BY <1>1, <2>2, <2>3, FailingIsTyped DEF UpdatesTypeOK
  <2>4. CASE /\ incoming # NoFile
             /\ binary' = incoming /\ incoming' = NoFile
             /\ install' = [install EXCEPT ![i].at = "swapped"] /\ runs' = runs
    BY <1>1, <2>1, <2>2, <2>4 DEF UpdatesTypeOK
  <2>. QED
    BY <1>9, <2>3, <2>4 DEF PutsThere
<1>10. ASSUME NEW i \in Installer, StartsOver(i) PROVE UpdatesTypeOK'
  <2>1. "restarting" \in Status /\ "idle" \in {"idle", "looked"}
    BY DEF Status
  <2>2. [install EXCEPT ![i] = NotInstalling] \in [Installer -> Installing]
    BY <2>1, MovingOnIsTyped
  <2>3. /\ [runs EXCEPT ![install[i].run].is = "restarting"] \in Seq(Run)
        /\ Len([runs EXCEPT ![install[i].run].is = "restarting"]) = Len(runs)
    BY <1>1, <1>2, <2>1, RowsStayRows
  <2>. QED
    BY <1>1, <1>10, <2>2, <2>3 DEF StartsOver, UpdatesTypeOK
<1>11. ASSUME NEW k \in DOMAIN runs, GrowsStale(k) PROVE UpdatesTypeOK'
  <2>. DEFINE r == [runs[k] EXCEPT !.stale = TRUE]
  <2>1. runs' = [runs EXCEPT ![k] = r] /\ UNCHANGED <<install, binary, incoming, previous, runsNow>>
    BY <1>11 DEF GrowsStale
  <2>2. k \in 1 .. Len(runs) /\ runs[k] \in Run
    BY <1>1, LenProperties, ElementOfSeq
  <2>3. r \in Run
    BY <2>2 DEF Run
  <2>. HIDE DEF r
  <2>4. runs' \in Seq(Run) /\ Len(runs') = Len(runs)
    BY <1>1, <2>1, <2>2, <2>3, ExceptSeq
  <2>. QED
    BY <1>1, <2>1, <2>4 DEF UpdatesTypeOK
<1>12. [i \in Installer |-> NotInstalling] \in [Installer -> Installing]
  BY UpdatesAssumption DEF Installing, NotInstalling
<1>13. CASE StopsAndStarts
  <2>1. Settled \in Seq(Run) /\ Len(Settled) = Len(runs)
    <3>1. ASSUME NEW st \in {"done", "failed"}
          PROVE  /\ [runs EXCEPT ![Len(runs)].is = st] \in Seq(Run)
                 /\ Len([runs EXCEPT ![Len(runs)].is = st]) = Len(runs)
      <4>1. st \in Status
        BY DEF Status
      <4>. QED
        BY <1>1, <4>1, RowsStayRows
    <3>. QED
      BY <1>1, <3>1 DEF Settled
  <2>. QED
    BY <1>1, <1>12, <1>13, <2>1 DEF StopsAndStarts, UpdatesTypeOK
<1>14. CASE StopsForGood
  BY <1>1, <1>12, <1>14 DEF StopsForGood, UpdatesTypeOK
<1>15. CASE PutsBack
  BY <1>1, <1>15 DEF PutsBack, UpdatesTypeOK
<1>16. CASE UNCHANGED updates
  BY <1>1, <1>16 DEF updates, UpdatesTypeOK
<1>. QED
  BY <1>3, <1>4, <1>5, <1>6, <1>7, <1>8, <1>9, <1>10, <1>11, <1>13, <1>14, <1>15, <1>16
     DEF UpdatesNext

(* The rows, the attempts and the files of updates keep their types, however *)
(* many installs look at the rows at once.                                   *)
THEOREM UpdatesTypesHold == UpdatesSpec => []UpdatesTypeOK
<1>1. UpdatesInit => UpdatesTypeOK
  BY UpdatesStartRight DEF UpdatesInvariant
<1>. QED
  BY <1>1, UpdatesStayTyped, PTL DEF UpdatesSpec

------------------------------------------------------------------------------
(* Backups. *)

(* One process takes backups, no database refuses, and what is dropped goes. *)
Smoothly == Runner = {Here} /\ Failing = {} /\ ~Stubborn

(* A backup has every database, from a moment whose log is still there.      *)
BackupsAreWhole ==
    \A b \in disk : b.at <= now /\ \A d \in Database :
        b.start[d] \in Nat /\ pruned[d] <= b.start[d] /\ b.start[d] <= b.at

(* They follow one another: none begins before an older one was done.        *)
BackupsTakeTurns ==
    \A b, c \in disk :
        /\ b.at = c.at => b = c
        /\ b.at < c.at => \A d \in Database : b.at <= c.start[d]

(* Nor does the one that is being taken.                                     *)
TakenAfterAll ==
    taking[Here].on /\ ~taking[Here].sent => \A d \in Database \ taking[Here].left :
        LET s == taking[Here].start[d] IN
        s \in Nat /\ pruned[d] <= s /\ s <= now /\ \A b \in disk : b.at <= s

(* A pass keeps what it read, and what came since is newer.                  *)
SweepsTheOldest ==
    /\ sweeping.kept \subseteq disk /\ sweeping.expired \subseteq disk
    /\ sweeping.kept \cap sweeping.expired = {}
    /\ sweeping.on => \A b \in disk \ sweeping.expired : \A k \in OldestKept : k.at <= b.at

(* Something that stays anchors the window of every database.                *)
WindowIsAnchored ==
    \A d \in Database : first[d] # Never =>
        \E b \in disk \ sweeping.expired : b.at <= first[d] \/ b.at <= horizon

BackupsInvariant ==
    /\ BackupsTypeOK /\ \A d \in Database : pruned[d] <= now
    /\ BackupsAreWhole /\ BackupsTakeTurns /\ TakenAfterAll
    /\ SweepsTheOldest /\ WindowIsAnchored

------------------------------------------------------------------------------

(* Of backups that lie before a moment one is the newest.                    *)
LEMMA OneIsNewest ==
    ASSUME NEW S \in SUBSET Manifest, S # {}, NEW m \in Nat, \A b \in S : b.at <= m
    PROVE  \E b \in S : \A c \in S : c.at <= b.at
<1>. DEFINE R == {ss \in Nat \X Nat : ss[1] < ss[2]}
            Ages == {m - b.at : b \in S}
<1>1. \A b \in S : b.at \in Nat
  BY DEF Manifest, Moment
<1>2. Ages \subseteq Nat /\ Ages # {}
  BY <1>1
<1>3. IsWellFoundedOn(R, Nat)
  BY NatLessThanWellFounded DEF OpToRel
<1>4. \E x \in Ages : \A y \in Ages : ~ (<<y, x>> \in R)
  BY <1>2, <1>3, WFMin
<1>5. PICK b \in S : \A y \in Ages : ~ (<<y, m - b.at>> \in R)
  BY <1>4
<1>6. ASSUME NEW c \in S PROVE c.at <= b.at
  <2>1. m - c.at \in Ages /\ m - c.at \in Nat /\ m - b.at \in Nat
    BY <1>2
  <2>2. ~ (m - c.at < m - b.at)
    BY <1>5, <2>1
  <2>. QED
    BY <1>1, <2>2
<1>. QED
  BY <1>6

(* What is at rest, and what a pass reads, are of the kinds that are kept.   *)
LEMMA RestIsTyped ==
    NotTaking \in Taking /\ NotSweeping \in Sweeping /\ Never \notin Moment
BY BackupsAssumption DEF NotTaking, NotSweeping, Taking, Sweeping, Copies, Moment, Never

(* Where nothing of the backups moves but what a run or a pass forgot.       *)
LEMMA BackupsStartRight ==
    BackupsInit => BackupsInvariant
<1>. SUFFICES ASSUME BackupsInit PROVE BackupsInvariant
  OBVIOUS
<1>1. keep \in Nat \ {0} /\ now \in Moment /\ horizon \in Moment
  BY BackupsAssumption DEF BackupsInit, Days, Moment
<1>2. taking \in [Runner -> Taking] /\ sweeping \in Sweeping
  BY RestIsTyped DEF BackupsInit
<1>3. pruned \in [Database -> Moment] /\ first \in [Database -> Moment \cup {Never}]
  BY <1>1 DEF BackupsInit
<1>4. BackupsTypeOK
  BY <1>1, <1>2, <1>3 DEF BackupsInit, BackupsTypeOK
<1>5. ~taking[Here].on
  BY BackupsAssumption DEF BackupsInit, NotTaking
<1>. QED
  BY <1>1, <1>3, <1>4, <1>5
     DEF BackupsInit, BackupsInvariant, BackupsAreWhole, BackupsTakeTurns, TakenAfterAll,
         SweepsTheOldest, WindowIsAnchored, NotSweeping

------------------------------------------------------------------------------
(* Taking one. *)

(* One that starts holds no copy yet, so there is nothing it owes.           *)
LEMMA StartingKeeps ==
    ASSUME Smoothly, BackupsInvariant, Starts(Here)
    PROVE  BackupsInvariant'
<1>. USE DEF BackupsInvariant, BackupsTypeOK
<1>1. [on |-> TRUE, at |-> now, left |-> Database, start |-> [d \in Database |-> NoCopy],
       sent |-> FALSE] \in Taking
  BY DEF Taking, Copies
<1>2. taking' \in [Runner -> Taking] /\ taking'[Here].left = Database
  BY <1>1, BackupsAssumption DEF Starts
<1>3. TakenAfterAll'
  BY <1>2 DEF TakenAfterAll
<1>. QED
  BY <1>2, <1>3
     DEF Starts, BackupsAreWhole, BackupsTakeTurns, SweepsTheOldest, OldestKept, WindowIsAnchored

(* A copy starts at the moment it is made, after everything on disk.         *)
LEMMA BackingUpKeeps ==
    ASSUME Smoothly, BackupsInvariant, NEW d \in Database, BacksUp(Here, d)
    PROVE  BackupsInvariant'
<1>. USE DEF BackupsInvariant, BackupsTypeOK
<1>1. taking' = [taking EXCEPT ![Here].left = @ \ {d}, ![Here].start[d] = now]
  BY DEF BacksUp, Smoothly
<1>2. taking[Here] \in Taking /\ Here \in Runner
  BY BackupsAssumption
<1>3. taking'[Here] = [taking[Here] EXCEPT !.left = @ \ {d}, !.start[d] = now]
  BY <1>1, <1>2
<1>4. [taking[Here].start EXCEPT ![d] = now] \in Copies
  BY <1>2 DEF Taking, Copies
<1>5. taking'[Here] \in Taking
  BY <1>2, <1>3, <1>4 DEF Taking
<1>6. taking' \in [Runner -> Taking]
  BY <1>1, <1>5 DEF Smoothly
<1>7. /\ taking'[Here].left = taking[Here].left \ {d}
      /\ taking'[Here].on = taking[Here].on /\ taking'[Here].sent = taking[Here].sent
      /\ taking'[Here].start = [taking[Here].start EXCEPT ![d] = now]
  BY <1>2, <1>3 DEF Taking
<1>8. taking[Here].start \in Copies /\ now \in Nat
  BY <1>2 DEF Taking, Moment
<1>9. TakenAfterAll'
  <2>. SUFFICES ASSUME taking'[Here].on, ~taking'[Here].sent,
                       NEW e \in Database \ taking'[Here].left
                PROVE  LET s == taking'[Here].start[e] IN
                       /\ s \in Nat /\ pruned'[e] <= s /\ s <= now'
                       /\ \A b \in disk' : b.at <= s
    BY DEF TakenAfterAll
  <2>u. UNCHANGED <<now, disk, pruned>>
    BY DEF BacksUp
  <2>1. CASE e = d
    <3>1. taking'[Here].start[e] = now
      BY <1>7, <1>8, <2>1 DEF Copies
    <3>. QED
      BY <1>8, <2>u, <2>1, <3>1 DEF BackupsAreWhole
  <2>2. CASE e # d
    <3>1. taking'[Here].start[e] = taking[Here].start[e] /\ e \in Database \ taking[Here].left
      BY <1>7, <1>8, <2>2 DEF Copies
    <3>. QED
      BY <1>7, <2>u, <3>1 DEF TakenAfterAll
  <2>. QED
    BY <2>1, <2>2
<1>. QED
  BY <1>6, <1>9
     DEF BacksUp, BackupsAreWhole, BackupsTakeTurns, SweepsTheOldest, OldestKept, WindowIsAnchored

(* The one that is written down is newer than all there are, whole, and      *)
(* nobody's to drop.                                                         *)
LEMMA WritingKeeps ==
    ASSUME Smoothly, BackupsInvariant, WritesManifest(Here)
    PROVE  BackupsInvariant'
<1>. USE DEF BackupsInvariant, BackupsTypeOK
<1>. DEFINE b == [at |-> now, start |-> taking[Here].start]
<1>1. taking[Here] \in Taking /\ Here \in Runner
  BY BackupsAssumption
<1>2. /\ taking[Here].on /\ taking[Here].left = {} /\ ~taking[Here].sent
      /\ \A c \in disk : c.at # now
      /\ disk' = disk \cup {b}
      /\ taking' = [taking EXCEPT ![Here].sent = TRUE]
      /\ first' = [d \in Database |-> IF Holds(b, d) /\ first[d] = Never THEN now ELSE first[d]]
      /\ UNCHANGED <<now, keep, attempt, pruned, sweeping, horizon>>
  BY DEF WritesManifest, TakenAt
<1>3. b \in Manifest /\ b.at = now /\ b.start = taking[Here].start
  BY <1>1 DEF Manifest, Taking
<1>4. \A d \in Database : /\ b.start[d] \in Nat /\ pruned[d] <= b.start[d] /\ b.start[d] <= now
                          /\ \A c \in disk : c.at <= b.start[d]
  BY <1>2, <1>3 DEF TakenAfterAll
<1>5. \A c \in disk : c.at \in Nat /\ c.at < now
  BY <1>2 DEF BackupsAreWhole, Manifest, Moment
<1>n. now \in Nat
  BY DEF Moment
<1>. HIDE DEF b
<1>6. taking' \in [Runner -> Taking] /\ taking'[Here].start = taking[Here].start
      /\ taking'[Here].left = taking[Here].left /\ taking'[Here].sent
  BY <1>1, <1>2 DEF Taking
<1>7. BackupsTypeOK'
  BY <1>2, <1>3, <1>6
<1>8. BackupsAreWhole'
  BY <1>2, <1>3, <1>4, <1>n DEF BackupsAreWhole
<1>9. BackupsTakeTurns'
  BY <1>2, <1>3, <1>4, <1>5, <1>n DEF BackupsTakeTurns
<1>10. TakenAfterAll'
  BY <1>2, <1>6 DEF TakenAfterAll
<1>11. b \notin disk
  BY <1>3, <1>5, <1>n
<1>12. SweepsTheOldest'
  BY <1>2, <1>3, <1>5, <1>11, <1>n DEF SweepsTheOldest, OldestKept
<1>13. WindowIsAnchored'
  <2>. SUFFICES ASSUME NEW d \in Database, first'[d] # Never
                PROVE  \E c \in disk' \ sweeping'.expired : c.at <= first'[d] \/ c.at <= horizon'
    BY DEF WindowIsAnchored
  <2>1. CASE first[d] # Never
    BY <1>2, <2>1 DEF WindowIsAnchored
  <2>2. CASE first[d] = Never
    <3>1. first'[d] = now /\ b \in disk' /\ b \notin sweeping'.expired
      BY <1>2, <1>11, <2>2 DEF SweepsTheOldest
    <3>. QED
      BY <1>3, <1>n, <3>1
  <2>. QED
    BY <2>1, <2>2
<1>. QED
  BY <1>2, <1>7, <1>8, <1>9, <1>10, <1>12, <1>13

(* A run that failed, or ends, is no longer one that goes on.                *)
LEMMA EndingKeeps ==
    ASSUME Smoothly, BackupsInvariant, RunFails(Here) \/ Records(Here)
    PROVE  BackupsInvariant'
<1>. USE DEF BackupsInvariant, BackupsTypeOK
<1>1. taking[Here] \in Taking /\ Here \in Runner
  BY BackupsAssumption
<1>2. CASE RunFails(Here)
  <2>1. taking' \in [Runner -> Taking] /\ taking'[Here].start = taking[Here].start
        /\ taking'[Here].left = taking[Here].left /\ taking'[Here].sent
        /\ taking'[Here].on = taking[Here].on
    BY <1>1, <1>2 DEF Taking, RunFails
  <2>2. TakenAfterAll'
    BY <1>2, <2>1 DEF TakenAfterAll, RunFails
  <2>. QED
    BY <1>2, <2>1, <2>2
       DEF RunFails, BackupsAreWhole, BackupsTakeTurns, SweepsTheOldest, OldestKept,
           WindowIsAnchored
<1>3. CASE Records(Here)
  <2>1. taking' \in [Runner -> Taking] /\ ~taking'[Here].on
    BY <1>1, <1>3, RestIsTyped DEF Records, NotTaking
  <2>2. attempt' \in Moment
    BY <1>1, <1>3 DEF Records, Taking
  <2>. QED
    BY <1>3, <2>1, <2>2
       DEF Records, TakenAfterAll, BackupsAreWhole, BackupsTakeTurns, SweepsTheOldest, OldestKept,
           WindowIsAnchored
<1>. QED
  BY <1>2, <1>3

------------------------------------------------------------------------------
(* The retention pass. *)

(* What anchored a window is kept, or one in its place is.                   *)
LEMMA ReadingKeeps ==
    ASSUME Smoothly, BackupsInvariant, SweepReads
    PROVE  BackupsInvariant'
<1>. USE DEF BackupsInvariant, BackupsTypeOK
<1>0. now \in Nat /\ now <= Late /\ Late \in Nat /\ keep \in Nat
  BY BackupsAssumption DEF Moment
<1>1. Horizon \in Moment /\ Horizon \in Nat
  BY <1>0 DEF Horizon, Moment
<1>2. sweeping' = [on |-> TRUE, kept |-> Keeping, expired |-> disk \ Keeping]
      /\ UNCHANGED <<now, keep, attempt, taking, disk, pruned, first>>
      /\ horizon' = IF Horizon > horizon THEN Horizon ELSE horizon
  BY DEF SweepReads
<1>3. sweeping' \in Sweeping /\ sweeping'.kept = Keeping /\ sweeping'.expired = disk \ Keeping
      /\ Keeping \subseteq disk
  BY <1>2 DEF Sweeping, Keeping
<1>4. horizon' \in Moment /\ Horizon <= horizon' /\ horizon <= horizon'
  BY <1>1, <1>2 DEF Moment
<1>5. SweepsTheOldest'
  BY <1>2, <1>3 DEF SweepsTheOldest, OldestKept
<1>6. WindowIsAnchored'
  <2>. SUFFICES ASSUME NEW d \in Database, first[d] # Never
                PROVE  \E c \in Keeping : c.at <= first[d] \/ c.at <= horizon'
    BY <1>2, <1>3 DEF WindowIsAnchored
  <2>1. PICK b \in disk : b.at <= first[d] \/ b.at <= horizon
    BY DEF WindowIsAnchored
  <2>t. b.at \in Nat /\ first[d] \in Nat /\ horizon \in Nat
    BY DEF Manifest, Moment
  <2>2. CASE b.at >= Horizon
    BY <1>4, <2>1, <2>2, <2>t DEF Keeping, Moment
  <2>3. CASE b.at < Horizon
    <3>. DEFINE Before == {c \in disk : c.at < Horizon}
    <3>1. Before \in SUBSET Manifest /\ Before # {} /\ \A c \in Before : c.at <= Horizon
      BY <1>1, <2>3 DEF Manifest, Moment
    <3>2. PICK c \in Before : \A e \in Before : e.at <= c.at
      BY <1>1, <3>1, OneIsNewest
    <3>3. c \in Keeping
      BY <3>2 DEF Keeping
    <3>4. c.at \in Nat /\ c.at <= horizon'
      BY <1>1, <1>4, <3>2 DEF Manifest, Moment
    <3>. QED
      BY <3>3, <3>4
  <2>. QED
    BY <1>1, <2>2, <2>3, <2>t
<1>7. BackupsAreWhole' /\ BackupsTakeTurns'
  BY <1>2 DEF BackupsAreWhole, BackupsTakeTurns
<1>8. TakenAfterAll'
  BY <1>2 DEF TakenAfterAll
<1>9. BackupsTypeOK' /\ \A d \in Database : pruned'[d] <= now'
  BY <1>2, <1>3, <1>4
<1>. QED
  BY <1>5, <1>6, <1>7, <1>8, <1>9

(* What goes is what the pass let go of, and not what anchors a window.      *)
LEMMA DroppingKeeps ==
    ASSUME Smoothly, BackupsInvariant, NEW b \in sweeping.expired, Drops(b)
    PROVE  BackupsInvariant'
<1>. USE DEF BackupsInvariant, BackupsTypeOK
<1>1. /\ disk' = disk \ {b} /\ sweeping.on
      /\ sweeping' = [sweeping EXCEPT !.expired = @ \ {b}]
      /\ UNCHANGED <<now, keep, attempt, taking, pruned, horizon, first>>
  BY DEF Drops, Smoothly
<1>2. sweeping' \in Sweeping /\ sweeping'.kept = sweeping.kept /\ sweeping'.on
      /\ sweeping'.expired = sweeping.expired \ {b}
  BY <1>1 DEF Sweeping
<1>3. disk' \ sweeping'.expired = disk \ sweeping.expired
  BY <1>1, <1>2
<1>4. SweepsTheOldest'
  BY <1>1, <1>2, <1>3 DEF SweepsTheOldest, OldestKept
<1>5. WindowIsAnchored'
  BY <1>1, <1>3 DEF WindowIsAnchored
<1>. QED
  BY <1>1, <1>2, <1>4, <1>5 DEF BackupsAreWhole, BackupsTakeTurns, TakenAfterAll

(* The log of a database goes up to where its oldest backup begins.          *)
LEMMA PruningKeeps ==
    ASSUME Smoothly, BackupsInvariant, Prunes
    PROVE  BackupsInvariant'
<1>. USE DEF BackupsInvariant, BackupsTypeOK
<1>1. sweeping.on /\ sweeping.expired = {} /\ sweeping' = NotSweeping
      /\ UNCHANGED <<now, keep, attempt, taking, disk, horizon, first>>
  BY DEF Prunes
<1>2. ASSUME NEW d \in Database, pruned'[d] # pruned[d]
      PROVE  \E k \in disk : /\ pruned'[d] = k.start[d]
                             /\ \A b \in disk : k.at <= b.at
  <2>1. OldestKept # {} /\ pruned'[d] = (CHOOSE b \in OldestKept : TRUE).start[d]
    BY <1>2 DEF Prunes
  <2>2. (CHOOSE b \in OldestKept : TRUE) \in OldestKept
    BY <2>1
  <2>. QED
    BY <1>1, <2>1, <2>2 DEF SweepsTheOldest, OldestKept
<1>3. \A d \in Database : pruned[d] \in Nat /\ now \in Nat
  BY DEF Moment
<1>4. \A b \in disk : b \in Manifest /\ b.at \in Nat /\ b.at <= Late
  BY BackupsAssumption DEF Manifest, Moment
<1>5. ASSUME NEW d \in Database
      PROVE  /\ pruned'[d] \in Moment /\ pruned'[d] <= now
             /\ \A b \in disk : pruned'[d] <= b.start[d]
             /\ taking[Here].on /\ ~taking[Here].sent /\ d \notin taking[Here].left
                  => pruned'[d] <= taking[Here].start[d]
  <2>1. CASE pruned'[d] = pruned[d]
    BY <1>3, <2>1 DEF BackupsAreWhole, TakenAfterAll
  <2>2. CASE pruned'[d] # pruned[d]
    <3>1. PICK k \in disk : pruned'[d] = k.start[d] /\ \A b \in disk : k.at <= b.at
      BY <1>2, <2>2
    <3>2. k.start[d] \in Nat /\ k.start[d] <= k.at /\ k.at <= now /\ k.at \in Nat
      BY <1>4 DEF BackupsAreWhole
    <3>3. pruned'[d] \in Moment /\ pruned'[d] <= now
      BY <1>3, <1>4, <3>1, <3>2, BackupsAssumption DEF Moment
    <3>4. ASSUME NEW b \in disk PROVE k.start[d] <= b.start[d]
      <4>1. b.start[d] \in Nat /\ b.at \in Nat /\ k.at <= b.at
        BY <1>4, <3>1 DEF BackupsAreWhole
      <4>2. CASE b.at = k.at
        <5>1. b = k
          BY <4>2 DEF BackupsTakeTurns
        <5>. QED
          BY <3>2, <5>1
      <4>3. CASE k.at < b.at
        <5>1. k.at <= b.start[d]
          BY <4>3 DEF BackupsTakeTurns
        <5>. QED
          BY <3>2, <4>1, <5>1
      <4>. QED
        BY <3>2, <4>1, <4>2, <4>3
    <3>5. ASSUME taking[Here].on, ~taking[Here].sent, d \notin taking[Here].left
          PROVE  k.start[d] <= taking[Here].start[d]
      <4>1. taking[Here].start[d] \in Nat /\ k.at <= taking[Here].start[d]
        BY <3>5 DEF TakenAfterAll
      <4>. QED
        BY <3>2, <4>1
    <3>. QED
      BY <3>1, <3>3, <3>4, <3>5
  <2>. QED
    BY <2>1, <2>2
<1>6. pruned' \in [Database -> Moment]
  <2>1. pruned' = [d \in Database |-> pruned'[d]]
    BY DEF Prunes
  <2>. QED
    BY <1>5, <2>1
<1>7. BackupsAreWhole'
  BY <1>1, <1>5 DEF BackupsAreWhole
<1>8. TakenAfterAll'
  BY <1>1, <1>5 DEF TakenAfterAll
<1>9. SweepsTheOldest' /\ WindowIsAnchored' /\ sweeping' \in Sweeping
  BY <1>1, RestIsTyped DEF SweepsTheOldest, OldestKept, WindowIsAnchored, NotSweeping
<1>. QED
  BY <1>1, <1>5, <1>6, <1>7, <1>8, <1>9 DEF BackupsTakeTurns

------------------------------------------------------------------------------
(* The rest, and all of it. *)

(* A clock that moves on, another window, and a stop, which loses what is    *)
(* being taken and what a pass had left to drop.                             *)
LEMMA BesideKeeps ==
    ASSUME Smoothly, BackupsInvariant,
           TimePasses \/ BackupsStop \/ \E k \in KeepDays : StorePlan(k)
    PROVE  BackupsInvariant'
<1>. USE DEF BackupsInvariant, BackupsTypeOK
<1>1. CASE TimePasses
  <2>1. now' \in Moment /\ now' \in Nat /\ now \in Nat /\ now <= now'
    BY <1>1, BackupsAssumption DEF TimePasses, Moment
  <2>2. BackupsAreWhole'
    BY <1>1, <2>1 DEF TimePasses, BackupsAreWhole, Manifest, Moment
  <2>3. TakenAfterAll'
    BY <1>1, <2>1 DEF TimePasses, TakenAfterAll
  <2>4. \A d \in Database : pruned'[d] <= now'
    BY <1>1, <2>1 DEF TimePasses, Moment
  <2>. QED
    BY <1>1, <2>1, <2>2, <2>3, <2>4
       DEF TimePasses, BackupsTakeTurns, SweepsTheOldest, OldestKept, WindowIsAnchored
<1>2. CASE BackupsStop
  <2>1. taking' \in [Runner -> Taking] /\ ~taking'[Here].on /\ sweeping' \in Sweeping
    BY <1>2, RestIsTyped, BackupsAssumption DEF BackupsStop, NotTaking
  <2>2. SweepsTheOldest' /\ WindowIsAnchored' /\ TakenAfterAll'
    BY <1>2, <2>1
       DEF BackupsStop, SweepsTheOldest, OldestKept, WindowIsAnchored, TakenAfterAll, NotSweeping
  <2>. QED
    BY <1>2, <2>1, <2>2 DEF BackupsStop, BackupsAreWhole, BackupsTakeTurns
<1>3. ASSUME NEW k \in KeepDays, StorePlan(k) PROVE BackupsInvariant'
  <2>1. keep' \in Nat \ {0}
    BY <1>3, BackupsAssumption DEF StorePlan, Days
  <2>. QED
    BY <1>3, <2>1
       DEF StorePlan, BackupsAreWhole, BackupsTakeTurns, TakenAfterAll, SweepsTheOldest,
           OldestKept, WindowIsAnchored
<1>. QED
  BY <1>1, <1>2, <1>3

(* Every step keeps backups whole, in turn and anchored.                     *)
LEMMA BackupsKeep ==
    ASSUME Smoothly, BackupsInvariant, [BackupsNext]_backups
    PROVE  BackupsInvariant'
<1>1. CASE UNCHANGED backups
  BY <1>1
     DEF backups, BackupsInvariant, BackupsTypeOK, BackupsAreWhole, BackupsTakeTurns,
         TakenAfterAll, SweepsTheOldest, OldestKept, WindowIsAnchored
<1>2. CASE Scheduled
  BY <1>2, StartingKeeps DEF Scheduled
<1>3. ASSUME NEW r \in Runner,
             ByHand(r) \/ WritesManifest(r) \/ RunFails(r) \/ Records(r)
               \/ \E d \in Database : BacksUp(r, d)
      PROVE  BackupsInvariant'
  <2>1. r = Here
    BY DEF Smoothly
  <2>. QED
    BY <1>3, <2>1, StartingKeeps, BackingUpKeeps, WritingKeeps, EndingKeeps DEF ByHand
<1>. QED
  BY <1>1, <1>2, <1>3, ReadingKeeps, DroppingKeeps, PruningKeeps, BesideKeeps DEF BackupsNext

(* Whatever is read as the newest base of a moment reaches it.               *)
LEMMA NewestReaches ==
    ASSUME BackupsInvariant, NEW d \in Database, NEW m \in 0 .. now,
           NEW b \in disk, b.at <= m
    PROVE  Reachable(d, m)
<1>. USE DEF BackupsInvariant, BackupsTypeOK
<1>. DEFINE Before == {c \in disk : c.at <= m /\ Holds(c, d)}
<1>1. \A c \in disk : /\ Holds(c, d) /\ c.at \in Nat /\ c.start[d] \in Nat
                      /\ pruned[d] <= c.start[d] /\ c.start[d] <= c.at
  BY BackupsAssumption DEF BackupsAreWhole, Holds, Manifest, Moment
<1>2. m \in Nat /\ Before \in SUBSET Manifest /\ Before # {} /\ \A c \in Before : c.at <= m
  BY <1>1 DEF Moment
<1>3. PICK c \in Before : \A e \in Before : e.at <= c.at
  BY <1>2, OneIsNewest
<1>4. c \in BaseFor(d, m)
  BY <1>3 DEF BaseFor
<1>5. Reaches(c, d, m)
  BY <1>1, <1>2, <1>3 DEF Reaches
<1>. QED
  BY <1>4, <1>5 DEF Reachable

(* Backups that are whole, follow one another and anchor the window.         *)
THEOREM BackupsHold == ASSUME Smoothly PROVE BackupsSpec => []BackupsInvariant
<1>1. BackupsInit => BackupsInvariant
  BY BackupsStartRight
<1>2. BackupsInvariant /\ [BackupsNext]_backups => BackupsInvariant'
  BY BackupsKeep
<1>. QED
  BY <1>1, <1>2, PTL DEF BackupsSpec

(* What the page of a database promises is what a restore reaches.           *)
THEOREM PromisesAreKept == ASSUME Smoothly PROVE BackupsSpec => []PromiseKept
<1>1. BackupsInvariant => PromiseKept
  <2>. SUFFICES ASSUME BackupsInvariant, NEW d \in Database, NEW m \in Window(d)
                PROVE  Reachable(d, m)
    BY DEF PromiseKept
  <2>1. m \in 0 .. now /\ \E b \in disk : b.at <= m
    BY DEF Window
  <2>. QED
    BY <2>1, NewestReaches
<1>. QED
  BY <1>1, BackupsHold, PTL

(* Every moment of the window can be restored.                               *)
THEOREM WindowsAreReachable == ASSUME Smoothly PROVE BackupsSpec => []WindowReachable
<1>1. BackupsInvariant => WindowReachable
  <2>. SUFFICES ASSUME BackupsInvariant, NEW d \in Database, NEW m \in 0 .. now,
                       horizon <= m, first[d] <= m
                PROVE  Reachable(d, m)
    BY DEF WindowReachable
  <2>1. now \in 0 .. Late /\ horizon \in Nat /\ m \in Nat /\ first[d] \in Nat
        /\ \A b \in disk : b.at \in Nat
    BY BackupsAssumption DEF BackupsInvariant, BackupsTypeOK, Moment, Never, Manifest
  <2>2. first[d] # Never
    BY <2>1, BackupsAssumption DEF Never
  <2>3. PICK b \in disk : b.at <= first[d] \/ b.at <= horizon
    BY <2>2 DEF BackupsInvariant, WindowIsAnchored
  <2>4. b.at <= m
    BY <2>1, <2>3
  <2>. QED
    BY <2>4, NewestReaches
<1>. QED
  BY <1>1, BackupsHold, PTL

------------------------------------------------------------------------------
(* Backups keep their types whoever takes them and whatever fails.           *)

(* No two that a pass kept, and no two on disk, are of one moment.           *)
OnePerMoment(S) == \A b, c \in S : b.at = c.at => b = c

BackupsAreTyped ==
    BackupsTypeOK /\ OnePerMoment(disk) /\ OnePerMoment(sweeping.kept)

(* Where a log is cut off is where a backup began that holds the database.   *)
LEMMA CuttingOffIsTyped ==
    ASSUME BackupsAreTyped, NEW d \in Database,
           \E b \in OldestKept : Holds(b, d) /\ b.start[d] > pruned[d]
    PROVE  (CHOOSE b \in OldestKept : TRUE).start[d] \in Moment
<1>1. PICK b \in OldestKept : Holds(b, d)
  OBVIOUS
<1>2. OldestKept \subseteq sweeping.kept /\ sweeping.kept \subseteq Manifest
  BY DEF OldestKept, BackupsAreTyped, BackupsTypeOK, Sweeping
<1>3. ASSUME NEW c \in OldestKept PROVE c = b
  <2>1. c.at <= b.at /\ b.at <= c.at /\ c.at \in Nat /\ b.at \in Nat
    BY <1>2 DEF OldestKept, Manifest, Moment
  <2>. QED
    BY <1>2, <2>1 DEF BackupsAreTyped, OnePerMoment
<1>4. (CHOOSE c \in OldestKept : TRUE) = b
  BY <1>1, <1>3
<1>5. b.start[d] \in Moment
  BY <1>1, <1>2 DEF Manifest, Copies, Holds
<1>. QED
  BY <1>4, <1>5

(* Every step of backups, with nothing else assumed.                         *)
LEMMA BackupsStayTyped ==
    ASSUME BackupsAreTyped, [BackupsNext]_backups
    PROVE  BackupsAreTyped'
<1>1. /\ now \in Moment /\ keep \in Nat \ {0} /\ attempt \in Moment \cup {Never}
      /\ taking \in [Runner -> Taking] /\ disk \subseteq Manifest
      /\ pruned \in [Database -> Moment] /\ sweeping \in Sweeping
      /\ horizon \in Moment /\ first \in [Database -> Moment \cup {Never}]
      /\ now \in Nat /\ Late \in Nat
      /\ OnePerMoment(disk) /\ OnePerMoment(sweeping.kept)
  BY BackupsAssumption DEF BackupsAreTyped, BackupsTypeOK, Moment
<1>. USE DEF BackupsAreTyped, BackupsTypeOK
<1>2. ASSUME NEW r \in Runner, Starts(r) PROVE BackupsAreTyped'
  <2>1. [on |-> TRUE, at |-> now, left |-> Database, start |-> [d \in Database |-> NoCopy],
         sent |-> FALSE] \in Taking
    BY <1>1 DEF Taking, Copies
  <2>. QED
    BY <1>1, <1>2, <2>1 DEF Starts
<1>3. ASSUME NEW r \in Runner, NEW d \in Database, BacksUp(r, d) PROVE BackupsAreTyped'
  <2>1. taking[r] \in Taking /\ taking[r].start \in Copies
    BY <1>1 DEF Taking
  <2>2. [taking[r].start EXCEPT ![d] = now] \in Copies
    BY <1>1, <2>1 DEF Copies
  <2>3. /\ [taking[r] EXCEPT !.left = @ \ {d}, !.start[d] = now] \in Taking
        /\ [taking[r] EXCEPT !.left = @ \ {d}] \in Taking
    BY <2>1, <2>2 DEF Taking
  <2>4. \/ taking' = [taking EXCEPT ![r] = [taking[r] EXCEPT !.left = @ \ {d}, !.start[d] = now]]
        \/ taking' = [taking EXCEPT ![r] = [taking[r] EXCEPT !.left = @ \ {d}]]
    BY <1>1, <1>3 DEF BacksUp
  <2>5. taking' \in [Runner -> Taking]
    BY <1>1, <2>3, <2>4
  <2>. QED
    BY <1>1, <1>3, <2>5 DEF BacksUp
<1>4. ASSUME NEW r \in Runner, NEW t \in Taking, taking' = [taking EXCEPT ![r] = t]
      PROVE  taking' \in [Runner -> Taking]
  BY <1>1, <1>4
<1>5. ASSUME NEW r \in Runner
      PROVE  [taking EXCEPT ![r].sent = TRUE] \in [Runner -> Taking]
  <2>1. [taking[r] EXCEPT !.sent = TRUE] \in Taking
    BY <1>1 DEF Taking
  <2>2. [taking EXCEPT ![r].sent = TRUE] = [taking EXCEPT ![r] = [taking[r] EXCEPT !.sent = TRUE]]
    BY <1>1
  <2>. QED
    BY <1>1, <2>1, <2>2
<1>6. ASSUME NEW r \in Runner, WritesManifest(r) PROVE BackupsAreTyped'
  <2>. DEFINE b == [at |-> now, start |-> taking[r].start]
  <2>1. /\ \A c \in disk : c.at # b.at
        /\ disk' = disk \cup {b}
        /\ taking' = [taking EXCEPT ![r].sent = TRUE]
        /\ first' = [d \in Database |-> IF Holds(b, d) /\ first[d] = Never THEN now ELSE first[d]]
        /\ UNCHANGED <<now, keep, attempt, pruned, sweeping, horizon>>
    BY <1>6 DEF WritesManifest, TakenAt
  <2>2. b \in Manifest
    BY <1>1 DEF Manifest, Taking
  <2>3. taking' \in [Runner -> Taking]
    BY <1>5, <2>1
  <2>. HIDE DEF b
  <2>4. first' \in [Database -> Moment \cup {Never}]
    BY <1>1, <2>1
  <2>5. disk' \subseteq Manifest /\ OnePerMoment(disk')
    BY <1>1, <2>1, <2>2 DEF OnePerMoment
  <2>. QED
    BY <1>1, <2>1, <2>3, <2>4, <2>5 DEF OnePerMoment
<1>7. ASSUME NEW r \in Runner, RunFails(r) PROVE BackupsAreTyped'
  BY <1>1, <1>5, <1>7 DEF RunFails
<1>8. ASSUME NEW r \in Runner, Records(r) PROVE BackupsAreTyped'
  <2>1. taking[r].at \in Moment
    BY <1>1 DEF Taking
  <2>. QED
    BY <1>1, <1>4, <1>8, <2>1, RestIsTyped DEF Records
<1>9. CASE SweepReads
  <2>1. Horizon \in Moment
    BY <1>1 DEF Horizon, Moment
  <2>2. Keeping \subseteq disk
    BY DEF Keeping
  <2>3. [on |-> TRUE, kept |-> Keeping, expired |-> disk \ Keeping] \in Sweeping
    BY <1>1, <2>2 DEF Sweeping
  <2>4. OnePerMoment(Keeping)
    BY <1>1, <2>2 DEF OnePerMoment
  <2>. HIDE DEF Horizon, Keeping
  <2>. QED
    BY <1>1, <1>9, <2>1, <2>3, <2>4 DEF SweepReads, OnePerMoment
<1>10. ASSUME NEW b \in sweeping.expired, Drops(b) PROVE BackupsAreTyped'
  <2>1. /\ sweeping' = [sweeping EXCEPT !.expired = @ \ {b}]
        /\ disk' \subseteq disk
        /\ UNCHANGED <<now, keep, attempt, taking, pruned, horizon, first>>
    BY <1>10 DEF Drops
  <2>2. sweeping' \in Sweeping /\ sweeping'.kept = sweeping.kept
    BY <1>1, <2>1 DEF Sweeping
  <2>. QED
    BY <1>1, <2>1, <2>2 DEF OnePerMoment
<1>11. CASE Prunes
  <2>1. /\ pruned' = [d \in Database |->
             IF \E b \in OldestKept : Holds(b, d) /\ b.start[d] > pruned[d]
             THEN (CHOOSE b \in OldestKept : TRUE).start[d] ELSE pruned[d]]
        /\ sweeping' = NotSweeping
        /\ UNCHANGED <<now, keep, attempt, taking, disk, horizon, first>>
    BY <1>11 DEF Prunes
  <2>2. \A d \in Database :
          (\E b \in OldestKept : Holds(b, d) /\ b.start[d] > pruned[d]) =>
             (CHOOSE b \in OldestKept : TRUE).start[d] \in Moment
    BY CuttingOffIsTyped
  <2>3. pruned' \in [Database -> Moment]
    BY <1>1, <2>1, <2>2
  <2>4. sweeping' \in Sweeping /\ sweeping'.kept = {}
    BY <2>1, RestIsTyped DEF NotSweeping
  <2>. QED
    BY <1>1, <2>1, <2>3, <2>4 DEF OnePerMoment
<1>12. CASE TimePasses
  BY <1>1, <1>12 DEF TimePasses, Moment
<1>13. ASSUME NEW k \in KeepDays, StorePlan(k) PROVE BackupsAreTyped'
  <2>1. Days(k) \in Nat \ {0}
    BY BackupsAssumption DEF Days
  <2>. QED
    BY <1>1, <1>13, <2>1 DEF StorePlan
<1>14. CASE BackupsStop
  <2>1. sweeping' = NotSweeping /\ sweeping' \in Sweeping /\ sweeping'.kept = {}
    BY <1>14, RestIsTyped DEF BackupsStop, NotSweeping
  <2>2. taking' \in [Runner -> Taking]
    BY <1>1, <1>14, RestIsTyped DEF BackupsStop
  <2>. QED
    BY <1>1, <1>14, <2>1, <2>2 DEF BackupsStop, OnePerMoment
<1>15. CASE UNCHANGED backups
  BY <1>1, <1>15 DEF backups
<1>. QED
  BY <1>2, <1>3, <1>6, <1>7, <1>8, <1>9, <1>10, <1>11, <1>12, <1>13, <1>14, <1>15,
     BackupsAssumption DEF BackupsNext, Scheduled, ByHand

(* The plan, what is being taken, what is on disk and what is left of the    *)
(* logs keep their types, also with several processes taking backups, with   *)
(* databases that refuse and directories that stay: a log is only ever cut   *)
(* off where a copy of its database begins.                                  *)
THEOREM BackupsTypesHold == BackupsSpec => []BackupsTypeOK
<1>1. BackupsInit => BackupsAreTyped
  BY BackupsStartRight DEF BackupsInvariant, BackupsAreTyped, BackupsInit, NotSweeping, OnePerMoment
<1>2. BackupsAreTyped => BackupsTypeOK
  BY DEF BackupsAreTyped
<1>. QED
  BY <1>1, <1>2, BackupsStayTyped, PTL DEF BackupsSpec

------------------------------------------------------------------------------
(* One-time commands: what the queue looks like to them. Every step is one  *)
(* of the queue's, but for a restart, which resets a leg and is no fault.   *)

LEMMA CommandsUseTheQueue ==
    ASSUME [CommandNext]_all
    PROVE  [Next]_vars \/ \E n \in Node : RestartNow(n)
  <1>1. CASE UNCHANGED all
    BY <1>1 DEF all, channel
  <1>2. ASSUME NEW n \in Node, NEW to \in Node, NEW o \in Order, AskOnce(n, to, o)
        PROVE  Next
    BY <1>2 DEF AskOnce, Next
  <1>3. ASSUME NEW n \in Node, Wire(n) PROVE Next
    BY <1>3 DEF Wire, Next, Calls
  <1>4. ASSUME NEW n \in Node, HandUp(n) \/ HandUpRefused(n) PROVE Next
    BY <1>4 DEF HandUp, HandUpRefused, Next, Calls
  <1>5. ASSUME NEW n \in Node, Do(n) PROVE Next \/ UNCHANGED vars
    <2>1. ASSUME NEW failed \in BOOLEAN, CarryOut(n, failed) PROVE Next
      BY <2>1 DEF Next, Calls
    <2> QED
      BY <1>5, <2>1 DEF Do, RefuseCommand, SkipObeyed, NoteObeyed, Perform, channel
  <1>6. ASSUME NEW n \in Node, Beside(n) PROVE Next \/ UNCHANGED vars \/ RestartNow(n)
    BY <1>6 DEF Beside, ClaimRun, SlotComesRound, BackupEnds, CrashNow, Next, channel
  <1>7. ASSUME NEW n \in Node, NEW a \in Node, SetManages(n, a) PROVE UNCHANGED vars
    BY <1>7 DEF SetManages, channel
  <1>8. ASSUME NEW m \in flight, LateHandUp(m) \/ LateSettle(m) \/ Lose(m) PROVE Next
    BY <1>8 DEF LateHandUp, Next
  <1> QED
    BY <1>1, <1>2, <1>3, <1>4, <1>5, <1>6, <1>7, <1>8 DEF CommandNext

LEMMA RestartKeepsBooks ==
    ASSUME TypeOK, Bookkeeping, NEW k \in Node,
           pass' = [pass EXCEPT ![k] = Resting(k)],
           UNCHANGED <<table, authority, flight, obeyed, faults>>
    PROVE  TypeOK' /\ Bookkeeping'
  <1>1. TypeOK'
    BY LegsAreTyped DEF TypeOK
  <1>2. ASSUME NEW n \in Node
        PROVE  (ReachesOthers(n) /\ HoldsRows(n) /\ HoldsTheOldest(n) /\ AnswersTruly(n))'
    <2>0. ReachesOthers(n) /\ HoldsRows(n) /\ HoldsTheOldest(n) /\ AnswersTruly(n)
      BY DEF Bookkeeping
    <2>1. CASE n = k
      <3>1. pass'[n] = Resting(n)
        BY <2>1 DEF TypeOK
      <3> QED
        BY <2>0, <3>1 DEF Resting, ReachesOthers, HoldsRows, HoldsTheOldest, AnswersTruly
    <2>2. CASE n # k
      <3>1. pass'[n] = pass[n]
        BY <2>2 DEF TypeOK
      <3> QED
        BY <2>0, <3>1 DEF ReachesOthers, HoldsRows, HoldsTheOldest, AnswersTruly, DealtWith,
           CarriedOut
    <2> QED  BY <2>1, <2>2
  <1>3. ASSUME NEW m \in flight' PROVE ArrivesTrue(m)'
    BY <1>3 DEF Bookkeeping, ArrivesTrue
  <1> QED  BY <1>1, <1>2, <1>3 DEF Bookkeeping

LEMMA CommandsKeepBooks ==
    ASSUME TypeOK, Bookkeeping, [CommandNext]_all
    PROVE  /\ TypeOK' /\ Bookkeeping' /\ Grows(table, table')
           /\ \A n \in Node : obeyed[n] \subseteq obeyed'[n]
  <1>1. CASE [Next]_vars
    BY <1>1, StepIsTyped, StepKeepsBooks, StepGrows
  <1>2. ASSUME NEW n \in Node, RestartNow(n)
        PROVE  /\ TypeOK' /\ Bookkeeping' /\ Grows(table, table')
               /\ \A k \in Node : obeyed[k] \subseteq obeyed'[k]
    <2>1. TypeOK' /\ Bookkeeping'
      BY <1>2, RestartKeepsBooks DEF RestartNow
    <2>2. Grows(table, table)
      BY StandingStillGrows DEF TypeOK, Tables
    <2> QED  BY <1>2, <2>1, <2>2 DEF RestartNow
  <1> QED  BY <1>1, <1>2, CommandsUseTheQueue

\* Where the errands of n come from: the node it takes instructions from, or
\* its own table, when somebody may hand errands up to it.
Source(n, t) ==
    \/ t = n /\ \E m \in Node : <<m, n>> \in Enrolled
    \/ <<n, t>> \in Enrolled

\* A hub and its members: nobody has its errands from two places.
OneSource ==
    \A n, t, u \in Node : Source(n, t) /\ Source(n, u) => t = u

InBatch(n, t, j) ==
    /\ pass[n].stage \in {"obeying", "answering"}
    /\ pass[n].with = t /\ j \in pass[n].batch

(* What one step does to the leg of a node. *)
LegStays(n) == UNCHANGED <<pass[n], obeyed[n]>>
LegRests(n) == pass'[n] = Resting(n) /\ UNCHANGED <<table, obeyed>>
LegBegins(n) ==
    \E a \in authority[n] : pass'[n] = Handing(a, Waiting(n, a)) /\ UNCHANGED <<table, obeyed>>
LegHands(n) ==
    /\ pass[n].stage = "handing" /\ UNCHANGED obeyed
    /\ pass'[n] = Handing(pass[n].with, pass[n].batch \ {Oldest(pass[n].batch)})
LegTakes(n, t) ==
    /\ \/ t = n /\ Waiting(n, n) # {}
       \/ pass[n].stage = "asking" /\ pass[n].with = t
    /\ pass'[n] = Obeying(n, t, Waiting(t, n)) /\ UNCHANGED <<table, obeyed>>
LegObeys(n) ==
    /\ pass[n].stage = "obeying" /\ UNCHANGED table
    /\ \E failed \in BOOLEAN :
         /\ pass'[n] = Answering(pass[n].with, pass[n].batch, failed)
         /\ obeyed' = [obeyed EXCEPT ![n] =
              @ \cup {<<pass[n].with, Oldest(pass[n].batch), failed>>}]
LegAnswers(n) ==
    /\ pass[n].stage = "answering" /\ UNCHANGED obeyed
    /\ SettleArrives(n) \/ pass[n].with # n
    /\ pass'[n] = Obeying(n, pass[n].with, pass[n].batch \ {Oldest(pass[n].batch)})

LEMMA LegGoesOn ==
    ASSUME TypeOK, Bookkeeping, [CommandNext]_all, NEW n \in Node
    PROVE  \/ LegStays(n) \/ LegRests(n) \/ LegBegins(n) \/ LegHands(n)
           \/ (\E t \in Node : LegTakes(n, t)) \/ LegObeys(n) \/ LegAnswers(n)
  <1> DEFINE Goal == \/ LegStays(n) \/ LegRests(n) \/ LegBegins(n) \/ LegHands(n)
                     \/ (\E t \in Node : LegTakes(n, t)) \/ LegObeys(n) \/ LegAnswers(n)
  <1>0. /\ pass \in [Node -> Leg] /\ pass[n].with \in Node
        /\ obeyed \in [Node -> SUBSET (Node \X (Nat \ {0}) \X BOOLEAN)]
    BY DEF TypeOK, Leg
  <1>1. ASSUME NEW k \in Node, RestartNow(k) PROVE LegStays(n) \/ LegRests(n)
    BY <1>0, <1>1 DEF RestartNow, LegStays, LegRests
  <1>2. ASSUME NEW k \in Node, k # n,
               Calls(k) \/ BeginHere(k) \/ Crash(k) \/ \E a \in Node : Begin(k, a)
        PROVE  LegStays(n)
    BY <1>0, <1>2 DEF LegStays, Begin, BeginHere, Crash, Calls, HandOver, HandOverRefused,
       HandOverTimesOut, HandedNext, Collect, CollectFails, CarryOut, SettleArrives,
       SettleTimesOut, AnsweredNext
  <1>3. ASSUME NEW a \in Node, Begin(n, a) PROVE LegBegins(n)
    BY <1>0, <1>3 DEF Begin, LegBegins
  <1>4. ASSUME BeginHere(n) PROVE LegTakes(n, n)
    BY <1>0, <1>4 DEF BeginHere, LegTakes
  <1>5. ASSUME Collect(n) PROVE LegTakes(n, pass[n].with)
    BY <1>0, <1>5 DEF Collect, LegTakes
  <1>6. ASSUME CollectFails(n) \/ Crash(n) PROVE LegRests(n)
    BY <1>0, <1>6 DEF CollectFails, Crash, LegRests
  <1>7. ASSUME HandOver(n) \/ HandOverRefused(n) \/ HandOverTimesOut(n) PROVE LegHands(n)
    BY <1>0, <1>7 DEF HandOver, HandOverRefused, HandOverTimesOut, HandedNext, LegHands
  <1>8. ASSUME NEW failed \in BOOLEAN, CarryOut(n, failed) PROVE LegObeys(n)
    BY <1>0, <1>8 DEF CarryOut, LegObeys
  <1>9. ASSUME SettleArrives(n) \/ SettleTimesOut(n) PROVE LegAnswers(n)
    BY <1>0, <1>9 DEF SettleArrives, SettleTimesOut, AnsweredNext, LegAnswers
  <1>10. CASE Calls(n)
    BY <1>0, <1>5, <1>6, <1>7, <1>8, <1>9, <1>10 DEF Calls
  <1>11. CASE UNCHANGED vars
    BY <1>11 DEF vars, LegStays
  <1>12. CASE Next
    <2>1. CASE \E k \in Node : BeginHere(k) \/ Calls(k) \/ Crash(k)
      BY <2>1, <1>2, <1>4, <1>6, <1>10
    <2>2. CASE \E k, a \in Node : Revoke(k, a) \/ Grant(k, a) \/ Begin(k, a)
      BY <2>2, <1>2, <1>3 DEF Revoke, Grant, LegStays
    <2>3. CASE \E k, to \in Node, s \in Subject \cup {NoSubject}, o \in Order :
                 Queue(k, to, s, o)
      BY <2>3 DEF Queue, LegStays
    <2>4. CASE \E m \in flight : LateAsk(m) \/ LateSettle(m) \/ Lose(m)
      BY <2>4 DEF LateAsk, LateSettle, Lose, LegStays
    <2> QED  BY <1>12, <2>1, <2>2, <2>3, <2>4 DEF Next
  <1> QED  BY <1>1, <1>11, <1>12, CommandsUseTheQueue

\* Errands only come from where somebody joined, late ones included.
Joined(n) ==
    /\ pass[n].stage # "resting" => Source(n, pass[n].with)
    /\ \A a \in authority[n] : <<n, a>> \in Enrolled
    /\ \A i \in DOMAIN table[n] : table[n][i].to = n => Source(n, n)
    /\ \A x \in obeyed[n] : Source(n, x[1]) /\ table[x[1]][x[2]].to = n

AllJoined ==
    /\ \A n \in Node : Joined(n)
    /\ \A m \in flight : <<m.by, m.owner>> \in Enrolled

(* What one step does to the tables.                                        *)
LEMMA TablesMove ==
    ASSUME [CommandNext]_all
    PROVE  \/ UNCHANGED table
           \/ \E n, to \in Node, o \in Order : AskOnce(n, to, o)
           \/ \E n \in Node : HandOver(n) \/ SettleArrives(n)
           \/ \E m \in flight : LateAsk(m) \/ LateSettle(m)
  <1>1. ASSUME NEW n \in Node, Wire(n) PROVE UNCHANGED table \/ SettleArrives(n)
    BY <1>1 DEF Wire, Begin, BeginHere, HandOverTimesOut, Collect, CollectFails, SettleTimesOut
  <1>2. ASSUME NEW n \in Node, HandUp(n) \/ HandUpRefused(n)
        PROVE  UNCHANGED table \/ HandOver(n)
    BY <1>2 DEF HandUp, HandUpRefused, HandOverRefused
  <1>3. ASSUME NEW n \in Node, Do(n) \/ Beside(n) PROVE UNCHANGED table
    BY <1>3 DEF Do, RefuseCommand, SkipObeyed, NoteObeyed, Perform, channel, vars, CarryOut,
       Beside, ClaimRun, SlotComesRound, BackupEnds, RestartNow, CrashNow, Crash
  <1>4. ASSUME NEW n \in Node, NEW a \in Node, SetManages(n, a) PROVE UNCHANGED table
    BY <1>4 DEF SetManages, channel, vars
  <1>5. ASSUME NEW m \in flight, LateHandUp(m) \/ LateSettle(m) \/ Lose(m)
        PROVE  UNCHANGED table \/ LateAsk(m) \/ LateSettle(m)
    BY <1>5 DEF LateHandUp, Lose
  <1>6. CASE UNCHANGED all
    BY <1>6 DEF all, channel, vars
  <1> QED  BY <1>1, <1>2, <1>3, <1>4, <1>5, <1>6 DEF CommandNext

\* Handing over adds one row, to the table it is handed to, and settles its own.
LEMMA HandingOverMoves ==
    ASSUME TypeOK, Bookkeeping, NEW n \in Node, HandOver(n)
    PROVE  \E a \in Node, k \in DOMAIN table[n] :
             /\ a = pass[n].with /\ a # n /\ table[n][k].to = a
             /\ \A t \in Node : t # a => DOMAIN table'[t] = DOMAIN table[t]
             /\ DOMAIN table'[a] = 1 .. Len(table[a]) + 1
             /\ table'[a][Len(table[a]) + 1].to = a
             /\ \A t \in Node : \A i \in DOMAIN table[t] :
                  ~(t = n /\ i = k) => table'[t][i] = table[t][i]
  <1>1. PICK a \in Node, k \in Nat : a = pass[n].with /\ k = Oldest(pass[n].batch)
    <2>1. HoldsRows(n) /\ pass[n].stage = "handing" /\ pass[n].with \in Node
      BY DEF Bookkeeping, HandOver, TypeOK, Leg
    <2> QED  BY <2>1, OldestInHand
  <1>2. a # n /\ k \in DOMAIN table[n] /\ table[n][k].to = a
    <2>1. HoldsRows(n) /\ ReachesOthers(n) /\ pass[n].stage = "handing"
      BY DEF Bookkeeping, HandOver
    <2>2. k \in pass[n].batch
      BY <1>1, <2>1, OldestInHand
    <2> QED  BY <1>1, <2>1, <2>2 DEF HoldsRows, ReachesOthers
  <1> DEFINE r == Accepted(a, n, table[n][k].order)
             e == SettledRow(table[n][k], a, FALSE)
  <1>3. table[n] \in Seq(Row) /\ table[a] \in Seq(Row) /\ table[n][k] \in Row
    BY <1>2 DEF TypeOK
  <1>4. r \in Row /\ r.to = a
    BY <1>3, AcceptedIsNew
  <1>5. /\ table'[n] = [table[n] EXCEPT ![k] = e]
        /\ table'[a] = Append(table[a], r)
        /\ \A p \in Node : p # n /\ p # a => table'[p] = table[p]
    BY <1>1, <1>2 DEF HandOver, TypeOK
  <1>6. /\ DOMAIN table'[n] = DOMAIN table[n]
        /\ \A j \in DOMAIN table[n] : j # k => table'[n][j] = table[n][j]
    BY <1>2, <1>3, <1>5
  <1>7. /\ DOMAIN table'[a] = 1 .. Len(table[a]) + 1
        /\ \A j \in DOMAIN table[a] : table'[a][j] = table[a][j]
        /\ table'[a][Len(table[a]) + 1] = r
    <2> HIDE DEF r
    <2>1. Len(Append(table[a], r)) = Len(table[a]) + 1 /\ Append(table[a], r) \in Seq(Row)
      BY <1>3, <1>4, AppendProperties
    <2> QED  BY <1>3, <1>4, <1>5, <2>1, AppendProperties
  <1> HIDE DEF r, e
  <1>8. ASSUME NEW t \in Node, t # a PROVE DOMAIN table'[t] = DOMAIN table[t]
    BY <1>5, <1>6, <1>8
  <1>9. ASSUME NEW t \in Node, NEW i \in DOMAIN table[t], ~(t = n /\ i = k)
        PROVE  table'[t][i] = table[t][i]
    <2>1. CASE t = n
      BY <1>6, <1>9, <2>1
    <2>2. CASE t = a
      BY <1>7, <2>2
    <2>3. CASE t # n /\ t # a
      BY <1>5, <2>3
    <2> QED  BY <2>1, <2>2, <2>3
  <1> QED  BY <1>1, <1>2, <1>4, <1>7, <1>8, <1>9

LEMMA SettlingMoves ==
    ASSUME TypeOK, NEW k \in Node, NEW r \in DOMAIN table[k], NEW by \in Node,
           NEW failed \in BOOLEAN, Settle(k, r, by, failed)
    PROVE  /\ \A t \in Node : DOMAIN table'[t] = DOMAIN table[t]
           /\ \A t \in Node : \A i \in DOMAIN table[t] :
                ~(t = k /\ i = r) => table'[t][i] = table[t][i]
           /\ table[k][r].to = by => table'[k][r].done
  <1>1. table \in Tables /\ table[k][r] \in Row
    BY DEF TypeOK, Tables
  <1> DEFINE U == [table EXCEPT ![k][r] = SettledRow(@, by, failed)]
  <1>2. /\ U \in Tables
        /\ \A p \in Node : p # k => U[p] = table[p]
        /\ DOMAIN U[k] = DOMAIN table[k]
        /\ \A j \in DOMAIN table[k] : j # r => U[k][j] = table[k][j]
        /\ U[k][r] = SettledRow(table[k][r], by, failed)
    BY <1>1, SettlingARow
  <1>3. table' = U
    BY DEF Settle
  <1>4. table[k][r].to = by => SettledRow(table[k][r], by, failed).done
    BY <1>1 DEF SettledRow, Row
  <1> HIDE DEF U
  <1> QED  BY <1>2, <1>3, <1>4

\* What a leg answers is the row it has in hand; what is late, one that exists.
LEMMA AnswerInHand ==
    ASSUME TypeOK, Bookkeeping, NEW n \in Node, SettleArrives(n)
    PROVE  \E k \in Node : \E r \in DOMAIN table[k], failed \in BOOLEAN :
             /\ k = pass[n].with /\ r = Oldest(pass[n].batch) /\ table[k][r].to = n
             /\ Settle(k, r, n, failed)
  <1>1. /\ HoldsRows(n) /\ pass[n].stage = "answering"
        /\ pass[n].with \in Node /\ pass[n].failed \in BOOLEAN
    BY DEF Bookkeeping, SettleArrives, TypeOK, Leg
  <1>2. Oldest(pass[n].batch) \in pass[n].batch
    BY <1>1, OldestInHand
  <1>3. /\ Oldest(pass[n].batch) \in DOMAIN table[pass[n].with]
        /\ table[pass[n].with][Oldest(pass[n].batch)].to = n
    BY <1>1, <1>2 DEF HoldsRows
  <1>4. Settle(pass[n].with, Oldest(pass[n].batch), n, pass[n].failed)
    BY DEF SettleArrives
  <1> QED  BY <1>1, <1>3, <1>4

LEMMA LateAnswerInHand ==
    ASSUME TypeOK, Bookkeeping, NEW m \in flight, LateSettle(m)
    PROVE  /\ m.owner \in Node /\ m.by \in Node /\ m.failed \in BOOLEAN
           /\ m.row \in DOMAIN table[m.owner] /\ table[m.owner][m.row].to = m.by
           /\ Settle(m.owner, m.row, m.by, m.failed)
  <1>1. m \in Flight /\ ArrivesTrue(m) /\ m.kind = "settle"
    BY DEF Bookkeeping, LateSettle, TypeOK
  <1> QED  BY <1>1 DEF ArrivesTrue, Flight, LateSettle

LEMMA AppendingMoves ==
    ASSUME TypeOK, NEW n \in Node, NEW r \in Row,
           table' = [table EXCEPT ![n] = Append(@, r)]
    PROVE  /\ \A t \in Node : t # n => table'[t] = table[t]
           /\ DOMAIN table'[n] = 1 .. Len(table[n]) + 1
           /\ \A j \in DOMAIN table[n] : table'[n][j] = table[n][j]
           /\ table'[n][Len(table[n]) + 1] = r
  <1>1. table[n] \in Seq(Row)
    BY DEF TypeOK
  <1>2. table'[n] = Append(table[n], r) /\ \A t \in Node : t # n => table'[t] = table[t]
    BY DEF TypeOK
  <1>3. Len(Append(table[n], r)) = Len(table[n]) + 1 /\ Append(table[n], r) \in Seq(Row)
    BY <1>1, AppendProperties
  <1> QED  BY <1>1, <1>2, <1>3, AppendProperties

LEMMA LateAskInHand ==
    ASSUME TypeOK, Bookkeeping, NEW m \in flight, LateAsk(m)
    PROVE  \E n \in Node, r \in Row :
             n = m.owner /\ r.to = n /\ table' = [table EXCEPT ![n] = Append(@, r)]
  <1>1. m \in Flight /\ ArrivesTrue(m) /\ m.kind = "ask"
    BY DEF Bookkeeping, LateAsk, TypeOK
  <1>2. /\ m.owner \in Node /\ m.by \in Node /\ m.row \in DOMAIN table[m.by]
        /\ table[m.by] \in Seq(Row)
    BY <1>1 DEF ArrivesTrue, Flight, TypeOK
  <1>3. /\ Accepted(m.owner, m.by, table[m.by][m.row].order) \in Row
        /\ Accepted(m.owner, m.by, table[m.by][m.row].order).to = m.owner
    BY <1>2, AcceptedIsNew
  <1> QED  BY <1>2, <1>3 DEF LateAsk

LEMMA AskingInHand ==
    ASSUME TypeOK, NEW n \in Node, NEW to \in Node, NEW o \in Order, AskOnce(n, to, o)
    PROVE  \E r \in Row :
             /\ r.to = to /\ r.order = o /\ n # to
             /\ table' = [table EXCEPT ![n] = Append(@, r)]
  <1>1. /\ NewRow(to, n, NoSubject, o) \in Row
        /\ NewRow(to, n, NoSubject, o).to = to /\ NewRow(to, n, NoSubject, o).order = o
    BY RowsAreNew DEF NewRow
  <1> QED  BY <1>1 DEF AskOnce, Queue

(* A new row was asked for here, or taken in from a node that joined.        *)
LEMMA RowsComeIn ==
    ASSUME TypeOK, Bookkeeping, AllJoined, [CommandNext]_all, NEW t \in Node,
           NEW i \in DOMAIN table'[t], i \notin DOMAIN table[t]
    PROVE  /\ i = Len(table[t]) + 1
           /\ \/ table'[t][i].to = t /\ Source(t, t)
              \/ /\ table'[t][i].to # t
                 /\ AskOnce(t, table'[t][i].to, table'[t][i].order)
  <1>0. ASSUME NEW n \in Node, NEW r \in Row, table' = [table EXCEPT ![n] = Append(@, r)]
        PROVE  t = n /\ i = Len(table[t]) + 1 /\ table'[t][i] = r
    <2>1. /\ \A p \in Node : p # n => table'[p] = table[p]
          /\ DOMAIN table'[n] = 1 .. Len(table[n]) + 1
          /\ table'[n][Len(table[n]) + 1] = r
      BY <1>0, AppendingMoves
    <2>2. t = n
      BY <2>1
    <2>3. DOMAIN table[t] = 1 .. Len(table[t]) /\ Len(table[t]) \in Nat
      BY DEF TypeOK
    <2>4. i \in 1 .. Len(table[t]) + 1 /\ i \notin 1 .. Len(table[t])
      BY <2>1, <2>2, <2>3
    <2>5. i = Len(table[t]) + 1
      BY <2>3, <2>4
    <2> QED  BY <2>1, <2>2, <2>5
  <1>1. ASSUME NEW n \in Node, NEW to \in Node, NEW o \in Order, AskOnce(n, to, o)
        PROVE  /\ i = Len(table[t]) + 1 /\ table'[t][i].to # t
               /\ AskOnce(t, table'[t][i].to, table'[t][i].order)
    <2>1. PICK r \in Row :
             /\ r.to = to /\ r.order = o /\ n # to
             /\ table' = [table EXCEPT ![n] = Append(@, r)]
      BY <1>1, AskingInHand
    <2> QED  BY <1>0, <1>1, <2>1
  <1>2. ASSUME NEW n \in Node, HandOver(n)
        PROVE  i = Len(table[t]) + 1 /\ table'[t][i].to = t /\ Source(t, t)
    <2>1. PICK a \in Node, k \in DOMAIN table[n] :
             /\ a = pass[n].with /\ a # n
             /\ \A p \in Node : p # a => DOMAIN table'[p] = DOMAIN table[p]
             /\ DOMAIN table'[a] = 1 .. Len(table[a]) + 1
             /\ table'[a][Len(table[a]) + 1].to = a
      BY <1>2, HandingOverMoves
    <2>2. t = a
      BY <2>1
    <2>3. DOMAIN table[t] = 1 .. Len(table[t]) /\ Len(table[t]) \in Nat
      BY DEF TypeOK
    <2>4. i \in 1 .. Len(table[t]) + 1 /\ i \notin 1 .. Len(table[t])
      BY <2>1, <2>2, <2>3
    <2>5. i = Len(table[t]) + 1
      BY <2>3, <2>4
    <2>6. Source(n, a)
      BY <1>2, <2>1 DEF AllJoined, Joined, HandOver
    <2>7. <<n, a>> \in Enrolled
      BY <2>1, <2>6 DEF Source
    <2> QED  BY <2>1, <2>2, <2>5, <2>7 DEF Source
  <1>3. ASSUME NEW n \in Node, SettleArrives(n) PROVE FALSE
    <2>1. PICK k \in Node : \E r \in DOMAIN table[k], failed \in BOOLEAN :
            Settle(k, r, n, failed)
      BY <1>3, AnswerInHand
    <2> QED  BY <2>1, SettlingMoves
  <1>4. ASSUME NEW m \in flight, LateAsk(m)
        PROVE  i = Len(table[t]) + 1 /\ table'[t][i].to = t /\ Source(t, t)
    <2>1. PICK n \in Node, r \in Row :
             n = m.owner /\ r.to = n /\ table' = [table EXCEPT ![n] = Append(@, r)]
      BY <1>4, LateAskInHand
    <2>2. m.by \in Node /\ <<m.by, n>> \in Enrolled
      BY <2>1 DEF AllJoined, TypeOK, Flight
    <2> QED  BY <1>0, <2>1, <2>2 DEF Source
  <1>5. ASSUME NEW m \in flight, LateSettle(m) PROVE FALSE
    <2>1. /\ m.owner \in Node /\ m.by \in Node /\ m.failed \in BOOLEAN
          /\ m.row \in DOMAIN table[m.owner] /\ Settle(m.owner, m.row, m.by, m.failed)
      BY <1>5, LateAnswerInHand
    <2>2. \A p \in Node : DOMAIN table'[p] = DOMAIN table[p]
      BY <2>1, SettlingMoves
    <2> QED  BY <2>2
  <1> QED  BY <1>1, <1>2, <1>3, <1>4, <1>5, TablesMove

(* A row for its own node is settled by the leg that carried it out.         *)
LEMMA OwnRowsSettle ==
    ASSUME TypeOK, Bookkeeping, AllJoined, [CommandNext]_all, NEW t \in Node,
           NEW i \in DOMAIN table[t], table[t][i].to = t,
           ~table[t][i].done, table'[t][i].done
    PROVE  /\ pass[t].stage = "answering" /\ pass[t].with = t
           /\ i = Oldest(pass[t].batch) /\ SettleArrives(t)
  <1>0. ASSUME NEW n \in Node, NEW r \in Row, table' = [table EXCEPT ![n] = Append(@, r)]
        PROVE  FALSE
    <2>1. /\ \A p \in Node : p # n => table'[p] = table[p]
          /\ \A j \in DOMAIN table[n] : table'[n][j] = table[n][j]
      BY <1>0, AppendingMoves
    <2>2. table'[t][i] = table[t][i]
      BY <2>1
    <2> QED  BY <2>2
  <1>1. ASSUME NEW n \in Node, NEW to \in Node, NEW o \in Order, AskOnce(n, to, o)
        PROVE  FALSE
    BY <1>0, <1>1, AskingInHand
  <1>2. ASSUME NEW n \in Node, HandOver(n) PROVE FALSE
    <2>1. PICK a \in Node, k \in DOMAIN table[n] :
             /\ a # n /\ table[n][k].to = a
             /\ \A p \in Node : \A j \in DOMAIN table[p] :
                  ~(p = n /\ j = k) => table'[p][j] = table[p][j]
      BY <1>2, HandingOverMoves
    <2> QED  BY <2>1
  <1>3. ASSUME NEW n \in Node, SettleArrives(n)
        PROVE  /\ pass[t].stage = "answering" /\ pass[t].with = t
               /\ i = Oldest(pass[t].batch) /\ SettleArrives(t)
    <2>1. PICK k \in Node : \E r \in DOMAIN table[k], failed \in BOOLEAN :
             /\ k = pass[n].with /\ r = Oldest(pass[n].batch) /\ table[k][r].to = n
             /\ Settle(k, r, n, failed)
      BY <1>3, AnswerInHand
    <2>2. PICK r \in DOMAIN table[k], failed \in BOOLEAN :
             /\ k = pass[n].with /\ r = Oldest(pass[n].batch) /\ table[k][r].to = n
             /\ Settle(k, r, n, failed)
      BY <2>1
    <2>3. t = k /\ i = r
      BY <2>2, SettlingMoves
    <2> QED  BY <1>3, <2>2, <2>3 DEF SettleArrives
  <1>4. ASSUME NEW m \in flight, LateAsk(m) PROVE FALSE
    BY <1>0, <1>4, LateAskInHand
  <1>5. ASSUME NEW m \in flight, LateSettle(m) PROVE FALSE
    <2>1. /\ m.owner \in Node /\ m.by \in Node /\ m.failed \in BOOLEAN
          /\ m.row \in DOMAIN table[m.owner] /\ table[m.owner][m.row].to = m.by
          /\ Settle(m.owner, m.row, m.by, m.failed)
      BY <1>5, LateAnswerInHand
    <2>2. t = m.owner /\ i = m.row
      BY <2>1, SettlingMoves
    <2>3. <<t, t>> \in Enrolled
      BY <2>1, <2>2 DEF AllJoined
    <2> QED  BY <2>3, NobodyJoinsItself
  <1> QED  BY <1>1, <1>2, <1>3, <1>4, <1>5, TablesMove

LEMMA JoinedKept ==
    ASSUME TypeOK, Bookkeeping, AllJoined, [CommandNext]_all
    PROVE  AllJoined'
  <1>1. /\ \A o \in Node : \A i \in DOMAIN table[o] :
             i \in DOMAIN table'[o] /\ SameErrand(table[o][i], table'[o][i])
        /\ \A n \in Node : AnswersTruly(n)
    BY CommandsKeepBooks DEF Grows, Bookkeeping
  <1>2. ASSUME NEW n \in Node PROVE Joined(n)'
    <2>0. Joined(n) /\ pass[n].with \in Node
      BY DEF AllJoined, TypeOK, Leg
    <2>1. pass'[n].stage # "resting" => Source(n, pass'[n].with)
      <3>1. CASE LegStays(n)
        BY <2>0, <3>1 DEF LegStays, Joined, Source
      <3>2. CASE LegRests(n)
        BY <3>2 DEF LegRests, Resting
      <3>3. CASE LegBegins(n)
        BY <2>0, <3>3 DEF LegBegins, Handing, Joined, Source
      <3>4. CASE LegHands(n)
        BY <2>0, <3>4 DEF LegHands, Handing, Joined, Source
      <3>5. ASSUME NEW t \in Node, LegTakes(n, t)
            PROVE  pass'[n].stage # "resting" => Source(n, pass'[n].with)
        <4>1. pass'[n] = Obeying(n, t, Waiting(t, n))
          BY <3>5 DEF LegTakes
        <4>2. CASE t = n /\ Waiting(n, n) # {}
          BY <2>0, <4>1, <4>2 DEF Obeying, Waiting, Joined
        <4>3. CASE pass[n].stage = "asking" /\ pass[n].with = t
          BY <2>0, <4>1, <4>3 DEF Obeying, Resting, Joined
        <4> QED  BY <3>5, <4>2, <4>3 DEF LegTakes
      <3>6. CASE LegObeys(n)
        <4>1. pass'[n].with = pass[n].with /\ pass[n].stage = "obeying"
          BY <3>6 DEF LegObeys, Answering
        <4> QED  BY <2>0, <4>1 DEF Joined
      <3>7. CASE LegAnswers(n)
        BY <2>0, <3>7 DEF LegAnswers, Obeying, Resting, Joined, Source
      <3> QED  BY <3>1, <3>2, <3>3, <3>4, <3>5, <3>6, <3>7, LegGoesOn
    <2>2. \A a \in authority'[n] : <<n, a>> \in Enrolled
      <3>1. \A a \in authority[n] : <<n, a>> \in Enrolled
        BY <2>0 DEF Joined
      <3>2. ASSUME NEW k \in Node, NEW a \in Node, Revoke(k, a) \/ Grant(k, a)
            PROVE  \A b \in authority'[n] : <<n, b>> \in Enrolled
        <4>1. authority \in [Node -> SUBSET Node]
          BY DEF TypeOK
        <4>2. CASE Revoke(k, a)
          BY <3>1, <4>1, <4>2 DEF Revoke
        <4>3. CASE Grant(k, a)
          BY <3>1, <4>1, <4>3 DEF Grant
        <4> QED  BY <3>2, <4>2, <4>3
      <3>3. ASSUME NEW k \in Node, Calls(k) PROVE UNCHANGED authority
        BY <3>3 DEF Calls, HandOver, HandOverRefused, HandOverTimesOut, Collect,
           CollectFails, CarryOut, SettleArrives, SettleTimesOut
      <3>4. CASE Next
        BY <3>1, <3>2, <3>3, <3>4
           DEF Next, Queue, Begin, BeginHere, Crash, LateAsk, LateSettle, Lose
      <3>5. CASE UNCHANGED vars
        BY <3>1, <3>5 DEF vars
      <3>6. CASE \E k \in Node : RestartNow(k)
        BY <3>1, <3>6 DEF RestartNow
      <3> QED  BY <3>4, <3>5, <3>6, CommandsUseTheQueue
    <2>3. \A i \in DOMAIN table'[n] : table'[n][i].to = n => Source(n, n)
      <3> SUFFICES ASSUME NEW i \in DOMAIN table'[n], table'[n][i].to = n
                   PROVE  Source(n, n)
        OBVIOUS
      <3>1. CASE i \in DOMAIN table[n]
        BY <1>1, <2>0, <3>1 DEF SameErrand, Joined
      <3>2. CASE i \notin DOMAIN table[n]
        BY <3>2, RowsComeIn
      <3> QED  BY <3>1, <3>2
    <2>4. ASSUME NEW x \in obeyed'[n]
          PROVE  Source(n, x[1]) /\ table'[x[1]][x[2]].to = n
      <3>1. CASE x \in obeyed[n]
        <4>1. x[1] \in Node /\ x[2] \in DOMAIN table[x[1]]
          <5>1. obeyed[n] \in SUBSET (Node \X (Nat \ {0}) \X BOOLEAN)
            BY DEF TypeOK
          <5> QED  BY <1>1, <3>1, <5>1 DEF AnswersTruly
        <4>2. Source(n, x[1]) /\ table[x[1]][x[2]].to = n
          BY <2>0, <3>1 DEF Joined
        <4> QED  BY <1>1, <4>1, <4>2 DEF SameErrand
      <3>2. CASE x \notin obeyed[n]
        <4>1. LegObeys(n)
          BY <2>4, <3>2, LegGoesOn
             DEF LegStays, LegRests, LegBegins, LegHands, LegTakes, LegAnswers
        <4>2. /\ x[1] = pass[n].with /\ x[2] = Oldest(pass[n].batch)
              /\ UNCHANGED table /\ pass[n].stage = "obeying"
          BY <2>4, <3>2, <4>1 DEF LegObeys, TypeOK
        <4>3. HoldsRows(n)
          BY DEF Bookkeeping
        <4>4. x[2] \in pass[n].batch
          BY <4>2, <4>3, OldestInHand
        <4>5. table[x[1]][x[2]].to = n
          BY <4>2, <4>3, <4>4 DEF HoldsRows
        <4> QED  BY <2>0, <4>2, <4>5 DEF Joined
      <3> QED  BY <3>1, <3>2
    <2> QED  BY <2>1, <2>2, <2>3, <2>4 DEF Joined, Source
  <1>3. ASSUME NEW m \in flight' PROVE <<m.by, m.owner>> \in Enrolled
    <2>1. CASE m \in flight
      BY <2>1 DEF AllJoined
    <2>2. ASSUME NEW n \in Node, HandOverTimesOut(n) \/ SettleTimesOut(n), m \notin flight
          PROVE  <<m.by, m.owner>> \in Enrolled
      <3>1. m.by = n /\ m.owner = pass[n].with /\ pass[n].stage # "resting"
        BY <2>2 DEF HandOverTimesOut, SettleTimesOut
      <3>2. pass[n].with # n
        BY <2>2 DEF HandOverTimesOut, SettleTimesOut, Bookkeeping, ReachesOthers
      <3> QED  BY <3>1, <3>2 DEF AllJoined, Joined, Source
    <2>3. ASSUME NEW n \in Node, Calls(n), m \notin flight
          PROVE  HandOverTimesOut(n) \/ SettleTimesOut(n)
      BY <2>3 DEF Calls, HandOver, HandOverRefused, Collect, CollectFails, CarryOut, SettleArrives
    <2>4. CASE Next /\ m \notin flight
      BY <2>2, <2>3, <2>4
         DEF Next, Queue, Revoke, Grant, Begin, BeginHere, Crash, LateAsk, LateSettle, Lose
    <2>5. CASE UNCHANGED vars \/ \E n \in Node : RestartNow(n)
      BY <2>1, <2>5 DEF vars, RestartNow
    <2> QED  BY <2>1, <2>4, <2>5, CommandsUseTheQueue
  <1> QED  BY <1>2, <1>3 DEF AllJoined

------------------------------------------------------------------------------
(* The errand in hand, and what becomes of the notes.                       *)

LEMMA InHandIsARow ==
    ASSUME TypeOK, Bookkeeping, NEW n \in Node, pass[n].stage \in {"obeying", "answering"}
    PROVE  \E t \in Node, j \in Nat \ {0} :
             /\ Id(n) = <<t, j>> /\ t = pass[n].with /\ j = Oldest(pass[n].batch)
             /\ j \in DOMAIN table[t] /\ table[t][j] \in Row /\ table[t][j].to = n
             /\ j \in pass[n].batch /\ \A k \in pass[n].batch : j <= k
             /\ InHand(n) = table[t][j] /\ table[t][j].order \in Order
             /\ ActionInHand(n) = ActionOf(table[t][j].order)
             /\ ActionInHand(n) \in Action
  <1>1. HoldsRows(n) /\ pass[n].with \in Node
    BY DEF Bookkeeping, TypeOK, Leg
  <1>2. /\ Oldest(pass[n].batch) \in pass[n].batch
        /\ \A j \in pass[n].batch : Oldest(pass[n].batch) <= j
        /\ Oldest(pass[n].batch) \in Nat \ {0}
    BY <1>1, OldestInHand
  <1>3. /\ Oldest(pass[n].batch) \in DOMAIN table[pass[n].with]
        /\ table[pass[n].with][Oldest(pass[n].batch)].to = n
    BY <1>1, <1>2 DEF HoldsRows
  <1>4. table[pass[n].with][Oldest(pass[n].batch)] \in Row
    BY <1>1, <1>3 DEF TypeOK
  <1>5. table[pass[n].with][Oldest(pass[n].batch)].order \in Order
    BY <1>4 DEF Row
  <1> QED
    BY <1>1, <1>2, <1>3, <1>4, <1>5 DEF Id, InHand, ActionInHand, ActionOf, Action

(* A step of the commands, seen from the notes: nothing of theirs moves and  *)
(* nothing is carried out; or an errand is refused, skipped, noted or done;  *)
(* or a node starts again.                                                   *)
NotesStay ==
    /\ UNCHANGED <<noted, step, due, times, fate, obeyed>>
    /\ \A n \in Node : pass[n].stage = "obeying" => UNCHANGED pass[n]

NodeStarts(k) ==
    /\ StartsAgain(k) /\ pass' = [pass EXCEPT ![k] = Resting(k)]
    /\ UNCHANGED <<table, obeyed>>

LEMMA CommandKinds ==
    ASSUME TypeOK, [CommandNext]_all
    PROVE  \/ NotesStay
           \/ \E k \in Node : RefuseCommand(k) \/ SkipObeyed(k) \/ NoteObeyed(k) \/ Perform(k)
           \/ \E k \in Node : NodeStarts(k)
  <1>0. pass \in [Node -> Leg]
    BY DEF TypeOK
  <1>1. ASSUME NEW k \in Node, Wire(k) PROVE NotesStay
    BY <1>0, <1>1 DEF Wire, Begin, BeginHere, HandOverTimesOut, Collect, CollectFails,
       SettleArrives, SettleTimesOut, HandedNext, AnsweredNext, work, NotesStay
  <1>2. ASSUME NEW k \in Node, HandUp(k) \/ HandUpRefused(k) PROVE NotesStay
    BY <1>0, <1>2 DEF HandUp, HandUpRefused, HandOver, HandOverRefused, HandedNext, work, NotesStay
  <1>3. ASSUME NEW n \in Node, NEW to \in Node, NEW o \in Order, AskOnce(n, to, o)
        PROVE  NotesStay
    BY <1>3 DEF AskOnce, Queue, work, NotesStay
  <1>4. ASSUME NEW n \in Node, NEW a \in Node, SetManages(n, a) PROVE NotesStay
    BY <1>4 DEF SetManages, channel, vars, NotesStay
  <1>5. ASSUME NEW m \in flight, LateHandUp(m) PROVE NotesStay
    BY <1>5 DEF LateHandUp, LateAsk, work, NotesStay
  <1>8. ASSUME NEW m \in flight, LateSettle(m) \/ Lose(m), UNCHANGED work PROVE NotesStay
    BY <1>8 DEF LateSettle, Lose, work, NotesStay
  <1>6. ASSUME NEW k \in Node, Beside(k) PROVE NotesStay \/ NodeStarts(k)
    BY <1>6 DEF Beside, ClaimRun, SlotComesRound, BackupEnds, RestartNow, CrashNow, Crash,
       channel, vars, NotesStay, NodeStarts
  <1>7. CASE UNCHANGED all
    BY <1>7 DEF all, channel, vars, work, NotesStay
  <1>9. CASE CommandNext
    <2>1. CASE \E n, to \in Node, o \in Order : AskOnce(n, to, o)
      BY <1>3, <2>1
    <2>2. ASSUME NEW n \in Node,
                 Wire(n) \/ HandUp(n) \/ HandUpRefused(n) \/ Do(n) \/ Beside(n)
          PROVE  \/ NotesStay \/ NodeStarts(n)
                 \/ RefuseCommand(n) \/ SkipObeyed(n) \/ NoteObeyed(n) \/ Perform(n)
      BY <1>1, <1>2, <1>6, <2>2 DEF Do
    <2>3. CASE \E n, a \in Node : SetManages(n, a)
      BY <1>4, <2>3
    <2>4. CASE \E m \in flight : LateHandUp(m)
      BY <1>5, <2>4
    <2>5. CASE \E m \in flight : (LateSettle(m) \/ Lose(m)) /\ UNCHANGED work
      BY <1>8, <2>5
    <2> QED  BY <1>9, <2>1, <2>2, <2>3, <2>4, <2>5 DEF CommandNext
  <1> QED  BY <1>7, <1>9

------------------------------------------------------------------------------
(* Types of what the commands add.                                          *)

LEMMA CommandsAreTypedAtFirst == CommandInit => CommandTypeOK
  BY InitIsTyped DEF CommandInit, CommandTypeOK

LEMMA CommandTypesKept ==
    ASSUME CommandTypeOK, Bookkeeping, [CommandNext]_all
    PROVE  CommandTypeOK'
  <1>0. TypeOK /\ TypeOK'
    BY CommandsKeepBooks DEF CommandTypeOK
  <1>1. ASSUME UNCHANGED work PROVE CommandTypeOK'
    BY <1>0, <1>1 DEF CommandTypeOK, work
  <1>2. ASSUME NEW n \in Node, NEW a \in Node, SetManages(n, a) PROVE CommandTypeOK'
    BY <1>0, <1>2 DEF CommandTypeOK, SetManages
  <1>3. ASSUME NEW n \in Node, NoteObeyed(n) PROVE CommandTypeOK'
    <2>1. PICK t \in Node, j \in Nat \ {0} :
            Id(n) = <<t, j>> /\ InHand(n) = table[t][j] /\ table[t][j].order \in Order
            /\ ActionInHand(n) \in Action
      BY <1>0, <1>3, InHandIsARow DEF NoteObeyed, Takes
    <2>2. PICK a \in Action, o \in Order, id \in Node \X (Nat \ {0}) :
            a = ActionInHand(n) /\ o = InHand(n).order /\ id = Id(n)
      BY <2>1
    <2>3. /\ noted' = [noted EXCEPT ![n][a] = id]
          /\ fate' = [fate EXCEPT ![n][o] = IF @ = "unheard" THEN "noted" ELSE @]
          /\ step' = [step EXCEPT ![n] = "noted"]
          /\ UNCHANGED <<manages, due, spawned, running, times>>
      BY <1>3, <2>2 DEF NoteObeyed
    <2>4. noted' \in [Node -> [Action -> (Node \X (Nat \ {0})) \cup {Nothing}]]
      BY <2>2, <2>3 DEF CommandTypeOK
    <2>5. fate' \in [Node -> [Order -> {"unheard", "noted", "started"}]]
      BY <2>2, <2>3 DEF CommandTypeOK
    <2> QED  BY <1>0, <2>3, <2>4, <2>5 DEF CommandTypeOK
  <1>4. ASSUME NEW n \in Node, Perform(n) PROVE CommandTypeOK'
    <2>1. PICK o \in Order : o = InHand(n).order
      BY <1>0, <1>4, InHandIsARow DEF Perform
    <2>2. times' = [times EXCEPT ![n][o] = @ + 1]
      BY <1>4, <2>1 DEF Perform
    <2>3. times' \in [Node -> [Order -> Nat]]
      BY <2>2 DEF CommandTypeOK
    <2>4. due' \in [Node -> BOOLEAN] /\ spawned' \in [Node -> Nat]
      <3>1. CASE ActionInHand(n) = "restart"
        <4>1. due' = [due EXCEPT ![n] = TRUE] /\ UNCHANGED spawned
          BY <1>4, <3>1 DEF Perform
        <4> QED  BY <4>1 DEF CommandTypeOK
      <3>2. CASE ActionInHand(n) # "restart"
        <4>1. spawned' = [spawned EXCEPT ![n] = @ + 1] /\ UNCHANGED due
          BY <1>4, <3>2 DEF Perform
        <4> QED  BY <4>1 DEF CommandTypeOK
      <3> QED  BY <3>1, <3>2
    <2>5. step' \in [Node -> {"unread", "noted"}] /\ UNCHANGED <<manages, noted, running, fate>>
      BY <1>4 DEF Perform, CommandTypeOK
    <2> QED  BY <1>0, <2>3, <2>4, <2>5 DEF CommandTypeOK
  <1>5. ASSUME NEW n \in Node, ClaimRun(n) \/ SlotComesRound(n) \/ BackupEnds(n)
        PROVE  CommandTypeOK'
    <2>1. running' \in [Node -> BOOLEAN]
      <3>1. PICK f \in BOOLEAN : running' = [running EXCEPT ![n] = f]
        BY <1>5 DEF ClaimRun, SlotComesRound, BackupEnds
      <3> QED  BY <3>1 DEF CommandTypeOK
    <2>2. spawned' \in [Node -> Nat]
      <3>1. spawned \in [Node -> Nat]
        BY DEF CommandTypeOK
      <3>2. CASE ClaimRun(n)
        BY <3>1, <3>2 DEF ClaimRun
      <3>3. CASE SlotComesRound(n) \/ BackupEnds(n)
        BY <3>1, <3>3 DEF SlotComesRound, BackupEnds
      <3> QED  BY <1>5, <3>2, <3>3
    <2>3. UNCHANGED <<manages, noted, step, due, times, fate>>
      BY <1>5 DEF ClaimRun, SlotComesRound, BackupEnds
    <2> QED  BY <1>0, <2>1, <2>2, <2>3 DEF CommandTypeOK
  <1>6. ASSUME NEW n \in Node, StartsAgain(n) PROVE CommandTypeOK'
    BY <1>0, <1>6 DEF CommandTypeOK, StartsAgain
  <1>7. CASE UNCHANGED all
    BY <1>1, <1>7 DEF all
  <1>8. CASE CommandNext
    <2>1. ASSUME NEW n \in Node, Do(n) \/ Beside(n) PROVE CommandTypeOK'
      BY <1>1, <1>3, <1>4, <1>5, <1>6, <2>1
         DEF Do, RefuseCommand, SkipObeyed, Beside, RestartNow, CrashNow
    <2>2. ASSUME NEW n \in Node, Wire(n) \/ HandUp(n) \/ HandUpRefused(n) PROVE CommandTypeOK'
      BY <1>1, <2>2 DEF Wire, HandUp, HandUpRefused
    <2>3. CASE \E n, to \in Node, o \in Order : AskOnce(n, to, o)
      BY <1>1, <2>3 DEF AskOnce
    <2>4. CASE \E n, a \in Node : SetManages(n, a)
      BY <1>2, <2>4
    <2>5. CASE \E m \in flight : LateHandUp(m)
      BY <1>1, <2>5 DEF LateHandUp
    <2>6. CASE \E m \in flight : (LateSettle(m) \/ Lose(m)) /\ UNCHANGED work
      BY <1>1, <2>6
    <2> QED  BY <1>8, <2>1, <2>2, <2>3, <2>4, <2>5, <2>6 DEF CommandNext
  <1> QED  BY <1>7, <1>8

------------------------------------------------------------------------------
(* Once for each errand: one note for each action is enough, because of one *)
(* action there is one errand that may be collected again.                  *)

\* Whoever asks waits for the answer before it asks for the same again.
RowsTakeTurns ==
    \A t \in Node : \A j, k \in DOMAIN table[t] :
        ( /\ j < k /\ table[t][j].to = table[t][k].to /\ table[t][k].to # t
          /\ ActionOf(table[t][j].order) = ActionOf(table[t][k].order) )
            => table[t][j].done

\* A node's own rows are worked through in order, each settled before the next.
OwnLeg(n) ==
    (pass[n].stage \in {"obeying", "answering"} /\ pass[n].with = n) =>
        \A b \in pass[n].batch :
            /\ ~table[n][b].done
            /\ \A j \in DOMAIN table[n] :
                 j < b /\ j \notin pass[n].batch /\ table[n][j].to = n => table[n][j].done

OwnInOrder(n) ==
    \A j, k \in DOMAIN table[n] :
        ( /\ j < k /\ table[n][j].to = n /\ table[n][k].to = n
          /\ \E failed \in BOOLEAN : <<n, k, failed>> \in obeyed[n] )
            => table[n][j].done

\* What was carried out and not answered is older than the batch in hand, and
\* the batch of another's errands asks for nothing twice.
ObeyedIsOlder(n) ==
    pass[n].stage \in {"obeying", "answering"} =>
        \A j \in DOMAIN table[pass[n].with] :
            ( /\ table[pass[n].with][j].to = n /\ ~table[pass[n].with][j].done
              /\ j \notin pass[n].batch
              /\ \E failed \in BOOLEAN : <<pass[n].with, j, failed>> \in obeyed[n] )
                => \A b \in pass[n].batch : j < b

OneOfAKind(n) ==
    (pass[n].stage \in {"obeying", "answering"} /\ pass[n].with # n) =>
        \A j, k \in pass[n].batch :
            ActionOf(table[pass[n].with][j].order) = ActionOf(table[pass[n].with][k].order)
                => j = k

LegsTakeTurns ==
    \A n \in Node : OwnLeg(n) /\ OwnInOrder(n) /\ ObeyedIsOlder(n) /\ OneOfAKind(n)

LEMMA TurnsKept ==
    ASSUME Patient, TypeOK, Bookkeeping, AllJoined, RowsTakeTurns, [CommandNext]_all
    PROVE  RowsTakeTurns'
  <1> SUFFICES ASSUME NEW t \in Node, NEW j \in DOMAIN table'[t], NEW k \in DOMAIN table'[t],
                      j < k, table'[t][j].to = table'[t][k].to, table'[t][k].to # t,
                      ActionOf(table'[t][j].order) = ActionOf(table'[t][k].order)
               PROVE  table'[t][j].done
    BY DEF RowsTakeTurns
  <1>1. /\ \A i \in DOMAIN table[t] :
             i \in DOMAIN table'[t] /\ SameErrand(table[t][i], table'[t][i])
        /\ table[t] \in Seq(Row) /\ table'[t] \in Seq(Row)
    BY CommandsKeepBooks DEF Grows, Tables, TypeOK
  <1>2. CASE k \in DOMAIN table[t]
    <2>1. j \in DOMAIN table[t]
      BY <1>1, <1>2
    <2>2. table[t][j].done
      BY <1>1, <1>2, <2>1 DEF RowsTakeTurns, SameErrand
    <2> QED  BY <1>1, <2>1, <2>2 DEF SameErrand
  <1>3. CASE k \notin DOMAIN table[t]
    <2>1. k = Len(table[t]) + 1 /\ AskOnce(t, table'[t][k].to, table'[t][k].order)
      BY <1>3, RowsComeIn
    <2>2. j \in DOMAIN table[t]
      BY <1>1, <2>1
    <2>3. ~Outstanding(t, table'[t][k].to, ActionOf(table'[t][k].order))
      BY <2>1 DEF AskOnce
    <2>4. table[t][j].to = table'[t][j].to /\ table[t][j].order = table'[t][j].order
      BY <1>1, <2>2 DEF SameErrand
    <2>5. table[t][j].done
      BY <2>2, <2>3, <2>4 DEF Outstanding
    <2> QED  BY <1>1, <2>2, <2>5 DEF SameErrand
  <1> QED  BY <1>2, <1>3

\* The rows of a table, before and after a step.
LEMMA RowsAfter ==
    ASSUME TypeOK, Bookkeeping, [CommandNext]_all, NEW t \in Node
    PROVE  /\ table[t] \in Seq(Row) /\ table'[t] \in Seq(Row)
           /\ \A i \in DOMAIN table[t] :
                /\ i \in DOMAIN table'[t] /\ i \in Nat
                /\ table'[t][i].to = table[t][i].to /\ table'[t][i].order = table[t][i].order
                /\ table[t][i].done => table'[t][i].done
           /\ \A i \in DOMAIN table'[t], k \in DOMAIN table[t] : i < k => i \in DOMAIN table[t]
  <1>1. /\ \A i \in DOMAIN table[t] :
             i \in DOMAIN table'[t] /\ SameErrand(table[t][i], table'[t][i])
        /\ table[t] \in Seq(Row) /\ table'[t] \in Seq(Row)
    BY CommandsKeepBooks DEF Grows, Tables, TypeOK
  <1> QED  BY <1>1 DEF SameErrand

\* What is carried out anew is what the leg has in hand.
LEMMA ObeyedAnew ==
    ASSUME TypeOK, Bookkeeping, [CommandNext]_all, NEW n \in Node,
           NEW t, NEW j, NEW f, <<t, j, f>> \in obeyed'[n], <<t, j, f>> \notin obeyed[n]
    PROVE  /\ pass[n].stage = "obeying" /\ UNCHANGED table
           /\ t = pass[n].with /\ j = Oldest(pass[n].batch) /\ LegObeys(n)
  <1>1. LegObeys(n)
    BY LegGoesOn DEF LegStays, LegRests, LegBegins, LegHands, LegTakes, LegAnswers
  <1>2. PICK failed \in BOOLEAN :
          obeyed' = [obeyed EXCEPT ![n] =
                       @ \cup {<<pass[n].with, Oldest(pass[n].batch), failed>>}]
    BY <1>1 DEF LegObeys
  <1>3. <<t, j, f>> = <<pass[n].with, Oldest(pass[n].batch), failed>>
    BY <1>2 DEF TypeOK
  <1> QED  BY <1>1, <1>3 DEF LegObeys

LEMMA OwnLegKept ==
    ASSUME TypeOK, Bookkeeping, AllJoined, [CommandNext]_all, NEW n \in Node, OwnLeg(n)
    PROVE  OwnLeg(n)'
  <1> SUFFICES ASSUME pass'[n].stage \in {"obeying", "answering"}, pass'[n].with = n,
                      NEW b \in pass'[n].batch
               PROVE  /\ ~table'[n][b].done
                      /\ \A j \in DOMAIN table'[n] :
                           j < b /\ j \notin pass'[n].batch /\ table'[n][j].to = n
                             => table'[n][j].done
    BY DEF OwnLeg
  <1>0. /\ table[n] \in Seq(Row) /\ table'[n] \in Seq(Row)
        /\ \A i \in DOMAIN table[n] :
             /\ i \in DOMAIN table'[n] /\ i \in Nat
             /\ table'[n][i].to = table[n][i].to
             /\ table[n][i].done => table'[n][i].done
        /\ \A i \in DOMAIN table'[n], k \in DOMAIN table[n] : i < k => i \in DOMAIN table[n]
    BY RowsAfter
  <1>1. ASSUME pass[n].stage \in {"obeying", "answering"}, pass[n].with = n,
               b \in pass[n].batch, SettleArrives(n) => b # Oldest(pass[n].batch),
               \A j \in pass[n].batch : j \in pass'[n].batch \/ table'[n][j].done
        PROVE  /\ ~table'[n][b].done
               /\ \A j \in DOMAIN table'[n] :
                    j < b /\ j \notin pass'[n].batch /\ table'[n][j].to = n
                      => table'[n][j].done
    <2>1. b \in DOMAIN table[n] /\ table[n][b].to = n
      BY <1>1 DEF Bookkeeping, HoldsRows
    <2>2. ~table'[n][b].done
      BY <1>1, <2>1, OwnRowsSettle DEF OwnLeg
    <2>3. ASSUME NEW j \in DOMAIN table'[n], j < b, j \notin pass'[n].batch, table'[n][j].to = n
          PROVE  table'[n][j].done
      <3>1. j \in DOMAIN table[n]
        BY <1>0, <2>1, <2>3
      <3>2. CASE j \in pass[n].batch
        BY <1>1, <2>3, <3>2
      <3>3. CASE j \notin pass[n].batch
        BY <1>0, <1>1, <2>3, <3>1, <3>3 DEF OwnLeg
      <3> QED  BY <3>2, <3>3
    <2> QED  BY <2>2, <2>3
  <1>2. CASE LegStays(n)
    <2>1. pass'[n] = pass[n]
      BY <1>2 DEF LegStays
    <2>2. ~SettleArrives(n)
      <3>1. SettleArrives(n) => pass'[n].stage # "answering" /\ pass[n].stage = "answering"
        BY DEF SettleArrives, AnsweredNext, Obeying, Resting, TypeOK
      <3> QED  BY <2>1, <3>1
    <2> QED  BY <1>1, <2>1, <2>2
  <1>3. CASE LegRests(n) \/ LegBegins(n) \/ LegHands(n)
    <2>1. ASSUME NEW a, NEW S, pass'[n] = Handing(a, S) PROVE FALSE
      BY <2>1 DEF Handing
    <2>2. CASE LegRests(n)
      BY <2>2 DEF LegRests, Resting
    <2> QED  BY <1>3, <2>1, <2>2 DEF LegBegins, LegHands
  <1>4. ASSUME NEW t \in Node, LegTakes(n, t)
        PROVE  /\ ~table'[n][b].done
               /\ \A j \in DOMAIN table'[n] :
                    j < b /\ j \notin pass'[n].batch /\ table'[n][j].to = n
                      => table'[n][j].done
    <2>1. pass'[n] = Obeying(n, t, Waiting(t, n)) /\ UNCHANGED table
      BY <1>4 DEF LegTakes
    <2>2. Waiting(t, n) # {}
      BY <2>1 DEF Obeying, Resting
    <2>3. pass'[n].batch = Waiting(n, n)
      BY <2>1, <2>2 DEF Obeying
    <2> QED  BY <2>1, <2>3 DEF Waiting
  <1>5. CASE LegObeys(n)
    <2>1. /\ pass'[n].with = pass[n].with /\ pass'[n].batch = pass[n].batch
          /\ pass[n].stage = "obeying"
      BY <1>5 DEF LegObeys, Answering
    <2>2. ~SettleArrives(n)
      BY <2>1 DEF SettleArrives
    <2> QED  BY <1>1, <2>1, <2>2
  <1>6. CASE LegAnswers(n)
    <2>1. pass'[n] = Obeying(n, pass[n].with, pass[n].batch \ {Oldest(pass[n].batch)})
          /\ pass[n].stage = "answering"
      BY <1>6 DEF LegAnswers
    <2>2. /\ pass'[n].with = pass[n].with
          /\ pass'[n].batch = pass[n].batch \ {Oldest(pass[n].batch)}
      BY <2>1 DEF Obeying, Resting
    <2>3. SettleArrives(n)
      BY <1>6, <2>2 DEF LegAnswers
    <2>4. table'[n][Oldest(pass[n].batch)].done
      <3>1. PICK r \in DOMAIN table[n], failed \in BOOLEAN :
              r = Oldest(pass[n].batch) /\ table[n][r].to = n /\ Settle(n, r, n, failed)
        BY <2>2, <2>3, AnswerInHand
      <3> QED  BY <3>1, SettlingMoves
    <2> QED  BY <1>1, <2>1, <2>2, <2>4
  <1> QED  BY <1>2, <1>3, <1>4, <1>5, <1>6, LegGoesOn

LEMMA OwnOrderKept ==
    ASSUME TypeOK, Bookkeeping, AllJoined, [CommandNext]_all, NEW n \in Node,
           OwnLeg(n), OwnInOrder(n)
    PROVE  OwnInOrder(n)'
  <1> SUFFICES ASSUME NEW j \in DOMAIN table'[n], NEW k \in DOMAIN table'[n],
                      j < k, table'[n][j].to = n, table'[n][k].to = n,
                      NEW failed \in BOOLEAN, <<n, k, failed>> \in obeyed'[n]
               PROVE  table'[n][j].done
    BY DEF OwnInOrder
  <1>0. /\ \A i \in DOMAIN table[n] :
             /\ table'[n][i].to = table[n][i].to
             /\ table[n][i].done => table'[n][i].done
        /\ \A i \in DOMAIN table'[n], l \in DOMAIN table[n] : i < l => i \in DOMAIN table[n]
    BY RowsAfter
  <1>1. CASE <<n, k, failed>> \in obeyed[n]
    <2>1. k \in DOMAIN table[n]
      BY <1>1 DEF Bookkeeping, AnswersTruly
    <2>2. j \in DOMAIN table[n]
      BY <1>0, <2>1
    <2> QED  BY <1>0, <1>1, <2>1, <2>2 DEF OwnInOrder
  <1>2. CASE <<n, k, failed>> \notin obeyed[n]
    <2>1. /\ pass[n].stage = "obeying" /\ UNCHANGED table
          /\ n = pass[n].with /\ k = Oldest(pass[n].batch)
      BY <1>2, ObeyedAnew
    <2>2. k \in pass[n].batch /\ \A i \in pass[n].batch : k <= i
      BY <2>1, OldestInHand DEF Bookkeeping
    <2>3. j \in Nat /\ k \in Nat
      BY <2>1 DEF TypeOK
    <2>4. j \notin pass[n].batch
      BY <2>2, <2>3
    <2> QED  BY <2>1, <2>2, <2>4 DEF OwnLeg
  <1> QED  BY <1>1, <1>2

LEMMA OlderKept ==
    ASSUME TypeOK, Bookkeeping, [CommandNext]_all, NEW n \in Node, ObeyedIsOlder(n)
    PROVE  ObeyedIsOlder(n)'
  <1> SUFFICES ASSUME NEW t, t = pass'[n].with,
                      pass'[n].stage \in {"obeying", "answering"},
                      NEW j \in DOMAIN table'[t], table'[t][j].to = n, ~table'[t][j].done,
                      j \notin pass'[n].batch,
                      NEW failed \in BOOLEAN, <<t, j, failed>> \in obeyed'[n],
                      NEW b \in pass'[n].batch
               PROVE  j < b
    BY DEF ObeyedIsOlder
  <1>1. ASSUME pass[n].stage \in {"obeying", "answering"}, pass[n].with = t,
               j \notin pass[n].batch, b \in pass[n].batch, <<t, j, failed>> \in obeyed[n]
        PROVE  j < b
    <2>1. t \in Node /\ j \in DOMAIN table[t]
      BY <1>1 DEF Bookkeeping, AnswersTruly, TypeOK, Leg
    <2>2. table[t][j].to = n /\ ~table[t][j].done
      BY <2>1, RowsAfter
    <2> QED  BY <1>1, <2>1, <2>2 DEF ObeyedIsOlder
  <1>2. CASE LegStays(n)
    BY <1>1, <1>2 DEF LegStays
  <1>3. CASE LegRests(n) \/ LegBegins(n) \/ LegHands(n)
    <2>1. ASSUME NEW a, NEW S, pass'[n] = Handing(a, S) PROVE FALSE
      BY <2>1 DEF Handing
    <2>2. CASE LegRests(n)
      BY <2>2 DEF LegRests, Resting
    <2> QED  BY <1>3, <2>1, <2>2 DEF LegBegins, LegHands
  <1>4. ASSUME NEW u \in Node, LegTakes(n, u) PROVE j < b
    <2>1. pass'[n] = Obeying(n, u, Waiting(u, n)) /\ UNCHANGED table
      BY <1>4 DEF LegTakes
    <2>2. Waiting(u, n) # {}
      BY <2>1 DEF Obeying, Resting
    <2>3. pass'[n].batch = Waiting(u, n) /\ t = u
      BY <2>1, <2>2 DEF Obeying
    <2> QED  BY <2>1, <2>3 DEF Waiting
  <1>5. CASE LegObeys(n)
    <2>1. /\ pass'[n].with = pass[n].with /\ pass'[n].batch = pass[n].batch
          /\ pass[n].stage = "obeying"
      BY <1>5 DEF LegObeys, Answering
    <2>2. Oldest(pass[n].batch) \in pass[n].batch
      BY <2>1, OldestInHand DEF Bookkeeping
    <2>3. <<t, j, failed>> \in obeyed[n]
      BY <2>1, <2>2, ObeyedAnew
    <2> QED  BY <1>1, <2>1, <2>3
  <1>6. CASE LegAnswers(n)
    <2>1. /\ pass'[n] = Obeying(n, pass[n].with, pass[n].batch \ {Oldest(pass[n].batch)})
          /\ pass[n].stage = "answering" /\ UNCHANGED obeyed
      BY <1>6 DEF LegAnswers
    <2>2. /\ pass'[n].with = pass[n].with
          /\ pass'[n].batch = pass[n].batch \ {Oldest(pass[n].batch)}
      BY <2>1 DEF Obeying, Resting
    <2>3. CASE j \in pass[n].batch
      <3>1. j = Oldest(pass[n].batch)
        BY <2>2, <2>3
      <3>2. j <= b /\ j # b /\ j \in Nat /\ b \in Nat
        BY <2>1, <2>2, <3>1, OldestInHand DEF Bookkeeping
      <3> QED  BY <3>2
    <2> QED  BY <1>1, <2>1, <2>2, <2>3
  <1> QED  BY <1>2, <1>3, <1>4, <1>5, <1>6, LegGoesOn

LEMMA KindsKept ==
    ASSUME TypeOK, Bookkeeping, RowsTakeTurns, [CommandNext]_all, NEW n \in Node, OneOfAKind(n)
    PROVE  OneOfAKind(n)'
  <1> SUFFICES ASSUME NEW t, t = pass'[n].with, t # n,
                      pass'[n].stage \in {"obeying", "answering"},
                      NEW j \in pass'[n].batch, NEW k \in pass'[n].batch,
                      ActionOf(table'[t][j].order) = ActionOf(table'[t][k].order)
               PROVE  j = k
    BY DEF OneOfAKind, ActionOf
  <1>1. ASSUME pass[n].stage \in {"obeying", "answering"}, pass[n].with = t,
               j \in pass[n].batch, k \in pass[n].batch
        PROVE  j = k
    <2>1. t \in Node /\ j \in DOMAIN table[t] /\ k \in DOMAIN table[t]
      BY <1>1 DEF Bookkeeping, HoldsRows, TypeOK, Leg
    <2>2. table'[t][j].order = table[t][j].order /\ table'[t][k].order = table[t][k].order
      BY <2>1, RowsAfter
    <2> QED  BY <1>1, <2>2 DEF OneOfAKind
  <1>2. CASE LegStays(n)
    BY <1>1, <1>2 DEF LegStays
  <1>3. CASE LegRests(n) \/ LegBegins(n) \/ LegHands(n)
    <2>1. ASSUME NEW a, NEW S, pass'[n] = Handing(a, S) PROVE FALSE
      BY <2>1 DEF Handing
    <2>2. CASE LegRests(n)
      BY <2>2 DEF LegRests, Resting
    <2> QED  BY <1>3, <2>1, <2>2 DEF LegBegins, LegHands
  <1>4. ASSUME NEW u \in Node, LegTakes(n, u) PROVE j = k
    <2>1. pass'[n] = Obeying(n, u, Waiting(u, n)) /\ UNCHANGED table
      BY <1>4 DEF LegTakes
    <2>2. Waiting(u, n) # {}
      BY <2>1 DEF Obeying, Resting
    <2>3. pass'[n].batch = Waiting(u, n) /\ t = u
      BY <2>1, <2>2 DEF Obeying
    <2>4. /\ j \in DOMAIN table[t] /\ table[t][j].to = n /\ ~table[t][j].done
          /\ k \in DOMAIN table[t] /\ table[t][k].to = n /\ ~table[t][k].done
      BY <2>3 DEF Waiting
    <2>5. j \in Nat /\ k \in Nat
      BY <2>3, <2>4 DEF TypeOK
    <2>6. ActionOf(table[t][j].order) = ActionOf(table[t][k].order)
      BY <2>1
    <2>7. ~(j < k) /\ ~(k < j)
      BY <2>3, <2>4, <2>6 DEF RowsTakeTurns
    <2> QED  BY <2>5, <2>7
  <1>5. CASE LegObeys(n)
    <2>1. /\ pass'[n].with = pass[n].with /\ pass'[n].batch = pass[n].batch
          /\ pass[n].stage = "obeying"
      BY <1>5 DEF LegObeys, Answering
    <2> QED  BY <1>1, <2>1
  <1>6. CASE LegAnswers(n)
    <2>1. /\ pass'[n] = Obeying(n, pass[n].with, pass[n].batch \ {Oldest(pass[n].batch)})
          /\ pass[n].stage = "answering"
      BY <1>6 DEF LegAnswers
    <2>2. /\ pass'[n].with = pass[n].with
          /\ pass'[n].batch = pass[n].batch \ {Oldest(pass[n].batch)}
      BY <2>1 DEF Obeying, Resting
    <2> QED  BY <1>1, <2>1, <2>2
  <1> QED  BY <1>2, <1>3, <1>4, <1>5, <1>6, LegGoesOn

LEMMA LegsKept ==
    ASSUME TypeOK, Bookkeeping, AllJoined, RowsTakeTurns, LegsTakeTurns, [CommandNext]_all
    PROVE  LegsTakeTurns'
  BY OwnLegKept, OwnOrderKept, OlderKept, KindsKept DEF LegsTakeTurns

------------------------------------------------------------------------------
(* The note of an action is of the one errand that may come again.          *)

\* What was done and may be collected again is what the note is of.
Knows(n) ==
    \A t \in Node : \A j \in DOMAIN table[t] :
        ( /\ table[t][j].to = n /\ <<t, j, FALSE>> \in obeyed[n]
          /\ ~table[t][j].done \/ InBatch(n, t, j) )
            => noted[n][ActionOf(table[t][j].order)] = <<t, j>>

\* Between noting and doing, the errand in hand was not done yet.
Stepping(n) ==
    step[n] = "noted" =>
        /\ pass[n].stage = "obeying"
        /\ noted[n][ActionInHand(n)] = Id(n)
        /\ <<Id(n)[1], Id(n)[2], FALSE>> \notin obeyed[n]

\* What may come again now could come again before.
LEMMA AgainAsBefore ==
    ASSUME TypeOK, Bookkeeping, [CommandNext]_all, NEW n \in Node, NEW t \in Node,
           NEW j \in DOMAIN table[t], table[t][j].to = n,
           ~table'[t][j].done \/ InBatch(n, t, j)'
    PROVE  ~table[t][j].done \/ InBatch(n, t, j)
  <1>1. CASE ~table'[t][j].done
    BY <1>1, RowsAfter
  <1>2. CASE InBatch(n, t, j)'
    <2>0. pass'[n].stage \in {"obeying", "answering"} /\ pass'[n].with = t /\ j \in pass'[n].batch
      BY <1>2 DEF InBatch
    <2>2. CASE LegStays(n)
      BY <2>0, <2>2 DEF LegStays, InBatch
    <2>3. CASE LegRests(n) \/ LegBegins(n) \/ LegHands(n)
      <3>1. ASSUME NEW a, NEW S, pass'[n] = Handing(a, S) PROVE FALSE
        BY <2>0, <3>1 DEF Handing
      <3>2. CASE LegRests(n)
        BY <2>0, <3>2 DEF LegRests, Resting
      <3> QED  BY <2>3, <3>1, <3>2 DEF LegBegins, LegHands
    <2>4. ASSUME NEW u \in Node, LegTakes(n, u) PROVE ~table[t][j].done
      <3>1. pass'[n] = Obeying(n, u, Waiting(u, n))
        BY <2>4 DEF LegTakes
      <3>2. Waiting(u, n) # {}
        BY <2>0, <3>1 DEF Obeying, Resting
      <3>3. pass'[n].batch = Waiting(u, n) /\ t = u
        BY <2>0, <3>1, <3>2 DEF Obeying
      <3> QED  BY <2>0, <3>3 DEF Waiting
    <2>5. CASE LegObeys(n)
      <3>1. /\ pass'[n].with = pass[n].with /\ pass'[n].batch = pass[n].batch
            /\ pass[n].stage = "obeying"
        BY <2>5 DEF LegObeys, Answering
      <3> QED  BY <2>0, <3>1 DEF InBatch
    <2>6. CASE LegAnswers(n)
      <3>1. /\ pass'[n] = Obeying(n, pass[n].with, pass[n].batch \ {Oldest(pass[n].batch)})
            /\ pass[n].stage = "answering"
        BY <2>6 DEF LegAnswers
      <3>2. /\ pass'[n].with = pass[n].with
            /\ pass'[n].batch = pass[n].batch \ {Oldest(pass[n].batch)}
        BY <2>0, <3>1 DEF Obeying, Resting
      <3> QED  BY <2>0, <3>1, <3>2 DEF InBatch
    <2> QED  BY <2>2, <2>3, <2>4, <2>5, <2>6, LegGoesOn
  <1> QED  BY <1>1, <1>2

\* Whoever is about to note an errand has no older one of the same action that
\* was done and may come again.
LEMMA NoteIsFree ==
    ASSUME OneSource, TypeOK, Bookkeeping, AllJoined, RowsTakeTurns, LegsTakeTurns,
           NEW n \in Node, pass[n].stage = "obeying",
           NEW t \in Node, NEW j \in DOMAIN table[t], table[t][j].to = n,
           <<t, j, FALSE>> \in obeyed[n], ~table[t][j].done \/ InBatch(n, t, j),
           ActionOf(table[t][j].order) = ActionInHand(n)
    PROVE  Id(n) = <<t, j>>
  <1>1. PICK u \in Node, b \in Nat \ {0} :
             /\ Id(n) = <<u, b>> /\ u = pass[n].with /\ b = Oldest(pass[n].batch)
             /\ b \in DOMAIN table[u] /\ table[u][b].to = n
             /\ b \in pass[n].batch /\ \A k \in pass[n].batch : b <= k
             /\ ActionInHand(n) = ActionOf(table[u][b].order)
    BY InHandIsARow
  <1>2. t = u
    <2>1. Source(n, u)
      BY <1>1 DEF AllJoined, Joined
    <2>2. Source(n, t)
      BY DEF AllJoined, Joined
    <2> QED  BY <2>1, <2>2 DEF OneSource
  <1>3. j \in Nat /\ b \in Nat
    BY DEF TypeOK
  <1>4. OwnLeg(n) /\ OwnInOrder(n) /\ ObeyedIsOlder(n) /\ OneOfAKind(n)
    BY DEF LegsTakeTurns
  <1>5. CASE j \in pass[n].batch
    <2>1. CASE t = n
      <3>1. ~table[n][b].done
        BY <1>1, <1>2, <1>4, <2>1 DEF OwnLeg
      <3>2. ~(b < j)
        BY <1>1, <1>2, <1>4, <2>1, <3>1 DEF OwnInOrder
      <3> QED  BY <1>1, <1>2, <1>3, <1>5, <3>2
    <2>2. CASE t # n
      BY <1>1, <1>2, <1>4, <1>5, <2>2 DEF OneOfAKind
    <2> QED  BY <2>1, <2>2
  <1>6. CASE j \notin pass[n].batch
    <2>1. ~table[t][j].done
      BY <1>6 DEF InBatch
    <2>2. j < b
      BY <1>1, <1>2, <1>4, <1>6, <2>1 DEF ObeyedIsOlder
    <2>3. CASE t = n
      BY <1>1, <1>2, <1>4, <1>6, <2>1, <2>2, <2>3 DEF OwnLeg
    <2>4. CASE t # n
      BY <1>1, <1>2, <2>1, <2>2, <2>4 DEF RowsTakeTurns
    <2> QED  BY <2>3, <2>4
  <1> QED  BY <1>5, <1>6

\* Steps of other nodes, and of this one with nothing in hand, leave what a node
\* noted and did.
LEMMA OthersLeave ==
    ASSUME CommandTypeOK, NEW n \in Node, NEW k \in Node, k # n,
           \/ RefuseCommand(k) \/ SkipObeyed(k) \/ NoteObeyed(k) \/ Perform(k)
           \/ NodeStarts(k)
    PROVE  /\ UNCHANGED <<noted[n], step[n], due[n], fate[n], obeyed[n], pass[n], times[n]>>
           /\ UNCHANGED table
<1>1. CASE RefuseCommand(k) \/ SkipObeyed(k)
  BY <1>1 DEF CommandTypeOK, TypeOK, RefuseCommand, SkipObeyed, CarryOut, work
<1>2. CASE NoteObeyed(k)
  BY <1>2 DEF CommandTypeOK, TypeOK, NoteObeyed, channel, vars
<1>3. CASE Perform(k)
  BY <1>3 DEF CommandTypeOK, TypeOK, Perform, CarryOut
<1>4. CASE NodeStarts(k)
  BY <1>4 DEF CommandTypeOK, TypeOK, NodeStarts, StartsAgain, channel, vars
<1> QED  BY <1>1, <1>2, <1>3, <1>4

\* What carrying out does to the history of the node it is done at.
LEMMA ObeyedBy ==
    ASSUME TypeOK, Bookkeeping, NEW n \in Node, NEW f \in BOOLEAN, CarryOut(n, f)
    PROVE  /\ UNCHANGED table
           /\ \A x : x \in obeyed'[n] <=> x \in obeyed[n] \/ x = <<Id(n)[1], Id(n)[2], f>>
  BY DEF CarryOut, TypeOK, Id

LEMMA KnowsKept ==
    ASSUME OneSource, CommandTypeOK, Bookkeeping, AllJoined, RowsTakeTurns, LegsTakeTurns,
           [CommandNext]_all, NEW n \in Node, Knows(n), Stepping(n)
    PROVE  Knows(n)'
  <1>0. TypeOK
    BY DEF CommandTypeOK
  <1> SUFFICES ASSUME NEW t \in Node, NEW j \in DOMAIN table'[t],
                      table'[t][j].to = n, <<t, j, FALSE>> \in obeyed'[n],
                      ~table'[t][j].done \/ InBatch(n, t, j)'
               PROVE  noted'[n][ActionOf(table'[t][j].order)] = <<t, j>>
    BY DEF Knows, ActionOf
  <1>1. j \in DOMAIN table[t]
    <2>1. CASE <<t, j, FALSE>> \in obeyed[n]
      BY <2>1 DEF Bookkeeping, AnswersTruly
    <2>2. CASE <<t, j, FALSE>> \notin obeyed[n]
      BY <1>0, <2>2, ObeyedAnew
    <2> QED  BY <2>1, <2>2
  <1>2. /\ table[t][j].to = n /\ table'[t][j].order = table[t][j].order
        /\ ~table[t][j].done \/ InBatch(n, t, j)
    <2>1. table'[t][j].to = table[t][j].to /\ table'[t][j].order = table[t][j].order
      BY <1>0, <1>1, RowsAfter
    <2>2. ~table[t][j].done \/ InBatch(n, t, j)
      BY <1>0, <1>1, <2>1, AgainAsBefore
    <2> QED  BY <2>1, <2>2
  <1>3. <<t, j, FALSE>> \in obeyed[n] => noted[n][ActionOf(table[t][j].order)] = <<t, j>>
    BY <1>1, <1>2 DEF Knows
  <1>4. ASSUME UNCHANGED <<noted[n], obeyed[n]>>
        PROVE  noted'[n][ActionOf(table'[t][j].order)] = <<t, j>>
    BY <1>2, <1>3, <1>4
  <1>5. ASSUME NEW k \in Node, k # n,
               \/ RefuseCommand(k) \/ SkipObeyed(k) \/ NoteObeyed(k) \/ Perform(k)
               \/ NodeStarts(k)
        PROVE  noted'[n][ActionOf(table'[t][j].order)] = <<t, j>>
    BY <1>4, <1>5, OthersLeave
  <1>6. CASE NotesStay \/ NodeStarts(n)
    <2>1. UNCHANGED <<noted[n], obeyed[n]>>
      BY <1>6 DEF NotesStay, NodeStarts, StartsAgain
    <2> QED  BY <1>4, <2>1
  <1>7. ASSUME pass[n].stage = "obeying", noted[n][ActionInHand(n)] = Id(n), UNCHANGED noted,
               NEW f \in BOOLEAN, CarryOut(n, f)
        PROVE  noted'[n][ActionOf(table'[t][j].order)] = <<t, j>>
    <2>1. PICK u \in Node, b \in Nat :
            Id(n) = <<u, b>> /\ ActionInHand(n) = ActionOf(table[u][b].order)
      BY <1>0, <1>7, InHandIsARow
    <2>2. <<t, j, FALSE>> \in obeyed[n] \/ <<t, j, FALSE>> = <<u, b, f>>
      <3>1. Id(n)[1] = u /\ Id(n)[2] = b
        BY <2>1
      <3>2. <<Id(n)[1], Id(n)[2], f>> = <<u, b, f>>
        BY <3>1
      <3> QED  BY <1>0, <1>7, <3>2, ObeyedBy
    <2>3. CASE <<t, j, FALSE>> = <<u, b, f>>
      <3>1. t = u /\ j = b
        BY <2>3
      <3> QED  BY <1>2, <1>7, <2>1, <3>1
    <2> QED  BY <1>2, <1>3, <1>7, <2>2, <2>3
  <1>8. CASE RefuseCommand(n)
    <2>1. CarryOut(n, TRUE) /\ UNCHANGED noted
      BY <1>8 DEF RefuseCommand, work
    <2>2. <<t, j, FALSE>> \in obeyed[n]
      BY <1>0, <2>1, ObeyedBy
    <2> QED  BY <1>2, <1>3, <2>1, <2>2
  <1>9. CASE SkipObeyed(n)
    BY <1>7, <1>9 DEF SkipObeyed, Takes, AlreadyObeyed, work
  <1>10. CASE Perform(n)
    BY <1>7, <1>10 DEF Perform, Stepping
  <1>11. CASE NoteObeyed(n)
    <2>1. /\ pass[n].stage = "obeying" /\ UNCHANGED obeyed
          /\ noted' = [noted EXCEPT ![n][ActionInHand(n)] = Id(n)]
      BY <1>11 DEF NoteObeyed, Takes, channel, vars
    <2>2. PICK a \in Action : a = ActionInHand(n)
      BY <1>0, <2>1, InHandIsARow
    <2>3. \A c \in Action : noted'[n][c] = IF c = a THEN Id(n) ELSE noted[n][c]
      BY <2>1, <2>2 DEF CommandTypeOK
    <2>4. ActionOf(table[t][j].order) \in Action
      BY DEF ActionOf, Action
    <2>5. CASE ActionOf(table[t][j].order) = a
      <3>1. Id(n) = <<t, j>>
        <4>1. <<t, j, FALSE>> \in obeyed[n]
          BY <2>1
        <4>2. ActionOf(table[t][j].order) = ActionInHand(n)
          BY <2>2, <2>5
        <4> QED  BY <1>0, <1>1, <1>2, <2>1, <4>1, <4>2, NoteIsFree
      <3> QED  BY <1>2, <2>3, <2>4, <2>5, <3>1
    <2>6. CASE ActionOf(table[t][j].order) # a
      BY <1>2, <1>3, <2>1, <2>3, <2>4, <2>6
    <2> QED  BY <2>5, <2>6
  <1> QED  BY <1>0, <1>5, <1>6, <1>8, <1>9, <1>10, <1>11, CommandKinds

LEMMA SteppingKept ==
    ASSUME CommandTypeOK, Bookkeeping, [CommandNext]_all, NEW n \in Node, Knows(n), Stepping(n)
    PROVE  Stepping(n)'
  <1>0. TypeOK
    BY DEF CommandTypeOK
  <1>1. ASSUME UNCHANGED <<noted[n], step[n], obeyed[n]>>,
               step[n] = "noted" => UNCHANGED pass[n]
        PROVE  Stepping(n)'
    <2>1. CASE step[n] = "noted"
      <3>1. pass[n].stage = "obeying" /\ pass'[n] = pass[n]
        BY <1>1, <2>1 DEF Stepping
      <3>2. PICK t \in Node, j \in Nat :
              /\ Id(n) = <<t, j>> /\ j \in DOMAIN table[t]
              /\ InHand(n) = table[t][j] /\ t = pass[n].with /\ j = Oldest(pass[n].batch)
        BY <1>0, <3>1, InHandIsARow
      <3>3. Id(n)' = Id(n)
        BY <3>1 DEF Id
      <3>4. ActionInHand(n)' = ActionInHand(n)
        <4>1. table'[t][j].order = table[t][j].order
          BY <1>0, <3>2, RowsAfter
        <4> QED  BY <3>2, <3>3, <4>1 DEF ActionInHand, InHand, ActionOf
      <3> QED  BY <1>1, <2>1, <3>1, <3>3, <3>4 DEF Stepping
    <2>2. CASE step[n] # "noted"
      BY <1>1, <2>2 DEF Stepping
    <2> QED  BY <2>1, <2>2
  <1>2. ASSUME step'[n] = "unread" PROVE Stepping(n)'
    BY <1>2 DEF Stepping
  <1>3. ASSUME NEW k \in Node, k # n,
               \/ RefuseCommand(k) \/ SkipObeyed(k) \/ NoteObeyed(k) \/ Perform(k)
               \/ NodeStarts(k)
        PROVE  Stepping(n)'
    BY <1>1, <1>3, OthersLeave
  <1>4. CASE NotesStay
    BY <1>1, <1>4 DEF NotesStay, Stepping
  <1>5. CASE NodeStarts(n)
    BY <1>2, <1>5 DEF NodeStarts, StartsAgain, CommandTypeOK
  <1>6. CASE RefuseCommand(n) \/ SkipObeyed(n)
    BY <1>2, <1>6 DEF RefuseCommand, SkipObeyed, Takes, work
  <1>7. CASE Perform(n)
    BY <1>2, <1>7 DEF Perform, CommandTypeOK
  <1>8. CASE NoteObeyed(n)
    <2>1. /\ pass[n].stage = "obeying" /\ UNCHANGED <<obeyed, table, pass>>
          /\ noted' = [noted EXCEPT ![n][ActionInHand(n)] = Id(n)]
          /\ noted[n][ActionInHand(n)] # Id(n)
      BY <1>8 DEF NoteObeyed, Takes, channel, vars, AlreadyObeyed
    <2>2. PICK t \in Node, j \in Nat :
             /\ Id(n) = <<t, j>> /\ t = pass[n].with
             /\ j \in DOMAIN table[t] /\ table[t][j].to = n /\ j \in pass[n].batch
             /\ ActionInHand(n) = ActionOf(table[t][j].order)
             /\ ActionInHand(n) \in Action
      BY <1>0, <2>1, InHandIsARow
    <2>3. Id(n)' = Id(n) /\ ActionInHand(n)' = ActionInHand(n)
      BY <2>1 DEF Id, ActionInHand, InHand
    <2>4. noted'[n][ActionInHand(n)] = Id(n)
      BY <2>1, <2>2 DEF CommandTypeOK
    <2>5. <<t, j, FALSE>> \notin obeyed[n]
      <3>1. InBatch(n, t, j)
        BY <2>1, <2>2 DEF InBatch
      <3> QED  BY <2>1, <2>2, <3>1 DEF Knows
    <2>6. <<Id(n)[1], Id(n)[2], FALSE>> = <<t, j, FALSE>>
      <3>1. Id(n)[1] = t /\ Id(n)[2] = j
        BY <2>2
      <3> QED  BY <3>1
    <2>7. <<Id(n)[1], Id(n)[2], FALSE>>' \notin obeyed'[n]
      BY <2>1, <2>3, <2>5, <2>6
    <2> QED  BY <2>1, <2>3, <2>4, <2>7 DEF Stepping
  <1> QED  BY <1>0, <1>3, <1>4, <1>5, <1>6, <1>7, <1>8, CommandKinds

------------------------------------------------------------------------------
(* Counting: what a node did of one asking are errands that carry it, each  *)
(* counted once, because what is noted has not been done yet.               *)

\* The errands with that asking that n carried out, and did not refuse.
Did(n, o) ==
    {x \in Node \X (Nat \ {0}) :
        <<x[1], x[2], FALSE>> \in obeyed[n] /\ table[x[1]][x[2]].order = o}

CountsRight(n) ==
    \A o \in Order : IsFiniteSet(Did(n, o)) /\ times[n][o] <= Cardinality(Did(n, o))

\* What a node did of an asking, it did for errands that carry that asking.
LEMMA DidIsCarried ==
    ASSUME TypeOK, Bookkeeping, AllJoined, NEW n \in Node, NEW o \in Order
    PROVE  Did(n, o) \subseteq Carrying(n, o)
  <1> SUFFICES ASSUME NEW x \in Did(n, o) PROVE x \in Carrying(n, o)
    OBVIOUS
  <1>1. PICK t \in Node, j \in Nat \ {0} :
          x = <<t, j>> /\ <<t, j, FALSE>> \in obeyed[n] /\ table[t][j].order = o
    <2>1. x[1] \in Node /\ x[2] \in Nat \ {0} /\ x = <<x[1], x[2]>>
      BY DEF Did
    <2>2. <<x[1], x[2], FALSE>> \in obeyed[n] /\ table[x[1]][x[2]].order = o
      BY DEF Did
    <2> QED  BY <2>1, <2>2
  <1>2. Source(n, t) /\ table[t][j].to = n
    <2>1. <<t, j, FALSE>>[1] = t /\ <<t, j, FALSE>>[2] = j
      OBVIOUS
    <2> QED  BY <1>1, <2>1 DEF AllJoined, Joined
  <1>3. j \in DOMAIN table[t]
    BY <1>1 DEF Bookkeeping, AnswersTruly
  <1>4. t \in {n} \cup {a \in Node : <<n, a>> \in Enrolled}
    BY <1>2 DEF Source
  <1>5. x \in {t} \X {i \in DOMAIN table[t] : table[t][i].to = n /\ table[t][i].order = o}
    BY <1>1, <1>2, <1>3
  <1> QED  BY <1>4, <1>5 DEF Carrying

RowsCarrying(t, n, o) ==
    {t} \X {i \in DOMAIN table[t] : table[t][i].to = n /\ table[t][i].order = o}

\* The rows of one table that carry an asking are finitely many.
LEMMA RowsAreFinite ==
    ASSUME TypeOK, NEW n \in Node, NEW t \in Node, NEW o
    PROVE  IsFiniteSet(RowsCarrying(t, n, o))
  <1> DEFINE rows == {i \in DOMAIN table[t] : table[t][i].to = n /\ table[t][i].order = o}
  <1>1. DOMAIN table[t] = 1 .. Len(table[t]) /\ Len(table[t]) \in Nat
    BY DEF TypeOK
  <1>2. IsFiniteSet(1 .. Len(table[t]))
    <2>1. 1 \in Int /\ Len(table[t]) \in Int
      BY <1>1
    <2> QED  BY <2>1, FS_Interval
  <1>3. IsFiniteSet(rows)
    BY <1>1, <1>2, FS_Subset
  <1>4. IsFiniteSet({t})
    BY FS_Singleton
  <1>5. IsFiniteSet({t} \X rows)
    BY <1>3, <1>4, FS_Product
  <1> QED  BY <1>5 DEF RowsCarrying

\* So are all the errands that carry it to a node with one source.
LEMMA CarryingIsFinite ==
    ASSUME OneSource, TypeOK, NEW n \in Node, NEW o
    PROVE  IsFiniteSet(Carrying(n, o))
  <1>1. \A t \in Node : IsFiniteSet(RowsCarrying(t, n, o))
    BY RowsAreFinite
  <1>4. Carrying(n, o) =
          UNION {RowsCarrying(t, n, o) : t \in {n} \cup {a \in Node : <<n, a>> \in Enrolled}}
    BY DEF Carrying, RowsCarrying
  <1>2. ASSUME \A a \in Node : <<n, a>> \notin Enrolled
        PROVE  IsFiniteSet(Carrying(n, o))
    <2>1. Carrying(n, o) \subseteq RowsCarrying(n, n, o)
      BY <1>2, <1>4
    <2> QED  BY <1>1, <2>1, FS_Subset
  <1>3. ASSUME NEW t \in Node, <<n, t>> \in Enrolled
        PROVE  IsFiniteSet(Carrying(n, o))
    <2>1. \A a \in Node : <<n, a>> \in Enrolled => a = t
      BY <1>3 DEF OneSource, Source
    <2>2. Carrying(n, o) \subseteq RowsCarrying(n, n, o) \cup RowsCarrying(t, n, o)
      BY <1>4, <2>1
    <2>3. IsFiniteSet(RowsCarrying(n, n, o) \cup RowsCarrying(t, n, o))
      <3>1. IsFiniteSet(RowsCarrying(n, n, o)) /\ IsFiniteSet(RowsCarrying(t, n, o))
        BY <1>1
      <3> QED  BY <3>1, FS_Union
    <2> QED  BY <2>2, <2>3, FS_Subset
  <1> QED  BY <1>2, <1>3

\* Nothing that was done is forgotten.
LEMMA DidGrows ==
    ASSUME TypeOK, Bookkeeping, [CommandNext]_all, NEW n \in Node, NEW o \in Order
    PROVE  Did(n, o) \subseteq Did(n, o)'
  <1> SUFFICES ASSUME NEW x \in Did(n, o) PROVE x \in Did(n, o)'
    OBVIOUS
  <1>1. PICK t \in Node, j \in Nat \ {0} :
          x = <<t, j>> /\ <<t, j, FALSE>> \in obeyed[n] /\ table[t][j].order = o
    <2>1. x[1] \in Node /\ x[2] \in Nat \ {0} /\ x = <<x[1], x[2]>>
      BY DEF Did
    <2>2. <<x[1], x[2], FALSE>> \in obeyed[n] /\ table[x[1]][x[2]].order = o
      BY DEF Did
    <2> QED  BY <2>1, <2>2
  <1>2. j \in DOMAIN table[t]
    BY <1>1 DEF Bookkeeping, AnswersTruly
  <1>3. table'[t][j].order = o
    BY <1>1, <1>2, RowsAfter
  <1>4. <<t, j, FALSE>> \in obeyed'[n]
    BY <1>1, CommandsKeepBooks
  <1> QED  BY <1>1, <1>3, <1>4 DEF Did

LEMMA DidGrowsByOne ==
    ASSUME TypeOK, Bookkeeping, [CommandNext]_all, NEW n \in Node, NEW o \in Order
    PROVE  Did(n, o)' \subseteq Did(n, o) \cup {<<pass[n].with, Oldest(pass[n].batch)>>}
  <1> SUFFICES ASSUME NEW x \in Did(n, o)',
                      x # <<pass[n].with, Oldest(pass[n].batch)>>
               PROVE  x \in Did(n, o)
    OBVIOUS
  <1>1. PICK t \in Node, j \in Nat \ {0} :
          x = <<t, j>> /\ <<t, j, FALSE>> \in obeyed'[n] /\ table'[t][j].order = o
    <2>1. x[1] \in Node /\ x[2] \in Nat \ {0} /\ x = <<x[1], x[2]>>
      BY DEF Did
    <2>2. <<x[1], x[2], FALSE>> \in obeyed'[n] /\ table'[x[1]][x[2]].order = o
      BY DEF Did
    <2> QED  BY <2>1, <2>2
  <1>2. <<t, j, FALSE>> \in obeyed[n]
    BY <1>1, ObeyedAnew
  <1>3. j \in DOMAIN table[t]
    BY <1>2 DEF Bookkeeping, AnswersTruly
  <1>4. table[t][j].order = o
    BY <1>1, <1>3, RowsAfter
  <1> QED  BY <1>1, <1>2, <1>4 DEF Did

\* Only doing it counts, and it counts what was asked.
LEMMA TimesMove ==
    ASSUME CommandTypeOK, [CommandNext]_all, NEW n \in Node
    PROVE  UNCHANGED times[n] \/ Perform(n)
  <1>0. TypeOK
    BY DEF CommandTypeOK
  <1>1. ASSUME NEW k \in Node, RefuseCommand(k) \/ SkipObeyed(k) \/ NoteObeyed(k) \/ NodeStarts(k)
        PROVE  UNCHANGED times[n]
    BY <1>1 DEF RefuseCommand, SkipObeyed, NoteObeyed, NodeStarts, StartsAgain, work
  <1>2. ASSUME NEW k \in Node, k # n, Perform(k) PROVE UNCHANGED times[n]
    BY <1>2, OthersLeave
  <1>3. CASE NotesStay
    BY <1>3 DEF NotesStay
  <1> QED  BY <1>0, <1>1, <1>2, <1>3, CommandKinds

LEMMA CountsKept ==
    ASSUME CommandTypeOK, Bookkeeping, [CommandNext]_all,
           NEW n \in Node, Stepping(n), CountsRight(n)
    PROVE  CountsRight(n)'
  <1>0. TypeOK
    BY DEF CommandTypeOK
  <1> SUFFICES ASSUME NEW o \in Order
               PROVE  IsFiniteSet(Did(n, o)') /\ times'[n][o] <= Cardinality(Did(n, o)')
    BY DEF CountsRight
  <1>1. IsFiniteSet(Did(n, o)')
    <2>1. IsFiniteSet(Did(n, o))
      BY DEF CountsRight
    <2>2. IsFiniteSet(Did(n, o) \cup {<<pass[n].with, Oldest(pass[n].batch)>>})
      BY <2>1, FS_AddElement
    <2> QED  BY <1>0, <2>2, DidGrowsByOne, FS_Subset
  <1>2. Did(n, o) \subseteq Did(n, o)'
    BY <1>0, DidGrows
  <1>3. IsFiniteSet(Did(n, o)) /\ Cardinality(Did(n, o)) \in Nat
        /\ Cardinality(Did(n, o)') \in Nat
        /\ Cardinality(Did(n, o)) <= Cardinality(Did(n, o)')
    BY <1>1, <1>2, FS_Subset, FS_CardinalityType
  <1>4. times[n][o] \in Nat /\ times[n][o] <= Cardinality(Did(n, o))
    BY DEF CommandTypeOK, CountsRight
  <1>5. CASE times'[n][o] = times[n][o]
    BY <1>1, <1>3, <1>4, <1>5
  <1>6. CASE Perform(n) /\ times'[n][o] # times[n][o]
    <2>1. /\ pass[n].stage = "obeying" /\ step[n] = "noted" /\ CarryOut(n, FALSE)
          /\ times' = [times EXCEPT ![n][InHand(n).order] = @ + 1]
      BY <1>6 DEF Perform
    <2>2. PICK u \in Node, b \in Nat \ {0} :
            Id(n) = <<u, b>> /\ b \in DOMAIN table[u] /\ InHand(n) = table[u][b]
            /\ table[u][b].order \in Order
      BY <1>0, <2>1, InHandIsARow
    <2>3. table[u][b].order = o /\ times'[n][o] = times[n][o] + 1
      <3>1. PICK p \in Order : p = InHand(n).order
        BY <2>2
      <3>2. times' = [times EXCEPT ![n][p] = @ + 1]
        BY <2>1, <3>1
      <3>3. \A q \in Order : times'[n][q] = IF q = p THEN times[n][q] + 1 ELSE times[n][q]
        BY <3>2 DEF CommandTypeOK
      <3> QED  BY <1>6, <2>2, <3>1, <3>3
    <2>4. Id(n)[1] = u /\ Id(n)[2] = b
      BY <2>2
    <2>5. <<u, b>> \notin Did(n, o)
      <3>1. <<u, b, FALSE>> \notin obeyed[n]
        BY <2>1, <2>4 DEF Stepping
      <3>2. <<u, b>>[1] = u /\ <<u, b>>[2] = b
        OBVIOUS
      <3> QED  BY <3>1, <3>2 DEF Did
    <2>6. <<u, b>> \in Did(n, o)'
      <3>1. <<u, b, FALSE>> \in obeyed'[n] /\ UNCHANGED table
        BY <1>0, <2>1, <2>4, ObeyedBy
      <3> QED  BY <2>2, <2>3, <3>1 DEF Did
    <2>7. Cardinality(Did(n, o) \cup {<<u, b>>}) = Cardinality(Did(n, o)) + 1
      BY <1>3, <2>5, FS_AddElement
    <2>8. Cardinality(Did(n, o) \cup {<<u, b>>}) <= Cardinality(Did(n, o)')
      <3>1. Did(n, o) \cup {<<u, b>>} \subseteq Did(n, o)'
        BY <1>2, <2>6
      <3> QED  BY <1>1, <3>1, FS_Subset
    <2> QED  BY <1>1, <1>3, <1>4, <2>3, <2>7, <2>8
  <1> QED  BY <1>5, <1>6, TimesMove

------------------------------------------------------------------------------
(* Restarts: what was noted has been heard of, and what was heard of is     *)
(* followed by a start, or one is due, or the errand is still in hand.      *)

\* The id noted for restarts is an errand's that asks for one and was heard.
NoteIsHeard(n) ==
    \A t \in Node, j \in Nat \ {0} :
        noted[n]["restart"] = <<t, j>> =>
            /\ j \in DOMAIN table[t] /\ table[t][j].order \in Restarts
            /\ fate[n][table[t][j].order] # "unheard"

\* A restart that no start followed yet is due, or is the errand in hand.
StartIsComing(n) ==
    \A o \in Restarts :
        fate[n][o] = "noted" =>
            \/ due[n]
            \/ step[n] = "noted" /\ pass[n].stage = "obeying" /\ InHand(n).order = o

\* An errand that was noted and is not done yet was heard of.
InHandIsHeard(n) ==
    step[n] = "noted" =>
        /\ pass[n].stage = "obeying"
        /\ InHand(n).order \in Restarts => fate[n][InHand(n).order] # "unheard"

\* A restart carried out and not refused was followed by a start, or is due.
RestartHappened(n) ==
    \A t \in Node, j \in Nat \ {0} :
        ( <<t, j, FALSE>> \in obeyed[n] /\ table[t][j].order \in Restarts ) =>
            /\ fate[n][table[t][j].order] # "unheard"
            /\ due[n] \/ fate[n][table[t][j].order] = "started"

RestartsHold(n) ==
    NoteIsHeard(n) /\ StartIsComing(n) /\ InHandIsHeard(n) /\ RestartHappened(n)

\* The row a leg has in hand asks for the same after any step that leaves the leg.
LEMMA InHandStays ==
    ASSUME TypeOK, Bookkeeping, [CommandNext]_all, NEW n \in Node,
           pass[n].stage = "obeying", UNCHANGED pass[n]
    PROVE  InHand(n)'.order = InHand(n).order /\ Id(n)' = Id(n)
  <1>1. PICK t \in Node, j \in Nat \ {0} :
          /\ Id(n) = <<t, j>> /\ j \in DOMAIN table[t] /\ InHand(n) = table[t][j]
    BY InHandIsARow
  <1>2. Id(n)' = Id(n)
    BY DEF Id
  <1>3. InHand(n)' = table'[t][j]
    BY <1>1, <1>2 DEF InHand
  <1> QED  BY <1>1, <1>2, <1>3, RowsAfter

\* Steps that leave a node's notes and what it did keep all four.
LEMMA RestartsKeptByOthers ==
    ASSUME TypeOK, Bookkeeping, [CommandNext]_all, NEW n \in Node, RestartsHold(n),
           UNCHANGED <<noted[n], step[n], due[n], fate[n], obeyed[n]>>,
           pass[n].stage = "obeying" => UNCHANGED pass[n]
    PROVE  RestartsHold(n)'
  <1>1. NoteIsHeard(n)'
    <2> SUFFICES ASSUME NEW t \in Node, NEW j \in Nat \ {0}, noted'[n]["restart"] = <<t, j>>
                 PROVE  /\ j \in DOMAIN table'[t] /\ table'[t][j].order \in Restarts
                        /\ fate'[n][table'[t][j].order] # "unheard"
      BY DEF NoteIsHeard
    <2>1. /\ j \in DOMAIN table[t] /\ table[t][j].order \in Restarts
          /\ fate[n][table[t][j].order] # "unheard"
      BY DEF RestartsHold, NoteIsHeard
    <2> QED  BY <2>1, RowsAfter
  <1>2. step[n] = "noted" => /\ pass[n].stage = "obeying" /\ UNCHANGED pass[n]
                             /\ InHand(n)'.order = InHand(n).order
    BY InHandStays DEF RestartsHold, InHandIsHeard
  <1>3. StartIsComing(n)'
    <2> SUFFICES ASSUME NEW o \in Restarts, fate'[n][o] = "noted", ~due'[n]
                 PROVE  /\ step'[n] = "noted" /\ pass'[n].stage = "obeying"
                        /\ InHand(n)'.order = o
      BY DEF StartIsComing
    <2>1. step[n] = "noted" /\ pass[n].stage = "obeying" /\ InHand(n).order = o
      BY DEF RestartsHold, StartIsComing
    <2> QED  BY <1>2, <2>1
  <1>4. InHandIsHeard(n)'
    BY <1>2 DEF RestartsHold, InHandIsHeard
  <1>5. RestartHappened(n)'
    <2> SUFFICES ASSUME NEW t \in Node, NEW j \in Nat \ {0},
                        <<t, j, FALSE>> \in obeyed'[n], table'[t][j].order \in Restarts
                 PROVE  /\ fate'[n][table'[t][j].order] # "unheard"
                        /\ due'[n] \/ fate'[n][table'[t][j].order] = "started"
      BY DEF RestartHappened
    <2>1. <<t, j, FALSE>> \in obeyed[n] /\ j \in DOMAIN table[t]
      <3>1. <<t, j, FALSE>> \in obeyed[n]
        OBVIOUS
      <3> QED  BY <3>1 DEF Bookkeeping, AnswersTruly
    <2>2. table'[t][j].order = table[t][j].order
      BY <2>1, RowsAfter
    <2> QED  BY <2>1, <2>2 DEF RestartsHold, RestartHappened
  <1> QED  BY <1>1, <1>3, <1>4, <1>5 DEF RestartsHold

\* A start is what the restarts that were heard of waited for.
LEMMA RestartsKeptByStart ==
    ASSUME CommandTypeOK, Bookkeeping, NEW n \in Node, RestartsHold(n), NodeStarts(n)
    PROVE  RestartsHold(n)'
  <1>1. /\ UNCHANGED <<noted, table, obeyed>> /\ step'[n] = "unread" /\ due'[n] = FALSE
        /\ \A o \in Order :
             fate'[n][o] = IF fate[n][o] = "noted" THEN "started" ELSE fate[n][o]
    BY DEF NodeStarts, StartsAgain, CommandTypeOK
  <1>2. \A o \in Order : fate[n][o] \in {"unheard", "noted", "started"}
    BY DEF CommandTypeOK
  <1>3. NoteIsHeard(n)'
    BY <1>1, RestartsAreOrders DEF NoteIsHeard, RestartsHold
  <1>4. StartIsComing(n)'
    BY <1>1, RestartsAreOrders DEF StartIsComing
  <1>5. InHandIsHeard(n)'
    BY <1>1 DEF InHandIsHeard
  <1>6. RestartHappened(n)'
    BY <1>1, <1>2, RestartsAreOrders DEF RestartHappened, RestartsHold
  <1> QED  BY <1>3, <1>4, <1>5, <1>6 DEF RestartsHold

\* Carrying an errand out without its being noted now: what it adds to the
\* history is no restart, or one that was heard of.
LEMMA RestartsKeptByCarryingOut ==
    ASSUME CommandTypeOK, Bookkeeping, NEW n \in Node, RestartsHold(n),
           NEW f \in BOOLEAN, CarryOut(n, f), UNCHANGED <<noted, fate>>,
           step'[n] = "unread", due[n] => due'[n],
           \A o \in Restarts : fate[n][o] = "noted" => due'[n],
           NEW t \in Node, NEW j \in Nat \ {0}, Id(n) = <<t, j>>,
           (~f /\ table[t][j].order \in Restarts) =>
               fate[n][table[t][j].order] # "unheard"
    PROVE  RestartsHold(n)'
  <1>0. TypeOK
    BY DEF CommandTypeOK
  <1>1. UNCHANGED table
    BY DEF CarryOut
  <1>2. NoteIsHeard(n)'
    BY <1>1 DEF NoteIsHeard, RestartsHold
  <1>3. StartIsComing(n)' /\ InHandIsHeard(n)'
    BY DEF StartIsComing, InHandIsHeard
  <1>4. RestartHappened(n)'
    <2> SUFFICES ASSUME NEW u \in Node, NEW b \in Nat \ {0},
                        <<u, b, FALSE>> \in obeyed'[n], table[u][b].order \in Restarts
                 PROVE  /\ fate[n][table[u][b].order] # "unheard"
                        /\ due'[n] \/ fate[n][table[u][b].order] = "started"
      BY <1>1 DEF RestartHappened
    <2>1. CASE <<u, b, FALSE>> \in obeyed[n]
      BY <2>1 DEF RestartHappened, RestartsHold
    <2>2. CASE <<u, b, FALSE>> \notin obeyed[n]
      <3>1. Id(n)[1] = t /\ Id(n)[2] = j
        OBVIOUS
      <3>2. <<u, b, FALSE>> = <<t, j, f>>
        BY <1>0, <2>2, <3>1, ObeyedBy
      <3>3. u = t /\ b = j /\ ~f
        BY <3>2
      <3>4. fate[n][table[u][b].order] # "unheard"
        BY <3>3
      <3>5. fate[n][table[u][b].order] \in {"unheard", "noted", "started"}
        BY RestartsAreOrders DEF CommandTypeOK
      <3> QED  BY <3>4, <3>5
    <2> QED  BY <2>1, <2>2
  <1> QED  BY <1>2, <1>3, <1>4 DEF RestartsHold

\* Noting an errand: the asking in hand is heard of, if it was not.
LEMMA RestartsKeptByNoting ==
    ASSUME CommandTypeOK, Bookkeeping, NEW n \in Node, RestartsHold(n), NoteObeyed(n)
    PROVE  RestartsHold(n)'
  <1>0. TypeOK
    BY DEF CommandTypeOK
  <1>1. /\ pass[n].stage = "obeying" /\ step[n] = "unread" /\ step'[n] = "noted"
        /\ noted' = [noted EXCEPT ![n][ActionInHand(n)] = Id(n)]
        /\ fate' = [fate EXCEPT ![n][InHand(n).order] =
                      IF @ = "unheard" THEN "noted" ELSE @]
        /\ UNCHANGED <<table, pass, obeyed, due>>
    BY DEF NoteObeyed, Takes, channel, vars, CommandTypeOK
  <1>2. PICK t \in Node, j \in Nat \ {0}, p \in Order, a \in Action :
          /\ Id(n) = <<t, j>> /\ j \in DOMAIN table[t] /\ InHand(n) = table[t][j]
          /\ p = table[t][j].order /\ a = ActionInHand(n) /\ a = ActionOf(p)
    BY <1>0, <1>1, InHandIsARow
  <1>3. \A o \in Order : fate'[n][o] =
          IF o = p /\ fate[n][o] = "unheard" THEN "noted" ELSE fate[n][o]
    <2>1. fate' = [fate EXCEPT ![n][p] = IF @ = "unheard" THEN "noted" ELSE @]
      BY <1>1, <1>2
    <2> QED  BY <2>1 DEF CommandTypeOK
  <1>4. \A o \in Order : fate[n][o] # "unheard" => fate'[n][o] = fate[n][o]
    BY <1>3
  <1>5. fate'[n][p] # "unheard"
    BY <1>3
  <1>6. InHand(n)' = table[t][j] /\ pass'[n].stage = "obeying"
    <2>1. Id(n)' = Id(n)
      BY <1>1 DEF Id
    <2> QED  BY <1>1, <1>2, <2>1 DEF InHand
  <1>7. NoteIsHeard(n)'
    <2> SUFFICES ASSUME NEW u \in Node, NEW b \in Nat \ {0}, noted'[n]["restart"] = <<u, b>>
                 PROVE  /\ b \in DOMAIN table[u] /\ table[u][b].order \in Restarts
                        /\ fate'[n][table[u][b].order] # "unheard"
      BY <1>1 DEF NoteIsHeard
    <2>1. noted'[n]["restart"] = IF a = "restart" THEN Id(n) ELSE noted[n]["restart"]
      <3>1. noted' = [noted EXCEPT ![n][a] = Id(n)] /\ "restart" \in Action
        BY <1>1, <1>2 DEF Action
      <3> QED  BY <3>1 DEF CommandTypeOK
    <2>2. CASE a = "restart"
      <3>1. u = t /\ b = j
        BY <1>2, <2>1, <2>2
      <3>2. p \in Restarts
        BY <1>2, <2>2 DEF ActionOf
      <3> QED  BY <1>2, <1>5, <3>1, <3>2
    <2>3. CASE a # "restart"
      BY <1>4, <2>1, <2>3, RestartsAreOrders DEF RestartsHold, NoteIsHeard
    <2> QED  BY <2>2, <2>3
  <1>8. StartIsComing(n)'
    <2> SUFFICES ASSUME NEW o \in Restarts, fate'[n][o] = "noted", ~due'[n]
                 PROVE  /\ step'[n] = "noted" /\ pass'[n].stage = "obeying"
                        /\ InHand(n)'.order = o
      BY DEF StartIsComing
    <2>1. fate[n][o] # "noted"
      BY <1>1 DEF RestartsHold, StartIsComing
    <2>2. o = p
      BY <1>3, <2>1, RestartsAreOrders
    <2> QED  BY <1>1, <1>2, <1>6, <2>2
  <1>9. InHandIsHeard(n)'
    BY <1>2, <1>5, <1>6 DEF InHandIsHeard
  <1>10. RestartHappened(n)'
    <2>1. table' = table /\ obeyed' = obeyed /\ due' = due
      BY <1>1
    <2>2. ASSUME NEW u \in Node, NEW b \in Nat \ {0},
                 <<u, b, FALSE>> \in obeyed[n], table[u][b].order \in Restarts
          PROVE  /\ fate'[n][table[u][b].order] # "unheard"
                 /\ due[n] \/ fate'[n][table[u][b].order] = "started"
      <3>1. /\ fate[n][table[u][b].order] # "unheard"
            /\ due[n] \/ fate[n][table[u][b].order] = "started"
        BY <2>2 DEF RestartHappened, RestartsHold
      <3>2. fate'[n][table[u][b].order] = fate[n][table[u][b].order]
        BY <1>4, <2>2, <3>1, RestartsAreOrders
      <3> QED  BY <3>1, <3>2
    <2> QED  BY <2>1, <2>2, Zenon DEF RestartHappened
  <1> QED  BY <1>7, <1>8, <1>9, <1>10 DEF RestartsHold

\* The four, over every step of the commands.
LEMMA RestartsKept ==
    ASSUME CommandTypeOK, Bookkeeping, [CommandNext]_all, NEW n \in Node, RestartsHold(n)
    PROVE  RestartsHold(n)'
  <1>0. TypeOK
    BY DEF CommandTypeOK
  <1>1. CASE NotesStay
    BY <1>0, <1>1, RestartsKeptByOthers DEF NotesStay
  <1>2. ASSUME NEW k \in Node, k # n,
               \/ RefuseCommand(k) \/ SkipObeyed(k) \/ NoteObeyed(k) \/ Perform(k)
               \/ NodeStarts(k)
        PROVE  RestartsHold(n)'
    BY <1>0, <1>2, OthersLeave, RestartsKeptByOthers
  <1>3. CASE NodeStarts(n)
    BY <1>3, RestartsKeptByStart
  <1>4. ASSUME pass[n].stage = "obeying"
        PROVE  \E t \in Node, j \in Nat \ {0} :
                 /\ Id(n) = <<t, j>> /\ j \in DOMAIN table[t] /\ InHand(n) = table[t][j]
                 /\ table[t][j].order \in Order
                 /\ ActionInHand(n) = ActionOf(table[t][j].order)
    BY <1>0, <1>4, InHandIsARow
  <1>5. ASSUME step[n] = "unread", NEW o \in Restarts, fate[n][o] = "noted"
        PROVE  due[n]
    BY <1>5 DEF RestartsHold, StartIsComing
  <1>6. CASE RefuseCommand(n)
    <2>1. CarryOut(n, TRUE) /\ Takes(n) /\ UNCHANGED work
      BY <1>6 DEF RefuseCommand
    <2>2. pass[n].stage = "obeying" /\ step[n] = "unread" /\ UNCHANGED <<noted, fate, step, due>>
      BY <2>1 DEF Takes, work
    <2> QED  BY <1>4, <1>5, <2>1, <2>2, RestartsKeptByCarryingOut
  <1>7. CASE SkipObeyed(n)
    <2>1. CarryOut(n, FALSE) /\ Takes(n) /\ UNCHANGED work /\ AlreadyObeyed(n)
      BY <1>7 DEF SkipObeyed
    <2>2. pass[n].stage = "obeying" /\ step[n] = "unread" /\ UNCHANGED <<noted, fate, step, due>>
      BY <2>1 DEF Takes, work
    <2>3. PICK t \in Node, j \in Nat \ {0} :
             /\ Id(n) = <<t, j>> /\ ActionInHand(n) = ActionOf(table[t][j].order)
      BY <1>4, <2>2
    <2>4. table[t][j].order \in Restarts => fate[n][table[t][j].order] # "unheard"
      <3> SUFFICES ASSUME table[t][j].order \in Restarts
                   PROVE  fate[n][table[t][j].order] # "unheard"
        OBVIOUS
      <3>1. ActionInHand(n) = "restart"
        BY <2>3 DEF ActionOf
      <3>2. noted[n]["restart"] = <<t, j>>
        BY <2>1, <2>3, <3>1 DEF AlreadyObeyed
      <3> QED  BY <3>2 DEF RestartsHold, NoteIsHeard
    <2> QED  BY <1>5, <2>1, <2>2, <2>3, <2>4, RestartsKeptByCarryingOut
  <1>8. CASE Perform(n)
    <2>1. /\ CarryOut(n, FALSE) /\ pass[n].stage = "obeying" /\ step[n] = "noted"
          /\ UNCHANGED <<noted, fate>> /\ step'[n] = "unread"
          /\ IF ActionInHand(n) = "restart" THEN due' = [due EXCEPT ![n] = TRUE]
             ELSE UNCHANGED due
      BY <1>8 DEF Perform, CommandTypeOK
    <2>2. PICK t \in Node, j \in Nat \ {0} :
             /\ Id(n) = <<t, j>> /\ InHand(n) = table[t][j]
             /\ ActionInHand(n) = ActionOf(table[t][j].order)
      BY <1>4, <2>1
    <2>3. due[n] => due'[n]
      BY <2>1 DEF CommandTypeOK
    <2>4. ASSUME NEW o \in Restarts, fate[n][o] = "noted" PROVE due'[n]
      <3>1. CASE due[n]
        BY <2>3, <3>1
      <3>2. CASE ~due[n]
        <4>1. table[t][j].order = o
          BY <2>2, <2>4, <3>2 DEF RestartsHold, StartIsComing
        <4>2. ActionInHand(n) = "restart"
          BY <2>2, <2>4, <4>1 DEF ActionOf
        <4> QED  BY <2>1, <4>2 DEF CommandTypeOK
      <3> QED  BY <3>1, <3>2
    <2>5. table[t][j].order \in Restarts => fate[n][table[t][j].order] # "unheard"
      BY <2>1, <2>2 DEF RestartsHold, InHandIsHeard
    <2> QED  BY <2>1, <2>2, <2>3, <2>4, <2>5, RestartsKeptByCarryingOut
  <1>9. CASE NoteObeyed(n)
    BY <1>0, <1>9, RestartsKeptByNoting
  <1> QED  BY <1>0, <1>1, <1>2, <1>3, <1>6, <1>7, <1>8, <1>9, CommandKinds

------------------------------------------------------------------------------
(* What the runs check of the commands, for every number of nodes, presses  *)
(* and faults.                                                              *)

LEMMA CommandsStartTidy ==
    ASSUME CommandInit
    PROVE  /\ CommandTypeOK /\ Bookkeeping /\ AllJoined /\ RowsTakeTurns /\ LegsTakeTurns
           /\ \A n \in Node : Knows(n) /\ Stepping(n) /\ RestartsHold(n)
  <1>1. CommandTypeOK /\ Bookkeeping
    BY CommandsAreTypedAtFirst, InitKeepsBooks DEF CommandInit
  <1>2. /\ table = [n \in Node |-> << >>] /\ flight = {}
        /\ authority = [n \in Node |-> {a \in Node : <<n, a>> \in Enrolled}]
        /\ pass = [n \in Node |-> Resting(n)] /\ obeyed = [n \in Node |-> {}]
        /\ noted = [n \in Node |-> [a \in Action |-> Nothing]]
        /\ step = [n \in Node |-> "unread"]
        /\ fate = [n \in Node |-> [o \in Order |-> "unheard"]]
    BY DEF CommandInit, Init
  <1>3. \A n \in Node : pass[n].stage = "resting" /\ obeyed[n] = {} /\ DOMAIN table[n] = {}
    BY <1>2 DEF Resting
  <1>4. AllJoined
    BY <1>2, <1>3 DEF AllJoined, Joined
  <1>5. RowsTakeTurns /\ LegsTakeTurns
    BY <1>3 DEF RowsTakeTurns, LegsTakeTurns, OwnLeg, OwnInOrder, ObeyedIsOlder, OneOfAKind
  <1>6. ASSUME NEW n \in Node PROVE Knows(n) /\ Stepping(n)
    BY <1>2, <1>3 DEF Knows, Stepping
  <1>7. ASSUME NEW n \in Node PROVE RestartsHold(n)
    <2>1. noted[n]["restart"] = Nothing
      BY <1>2 DEF Action
    <2>2. NoteIsHeard(n)
      BY <2>1, NothingIsNoId DEF NoteIsHeard
    <2>3. StartIsComing(n) /\ InHandIsHeard(n) /\ RestartHappened(n)
      BY <1>2, <1>3, RestartsAreOrders DEF StartIsComing, InHandIsHeard, RestartHappened
    <2> QED  BY <2>2, <2>3 DEF RestartsHold
  <1> QED  BY <1>1, <1>4, <1>5, <1>6, <1>7

\* What every step of the commands keeps, whatever is asked and by whom.
RestartInvariant ==
    CommandTypeOK /\ Bookkeeping /\ \A n \in Node : RestartsHold(n)

\* What it keeps besides when every node has one source of errands and nobody
\* asks again before the answer is in: so one note for each action is enough.
OnceInvariant ==
    /\ CommandTypeOK /\ Bookkeeping /\ AllJoined /\ RowsTakeTurns /\ LegsTakeTurns
    /\ \A n \in Node : Knows(n) /\ Stepping(n) /\ CountsRight(n)

\* Nothing was done before the start.
LEMMA CountsAtFirst ==
    ASSUME CommandInit
    PROVE  \A n \in Node : CountsRight(n)
  <1> SUFFICES ASSUME NEW n \in Node, NEW o \in Order
               PROVE  IsFiniteSet(Did(n, o)) /\ times[n][o] <= Cardinality(Did(n, o))
    BY DEF CountsRight
  <1>1. times[n][o] = 0 /\ obeyed[n] = {}
    BY DEF CommandInit, Init
  <1>2. Did(n, o) = {}
    BY <1>1 DEF Did
  <1> QED  BY <1>1, <1>2, FS_EmptySet

(* The inductive invariant of restarts (collect::do_once, restart_service): *)
(* the note stands for an errand that was heard of, and every restart heard *)
(* of is in hand, due, or was followed by a start.                          *)
THEOREM RestartsAreHeard == CommandSpec => []RestartInvariant
  <1>1. CommandInit => RestartInvariant
    BY CommandsStartTidy DEF RestartInvariant
  <1>2. RestartInvariant /\ [CommandNext]_all => RestartInvariant'
    <2> SUFFICES ASSUME RestartInvariant, [CommandNext]_all PROVE RestartInvariant'
      OBVIOUS
    <2>1. TypeOK
      BY DEF RestartInvariant, CommandTypeOK
    <2>2. CommandTypeOK' /\ Bookkeeping'
      BY <2>1, CommandTypesKept, CommandsKeepBooks DEF RestartInvariant
    <2>3. \A n \in Node : RestartsHold(n)'
      BY RestartsKept DEF RestartInvariant
    <2> QED  BY <2>2, <2>3 DEF RestartInvariant
  <1> QED  BY <1>1, <1>2, PTL DEF CommandSpec

(* The shape of the commands' state.                                        *)
THEOREM CommandsAreTyped == CommandSpec => []CommandTypeOK
  <1>1. RestartInvariant => CommandTypeOK
    BY DEF RestartInvariant
  <1> QED  BY <1>1, RestartsAreHeard, PTL

(* A restart that was answered for really happened after it was asked, or   *)
(* is about to: what was noted before a crash, a lost answer or the restart *)
(* itself never passes for one that nobody made.                            *)
THEOREM AnsweredRestartsHappen == CommandSpec => []AnsweredRestartHappened
  <1>1. RestartInvariant => AnsweredRestartHappened
    <2> SUFFICES ASSUME RestartInvariant, NEW o \in Node, NEW n \in Node,
                        NEW i \in DOMAIN table[o], table[o][i].order \in Restarts,
                        <<o, i, FALSE>> \in obeyed[n]
                 PROVE  due[n] \/ fate[n][table[o][i].order] = "started"
      BY DEF AnsweredRestartHappened
    <2>1. i \in Nat \ {0}
      BY DEF RestartInvariant, CommandTypeOK, TypeOK
    <2> QED  BY <2>1 DEF RestartInvariant, RestartsHold, RestartHappened
  <1> QED  BY <1>1, RestartsAreHeard, PTL

(* The inductive invariant of doing once (network::ask_once, do_once,       *)
(* already_obeyed): of one action one errand at most may come again, so the *)
(* one note that is kept for the action is that errand's.                   *)
THEOREM OneNoteIsEnough ==
    ASSUME OneSource, Patient
    PROVE  CommandSpec => []OnceInvariant
  <1>1. CommandInit => OnceInvariant
    BY CommandsStartTidy, CountsAtFirst DEF OnceInvariant
  <1>2. OnceInvariant /\ [CommandNext]_all => OnceInvariant'
    <2> SUFFICES ASSUME OnceInvariant, [CommandNext]_all PROVE OnceInvariant'
      OBVIOUS
    <2>1. /\ CommandTypeOK /\ TypeOK /\ Bookkeeping /\ AllJoined /\ RowsTakeTurns
          /\ LegsTakeTurns /\ \A n \in Node : Knows(n) /\ Stepping(n) /\ CountsRight(n)
      BY DEF OnceInvariant, CommandTypeOK
    <2>2. CommandTypeOK' /\ Bookkeeping' /\ AllJoined'
      BY <2>1, CommandTypesKept, CommandsKeepBooks, JoinedKept
    <2>3. RowsTakeTurns' /\ LegsTakeTurns'
      BY <2>1, TurnsKept, LegsKept
    <2>4. \A n \in Node : Knows(n)'
      BY <2>1, KnowsKept
    <2>5. \A n \in Node : Stepping(n)'
      BY <2>1, SteppingKept
    <2>6. \A n \in Node : CountsRight(n)'
      BY <2>1, CountsKept
    <2> QED  BY <2>2, <2>3, <2>4, <2>5, <2>6 DEF OnceInvariant
  <1> QED  BY <1>1, <1>2, PTL DEF CommandSpec

(* One errand is done once at most, however often it is collected: through  *)
(* late and lost answers, crashes and the very restart it asks for.         *)
THEOREM ErrandsAreDoneOnce ==
    ASSUME OneSource, Patient
    PROVE  CommandSpec => []OnceForEachErrand
  <1>1. OnceInvariant => OnceForEachErrand
    <2> SUFFICES ASSUME OnceInvariant, NEW n \in Node, NEW o \in Order
                 PROVE  times[n][o] <= Cardinality(Carrying(n, o))
      BY DEF OnceForEachErrand
    <2>1. TypeOK /\ Bookkeeping /\ AllJoined /\ CountsRight(n)
      BY DEF OnceInvariant, CommandTypeOK
    <2>2. IsFiniteSet(Carrying(n, o)) /\ Did(n, o) \subseteq Carrying(n, o)
      BY <2>1, CarryingIsFinite, DidIsCarried
    <2>3. /\ Cardinality(Did(n, o)) <= Cardinality(Carrying(n, o))
          /\ IsFiniteSet(Did(n, o))
      BY <2>2, FS_Subset
    <2>4. Cardinality(Did(n, o)) \in Nat /\ Cardinality(Carrying(n, o)) \in Nat
      BY <2>2, <2>3, FS_CardinalityType
    <2>5. times[n][o] \in Nat /\ times[n][o] <= Cardinality(Did(n, o))
      BY <2>1 DEF OnceInvariant, CommandTypeOK, CountsRight
    <2> QED  BY <2>3, <2>4, <2>5
  <1> QED  BY <1>1, OneNoteIsEnough, PTL

=============================================================================
