--------------------------- MODULE EdgeApplyProofs ---------------------------
(***************************************************************************)
(* Proofs about EdgeApply, for any number of versions and failures and any *)
(* set of versions that Nginx refuses: what is on disk at every step at    *)
(* which the agent may die, what a rollback leaves, and that the apply     *)
(* implements the atomic one of EdgeSync.                                  *)
(*                                                                         *)
(* They assume that the restores of a rollback do not fail: the code       *)
(* ignores their errors, and with one of them no configuration that was    *)
(* ever live can be promised.                                              *)
(***************************************************************************)
EXTENDS EdgeApply, TLAPS

\* The places of an apply whose backups are taken and whose version has not
\* been seen to listen, and those where the files are all written.
Staging == {"write", "test", "reload", "listen", "restore", "discard"}
Complete == {"test", "reload", "listen", "record", "cleanup"}

\* The version being applied, and what an apply has recorded.
VersionInv ==
    /\ applied <= desired
    /\ pc # "idle" =>
         /\ entry.applied < target /\ target <= desired
         /\ applied = IF pc = "cleanup" THEN target ELSE entry.applied

\* What is written, what is restored, and which directories are there.
DiskInv ==
    /\ Resolves
    /\ pc = "write" =>
         /\ written < 6
         /\ \A i \in 1..written :
              IF WriteOrder[i] = "fragments" THEN target \in dirs ELSE disk[WriteOrder[i]] = target
    /\ pc \in Complete => disk = Whole(target) /\ target \in dirs
    /\ pc \in Staging => \A f \in Indexes :
         backup[f] # 0 => backup[f] \in dirs /\ (created => backup[f] # target)
    /\ pc = "restore" => \A f \in Files \ todo.files : disk[f] = backup[f]
    /\ pc = "discard" => disk = backup

\* Which configuration a rollback restores.
GoodInv ==
    /\ pc \in {"idle", "backup"} /\ ~dirty => disk = Whole(good)
    /\ pc \in Staging /\ ~dirty => backup = Whole(good)
    /\ pc \notin {"idle", "record", "cleanup"} => good = entry.good
    /\ pc \in {"record", "cleanup"} => good = target

\* What the Nginx workers have loaded.
LiveInv ==
    /\ pc = "backup" => live = entry.live
    /\ pc \in {"listen", "record", "cleanup"} => live = Whole(target)
    /\ pc # "idle" /\ ~dirty => live \in {entry.live, Whole(target), Whole(entry.good)}

\* The inductive invariant.
Inv == TypeOK /\ VersionInv /\ DiskInv /\ GoodInv /\ LiveInv

-----------------------------------------------------------------------------

\* The fragments are written third, before every index that includes them.
LEMMA Order ==
    /\ Len(WriteOrder) = 6 /\ WriteOrder[3] = "fragments"
    /\ \A i \in 1..6 : /\ WriteOrder[i] \in Files \cup {"fragments"}
                       /\ WriteOrder[i] \in Indexes => 3 < i
    /\ \A f \in Files : \E i \in 1..6 : WriteOrder[i] = f
    /\ "fragments" \notin Files
<1>1. /\ WriteOrder[1] = "certificate" /\ WriteOrder[2] = "key" /\ WriteOrder[3] = "fragments"
      /\ WriteOrder[4] = "main" /\ WriteOrder[5] = "http" /\ WriteOrder[6] = "stream"
    BY DEF WriteOrder
<1>2. Len(WriteOrder) = 6
    BY DEF WriteOrder
<1>3. \A i \in 1..6 : i = 1 \/ i = 2 \/ i = 3 \/ i = 4 \/ i = 5 \/ i = 6
    OBVIOUS
<1>4. \A i \in 1..6 : /\ WriteOrder[i] \in Files \cup {"fragments"}
                      /\ WriteOrder[i] \in Indexes => 3 < i
    BY <1>1, <1>3 DEF Files, Certificates, Indexes
<1>5. \A f \in Files : \E i \in 1..6 : WriteOrder[i] = f
    BY <1>1 DEF Files, Certificates, Indexes
<1> QED
    BY <1>1, <1>2, <1>4, <1>5 DEF Files, Certificates, Indexes

\* What the type invariant says of each variable.
LEMMA Types ==
    ASSUME TypeOK
    PROVE  /\ desired \in Nat /\ applied \in Nat /\ target \in Nat /\ good \in Nat
           /\ disk \in [Files -> Versions] /\ live \in [Files -> Versions] /\ backup \in [Files -> Versions]
           /\ entry \in [live : [Files -> Versions], applied : Versions, good : Versions]
           /\ entry.applied \in Nat /\ entry.good \in Versions /\ entry.live \in [Files -> Versions]
           /\ todo \in [files : SUBSET Files, reload : BOOLEAN]
           /\ todo.files \subseteq Files /\ todo.reload \in BOOLEAN
           /\ written \in 0..6
<1>1. entry \in [live : [Files -> Versions], applied : Versions, good : Versions]
    BY DEF TypeOK
<1>2. todo \in [files : SUBSET Files, reload : BOOLEAN]
    BY DEF TypeOK
<1>3. desired \in Nat /\ applied \in Nat /\ target \in Nat /\ good \in Nat
    BY ApplyAssumption DEF TypeOK, Versions
<1>4. disk \in [Files -> Versions] /\ live \in [Files -> Versions] /\ backup \in [Files -> Versions]
    BY DEF TypeOK
<1>5. entry.applied \in Nat /\ entry.good \in Versions /\ entry.live \in [Files -> Versions]
    BY <1>1, ApplyAssumption DEF Versions
<1>6. todo.files \subseteq Files /\ todo.reload \in BOOLEAN
    BY <1>2
<1>7. written \in 0..6
    BY Order DEF TypeOK
<1> QED
    BY <1>1, <1>2, <1>3, <1>4, <1>5, <1>6, <1>7

\* A configuration of one version has it in every file.
LEMMA Wholes == \A v \in Versions : Whole(v) \in [Files -> Versions] /\ \A f \in Files : Whole(v)[f] = v
BY DEF Whole

\* An agent that has applied nothing.
LEMMA InitInv == Init => Inv
<1> SUFFICES ASSUME Init PROVE Inv
    OBVIOUS
<1>1. 0 \in Versions /\ 0 \in 0..MaxFaults
    BY ApplyAssumption DEF Versions
<1>2. TypeOK
    <2>1. {desired, applied, target, good} \subseteq Versions
        BY <1>1 DEF Init
    <2>2. {disk, live, backup} \subseteq [Files -> Versions]
        BY <1>1, Wholes DEF Init
    <2>3. entry \in [live : [Files -> Versions], applied : Versions, good : Versions]
        BY <1>1, Wholes DEF Init
    <2>4. report \in [version : Versions, ok : BOOLEAN]
        BY <1>1 DEF Init, NoReport
    <2>5. todo \in [files : SUBSET Files, reload : BOOLEAN] /\ created \in BOOLEAN /\ dirty \in BOOLEAN
        BY DEF Init
    <2>6. written \in 0..Len(WriteOrder)
        BY Order DEF Init
    <2> QED
        BY <1>1, <2>1, <2>2, <2>3, <2>4, <2>5, <2>6 DEF Init, TypeOK
<1>3. VersionInv
    BY DEF Init, VersionInv
<1>4. DiskInv
    BY DEF Init, DiskInv, Resolves, Indexes, Files, Whole, Staging, Complete
<1>5. GoodInv /\ LiveInv
    BY DEF Init, GoodInv, LiveInv, Staging
<1> QED
    BY <1>2, <1>3, <1>4, <1>5 DEF Inv

-----------------------------------------------------------------------------
\* One lemma per group of actions.

\* Between two applies.
LEMMA OutsideStep ==
    ASSUME Inv, NewDesiredState \/ Heartbeat \/ Sync
    PROVE  Inv'
<1> USE DEF Inv
<1>1. CASE NewDesiredState
    <2>1. /\ desired' = desired + 1 /\ desired < MaxVersion
          /\ UNCHANGED <<disk, dirs, applied, live, report, pc, target, backup, written, todo, created,
                         faults, entry, good, dirty>>
        BY <1>1 DEF NewDesiredState, local, history
    <2>2. desired' \in Versions
        BY <2>1, Types, ApplyAssumption DEF Versions
    <2>3. TypeOK'
        BY <2>1, <2>2 DEF TypeOK
    <2>4. VersionInv'
        BY <2>1, Types DEF VersionInv
    <2>5. DiskInv' /\ GoodInv' /\ LiveInv'
        BY <2>1 DEF DiskInv, GoodInv, LiveInv, Resolves
    <2> QED
        BY <2>3, <2>4, <2>5
<1>2. CASE Heartbeat
    <2>1. /\ pc = "idle" /\ report' = NoReport
          /\ UNCHANGED <<desired, disk, dirs, applied, live, pc, target, backup, written, todo, created,
                         faults, entry, good, dirty>>
        BY <1>2 DEF Heartbeat, local, history
    <2>2. report' \in [version : Versions, ok : BOOLEAN]
        BY <2>1, ApplyAssumption DEF NoReport, Versions
    <2>3. TypeOK'
        BY <2>1, <2>2 DEF TypeOK
    <2>4. VersionInv' /\ DiskInv' /\ GoodInv' /\ LiveInv'
        BY <2>1 DEF VersionInv, DiskInv, GoodInv, LiveInv, Resolves
    <2> QED
        BY <2>3, <2>4
<1>3. CASE Sync
    <2>1. /\ pc = "idle" /\ desired > applied /\ pc' = "backup" /\ target' = desired
          /\ entry' = [live |-> live, applied |-> applied, good |-> good]
          /\ UNCHANGED <<desired, disk, dirs, applied, live, report, backup, written,
                         todo, created, faults, good, dirty>>
        BY <1>3 DEF Sync
    <2>2. entry' \in [live : [Files -> Versions], applied : Versions, good : Versions]
        BY <2>1 DEF TypeOK
    <2>3. TypeOK'
        <3>1. {desired', applied', target', good'} \subseteq Versions
            BY <2>1 DEF TypeOK
        <3> QED
            BY <2>1, <2>2, <3>1 DEF TypeOK
    <2>4. entry'.live = live /\ entry'.applied = applied /\ entry'.good = good
        BY <2>1
    <2>5. VersionInv'
        BY <2>1, <2>4, Types DEF VersionInv
    <2>6. DiskInv'
        BY <2>1 DEF DiskInv, Resolves, Staging, Complete
    <2>7. GoodInv' /\ LiveInv'
        BY <2>1, <2>4 DEF GoodInv, LiveInv, Staging
    <2> QED
        BY <2>3, <2>5, <2>6, <2>7
<1> QED
    BY <1>1, <1>2, <1>3

\* The backups are taken, or the apply is refused.
LEMMA BackupStep ==
    ASSUME Inv, Backup \/ Refuse
    PROVE  Inv'
<1> USE DEF Inv
<1>1. CASE Backup
    <2>1. /\ pc = "backup" /\ Resolves /\ backup' = disk /\ written' = 0 /\ created' = FALSE /\ pc' = "write"
          /\ UNCHANGED <<desired, disk, dirs, applied, live, report, target, todo, faults, entry, good, dirty>>
        BY <1>1 DEF Backup, history
    <2>2. TypeOK'
        <3>1. {disk', live', backup'} \subseteq [Files -> Versions] /\ written' \in 0..Len(WriteOrder)
            BY <2>1, Order DEF TypeOK
        <3>2. created' \in BOOLEAN
            BY <2>1
        <3> QED
            BY <2>1, <3>1, <3>2 DEF TypeOK
    <2>3. VersionInv'
        BY <2>1 DEF VersionInv
    <2>4. DiskInv'
        BY <2>1 DEF DiskInv, Resolves, Staging, Complete
    <2>5. GoodInv' /\ LiveInv'
        BY <2>1 DEF GoodInv, LiveInv, Staging
    <2> QED
        BY <2>2, <2>3, <2>4, <2>5
<1>2. CASE Refuse
    <2>1. /\ pc = "backup" /\ report' = Failed(target) /\ pc' = "idle"
          /\ faults' = faults \/ (faults < MaxFaults /\ faults' = faults + 1)
          /\ UNCHANGED <<desired, disk, dirs, applied, live, target, backup, written, todo, created,
                         entry, good, dirty>>
        BY <1>2 DEF Refuse, Fault, local, history
    <2>2. TypeOK'
        <3>1. report' \in [version : Versions, ok : BOOLEAN]
            BY <2>1 DEF Failed, TypeOK
        <3>2. faults' \in 0..MaxFaults
            BY <2>1, ApplyAssumption DEF TypeOK
        <3> QED
            BY <2>1, <3>1, <3>2 DEF TypeOK
    <2>3. VersionInv'
        BY <2>1 DEF VersionInv
    <2>4. DiskInv'
        BY <2>1 DEF DiskInv, Resolves, Staging, Complete
    <2>5. GoodInv' /\ LiveInv'
        BY <2>1 DEF GoodInv, LiveInv, Staging
    <2> QED
        BY <2>2, <2>3, <2>4, <2>5
<1> QED
    BY <1>1, <1>2

\* One file or the fragment directories are written.
LEMMA WriteStep ==
    ASSUME Inv, Write
    PROVE  Inv'
<1> USE DEF Inv
<1>1. pc = "write" /\ written \in 0..5 /\ target \in Versions /\ target # 0
    BY Types DEF Write, DiskInv, VersionInv, TypeOK
<1>2. PICK n \in 1..6 : n = written + 1
    BY <1>1
<1>3. PICK f \in Files \cup {"fragments"} : f = WriteOrder[n]
    BY <1>2, Order
<1>4. /\ f = "fragments" => /\ dirs' = dirs \cup {target} /\ created' = (target \notin dirs)
                            /\ disk' = disk
      /\ f # "fragments" => disk' = [disk EXCEPT ![f] = target] /\ dirs' = dirs /\ created' = created
      /\ written' = n /\ pc' = IF n = 6 THEN "test" ELSE "write"
      /\ UNCHANGED <<desired, applied, live, report, target, backup, todo, faults, entry, good, dirty>>
    BY <1>2, <1>3, Order DEF Write, history
<1>5. disk' \in [Files -> Versions] /\ \A g \in Files : g # f => disk'[g] = disk[g]
    BY <1>1, <1>3, <1>4, Types, Order
<1>6. f # "fragments" => disk'[f] = target
    BY <1>3, <1>4, Types
<1>7. TypeOK'
    <2>1. created' \in BOOLEAN
        BY <1>4 DEF TypeOK
    <2>2. dirs' \subseteq Versions
        BY <1>1, <1>4 DEF TypeOK
    <2>3. written' \in 0..Len(WriteOrder)
        BY <1>2, <1>4, Order
    <2>4. {disk', live', backup'} \subseteq [Files -> Versions]
        BY <1>4, <1>5 DEF TypeOK
    <2> QED
        BY <1>4, <2>1, <2>2, <2>3, <2>4 DEF TypeOK
<1>8. VersionInv'
    BY <1>1, <1>4 DEF VersionInv
<1>9. \A i \in 1..n : IF WriteOrder[i] = "fragments" THEN target \in dirs' ELSE disk'[WriteOrder[i]] = target
    <2>1. ASSUME NEW i \in 1..n
          PROVE  IF WriteOrder[i] = "fragments" THEN target \in dirs' ELSE disk'[WriteOrder[i]] = target
        <3>1. CASE i = n
            BY <1>3, <1>4, <1>6, <3>1
        <3>2. CASE i # n
            <4>1. i \in 1..written /\ i \in 1..6
                BY <1>1, <1>2, <3>2
            <4>2. IF WriteOrder[i] = "fragments" THEN target \in dirs ELSE disk[WriteOrder[i]] = target
                BY <1>1, <4>1 DEF DiskInv
            <4>3. WriteOrder[i] \in Files \cup {"fragments"}
                BY <4>1, Order
            <4> QED
                BY <1>4, <1>5, <1>6, <4>2, <4>3
        <3> QED
            BY <3>1, <3>2
    <2> QED
        BY <2>1
<1>10. DiskInv'
    <2>1. Resolves'
        <3>1. SUFFICES ASSUME NEW g \in Indexes, disk'[g] # 0 PROVE disk'[g] \in dirs'
            BY DEF Resolves
        <3>2. g \in Files
            BY DEF Files
        <3>3. CASE g = f
            <4>1. 3 \in 1..n /\ f # "fragments"
                BY <1>2, <1>3, <3>2, <3>3, Order
            <4>2. target \in dirs'
                BY <1>9, <4>1, Order
            <4> QED
                BY <1>6, <3>3, <4>1, <4>2
        <3>4. CASE g # f
            BY <1>4, <1>5, <3>1, <3>2, <3>4 DEF DiskInv, Resolves
        <3> QED
            BY <3>3, <3>4
    <2>2. pc' \in Complete => disk' = Whole(target) /\ target \in dirs'
        <3>1. SUFFICES ASSUME n = 6 PROVE disk' = Whole(target) /\ target \in dirs'
            BY <1>4 DEF Complete
        <3>2. \A g \in Files : disk'[g] = target
            BY <1>9, <3>1, Order
        <3>3. target \in dirs'
            BY <1>9, <3>1, Order
        <3> QED
            BY <1>5, <3>2, <3>3 DEF Whole
    <2>3. \A g \in Indexes : backup'[g] # 0 => backup'[g] \in dirs' /\ (created' => backup'[g] # target')
        BY <1>1, <1>4 DEF DiskInv, Staging
    <2> QED
        BY <1>2, <1>4, <1>9, <2>1, <2>2, <2>3 DEF DiskInv
<1>11. GoodInv' /\ LiveInv'
    BY <1>1, <1>4 DEF GoodInv, LiveInv, Staging
<1> QED
    BY <1>7, <1>8, <1>10, <1>11

\* A step fails after the backups were taken: the rollback begins.
LEMMA RollBackStep ==
    ASSUME Inv, NEW reload \in BOOLEAN, pc \in {"write", "test", "reload", "listen"}, RollBack(reload),
           live' = live \/ (pc = "reload" /\ live' = disk), faults' \in 0..MaxFaults,
           UNCHANGED <<desired, disk, dirs, applied, report, target, backup, written, created, entry, good, dirty>>
    PROVE  Inv'
<1> USE DEF Inv
<1>1. todo' = [files |-> Files, reload |-> reload] /\ pc' = "restore"
    BY DEF RollBack
<1>2. todo' \in [files : SUBSET Files, reload : BOOLEAN] /\ todo'.files = Files
    BY <1>1
<1>3. live' \in [Files -> Versions]
    BY Types
<1>4. TypeOK'
    <2>1. {disk', live', backup'} \subseteq [Files -> Versions]
        BY <1>3 DEF TypeOK
    <2> QED
        BY <1>1, <1>2, <2>1 DEF TypeOK
<1>5. VersionInv'
    BY <1>1 DEF VersionInv
<1>6. DiskInv'
    BY <1>1, <1>2 DEF DiskInv, Resolves, Staging, Complete
<1>7. GoodInv'
    BY <1>1 DEF GoodInv, Staging
<1>8. LiveInv'
    BY <1>1 DEF LiveInv, DiskInv, Complete
<1> QED
    BY <1>4, <1>5, <1>6, <1>7, <1>8

\* A fault is counted within its bound.
LEMMA Faults ==
    ASSUME TypeOK, NEW kind, Fault(kind)
    PROVE  faults' \in 0..MaxFaults
BY ApplyAssumption DEF TypeOK, Fault

\* The failures that begin a rollback.
LEMMA FailStep ==
    ASSUME Inv, WriteFails \/ CacheLayoutFails \/ ReloadFails \/ ListenFails
    PROVE  Inv'
<1>1. TypeOK
    BY DEF Inv
<1>2. faults' \in 0..MaxFaults
    BY <1>1, Faults DEF WriteFails, CacheLayoutFails, ReloadFails, ListenFails
<1>3. CASE WriteFails
    BY <1>2, <1>3, RollBackStep DEF WriteFails, history
<1>4. CASE CacheLayoutFails
    BY <1>2, <1>4, RollBackStep DEF CacheLayoutFails, history
<1>5. CASE ReloadFails
    BY <1>2, <1>5, RollBackStep DEF ReloadFails, history
<1>6. CASE ListenFails
    BY <1>2, <1>6, RollBackStep DEF ListenFails, history
<1> QED
    BY <1>3, <1>4, <1>5, <1>6

\* Nginx tests and loads the files.
LEMMA LoadStep ==
    ASSUME Inv, Test \/ Reload \/ Listening
    PROVE  Inv'
<1> USE DEF Inv
<1>1. CASE Test
    <2>1. CASE pc' = "reload" /\ UNCHANGED todo
        <3>1. /\ pc = "test"
              /\ UNCHANGED <<desired, disk, dirs, applied, live, report, target, backup, written, created,
                             faults, entry, good, dirty, todo>>
            BY <1>1, <2>1 DEF Test, history
        <3>2. TypeOK'
            BY <2>1, <3>1 DEF TypeOK
        <3>3. VersionInv'
            BY <2>1, <3>1 DEF VersionInv
        <3>4. DiskInv'
            BY <2>1, <3>1 DEF DiskInv, Resolves, Staging, Complete
        <3>5. GoodInv' /\ LiveInv'
            BY <2>1, <3>1 DEF GoodInv, LiveInv, Staging
        <3> QED
            BY <3>2, <3>3, <3>4, <3>5
    <2>2. CASE RollBack(TRUE)
        <3>1. faults' \in 0..MaxFaults
            BY <1>1 DEF Test, TypeOK
        <3> QED
            BY <1>1, <2>2, <3>1, RollBackStep DEF Test, history
    <2> QED
        BY <1>1, <2>1, <2>2 DEF Test
<1>2. CASE Reload
    <2>1. /\ pc = "reload" /\ live' = disk /\ pc' = "listen"
          /\ UNCHANGED <<desired, disk, dirs, applied, report, target, backup, written, todo, created,
                         faults, entry, good, dirty>>
        BY <1>2 DEF Reload, local, history
    <2>2. TypeOK'
        BY <2>1 DEF TypeOK
    <2>3. VersionInv'
        BY <2>1 DEF VersionInv
    <2>4. DiskInv'
        BY <2>1 DEF DiskInv, Resolves, Staging, Complete
    <2>5. GoodInv'
        BY <2>1 DEF GoodInv, Staging
    <2>6. LiveInv'
        BY <2>1 DEF LiveInv, DiskInv, Complete
    <2> QED
        BY <2>2, <2>3, <2>4, <2>5, <2>6
<1>3. CASE Listening
    <2>1. /\ pc = "listen" /\ pc' = "record" /\ good' = target
          /\ UNCHANGED <<desired, disk, dirs, applied, live, report, target, backup, written, todo, created,
                         faults, entry, dirty>>
        BY <1>3 DEF Listening, local
    <2>2. TypeOK'
        <3>1. {desired', applied', target', good'} \subseteq Versions
            BY <2>1 DEF TypeOK
        <3> QED
            BY <2>1, <3>1 DEF TypeOK
    <2>3. VersionInv'
        BY <2>1 DEF VersionInv
    <2>4. DiskInv'
        BY <2>1 DEF DiskInv, Resolves, Staging, Complete
    <2>5. GoodInv'
        BY <2>1 DEF GoodInv, Staging
    <2>6. LiveInv'
        BY <2>1 DEF LiveInv
    <2> QED
        BY <2>2, <2>3, <2>4, <2>5, <2>6
<1> QED
    BY <1>1, <1>2, <1>3

\* The version is recorded and the old directories are removed.
LEMMA RecordStep ==
    ASSUME Inv, Record \/ RecordFails \/ Cleanup
    PROVE  Inv'
<1> USE DEF Inv
<1>1. CASE Record
    <2>1. /\ pc = "record" /\ applied' = target /\ pc' = "cleanup"
          /\ UNCHANGED <<desired, disk, dirs, live, report, target, backup, written, todo, created,
                         faults, entry, good, dirty>>
        BY <1>1 DEF Record, local, history
    <2>2. TypeOK'
        <3>1. {desired', applied', target', good'} \subseteq Versions
            BY <2>1 DEF TypeOK
        <3> QED
            BY <2>1, <3>1 DEF TypeOK
    <2>3. VersionInv'
        BY <2>1 DEF VersionInv
    <2>4. DiskInv'
        BY <2>1 DEF DiskInv, Resolves, Staging, Complete
    <2>5. GoodInv' /\ LiveInv'
        BY <2>1 DEF GoodInv, LiveInv, Staging
    <2> QED
        BY <2>2, <2>3, <2>4, <2>5
<1>2. CASE RecordFails
    <2>1. /\ pc = "record" /\ report' = Failed(target) /\ dirty' = FALSE /\ pc' = "idle" /\ Fault("write_failure")
          /\ UNCHANGED <<desired, disk, dirs, applied, live, target, backup, written, todo, created, entry, good>>
        BY <1>2 DEF RecordFails, local
    <2>2. TypeOK'
        <3>1. report' \in [version : Versions, ok : BOOLEAN]
            BY <2>1 DEF Failed, TypeOK
        <3>2. faults' \in 0..MaxFaults
            BY <2>1, Faults
        <3> QED
            BY <2>1, <3>1, <3>2 DEF TypeOK
    <2>3. VersionInv'
        BY <2>1 DEF VersionInv
    <2>4. DiskInv'
        BY <2>1 DEF DiskInv, Resolves, Staging, Complete
    <2>5. GoodInv' /\ LiveInv'
        BY <2>1 DEF GoodInv, LiveInv, DiskInv, Staging, Complete
    <2> QED
        BY <2>2, <2>3, <2>4, <2>5
<1>3. CASE Cleanup
    <2>1. /\ pc = "cleanup" /\ dirs' = {target} /\ report' = [version |-> target, ok |-> TRUE]
          /\ dirty' = FALSE /\ pc' = "idle"
          /\ UNCHANGED <<desired, disk, applied, live, target, backup, written, todo, created, faults, entry, good>>
        BY <1>3 DEF Cleanup, local
    <2>2. TypeOK'
        <3>1. report' \in [version : Versions, ok : BOOLEAN]
            BY <2>1 DEF TypeOK
        <3>2. dirs' \subseteq Versions
            BY <2>1 DEF TypeOK
        <3> QED
            BY <2>1, <3>1, <3>2 DEF TypeOK
    <2>3. VersionInv'
        BY <2>1 DEF VersionInv
    <2>4. DiskInv'
        <3>1. disk = Whole(target) /\ target \in Versions
            BY <2>1 DEF DiskInv, Complete, TypeOK
        <3>2. \A f \in Indexes : disk[f] = target
            BY <3>1, Wholes DEF Files
        <3> QED
            BY <2>1, <3>2 DEF DiskInv, Resolves, Staging, Complete
    <2>5. GoodInv' /\ LiveInv'
        BY <2>1 DEF GoodInv, LiveInv, DiskInv, Staging, Complete
    <2> QED
        BY <2>2, <2>3, <2>4, <2>5
<1> QED
    BY <1>1, <1>2, <1>3

\* The files are put back, loaded, and what this apply created is removed.
LEMMA RestoreStep ==
    ASSUME Inv, "restore_failure" \notin Operations, Revert \/ Discard \/ \E f \in Files : RestoreFile(f)
    PROVE  Inv'
<1> USE DEF Inv
<1>1. ASSUME NEW f \in Files, RestoreFile(f)
      PROVE  Inv'
    <2>1. /\ pc = "restore" /\ todo' = [todo EXCEPT !.files = @ \ {f}]
          /\ disk' = [disk EXCEPT ![f] = backup[f]]
          /\ UNCHANGED <<desired, dirs, applied, live, report, pc, target, backup, written, created,
                         faults, entry, good, dirty>>
        BY <1>1 DEF RestoreFile, Fault, history
    <2>2. todo' \in [files : SUBSET Files, reload : BOOLEAN] /\ todo'.files = todo.files \ {f}
        BY <2>1, Types
    <2>3. disk' \in [Files -> Versions]
        BY <2>1, Types
    <2>4. disk'[f] = backup[f] /\ \A g \in Files : g # f => disk'[g] = disk[g]
        BY <2>1, Types
    <2>5. TypeOK'
        <3>1. {disk', live', backup'} \subseteq [Files -> Versions]
            BY <2>1, <2>3 DEF TypeOK
        <3> QED
            BY <2>1, <2>2, <3>1 DEF TypeOK
    <2>6. VersionInv'
        BY <2>1 DEF VersionInv
    <2>7. Resolves'
        BY <2>1, <2>4 DEF DiskInv, Resolves, Staging, Files
    <2>8. DiskInv'
        BY <2>1, <2>2, <2>4, <2>7 DEF DiskInv, Complete
    <2>9. GoodInv' /\ LiveInv'
        BY <2>1 DEF GoodInv, LiveInv, Staging
    <2> QED
        BY <2>5, <2>6, <2>8, <2>9
<1>2. CASE Revert
    <2>1. /\ pc = "restore" /\ todo.files = {} /\ pc' = "discard" /\ live' \in {live, disk}
          /\ faults' = faults \/ Fault("reload_failure")
          /\ UNCHANGED <<desired, disk, dirs, applied, report, target, backup, written, todo, created,
                         entry, good, dirty>>
        BY <1>2 DEF Revert, local, history
    <2>2. disk = backup
        BY <2>1, Types DEF DiskInv
    <2>3. TypeOK'
        <3>1. faults' \in 0..MaxFaults
            BY <2>1, Faults DEF TypeOK
        <3>2. {disk', live', backup'} \subseteq [Files -> Versions]
            BY <2>1 DEF TypeOK
        <3> QED
            BY <2>1, <3>1, <3>2 DEF TypeOK
    <2>4. VersionInv'
        BY <2>1 DEF VersionInv
    <2>5. DiskInv'
        BY <2>1, <2>2 DEF DiskInv, Resolves, Staging, Complete
    <2>6. GoodInv'
        BY <2>1 DEF GoodInv, Staging
    <2>7. LiveInv'
        BY <2>1, <2>2 DEF GoodInv, LiveInv, Staging
    <2> QED
        BY <2>3, <2>4, <2>5, <2>6, <2>7
<1>3. CASE Discard
    <2>1. /\ pc = "discard" /\ dirs' = Kept /\ report' = Failed(target) /\ pc' = "idle"
          /\ UNCHANGED <<desired, disk, applied, live, target, backup, written, todo, created, faults, entry, good, dirty>>
        BY <1>3 DEF Discard, local, history
    <2>2. TypeOK'
        <3>1. report' \in [version : Versions, ok : BOOLEAN]
            BY <2>1 DEF Failed, TypeOK
        <3>2. dirs' \subseteq Versions
            BY <2>1 DEF Kept, TypeOK
        <3> QED
            BY <2>1, <3>1, <3>2 DEF TypeOK
    <2>3. VersionInv'
        BY <2>1 DEF VersionInv
    <2>4. Resolves'
        BY <2>1 DEF DiskInv, Resolves, Staging, Kept
    <2>5. DiskInv'
        BY <2>1, <2>4 DEF DiskInv, Staging, Complete
    <2>6. GoodInv' /\ LiveInv'
        BY <2>1 DEF GoodInv, LiveInv, DiskInv, Staging
    <2> QED
        BY <2>2, <2>3, <2>5, <2>6
<1> QED
    BY <1>1, <1>2, <1>3

\* The agent dies.
LEMMA CrashStep ==
    ASSUME Inv, Crash
    PROVE  Inv'
<1> USE DEF Inv
<1>1. /\ Fault("crash") /\ pc' = "idle" /\ report' = NoReport
      /\ UNCHANGED <<desired, disk, dirs, applied, live, target, backup, written, todo, created, entry, good>>
    BY DEF Crash, local
<1>2. dirty' = CASE pc = "idle" -> dirty [] pc = "cleanup" -> FALSE [] OTHER -> TRUE
    BY DEF Crash
<1>3. /\ pc = "idle" => dirty' = dirty
      /\ pc = "cleanup" => dirty' = FALSE
      /\ pc \notin {"idle", "cleanup"} => dirty' = TRUE
    BY <1>2
<1>4. TypeOK'
    <2>1. report' \in [version : Versions, ok : BOOLEAN]
        BY <1>1, ApplyAssumption DEF NoReport, Versions
    <2>2. faults' \in 0..MaxFaults
        BY <1>1, Faults
    <2>3. dirty' \in BOOLEAN
        BY <1>3 DEF TypeOK
    <2> QED
        BY <1>1, <2>1, <2>2, <2>3 DEF TypeOK
<1>5. VersionInv'
    BY <1>1 DEF VersionInv
<1>6. DiskInv'
    BY <1>1 DEF DiskInv, Resolves, Staging, Complete
<1>7. GoodInv'
    <2>1. ASSUME ~dirty' PROVE disk = Whole(good)
        BY <1>3, <2>1 DEF GoodInv, DiskInv, Complete
    <2> QED
        BY <1>1, <2>1 DEF GoodInv, Staging
<1>8. LiveInv'
    BY <1>1 DEF LiveInv
<1> QED
    BY <1>4, <1>5, <1>6, <1>7, <1>8

\* A step that changes nothing.
LEMMA QuietStep ==
    ASSUME Inv, UNCHANGED vars
    PROVE  Inv'
<1> USE DEF Inv, vars
<1>1. TypeOK' /\ VersionInv'
    BY DEF TypeOK, VersionInv
<1>2. DiskInv' /\ GoodInv' /\ LiveInv'
    BY DEF DiskInv, GoodInv, LiveInv, Resolves
<1> QED
    BY <1>1, <1>2

\* The invariant holds throughout, when files can be restored.
LEMMA Invariance ==
    ASSUME "restore_failure" \notin Operations
    PROVE  Spec => []Inv
<1>1. Inv /\ [Next]_vars => Inv'
    BY OutsideStep, BackupStep, WriteStep, FailStep, LoadStep, RecordStep, RestoreStep, CrashStep, QuietStep
       DEF Next, Step
<1> QED
    BY <1>1, InitInv, PTL DEF Spec

\* At every step at which the agent may die, the index files on disk include
\* only fragment directories that exist (stageNginxFragments, the cleanup and
\* the deferred removal of apply).
THEOREM IndexesResolve ==
    ASSUME "restore_failure" \notin Operations
    PROVE  Spec => []IndexResolves
<1>1. Inv => IndexResolves
    BY DEF Inv, DiskInv, IndexResolves
<1> QED
    BY <1>1, Invariance, PTL

\* After a failed apply the disk holds the last configuration that was seen
\* live and listening, whichever step failed and however many applies have
\* failed before, unless an agent has died while applying (restoreBackups and
\* restorePreviousConfigs).
THEOREM RollbackRestoresKnownGood ==
    ASSUME "restore_failure" \notin Operations
    PROVE  Spec => []KnownGoodRestored
<1>1. Inv => KnownGoodRestored
    BY DEF Inv, GoodInv, KnownGoodRestored
<1> QED
    BY <1>1, Invariance, PTL

-----------------------------------------------------------------------------
\* The refinement.

\* The initial state is one of the abstract specification.
LEMMA AtomicInit == Init => Atomic!SyncInit
BY DEF Init, Atomic!SyncInit, Atomic!Whole, Atomic!NoReport, Whole, NoReport

\* An apply that ends is one step of the atomic specification.
LEMMA AtomicEnd ==
    ASSUME Inv, Refuse \/ RecordFails \/ Cleanup \/ Discard \/ Crash
    PROVE  Atomic!SyncNext
<1> DEFINE aApplied == IF pc = "idle" THEN applied ELSE entry.applied
<1> USE DEF Inv, Atomic!Whole, Whole, Atomic!NoReport, NoReport
<1>1. CASE pc = "idle"
    <2>1. /\ report' = NoReport /\ dirty' = dirty /\ pc' = "idle"
          /\ UNCHANGED <<desired, applied, live, good>>
        BY <1>1 DEF Refuse, RecordFails, Cleanup, Discard, Crash
    <2>2. Atomic!ReportGone
        BY <1>1, <2>1 DEF Atomic!ReportGone
    <2> QED
        BY <2>2 DEF Atomic!SyncNext
<1>2. CASE pc # "idle"
    <2>1. target \in aApplied + 1 .. desired
        BY <1>2, Types DEF VersionInv
    <2>2. pc' = "idle" /\ desired' = desired
        BY DEF Refuse, RecordFails, Cleanup, Discard, Crash
    <2>3. live \in Atomic!Leftover(target)
        BY <1>2, Types DEF LiveInv, Atomic!Leftover, Atomic!Loaded, Atomic!Versions, Versions
    <2>4. CASE Refuse \/ Discard
        <3>1. /\ report' = Failed(target) /\ pc \notin {"record", "cleanup"}
              /\ UNCHANGED <<applied, live, good, dirty>>
            BY <2>4 DEF Refuse, Discard, history
        <3>2. good = entry.good /\ applied = entry.applied
            BY <1>2, <3>1 DEF GoodInv, VersionInv
        <3>3. Atomic!Fail(target)
            BY <1>2, <2>2, <2>3, <3>1, <3>2 DEF Atomic!Fail, Failed
        <3> QED
            BY <2>1, <3>3 DEF Atomic!SyncNext
    <2>5. CASE RecordFails
        <3>1. /\ pc = "record" /\ report' = Failed(target) /\ dirty' = FALSE
              /\ UNCHANGED <<applied, live, good>>
            BY <2>5 DEF RecordFails
        <3>2. good = target /\ applied = entry.applied /\ live = Whole(target)
            BY <3>1 DEF GoodInv, VersionInv, LiveInv
        <3>3. Atomic!Fail(target)
            BY <1>2, <2>2, <3>1, <3>2 DEF Atomic!Fail, Atomic!Adopted, Failed
        <3> QED
            BY <2>1, <3>3 DEF Atomic!SyncNext
    <2>6. CASE Cleanup
        <3>1. /\ pc = "cleanup" /\ report' = [version |-> target, ok |-> TRUE] /\ dirty' = FALSE
              /\ UNCHANGED <<applied, live, good>>
            BY <2>6 DEF Cleanup
        <3>2. good = target /\ applied = target /\ live = Whole(target)
            BY <3>1 DEF GoodInv, VersionInv, LiveInv
        <3>3. Atomic!Succeed(target)
            BY <1>2, <2>2, <3>1, <3>2 DEF Atomic!Succeed, Atomic!Adopted
        <3> QED
            BY <2>1, <3>3 DEF Atomic!SyncNext
    <2>7. CASE Crash
        <3>1. /\ report' = NoReport /\ UNCHANGED <<applied, live, good>>
              /\ dirty' = CASE pc = "idle" -> dirty [] pc = "cleanup" -> FALSE [] OTHER -> TRUE
            BY <2>7 DEF Crash
        <3>2. CASE pc = "cleanup"
            <4>1. good = target /\ applied = target /\ live = Whole(target) /\ dirty' = FALSE
                BY <3>1, <3>2 DEF GoodInv, VersionInv, LiveInv
            <4>2. Atomic!Interrupt(target)
                BY <1>2, <2>2, <3>1, <4>1 DEF Atomic!Interrupt, Atomic!Adopted
            <4> QED
                BY <2>1, <4>2 DEF Atomic!SyncNext
        <3>3. CASE pc # "cleanup"
            <4>1. good \in {entry.good, target} /\ applied = entry.applied /\ dirty' = TRUE
                BY <1>2, <3>1, <3>3 DEF GoodInv, VersionInv
            <4>2. Atomic!Interrupt(target)
                BY <1>2, <2>2, <2>3, <3>1, <4>1 DEF Atomic!Interrupt
            <4> QED
                BY <2>1, <4>2 DEF Atomic!SyncNext
        <3> QED
            BY <3>2, <3>3
    <2> QED
        BY <2>4, <2>5, <2>6, <2>7
<1> QED
    BY <1>1, <1>2

\* The other steps of an apply change nothing the atomic one shows.
LEMMA AtomicStep ==
    ASSUME Inv, [Next]_vars
    PROVE  [Atomic!SyncNext]_(Atomic!syncVars)
<1> USE DEF Inv, Atomic!syncVars
<1>1. CASE Refuse \/ RecordFails \/ Cleanup \/ Discard \/ Crash
    BY <1>1, AtomicEnd
<1>2. CASE NewDesiredState
    <2>1. Atomic!NewDesiredState
        BY <1>2 DEF NewDesiredState, history, Atomic!NewDesiredState
    <2> QED
        BY <2>1 DEF Atomic!SyncNext
<1>3. CASE Heartbeat
    <2>1. Atomic!ReportGone
        BY <1>3 DEF Heartbeat, history, Atomic!ReportGone, Atomic!NoReport, NoReport
    <2> QED
        BY <2>1 DEF Atomic!SyncNext
<1>4. CASE Sync
    BY <1>4 DEF Sync
<1>5. CASE Backup \/ Write \/ Test \/ Reload \/ Listening \/ Record \/ Revert
    <2>1. pc # "idle" /\ pc' # "idle" /\ UNCHANGED <<desired, report, entry, dirty>>
        BY <1>5 DEF Backup, Write, Test, RollBack, Reload, Listening, Record, Revert, history
    <2> QED
        BY <2>1
<1>6. CASE WriteFails \/ CacheLayoutFails \/ ReloadFails \/ ListenFails \/ \E f \in Files : RestoreFile(f)
    <2>1. pc # "idle" /\ pc' # "idle" /\ UNCHANGED <<desired, report, entry, dirty>>
        BY <1>6 DEF WriteFails, CacheLayoutFails, ReloadFails, ListenFails, RollBack, RestoreFile, history
    <2> QED
        BY <2>1
<1>7. CASE UNCHANGED vars
    BY <1>7 DEF vars
<1> QED
    BY <1>1, <1>2, <1>3, <1>4, <1>5, <1>6, <1>7 DEF Next, Step

\* Seen from the heartbeats, the apply of files, tests, reloads, rollbacks and
\* crashes is the atomic apply of EdgeSync, which Publication uses: applied
\* version, live configuration and report change together, and a failed apply
\* leaves what was, the new configuration or the known-good one (Agent.apply).
THEOREM ApplyIsAtomic ==
    ASSUME "restore_failure" \notin Operations
    PROVE  Spec => AppliesAtomically
<1>1. Inv /\ [Next]_vars => [Atomic!SyncNext]_(Atomic!syncVars)
    BY AtomicStep
<1> QED
    BY <1>1, AtomicInit, Invariance, PTL DEF Spec, AppliesAtomically, Atomic!SyncSpec
=============================================================================
