--------------------------- MODULE BackendProofs ----------------------------
(***************************************************************************)
(* Proofs about the two programs CTI runs on a compute node.               *)
(*                                                                         *)
(* The first part is about module BeDaemon, for every number of daemons    *)
(* and all scenarios: the daemons of a session find the manifests of       *)
(* the earlier instances unpacked, and a lock file is preceded by a pid.   *)
(* Its inductive invariant has three layers.  Typed adds to TypeOK which   *)
(* daemons exist and that instance numbers grow with the order of the      *)
(* starts.  Recording says what a lock file, an entry of the pid file and  *)
(* a pid the cleaner holds tell about a daemon.  Waiting says what a       *)
(* daemon in its wait loop, and past it, knows about earlier instances.    *)
(*                                                                         *)
(* The second part is about module BeLib, the library in the tool that     *)
(* such a daemon becomes, for every placement, every set of nodes and      *)
(* environments, and any number of queries.                                *)
(***************************************************************************)
EXTENDS BeDaemon, BeLib, TLAPS

\* Daemons that have written their pid.
Recorded(k) == pc[k] \notin {"none", "start", "unpacked", "broken"}

Typed ==
    /\ TypeOK
    /\ fe = "wait" => seqNum < started
    /\ \A k \in Starts : k > started => pc[k] = "none"
    /\ \A k \in Starts : k <= started => pc[k] # "none"
    /\ \A k \in Starts : k <= started => from[k] \in 1 .. k
    /\ \A e, k \in Starts : e < k /\ k <= started => inst[e] <= inst[k]

Recording ==
    /\ \A n \in 1 .. Len(pidFile) : Recorded(pidFile[n])
    /\ \A k \in victims : Recorded(k)
    /\ \A j \in locks : \E e \in Starts : inst[e] = j /\ Recorded(e)
    /\ ~removed => \A k \in Starts : Unpacked(k) => dir /\ k \in staged
    /\ ~removed => \A k \in Starts : Recorded(k) =>
                       \E n \in 1 .. Len(pidFile) : pidFile[n] = k

Ready(j) == \E e \in Starts : inst[e] = j /\ Recorded(e)

Waiting ==
    \A k \in Starts :
        /\ pc[k] = "waiting" => \A j \in i[k] + 1 .. inst[k] - 1 : Ready(j)
        /\ pc[k] \in {"tool", "missing"} => \A j \in 1 .. inst[k] - 1 : Ready(j)

Inv == Typed /\ Recording /\ Waiting

-----------------------------------------------------------------------------
\* The initial state has no daemon, no file and no lock.
LEMMA InvInit == Init => Inv
<1> SUFFICES ASSUME Init PROVE Inv
  OBVIOUS
<1>1. Typed
  <2>1. pidFile \in Seq(Starts) /\ Len(pidFile) = 0
    BY DEF Init
  <2>2. 0 \in 0 .. MaxStarts /\ 0 \in 0 .. 0
    BY BeDaemonAssumption
  <2>3. inst \in [Starts -> 0 .. MaxStarts] /\ \A k \in Starts : inst[k] <= 0
    BY <2>2 DEF Init
  <2>4. TypeOK
    BY <2>1, <2>2, <2>3, Zenon DEF Init, TypeOK
  <2> QED BY <2>4, BeDaemonAssumption DEF Init, Typed, Starts
<1>2. Recording
  BY DEF Init, Recording, Recorded, Unpacked
<1>3. Waiting
  BY DEF Init, Waiting
<1> QED BY <1>1, <1>2, <1>3 DEF Inv

\* Starting a daemon gives it the highest instance number so far and touches
\* no other one.
LEMMA TypedStart ==
    ASSUME Typed, NEW k \in Starts, NEW b \in BOOLEAN, NEW f \in 1 .. k,
           startDaemon(k, b, f), seqNum' \in {seqNum, seqNum + 1},
           \/ fe' = "idle"
           \/ fe' = "wait" /\ seqNum' = seqNum
    PROVE  Typed'
<1>1. /\ started' = k /\ k = started + 1 /\ started \in Nat /\ k \in Nat
      /\ seqNum \in 0 .. started /\ seqNum' \in 0 .. started'
  <2>1. started' = k /\ k = started + 1
    BY DEF startDaemon
  <2>2. started \in 0 .. MaxStarts /\ seqNum \in 0 .. started
    BY DEF Typed, TypeOK
  <2> QED BY <2>1, <2>2, BeDaemonAssumption
<1>2. /\ pc' = [pc EXCEPT ![k] = "start"] /\ inst' = [inst EXCEPT ![k] = seqNum]
      /\ from' = [from EXCEPT ![k] = f] /\ binary' = [binary EXCEPT ![k] = b]
      /\ UNCHANGED <<events, i, dir, staged, pidFile, removed, locks, cpc, victims, sweeper>>
  BY DEF startDaemon, files, cleaner
<1>3. TypeOK'
  <2>1. seqNum \in 0 .. MaxStarts /\ f \in 0 .. MaxStarts
    <3>1. started \in 0 .. MaxStarts
      BY DEF Typed, TypeOK
    <3>2. k \in 1 .. MaxStarts
      BY DEF Starts
    <3> QED BY <1>1, <3>1, <3>2, BeDaemonAssumption
  <2>2. inst' \in [Starts -> 0 .. MaxStarts] /\ from' \in [Starts -> 0 .. MaxStarts]
    BY <1>2, <2>1 DEF Typed, TypeOK
  <2>3. \A e \in Starts : inst'[e] <= seqNum'
    <3>1. \A e \in Starts : inst'[e] = IF e = k THEN seqNum ELSE inst[e]
      BY <1>2 DEF Typed, TypeOK
    <3>2. \A e \in Starts : inst[e] <= seqNum /\ inst[e] \in Nat
      BY DEF Typed, TypeOK
    <3>3. seqNum \in Nat /\ seqNum' \in Nat /\ seqNum <= seqNum'
      BY <1>1
    <3> QED BY <3>1, <3>2, <3>3
  <2> QED BY <1>1, <1>2, <2>2, <2>3 DEF Typed, TypeOK, Starts
<1>4. \A e \in Starts : /\ e > started' => pc'[e] = "none"
                        /\ e <= started' => pc'[e] # "none"
  BY <1>1, <1>2 DEF Typed, TypeOK, Starts
<1>5. \A e \in Starts : e <= started' => from'[e] \in 1 .. e
  BY <1>1, <1>2 DEF Typed, TypeOK, Starts
<1>6. \A e, g \in Starts : e < g /\ g <= started' => inst'[e] <= inst'[g]
  <2> SUFFICES ASSUME NEW e \in Starts, NEW g \in Starts, e < g, g <= started'
               PROVE  inst'[e] <= inst'[g]
    OBVIOUS
  <2>1. CASE g = k
    BY <1>1, <1>2, <2>1 DEF Typed, TypeOK, Starts
  <2>2. CASE g # k
    BY <1>1, <1>2, <2>2 DEF Typed, TypeOK, Starts
  <2> QED BY <2>1, <2>2
<1>7. fe' = "wait" => seqNum' < started'
  BY <1>1
<1> QED BY <1>3, <1>4, <1>5, <1>6, <1>7 DEF Typed

\* A step that leaves the frontend alone and changes one program counter keeps
\* the frontend's part of Typed.
LEMMA TypedMove ==
    ASSUME Typed, NEW k \in Starts, NEW a, NEW b, Goto(k, a, b),
           a # "none", b # "none", TypeOK', UNCHANGED session
    PROVE  Typed'
<1>1. /\ pc' = [pc EXCEPT ![k] = b] /\ pc[k] = a
      /\ UNCHANGED <<fe, seqNum, started, inst, from>>
  BY DEF Goto, session
<1>2. \A e \in Starts : pc'[e] = IF e = k THEN b ELSE pc[e]
  BY <1>1 DEF Typed, TypeOK
<1>3. k <= started
  BY <1>1 DEF Typed, TypeOK, Starts
<1> QED BY <1>1, <1>2, <1>3 DEF Typed, Starts

\* The steps of a daemon are well typed.
LEMMA TypedDaemon ==
    ASSUME Typed, NEW k \in Starts, Daemon(k) \/ ToolEnds(k)
    PROVE  Typed'
<1>1. CASE Unpack(k)
  <2>1. TypeOK' BY <1>1, Zenon DEF Unpack, Goto, session, cleaner, Typed, TypeOK
  <2> QED BY <1>1, <2>1, TypedMove DEF Unpack
<1>2. CASE UnpackFails(k)
  <2>1. TypeOK' BY <1>2, Zenon DEF UnpackFails, Goto, session, cleaner, Typed, TypeOK
  <2> QED BY <1>2, <2>1, TypedMove DEF UnpackFails
<1>3. CASE RecordPid(k)
  <2>1. pidFile' \in Seq(Starts)
    BY <1>3 DEF RecordPid, Typed, TypeOK
  <2>2. TypeOK' BY <1>3, <2>1 DEF RecordPid, Goto, session, cleaner, Typed, TypeOK
  <2> QED BY <1>3, <2>2, TypedMove DEF RecordPid
<1>4. CASE CreateLock(k)
  <2>1. TypeOK' BY <1>4, Zenon DEF CreateLock, Goto, session, files, cleaner, Typed, TypeOK
  <2> QED BY <1>4, <2>1, TypedMove DEF CreateLock
<1>5. CASE CreateLockFails(k)
  <2>1. TypeOK'
    BY <1>5 DEF CreateLockFails, Goto, session, files, cleaner, Typed, TypeOK
  <2> QED BY <1>5, <2>1, TypedMove DEF CreateLockFails
<1>6. CASE adjustPaths(k)
  <2>1. LastAwaited(inst[k]) \in 0 .. MaxStarts
    BY BeDaemonAssumption DEF LastAwaited, Typed, TypeOK
  <2>2. i' \in [Starts -> 0 .. MaxStarts]
    BY <1>6, <2>1, Zenon DEF adjustPaths, Typed, TypeOK
  <2>3. PICK b \in {"ended", "waiting"} : Goto(k, "locked", b)
    BY <1>6 DEF adjustPaths
  <2>4. UNCHANGED <<session, files, locks, cleaner, sweeper>>
    BY <1>6 DEF adjustPaths
  <2>5. TypeOK'
    BY <2>2, <2>3, <2>4 DEF Goto, session, files, cleaner, Typed, TypeOK
  <2> QED BY <2>3, <2>4, <2>5, TypedMove
<1>7. CASE AwaitLock(k)
  <2>1. i[k] - 1 \in 0 .. MaxStarts
    BY <1>7, BeDaemonAssumption DEF AwaitLock, Typed, TypeOK
  <2>2. TypeOK'
    BY <1>7, <2>1, Zenon DEF AwaitLock, session, files, cleaner, Typed, TypeOK
  <2> QED BY <1>7, <2>2 DEF AwaitLock, session, Typed
<1>8. CASE Exec(k)
  <2>1. TypeOK' BY <1>8, Zenon DEF Exec, Goto, session, files, cleaner, Typed, TypeOK
  <2> QED BY <1>8, <2>1, TypedMove DEF Exec
<1>9. CASE ToolEnds(k)
  <2>1. TypeOK' BY <1>9 DEF ToolEnds, Goto, session, files, cleaner, Typed, TypeOK
  <2> QED BY <1>9, <2>1, TypedMove DEF ToolEnds
<1>10. CASE Fails(k)
  <2>1. PICK a \in {"unpacked", "recorded", "locked", "waiting"},
             b \in {"broken", "ended"} : Goto(k, a, b)
    BY <1>10 DEF Fails
  <2>2. UNCHANGED <<session, i, files, locks, cleaner, sweeper>>
    BY <1>10 DEF Fails
  <2>3. TypeOK'
    BY <2>1, <2>2 DEF Goto, session, files, cleaner, Typed, TypeOK
  <2> QED BY <2>1, <2>2, <2>3, TypedMove
<1> QED BY <1>1, <1>2, <1>3, <1>4, <1>5, <1>6, <1>7, <1>8, <1>9, <1>10 DEF Daemon

\* The steps of the two cleaners are well typed.
LEMMA TypedCleaner ==
    ASSUME Typed, Cleaner \/ OtherSweepCheck \/ OtherSweepRemove
    PROVE  Typed'
<1>1. CASE CleanRead
  <2>1. ReadPids(pidFile) \subseteq Starts
    BY DEF ReadPids, Typed, TypeOK
  <2>2. TypeOK' BY <1>1, <2>1, Zenon DEF CleanRead, session, files, Typed, TypeOK
  <2> QED BY <1>1, <2>2 DEF CleanRead, session, Typed
<1>2. CASE CleanKill
  <2>1. TypeOK' BY <1>2 DEF CleanKill, session, files, Typed, TypeOK
  <2>2. \A k \in Starts : pc'[k] = pc[k] \/ (pc'[k] = "ended" /\ pc[k] # "none")
    BY <1>2 DEF CleanKill, Alive
  <2>3. UNCHANGED session
    BY <1>2 DEF CleanKill
  <2>4. \A k \in Starts : k > started => pc'[k] = "none"
    BY <2>2 DEF Typed
  <2>5. \A k \in Starts : k <= started => pc'[k] # "none"
    BY <2>2 DEF Typed
  <2> QED BY <2>1, <2>3, <2>4, <2>5 DEF session, Typed
<1>3. CASE CleanUnlink
  <2>1. TypeOK' BY <1>3 DEF CleanUnlink, session, files, Typed, TypeOK
  <2> QED BY <1>3, <2>1 DEF CleanUnlink, session, Typed
<1>4. CASE CleanRemove \/ CleanSweepRemove \/ OtherSweepRemove
  <2>0. remove_dir
    BY <1>4 DEF CleanRemove, CleanSweepRemove, OtherSweepRemove
  <2>1. /\ dir' = FALSE /\ staged' = {} /\ pidFile' = <<>> /\ removed' \in BOOLEAN
        /\ <<>> \in Seq(Starts)
    BY <2>0 DEF remove_dir
  <2>2. UNCHANGED <<session, pc, i, locks, victims>> /\ sweeper' \in {sweeper, FALSE}
    BY <1>4, Zenon DEF CleanRemove, CleanSweepRemove, OtherSweepRemove, cleaner
  <2>3. cpc' \in {cpc, "unlink", "done"}
    BY <1>4 DEF CleanRemove, CleanSweepRemove, OtherSweepRemove, cleaner
  <2>4. TypeOK'
    BY <2>1, <2>2, <2>3, Zenon DEF session, Typed, TypeOK
  <2> QED BY <2>2, <2>4 DEF session, Typed
<1>5. CASE CleanSweep \/ OtherSweepCheck
  <2>1. TypeOK'
    BY <1>5, Zenon DEF CleanSweep, OtherSweepCheck, session, files, cleaner, Typed, TypeOK
  <2> QED BY <1>5, <2>1 DEF CleanSweep, OtherSweepCheck, session, Typed
<1> QED BY <1>1, <1>2, <1>3, <1>4, <1>5 DEF Cleaner

\* The steps of the frontend's session are well typed.
LEMMA TypedSession ==
    ASSUME Typed, \/ sendManifest \/ sendManifestDone \/ execManifest
                  \/ finalize \/ finalizeDone
    PROVE  Typed'
<1>1. \A n \in Counted : n \in {seqNum, seqNum + 1}
  BY DEF Counted, Advance
<1>2. CASE sendManifest
  <2>1. PICK k \in Starts : startDaemon(k, FALSE, k)
    BY <1>2, Zenon DEF sendManifest
  <2>2. fe' = "wait" /\ seqNum' = seqNum /\ k \in 1 .. k
    BY <1>2 DEF sendManifest, Starts
  <2> QED BY <2>1, <2>2, TypedStart, Zenon
<1>3. CASE execManifest
  <2>1. PICK k \in Starts : \E f \in 1 .. k : startDaemon(k, TRUE, f)
    BY <1>3, Zenon DEF execManifest
  <2>2. PICK f \in 1 .. k : startDaemon(k, TRUE, f)
    BY <2>1, Zenon
  <2>3. fe' = "idle" /\ seqNum' \in {seqNum, seqNum + 1}
    BY <1>1, <1>3 DEF execManifest, startDaemon
  <2> QED BY <2>2, <2>3, TypedStart, Zenon
<1>4. CASE sendManifestDone
  <2>1. seqNum' \in {seqNum, seqNum + 1} /\ seqNum < started
    BY <1>1, <1>4 DEF sendManifestDone, Typed
  <2>2. seqNum' \in 0 .. started /\ \A k \in Starts : inst[k] <= seqNum'
    BY <2>1 DEF Typed, TypeOK
  <2>3. TypeOK'
    BY <1>4, <2>2 DEF sendManifestDone, files, cleaner, Typed, TypeOK
  <2> QED BY <1>4, <2>3 DEF sendManifestDone, Typed
<1>5. CASE finalize \/ finalizeDone
  <2>1. fe' \in {"idle", "clean", "gone"} /\ cpc' \in {cpc, "start", "none"}
    BY <1>5 DEF finalize, finalizeDone
  <2>2. UNCHANGED <<events, seqNum, started, inst, binary, from, pc, i, files, locks,
                    victims, sweeper>>
    BY <1>5 DEF finalize, finalizeDone
  <2>3. TypeOK'
    BY <2>1, <2>2 DEF files, Typed, TypeOK
  <2> QED BY <2>1, <2>2, <2>3 DEF Typed
<1> QED BY <1>2, <1>3, <1>4, <1>5

\* Every step keeps Typed.
LEMMA TypedNext ==
    ASSUME Typed, [Next]_vars
    PROVE  Typed'
<1>1. CASE UNCHANGED vars
  BY <1>1 DEF vars, session, files, cleaner, Typed, TypeOK
<1> QED BY <1>1, TypedSession, TypedDaemon, TypedCleaner DEF Next

-----------------------------------------------------------------------------
\* What a step never takes back: a daemon keeps its instance number and the
\* manifest of its tool, a recorded pid stays recorded.
Kept ==
    /\ started <= started'
    /\ \A k \in Starts : k <= started => inst'[k] = inst[k] /\ from'[k] = from[k]
    /\ \A k \in Starts : pc[k] # "none" => pc'[k] # "none"
    /\ \A k \in Starts : Recorded(k) => Recorded(k)'
    /\ removed => removed'

\* Every step keeps them.
LEMMA KeptNext ==
    ASSUME Typed, Recording, [Next]_vars
    PROVE  Kept
<1> USE DEF Kept, Recorded
<1>1. CASE UNCHANGED vars
  BY <1>1 DEF vars, session, files, Typed, TypeOK
<1>2. CASE sendManifest \/ execManifest
  <2>1. PICK k \in Starts, b \in BOOLEAN, f \in Nat : startDaemon(k, b, f)
    <3>1. CASE sendManifest
      <4>1. PICK k \in Starts : startDaemon(k, FALSE, k)
        BY <3>1, Zenon DEF sendManifest
      <4>2. k \in Nat BY DEF Starts
      <4> QED BY <4>1, <4>2, Zenon
    <3>2. CASE execManifest
      <4>1. PICK k \in Starts : \E f \in 1 .. k : startDaemon(k, TRUE, f)
        BY <3>2, Zenon DEF execManifest
      <4>2. PICK f \in 1 .. k : startDaemon(k, TRUE, f)
        BY <4>1, Zenon
      <4>3. f \in Nat BY DEF Starts
      <4> QED BY <4>2, <4>3, Zenon
    <3> QED BY <1>2, <3>1, <3>2
  <2>2. /\ started' = started + 1 /\ k = started + 1 /\ pc[k] = "none"
        /\ pc' = [pc EXCEPT ![k] = "start"] /\ inst' = [inst EXCEPT ![k] = seqNum]
        /\ from' = [from EXCEPT ![k] = f] /\ removed' = removed
    BY <2>1 DEF startDaemon, files, Typed, TypeOK, Starts
  <2> QED BY <2>2 DEF Typed, TypeOK, Starts
<1>3. CASE sendManifestDone \/ finalize \/ finalizeDone
  BY <1>3 DEF sendManifestDone, finalize, finalizeDone, files, Typed, TypeOK
<1>4. ASSUME NEW k \in Starts, NEW a, NEW b, Goto(k, a, b), UNCHANGED session,
             removed' = removed, a # "none", b # "none",
             a \in {"start", "unpacked"} \/ b \in {"locked", "ended",
                                         "waiting", "tool", "missing"}
      PROVE  Kept
  BY <1>4 DEF Goto, session, Typed, TypeOK
<1>5. ASSUME NEW k \in Starts, Daemon(k) \/ ToolEnds(k) PROVE Kept
  <2>1. CASE Unpack(k) \/ UnpackFails(k)
    BY <1>4, <2>1, Zenon DEF Unpack, UnpackFails
  <2>2. CASE RecordPid(k)
    BY <1>4, <2>2 DEF RecordPid
  <2>3. CASE CreateLock(k) \/ CreateLockFails(k)
    BY <1>4, <2>3 DEF CreateLock, CreateLockFails, files
  <2>4. CASE adjustPaths(k)
    BY <1>4, <2>4 DEF adjustPaths, files
  <2>5. CASE AwaitLock(k)
    BY <2>5 DEF AwaitLock, session, files, Typed, TypeOK
  <2>6. CASE Exec(k) \/ ToolEnds(k)
    BY <1>4, <2>6 DEF Exec, ToolEnds, files
  <2>7. CASE Fails(k)
    BY <1>4, <2>7 DEF Fails, files
  <2> QED BY <1>5, <2>1, <2>2, <2>3, <2>4, <2>5, <2>6, <2>7, Zenon DEF Daemon
<1>6. CASE CleanKill
  BY <1>6 DEF CleanKill, session, files, Typed, TypeOK
<1>7. CASE CleanRead \/ CleanUnlink \/ CleanSweep \/ OtherSweepCheck
  BY <1>7 DEF CleanRead, CleanUnlink, CleanSweep, OtherSweepCheck, session, files,
     Typed, TypeOK
<1>8. CASE CleanRemove \/ CleanSweepRemove \/ OtherSweepRemove
  BY <1>8 DEF CleanRemove, CleanSweepRemove, OtherSweepRemove, remove_dir, session,
     Typed, TypeOK
<1> QED BY <1>1, <1>2, <1>3, <1>5, <1>6, <1>7, <1>8 DEF Next, Cleaner

\* A recorded daemon of an instance stays one.
LEMMA ReadyStays ==
    ASSUME Typed, Kept, NEW j, Ready(j)
    PROVE  Ready(j)'
<1>1. PICK e \in Starts : inst[e] = j /\ Recorded(e)
  BY DEF Ready
<1>2. pc[e] # "none"
  BY <1>1 DEF Recorded
<1>3. e <= started
  BY <1>2 DEF Typed, TypeOK, Starts
<1>4. inst'[e] = j /\ Recorded(e)'
  BY <1>1, <1>3 DEF Kept
<1> QED BY <1>4 DEF Ready

\* Recording in terms of Ready.
LEMMA RecordingLocks == Recording => \A j \in locks : Ready(j)
BY Zenon DEF Recording, Ready

\* Steps that neither unpack, nor record a pid, nor create a lock file, nor
\* remove the directory keep Recording.
LEMMA RecordingSteady ==
    ASSUME Typed, Recording, Kept, UNCHANGED files, locks' \subseteq locks,
           \A k \in victims' : k \in Starts /\ Recorded(k),
           \A k \in Starts : Unpacked(k)' => Unpacked(k),
           \A k \in Starts : Recorded(k)' => Recorded(k)
    PROVE  Recording'
<1>1. \A n \in 1 .. Len(pidFile') : Recorded(pidFile[n])'
  BY DEF Recording, Kept, files, Typed, TypeOK
<1>2. \A k \in victims' : Recorded(k)'
  BY DEF Kept
<1>3. \A j \in locks' : Ready(j)'
  BY RecordingLocks, ReadyStays
<1>4. ~removed' => \A k \in Starts : Unpacked(k)' => dir' /\ k \in staged'
  BY DEF Recording, files
<1>5. ~removed' => \A k \in Starts : Recorded(k)' =>
                       \E n \in 1 .. Len(pidFile') : pidFile'[n] = k
  BY DEF Recording, files
<1> QED BY <1>1, <1>2, <1>3, <1>4, <1>5, Zenon DEF Recording, Ready, files

\* Removing the directory keeps Recording: either it did not exist, and no
\* manifest was unpacked yet, or removed is now true.
LEMMA RecordingRemove ==
    ASSUME Typed, Recording, Kept, remove_dir, UNCHANGED <<pc, locks, victims>>
    PROVE  Recording'
<1>1. 1 .. Len(pidFile') = {}
  BY DEF remove_dir
<1>2. \A k \in victims' : Recorded(k)'
  BY DEF Recording, Recorded
<1>3. \A j \in locks' : Ready(j)'
  BY RecordingLocks, ReadyStays
<1>4. CASE removed'
  BY <1>1, <1>2, <1>3, <1>4, Zenon DEF Recording, Ready
<1>5. CASE ~removed'
  <2>1. ~removed /\ ~dir
    BY <1>5, Zenon DEF remove_dir
  <2>2. \A k \in Starts : ~Unpacked(k)' /\ ~Recorded(k)'
    BY <2>1 DEF Recording, Unpacked, Recorded
  <2> QED BY <1>1, <1>2, <1>3, <2>2 DEF Recording, Ready
<1> QED BY <1>4, <1>5

\* Every step keeps Recording.
LEMMA RecordingNext ==
    ASSUME Typed, Recording, [Next]_vars
    PROVE  Recording'
<1>k. Kept BY KeptNext
<1>v. \A k \in victims : k \in Starts /\ Recorded(k)
  BY DEF Recording, Typed, TypeOK
<1>t. \A k \in Starts : pc[k] = "none" => ~Unpacked(k) /\ ~Recorded(k)
  BY DEF Unpacked, Recorded
<1>1. CASE UNCHANGED vars
  BY <1>1, <1>k, <1>v, RecordingSteady
  DEF vars, session, cleaner, Unpacked, Recorded
<1>2. CASE sendManifest \/ execManifest
  <2>1. PICK k \in Starts : pc' = [pc EXCEPT ![k] = "start"]
    BY <1>2 DEF sendManifest, execManifest, startDaemon
  <2>2. UNCHANGED <<files, locks, victims>>
    BY <1>2 DEF sendManifest, execManifest, startDaemon, cleaner
  <2>3. \A e \in Starts : (Unpacked(e)' => Unpacked(e)) /\ (Recorded(e)' => Recorded(e))
    BY <2>1 DEF Unpacked, Recorded, Typed, TypeOK
  <2> QED BY <1>k, <1>v, <2>2, <2>3, RecordingSteady
<1>3. CASE sendManifestDone \/ finalize \/ finalizeDone
  BY <1>3, <1>k, <1>v, RecordingSteady
  DEF sendManifestDone, finalize, finalizeDone, cleaner, Unpacked, Recorded
<1>4. ASSUME NEW k \in Starts, Daemon(k) \/ ToolEnds(k) PROVE Recording'
  <2>1. CASE Unpack(k)
    <3>1. /\ pc' = [pc EXCEPT ![k] = "unpacked"] /\ pc[k] = "start"
          /\ dir' = TRUE /\ staged' = staged \cup {k}
          /\ UNCHANGED <<pidFile, removed, locks, victims, inst>>
      BY <2>1 DEF Unpack, Goto, session, cleaner
    <3>2. \A e \in Starts : Recorded(e)' <=> Recorded(e)
      BY <3>1 DEF Recorded, Typed, TypeOK
    <3>3. \A e \in Starts : Unpacked(e)' => Unpacked(e) \/ e = k
      BY <3>1 DEF Unpacked, Typed, TypeOK
    <3>4. \A n \in 1 .. Len(pidFile) : pidFile[n] \in Starts
      BY DEF Typed, TypeOK
    <3> QED BY <1>v, <3>1, <3>2, <3>3, <3>4, Zenon DEF Recording
  <2>2. CASE UnpackFails(k)
    <3>1. /\ pc' = [pc EXCEPT ![k] = "broken"] /\ pc[k] = "start"
          /\ dir' \in {dir, TRUE}
          /\ UNCHANGED <<staged, pidFile, removed, locks, victims, inst>>
      BY <2>2, Zenon DEF UnpackFails, Goto, session, cleaner
    <3>2. \A e \in Starts : /\ Recorded(e)' <=> Recorded(e)
                            /\ Unpacked(e)' => Unpacked(e)
      BY <3>1 DEF Recorded, Unpacked, Typed, TypeOK
    <3>3. \A n \in 1 .. Len(pidFile) : pidFile[n] \in Starts
      BY DEF Typed, TypeOK
    <3>4. dir => dir'
      BY <3>1, Zenon
    <3>5. ~removed' => \A e \in Starts : Unpacked(e)' => dir' /\ e \in staged'
      BY <3>1, <3>2, <3>4, Zenon DEF Recording
    <3> QED BY <1>v, <3>1, <3>2, <3>3, <3>5 DEF Recording
  <2>3. CASE RecordPid(k)
    <3>1. CASE dir
      <4>1. /\ pc' = [pc EXCEPT ![k] = "recorded"] /\ pc[k] = "unpacked"
            /\ pidFile' = Append(pidFile, k)
            /\ UNCHANGED <<dir, staged, removed, locks, victims, inst>>
        BY <2>3, <3>1 DEF RecordPid, Goto, session, cleaner
      <4>2. \A e \in Starts : /\ Recorded(e)' <=> Recorded(e) \/ e = k
                              /\ Unpacked(e)' => Unpacked(e)
        BY <4>1 DEF Recorded, Unpacked, Typed, TypeOK
      <4>3. /\ Len(pidFile') = Len(pidFile) + 1 /\ Len(pidFile) \in Nat
            /\ \A n \in 1 .. Len(pidFile) : pidFile'[n] = pidFile[n] /\ pidFile[n] \in Starts
            /\ pidFile'[Len(pidFile) + 1] = k
        BY <4>1 DEF Typed, TypeOK
      <4>4. \A n \in 1 .. Len(pidFile') : Recorded(pidFile[n])'
        BY <4>2, <4>3 DEF Recording
      <4>5. ~removed' => \A e \in Starts : Recorded(e)' =>
                             \E n \in 1 .. Len(pidFile') : pidFile'[n] = e
        <5> SUFFICES ASSUME ~removed', NEW e \in Starts, Recorded(e)'
                     PROVE  \E n \in 1 .. Len(pidFile') : pidFile'[n] = e
          OBVIOUS
        <5>1. CASE e = k
          BY <4>3, <5>1
        <5>2. CASE e # k
          <6>1. PICK n \in 1 .. Len(pidFile) : pidFile[n] = e
            BY <4>1, <4>2, <5>2, Zenon DEF Recording
          <6>2. n \in 1 .. Len(pidFile') /\ pidFile'[n] = e
            BY <4>3, <6>1
          <6> QED BY <6>2
        <5> QED BY <5>1, <5>2
      <4>6. \A j \in locks' : Ready(j)'
        BY <1>k, <4>1, RecordingLocks, ReadyStays
      <4>7. \A e \in victims' : Recorded(e)'
        BY <1>v, <4>1, <4>2
      <4>8. ~removed' => \A e \in Starts : Unpacked(e)' => dir' /\ e \in staged'
        BY <4>1, <4>2 DEF Recording
      <4> QED BY <4>4, <4>5, <4>6, <4>7, <4>8 DEF Recording, Ready
    <3>2. CASE ~dir
      <4>1. /\ pc' = [pc EXCEPT ![k] = "broken"] /\ pc[k] = "unpacked"
            /\ UNCHANGED <<files, locks, victims>>
        BY <2>3, <3>2 DEF RecordPid, Goto, files, cleaner
      <4>2. \A e \in Starts : /\ Recorded(e)' => Recorded(e)
                              /\ Unpacked(e)' => Unpacked(e)
        BY <4>1 DEF Recorded, Unpacked, Typed, TypeOK
      <4> QED BY <1>k, <1>v, <4>1, <4>2, RecordingSteady
    <3> QED BY <3>1, <3>2
  <2>4. CASE CreateLock(k)
    <3>1. /\ pc' = [pc EXCEPT ![k] = "locked"] /\ pc[k] = "recorded"
          /\ locks' = locks \cup {inst[k]}
          /\ UNCHANGED <<files, victims, inst>>
      BY <2>4 DEF CreateLock, Goto, session, cleaner
    <3>2. \A e \in Starts : /\ Recorded(e)' <=> Recorded(e)
                            /\ Unpacked(e)' <=> Unpacked(e)
      BY <3>1 DEF Recorded, Unpacked, Typed, TypeOK
    <3>3. Recorded(k)
      BY <3>1 DEF Recorded
    <3>4. \A n \in 1 .. Len(pidFile) : pidFile[n] \in Starts
      BY DEF Typed, TypeOK
    <3> QED BY <1>v, <3>1, <3>2, <3>3, <3>4, Zenon DEF Recording, files
  <2>5. CASE CreateLockFails(k) \/ adjustPaths(k) \/ Exec(k) \/ ToolEnds(k)
    <3>1. PICK a \in {"recorded", "locked", "waiting", "tool"},
               b \in {"locked", "ended", "waiting", "tool", "missing"} :
                   Goto(k, a, b)
      BY <2>5 DEF CreateLockFails, adjustPaths, Exec, ToolEnds
    <3>2. UNCHANGED <<files, locks, victims>>
      BY <2>5, Zenon DEF CreateLockFails, adjustPaths, Exec, ToolEnds, cleaner
    <3>3. \A e \in Starts : /\ Recorded(e)' => Recorded(e)
                            /\ Unpacked(e)' => Unpacked(e)
      BY <3>1 DEF Goto, Recorded, Unpacked, Typed, TypeOK
    <3> QED BY <1>k, <1>v, <3>2, <3>3, RecordingSteady
  <2>6. CASE AwaitLock(k)
    BY <2>6, <1>k, <1>v, RecordingSteady DEF AwaitLock, cleaner, Unpacked, Recorded
  <2>7. CASE Fails(k)
    <3>1. \A e \in Starts : /\ Recorded(e)' => Recorded(e)
                            /\ Unpacked(e)' => Unpacked(e)
      BY <2>7 DEF Fails, Goto, Recorded, Unpacked, Typed, TypeOK
    <3> QED BY <1>k, <1>v, <2>7, <3>1, RecordingSteady DEF Fails, cleaner
  <2> QED BY <1>4, <2>1, <2>2, <2>3, <2>4, <2>5, <2>6, <2>7 DEF Daemon
<1>5. CASE CleanRead
  <2>1. \A k \in victims' : k \in Starts /\ Recorded(k)
    <3>1. pidFile \in Seq(Starts)
      BY DEF Typed, TypeOK
    <3>2. pidFile # <<>> => 1 \in 1 .. Len(pidFile) /\ pidFile[1] \in Starts
      BY <3>1
    <3>3. pidFile # <<>> => Recorded(pidFile[1])
      BY <3>2 DEF Recording
    <3>4. victims' = victims \/ (pidFile # <<>> /\ victims' = {pidFile[1]})
      BY <1>5 DEF CleanRead, ReadPids
    <3> QED BY <1>v, <3>2, <3>3, <3>4
  <2> QED BY <1>5, <1>k, <2>1, RecordingSteady DEF CleanRead, Unpacked, Recorded
<1>6. CASE CleanKill
  <2>1. \A k \in Starts : pc'[k] = pc[k] \/ Recorded(k)
    BY <1>6, <1>v DEF CleanKill
  <2>2. \A k \in Starts : /\ Recorded(k)' => Recorded(k)
                          /\ Unpacked(k)' => Unpacked(k)
    BY <2>1 DEF Recorded, Unpacked
  <2> QED BY <1>6, <1>k, <2>2, RecordingSteady DEF CleanKill
<1>7. CASE CleanUnlink \/ CleanSweep \/ OtherSweepCheck
  BY <1>7, <1>k, <1>v, RecordingSteady
  DEF CleanUnlink, CleanSweep, OtherSweepCheck, cleaner, Unpacked, Recorded
<1>8. CASE CleanRemove \/ CleanSweepRemove \/ OtherSweepRemove
  BY <1>8, <1>k, RecordingRemove
  DEF CleanRemove, CleanSweepRemove, OtherSweepRemove, cleaner
<1> QED BY <1>1, <1>2, <1>3, <1>4, <1>5, <1>6, <1>7, <1>8 DEF Next, Cleaner

-----------------------------------------------------------------------------
\* Every step keeps Waiting: the loop moves past an instance when its lock file
\* exists, and the tool starts when the loop has moved past instance 1.
LEMMA WaitingNext ==
    ASSUME Typed, Recording, Waiting, [Next]_vars
    PROVE  Waiting'
<1>k. Kept BY KeptNext
<1>r. \A j : Ready(j) => Ready(j)'
  BY <1>k, ReadyStays
<1>s. ASSUME NEW k \in Starts,
             /\ pc[k] # "none" /\ inst'[k] = inst[k]
             /\ \/ pc'[k] = pc[k] /\ i'[k] = i[k]
                \/ pc'[k] \notin {"waiting", "tool", "missing"}
                \/ pc'[k] = "waiting" /\ pc[k] = "locked" /\ i'[k] = LastAwaited(inst[k])
                \/ pc'[k] = "waiting" /\ pc[k] = "waiting" /\ i[k] \in locks
                   /\ i[k] > 0 /\ i'[k] = i[k] - 1
                \/ pc'[k] \in {"tool", "missing"} /\ pc[k] = "waiting" /\ i[k] = 0
      PROVE  /\ pc'[k] = "waiting" => \A j \in i'[k] + 1 .. inst'[k] - 1 : Ready(j)'
             /\ pc'[k] \in {"tool", "missing"} => \A j \in 1 .. inst'[k] - 1 : Ready(j)'
  <2>1. i[k] \in Nat /\ inst[k] \in Nat
    BY DEF Typed, TypeOK
  <2>2. /\ pc[k] = "waiting" => \A j \in i[k] + 1 .. inst[k] - 1 : Ready(j)
        /\ pc[k] \in {"tool", "missing"} => \A j \in 1 .. inst[k] - 1 : Ready(j)
    BY Zenon DEF Waiting
  <2>3. \A j \in locks : Ready(j)
    BY RecordingLocks
  <2>4. CASE pc'[k] = pc[k] /\ i'[k] = i[k]
    BY <1>r, <1>s, <2>2, <2>4
  <2>5. CASE pc'[k] = "waiting" /\ pc[k] = "locked" /\ i'[k] = LastAwaited(inst[k])
    <3>1. i'[k] + 1 .. inst'[k] - 1 = {}
      BY <1>s, <2>1, <2>5 DEF LastAwaited
    <3> QED BY <2>5, <3>1
  <2>6. CASE pc'[k] = "waiting" /\ pc[k] = "waiting" /\ i[k] \in locks
             /\ i[k] > 0 /\ i'[k] = i[k] - 1
    <3>1. \A j \in i'[k] + 1 .. inst'[k] - 1 : j = i[k] \/ j \in i[k] + 1 .. inst[k] - 1
      BY <1>s, <2>1, <2>6
    <3> QED BY <1>r, <2>2, <2>3, <2>6, <3>1, Zenon
  <2>7. CASE pc'[k] \in {"tool", "missing"} /\ pc[k] = "waiting" /\ i[k] = 0
    <3>1. \A j \in 1 .. inst[k] - 1 : Ready(j)
      BY <2>1, <2>2, <2>7
    <3> QED BY <1>r, <1>s, <3>1, <2>7, Zenon
  <2> QED BY <1>s, <2>4, <2>5, <2>6, <2>7, Zenon
<1>n. \A k \in Starts : pc[k] # "none" => inst'[k] = inst[k]
  BY <1>k DEF Kept, Typed, TypeOK, Starts
<1>u. ASSUME UNCHANGED <<pc, i>> PROVE Waiting'
  <2>1. \A k \in Starts : pc[k] = "none" => pc'[k] = "none"
    BY <1>u
  <2> QED BY <1>s, <1>n, <1>u, <2>1, Zenon DEF Waiting
<1>m. ASSUME NEW k \in Starts, NEW b, pc' = [pc EXCEPT ![k] = b],
             \A e \in Starts \ {k} : i'[e] = i[e],
             b = "waiting" => pc[k] = "locked" /\ i'[k] = LastAwaited(inst[k]),
             b \in {"tool", "missing"} => pc[k] = "waiting" /\ i[k] = 0
      PROVE  Waiting'
  <2>1. \A e \in Starts : pc'[e] = IF e = k THEN b ELSE pc[e]
    BY <1>m DEF Typed, TypeOK
  <2> SUFFICES ASSUME NEW e \in Starts, pc'[e] \in {"waiting", "tool", "missing"}
               PROVE  /\ pc'[e] = "waiting" => \A j \in i'[e] + 1 .. inst'[e] - 1 : Ready(j)'
                      /\ pc'[e] \in {"tool", "missing"} =>
                             \A j \in 1 .. inst'[e] - 1 : Ready(j)'
    BY Zenon DEF Waiting
  <2>2. CASE e = k
    <3>1. CASE b = "waiting"
      BY <1>m, <1>n, <1>s, <2>1, <2>2, <3>1, Zenon
    <3>2. CASE b \in {"tool", "missing"}
      BY <1>m, <1>n, <1>s, <2>1, <2>2, <3>2
    <3> QED BY <2>1, <2>2, <3>1, <3>2
  <2>3. CASE e # k
    BY <1>m, <1>n, <1>s, <2>1, <2>3
  <2> QED BY <2>2, <2>3, Zenon
<1>1. CASE UNCHANGED vars
  BY <1>1, <1>u DEF vars
<1>2. CASE sendManifest \/ execManifest
  <2>1. PICK k \in Starts : pc' = [pc EXCEPT ![k] = "start"]
    BY <1>2 DEF sendManifest, execManifest, startDaemon
  <2>2. i' = i
    BY <1>2 DEF sendManifest, execManifest, startDaemon
  <2> QED BY <1>m, <2>1, <2>2, Zenon
<1>3. CASE sendManifestDone \/ finalize \/ finalizeDone
  BY <1>3, <1>u DEF sendManifestDone, finalize, finalizeDone
<1>4. ASSUME NEW k \in Starts, Daemon(k) \/ ToolEnds(k) PROVE Waiting'
  <2>1. CASE Unpack(k) \/ UnpackFails(k) \/ CreateLock(k) \/ CreateLockFails(k) \/ ToolEnds(k)
    <3>1. PICK b \in {"unpacked", "broken", "locked", "ended"} :
              pc' = [pc EXCEPT ![k] = b]
      BY <2>1, Zenon DEF Unpack, UnpackFails, CreateLock, CreateLockFails, ToolEnds, Goto
    <3>2. i' = i
      BY <2>1, Zenon DEF Unpack, UnpackFails, CreateLock, CreateLockFails, ToolEnds
    <3> QED BY <1>m, <3>1, <3>2, Zenon
  <2>2. CASE RecordPid(k)
    <3>1. PICK b \in {"recorded", "broken"} : pc' = [pc EXCEPT ![k] = b]
      BY <2>2, Zenon DEF RecordPid, Goto
    <3> QED BY <1>m, <2>2, <3>1, Zenon DEF RecordPid
  <2>3. CASE adjustPaths(k)
    <3>1. CASE i' = i /\ Goto(k, "locked", "ended")
      BY <1>m, <3>1, Zenon DEF Goto
    <3>2. CASE Goto(k, "locked", "waiting") /\ i' = [i EXCEPT ![k] = LastAwaited(inst[k])]
      <4>1. /\ \A e \in Starts \ {k} : i'[e] = i[e]
            /\ i'[k] = LastAwaited(inst[k])
        BY <3>2 DEF Typed, TypeOK
      <4> QED BY <1>m, <3>2, <4>1, Zenon DEF Goto
    <3> QED BY <2>3, <3>1, <3>2 DEF adjustPaths
  <2>4. CASE AwaitLock(k)
    <3>1. /\ pc' = pc /\ pc[k] = "waiting" /\ i[k] > 0 /\ i[k] \in locks
          /\ i'[k] = i[k] - 1 /\ \A e \in Starts \ {k} : i'[e] = i[e]
      BY <2>4 DEF AwaitLock, Typed, TypeOK
    <3>2. \A e \in Starts : pc'[e] # "none" => pc[e] # "none"
      BY <3>1
    <3> QED BY <1>n, <1>s, <3>1, <3>2, Zenon DEF Waiting
  <2>5. CASE Exec(k)
    <3>1. PICK b \in {"tool", "missing"} : Goto(k, "waiting", b)
      BY <2>5 DEF Exec
    <3> QED BY <1>m, <2>5, <3>1, Zenon DEF Exec, Goto
  <2>6. CASE Fails(k)
    <3>1. PICK b \in {"broken", "ended"} : pc' = [pc EXCEPT ![k] = b]
      BY <2>6 DEF Fails, Goto
    <3> QED BY <1>m, <2>6, <3>1, Zenon DEF Fails
  <2> QED BY <1>4, <2>1, <2>2, <2>3, <2>4, <2>5, <2>6 DEF Daemon
<1>5. CASE CleanKill
  <2>1. \A k \in Starts : pc'[k] = pc[k] \/ pc'[k] = "ended"
    BY <1>5 DEF CleanKill
  <2>2. \A k \in Starts : i'[k] = i[k]
    BY <1>5 DEF CleanKill
  <2>3. \A k \in Starts : pc'[k] \in {"waiting", "tool", "missing"} => pc[k] # "none"
    BY <2>1
  <2> QED BY <1>n, <1>s, <2>1, <2>2, <2>3, Zenon DEF Waiting
<1>6. CASE CleanRead \/ CleanUnlink \/ CleanSweep \/ OtherSweepCheck
  BY <1>6, <1>u DEF CleanRead, CleanUnlink, CleanSweep, OtherSweepCheck
<1>7. CASE CleanRemove \/ CleanSweepRemove \/ OtherSweepRemove
  BY <1>7, <1>u DEF CleanRemove, CleanSweepRemove, OtherSweepRemove
<1> QED BY <1>1, <1>2, <1>3, <1>4, <1>5, <1>6, <1>7 DEF Next, Cleaner

-----------------------------------------------------------------------------
\* Inv is an invariant of a session, however its daemons interleave, fail or
\* are cleaned up.
THEOREM InvCorrect == Spec => []Inv
<1>1. Inv /\ [Next]_vars => Inv'
  BY TypedNext, RecordingNext, WaitingNext DEF Inv
<1> QED BY InvInit, <1>1, PTL DEF Spec

\* Type correctness of the session and its daemons.
THEOREM TypeCorrect == Spec => []TypeOK
<1>1. Inv => TypeOK
  BY DEF Inv, Typed
<1> QED BY <1>1, InvCorrect, PTL

\* The lock files do what they are for: past its wait loop, a daemon of any
\* session finds the manifests of the instances from 1 to its own unpacked.
THEOREM DependenciesReadyCorrect == Spec => []DependenciesReady
<1>1. Inv => DependenciesReady
  <2> SUFFICES ASSUME Inv, NEW k \in Starts, pc[k] \in {"tool", "missing"},
                      NEW j \in 1 .. inst[k] - 1
               PROVE  \E e \in Starts :
                          inst[e] = j /\ Unpacked(e) /\ (removed \/ e \in staged)
    BY DEF DependenciesReady
  <2>1. PICK e \in Starts : inst[e] = j /\ Recorded(e)
    BY DEF Inv, Waiting, Ready
  <2>2. Unpacked(e)
    BY <2>1 DEF Recorded, Unpacked
  <2>3. removed \/ e \in staged
    BY <2>2 DEF Inv, Recording
  <2> QED BY <2>1, <2>2, <2>3
<1> QED BY <1>1, InvCorrect, PTL

\* A lock file is created after the pid of its daemon was written.
THEOREM LockAfterPidCorrect == Spec => []LockAfterPid
<1>1. Inv => LockAfterPid
  <2> SUFFICES ASSUME Inv, ~removed, NEW j \in locks
               PROVE  \E n \in 1 .. Len(pidFile) : inst[pidFile[n]] = j
    BY DEF LockAfterPid
  <2>1. PICK e \in Starts : inst[e] = j /\ Recorded(e)
    BY DEF Inv, Recording
  <2>2. PICK n \in 1 .. Len(pidFile) : pidFile[n] = e
    BY <2>1 DEF Inv, Recording
  <2> QED BY <2>1, <2>2
<1> QED BY <1>1, InvCorrect, PTL

-----------------------------------------------------------------------------
(* The library.  It shares no variable with the launching daemon.           *)

\* Whatever part of the file is there, a read gives nothing or every rank, and at
\* most the pid of the last one is wrong.
LEMMA ReadWhole ==
    ASSUME ReadAttribs # None
    PROVE  /\ {p.rank : p \in ReadAttribs} = Mine
           /\ \A p, q \in ReadAttribs \ RankPids(env.place, env.node) :
                 p = q /\ p.rank = Max(Mine)
<1> DEFINE m == Max(Mine)
           right(r) == [rank |-> r, pid |-> Pid(r)]
           wrong(r) == [rank |-> r, pid |-> IF r = m THEN Pid(r) \div 10 ELSE Pid(r)]
           cut(p) == [p EXCEPT !.pid = IF p.rank = m THEN @ \div 10 ELSE @]
<1>1. ReadAttribs = Pairs \/ ReadAttribs = {cut(p) : p \in Pairs}
  BY DEF ReadAttribs
<1>2. Pairs = {right(r) : r \in Mine}
  BY Zenon DEF Pairs, RankPids, Mine
<1> HIDE DEF m
<1>3. \A r : cut(right(r)) = wrong(r)
  OBVIOUS
<1>4. \A r : right(r).rank = r /\ wrong(r).rank = r /\ (r # m => wrong(r) = right(r))
  OBVIOUS
<1> HIDE DEF right, wrong, cut
<1>5. CASE ReadAttribs = Pairs
  BY <1>2, <1>4, <1>5 DEF Pairs
<1>6. CASE ReadAttribs = {cut(p) : p \in Pairs}
  <2>1. ReadAttribs = {wrong(r) : r \in Mine}
    BY <1>2, <1>3, <1>6
  <2>2. {p.rank : p \in ReadAttribs} = Mine
    BY <1>4, <2>1
  <2>3. \A p \in ReadAttribs \ Pairs : p = wrong(m)
    BY <1>2, <1>4, <2>1
  <2> QED BY <1>4, <2>2, <2>3 DEF Pairs, m
<1> QED BY <1>1, <1>5, <1>6

\* A list from the pmi_attribs file has every rank of the node, however the read
\* falls into the write of the file; only the last pid can be wrong.
THEOREM AttribsWholeCorrect == LSpec => []AttribsWhole
<1>1. LInit => AttribsWhole
  BY DEF LInit, AttribsWhole
<1>2. AttribsWhole /\ [LNext]_lvars => AttribsWhole'
  <2> SUFFICES ASSUME AttribsWhole, [LNext]_lvars, attrs' # None
               PROVE  /\ {p.rank : p \in attrs'} = Mine'
                      /\ \A p, q \in attrs' \ RankPids(env'.place, env'.node) :
                            p = q /\ p.rank = Max(Mine)'
    BY DEF AttribsWhole
  <2>1. env' = env
    BY DEF LNext, cti_be_init, cti_be_fini, Library, cti_be_findAppPids,
       OpenAttribs, ParseAttribs, cti_be_getNodeHostname, cti_be_getNodeCounts,
       WriteAttribs, Done, lvars
  <2>2. Mine' = Mine
    BY <2>1 DEF Mine
  <2>3. attrs' = attrs \/ attrs' = None \/ attrs' = ReadAttribs
    BY DEF LNext, cti_be_init, cti_be_fini, Library, cti_be_findAppPids,
       OpenAttribs, ParseAttribs, cti_be_getNodeHostname, cti_be_getNodeCounts,
       WriteAttribs, Done, lvars, caches, LayoutCounts, flux_Counts,
       alps_Counts, localhost_Counts, pals_Counts, none_Counts,
       slurm_findAppPids, ssh_findAppPids, flux_findAppPids, alps_findAppPids,
       localhost_findAppPids, pals_findAppPids, none_findAppPids, FromFiles,
       FromAttribs
  <2>4. CASE attrs' = attrs
    BY <2>1, <2>2, <2>4 DEF AttribsWhole
  <2>5. CASE attrs' = ReadAttribs
    BY <2>1, <2>2, <2>5, ReadWhole
  <2> QED BY <2>3, <2>4, <2>5
<1> QED BY <1>1, <1>2, PTL DEF LSpec

\* The functions of a WLM are in place only between its start and the destructor,
\* only then can a query be in progress, and the destructor leaves no process in
\* which a constructor could still start a WLM.
Started ==
    /\ proto # "none" => isInit /\ ~isFini
    /\ query # "idle" => proto # "none"
    /\ isFini => Constructed

\* What a WLM needs to start does not change.
LEMMA InitStays ==
    ASSUME env' = env
    PROVE  wlm_init' = wlm_init
BY DEF wlm_init, slurm_init, alps_init, pals_init, flux_init, flux_entry,
   LayoutFile, gethostname

\* Nothing is answered from a WLM that has not started, or after the destructor.
THEOREM OnlyStartedAnswersCorrect == LSpec => OnlyStartedAnswers
<1>1. LInit => Started
  BY DEF LInit, Started
<1>2. ASSUME Started, [LNext]_lvars
      PROVE  Started' /\ [calls' # calls /\ ans'.val # None => isInit /\ ~isFini]_lvars
  <2>1. wlm_init' = wlm_init /\ env' = env
    <3>1. env' = env
      BY <1>2 DEF LNext, cti_be_init, cti_be_fini, Library, cti_be_findAppPids,
         OpenAttribs, ParseAttribs, cti_be_getNodeHostname, cti_be_getNodeCounts,
         WriteAttribs, Done, lvars
    <3> QED BY <3>1, InitStays
  <2>2. CASE cti_be_init \/ cti_be_fini \/ WriteAttribs \/ Done \/ UNCHANGED lvars
    <3>1. calls' = calls
      BY <2>2 DEF cti_be_init, cti_be_fini, WriteAttribs, Done, lvars
    <3>2. Started'
      BY <1>2, <2>1, <2>2 DEF Started, Constructed, cti_be_init, cti_be_fini,
         WriteAttribs, Done, lvars, lib
    <3> QED BY <3>1, <3>2
  <2>3. CASE Library
    <3>1. UNCHANGED <<proto, isInit, isFini>>
      BY <2>3 DEF Library, cti_be_findAppPids, OpenAttribs, ParseAttribs,
         cti_be_getNodeHostname, cti_be_getNodeCounts, lib
    <3>2. isFini' => Constructed'
      BY <1>2, <2>1, <3>1 DEF Started, Constructed
    <3>3. CASE proto # "none"
      BY <1>2, <3>1, <3>2, <3>3 DEF Started
    <3>4. CASE proto = "none"
      <4>1. query = "idle"
        BY <1>2, <3>4 DEF Started
      <4>2. query' = "idle" /\ ans'.val = None
        BY <2>3, <3>4, <4>1 DEF Library, cti_be_findAppPids, OpenAttribs,
           ParseAttribs, cti_be_getNodeHostname, cti_be_getNodeCounts, Hostname,
           Answer, LayoutCounts, flux_Counts, alps_Counts, localhost_Counts,
           pals_Counts, none_Counts, slurm_findAppPids, ssh_findAppPids,
           flux_findAppPids, alps_findAppPids, localhost_findAppPids,
           pals_findAppPids, none_findAppPids
      <4> QED BY <3>1, <3>2, <3>4, <4>2 DEF Started
    <3> QED BY <3>3, <3>4
  <2> QED BY <1>2, <2>2, <2>3 DEF LNext
<1> QED BY <1>1, <1>2, PTL DEF LSpec, OnlyStartedAnswers
=============================================================================
