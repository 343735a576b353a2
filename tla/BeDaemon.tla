------------------------------ MODULE BeDaemon ------------------------------
(***************************************************************************)
(* The life of one session on one compute node: the frontend's Session     *)
(* (frontend/transfer/Session.cpp) starts backend daemons                  *)
(* (backend/daemon/cti_be_daemon.c), numbered by m_seqNum; they run        *)
(* concurrently on the node and meet in the file system under tool_path.   *)
(* Each unpacks its manifest, appends its pid to the session's pid file,   *)
(* creates its lock file, waits for the lock files of earlier instances    *)
(* and execs the tool.  destroySession starts one more, the cleaner, which *)
(* also sweeps the stage directories of other sessions.                    *)
(*                                                                         *)
(* The k-th daemon the session starts is named k; its instance number is   *)
(* inst[k].  Unpacking an archive and remove_dir are single steps.  Nodes  *)
(* share nothing here, so one stands for all; that a start fails on some   *)
(* other node is a free choice of what startDaemon returns.                *)
(***************************************************************************)
EXTENDS Naturals, Sequences, FiniteSets

CONSTANTS
    MaxStarts,   \* bound on the daemons the session starts
    Scenarios    \* sets of what may happen besides: "reuse" of a tool shipped
                 \* before; "destroy" of the session, once its daemons are up or
                 \* "early"; "throw" of startDaemon; "fail" of a daemon; "sweep"
                 \* by another session's cleaner

ASSUME BeDaemonAssumption ==
    /\ MaxStarts \in Nat
    /\ Scenarios \subseteq
           SUBSET {"reuse", "destroy", "early", "throw", "fail", "sweep"}

Starts == 1 .. MaxStarts

VARIABLES
    events,    \* what may happen in this behaviour
    fe,        \* the session: "idle", "wait" or "clean" in startDaemon, "gone"
    seqNum,    \* m_seqNum
    started,   \* how many daemons were started
    pc,        \* where each daemon is
    inst,      \* the instance number it was given
    binary,    \* whether it was given a tool to exec
    from,      \* whose manifest holds that tool: its own or an earlier one's
    i,         \* the counter of its wait loop
    dir,       \* whether the stage directory exists
    staged,    \* the manifests whose files are in it
    pidFile,   \* the pid file in it
    locks,     \* the lock files, by instance; they are outside of it
    cpc,       \* where the cleaner is
    victims,   \* the pids it kills
    sweeper,   \* whether a sweep has judged the stage directory unused
    removed    \* history: whether the stage directory was ever removed

session == <<events, fe, seqNum, started, inst, binary, from>>
files   == <<dir, staged, pidFile, removed>>
cleaner == <<cpc, victims>>
vars == <<session, pc, i, files, locks, cleaner, sweeper>>

\* Processes that a signal can still reach.
Alive(k) == pc[k] \in {"start", "unpacked", "recorded", "locked", "waiting", "tool"}

\* Daemons whose current directory is the stage directory.
InUse == \E k \in Starts : pc[k] \in {"waiting", "tool"}

Init ==
    /\ events \in Scenarios
    /\ fe = "idle" /\ seqNum = 0 /\ started = 0
    /\ pc = [k \in Starts |-> "none"]
    /\ inst = [k \in Starts |-> 0] /\ i = [k \in Starts |-> 0]
    /\ binary = [k \in Starts |-> FALSE]
    /\ from = [k \in Starts |-> 0]
    /\ dir = FALSE /\ staged = {} /\ pidFile = <<>> /\ removed = FALSE
    /\ locks = {}
    /\ cpc = "none" /\ victims = {} /\ sweeper = FALSE

-----------------------------------------------------------------------------
(***************************************************************************)
(* The frontend's session.  The library's mutex admits one call at a time. *)
(***************************************************************************)

\* ++m_seqNum, reached when startDaemon did not throw.
Advance(n) == n + 1

\* What m_seqNum is after startDaemon.
Counted == {Advance(seqNum)} \cup IF "throw" \in events THEN {seqNum} ELSE {}

\* A daemon with the next instance number; bin says whether it execs a tool.
startDaemon(k, bin, f) ==
    /\ fe = "idle" /\ started < MaxStarts /\ k = started + 1
    /\ started' = k
    /\ inst' = [inst EXCEPT ![k] = seqNum]
    /\ binary' = [binary EXCEPT ![k] = bin]
    /\ from' = [from EXCEPT ![k] = f]
    /\ pc' = [pc EXCEPT ![k] = "start"]
    /\ UNCHANGED <<events, i, files, locks, cleaner, sweeper>>

\* Session::sendManifest: the daemon only stages, and the session waits for it.
sendManifest ==
    \E k \in Starts :
        /\ startDaemon(k, FALSE, k)
        /\ fe' = "wait" /\ UNCHANGED seqNum

\* The wait is over.  A daemon that failed, here or on another node, makes
\* some of the workload managers throw.
sendManifestDone ==
    /\ fe = "wait" /\ ~Alive(started)
    /\ fe' = "idle"
    /\ seqNum' \in Counted
    /\ UNCHANGED <<events, started, inst, binary, from, pc, i, files, locks, cleaner,
                   sweeper>>

\* Session::execManifest: not waited for.  The tool is left out of the archive
\* when an earlier manifest of the session shipped it.
execManifest ==
    \E k \in Starts : \E f \in 1 .. k :
        /\ f = k \/ "reuse" \in events
        /\ startDaemon(k, TRUE, f)
        /\ seqNum' \in Counted /\ UNCHANGED fe

\* Daemons on their way to the tool.
Starting == \E k \in Starts : Alive(k) /\ pc[k] # "tool"

\* Session::finalize.  Nothing to clean when no manifest was shipped.
finalize ==
    /\ fe = "idle" /\ "destroy" \in events
    /\ Starting => "early" \in events
    /\ IF seqNum = 0 THEN fe' = "gone" /\ UNCHANGED cpc
                     ELSE fe' = "clean" /\ cpc' = "start"
    /\ UNCHANGED <<events, seqNum, started, inst, binary, from, pc, i, files, locks,
                   victims, sweeper>>

\* The cleaner ended.  When startDaemon throws, as some workload managers do
\* for a cleaner that failed, the session stays valid.
finalizeDone ==
    /\ fe = "clean" /\ cpc \in {"done", "failed"}
    /\ fe' \in {"gone", "idle"}
    /\ fe' = "idle" => cpc = "failed" \/ "throw" \in events
    /\ cpc' = IF fe' = "idle" THEN "none" ELSE cpc
    /\ UNCHANGED <<events, seqNum, started, inst, binary, from, pc, i, files, locks,
                   victims, sweeper>>

-----------------------------------------------------------------------------
(***************************************************************************)
(* cti_be_daemon without --clean                                           *)
(***************************************************************************)

Goto(k, from_pc, to_pc) ==
    /\ pc[k] = from_pc
    /\ pc' = [pc EXCEPT ![k] = to_pc]

Unpack(k) ==
    /\ Goto(k, "start", "unpacked")
    /\ dir' = TRUE /\ staged' = staged \cup {k}
    /\ UNCHANGED <<session, i, pidFile, removed, locks, cleaner, sweeper>>

\* Any failure up to the end of the archive: return 1, perhaps with the
\* directory created.
UnpackFails(k) ==
    /\ "fail" \in events /\ Goto(k, "start", "broken")
    /\ dir' \in {dir, TRUE}
    /\ UNCHANGED <<session, i, staged, pidFile, removed, locks, cleaner, sweeper>>

\* Mutant of RecordPid: daemons that only stage do not write their pid.
RecordPid_ToolsOnly(k) ==
    /\ Goto(k, "unpacked", IF dir THEN "recorded" ELSE "broken")
    /\ pidFile' = IF dir /\ binary[k] THEN Append(pidFile, k) ELSE pidFile
    /\ UNCHANGED <<session, i, dir, staged, removed, locks, cleaner, sweeper>>

\* The pid file is opened in the stage directory, which must still be there.
RecordPid(k) ==
    /\ Goto(k, "unpacked", IF dir THEN "recorded" ELSE "broken")
    /\ pidFile' = IF dir THEN Append(pidFile, k) ELSE pidFile
    /\ UNCHANGED <<session, i, dir, staged, removed, locks, cleaner, sweeper>>

\* Mutant of CreateLock: daemons that only stage leave no lock file.
CreateLock_ToolsOnly(k) ==
    /\ Goto(k, "recorded", "locked")
    /\ locks' = IF binary[k] THEN locks \cup {inst[k]} ELSE locks
    /\ UNCHANGED <<session, i, files, cleaner, sweeper>>

CreateLock(k) ==
    /\ Goto(k, "recorded", "locked")
    /\ locks' = locks \cup {inst[k]}
    /\ UNCHANGED <<session, i, files, cleaner, sweeper>>

\* fopen fails: reported, and the daemon goes on.
CreateLockFails(k) ==
    /\ "fail" \in events /\ Goto(k, "recorded", "locked")
    /\ UNCHANGED <<session, i, files, locks, cleaner, sweeper>>

\* Mutant of LastAwaited: the instance before is taken for granted.
LastAwaited_Skips(n) == IF n > 1 THEN n - 2 ELSE 0

\* Mutant of LastAwaited: the loop starts beyond the daemon's own instance.
LastAwaited_Beyond(n) == n + 1

\* Where the loop over earlier instances starts: i = inst - 1.
LastAwaited(n) == IF n > 0 THEN n - 1 ELSE 0

\* _cti_adjustPaths enters the directory, or fails when it is gone; a daemon
\* without a tool is done.
adjustPaths(k) ==
    /\ IF ~dir \/ ~binary[k]
       THEN Goto(k, "locked", "ended") /\ UNCHANGED i
       ELSE /\ Goto(k, "locked", "waiting")
            /\ i' = [i EXCEPT ![k] = LastAwaited(inst[k])]
    /\ UNCHANGED <<session, files, locks, cleaner, sweeper>>

\* The lock file of instance i[k] is there; the loop ends at i = 0.
AwaitLock(k) ==
    /\ pc[k] = "waiting" /\ i[k] > 0 /\ i[k] \in locks
    /\ i' = [i EXCEPT ![k] = i[k] - 1]
    /\ UNCHANGED <<session, pc, files, locks, cleaner, sweeper>>

\* stat of the tool, and execv.
Exec(k) ==
    /\ i[k] = 0
    /\ Goto(k, "waiting", IF from[k] \in staged THEN "tool" ELSE "missing")
    /\ UNCHANGED <<session, i, files, locks, cleaner, sweeper>>

\* The error returns after the archive: pid file, environment, execv.
Fails(k) ==
    /\ "fail" \in events
    /\ \/ Goto(k, "unpacked", "broken")
       \/ \E p \in {"recorded", "locked", "waiting"} : Goto(k, p, "ended")
    /\ UNCHANGED <<session, i, files, locks, cleaner, sweeper>>

\* The tool ends by itself.
ToolEnds(k) ==
    /\ Goto(k, "tool", "ended")
    /\ UNCHANGED <<session, i, files, locks, cleaner, sweeper>>

Daemon(k) ==
    \/ Unpack(k) \/ UnpackFails(k) \/ RecordPid(k)
    \/ CreateLock(k) \/ CreateLockFails(k)
    \/ adjustPaths(k) \/ AwaitLock(k) \/ Exec(k) \/ Fails(k)

-----------------------------------------------------------------------------
(***************************************************************************)
(* cti_be_daemon --clean                                                   *)
(***************************************************************************)

\* The pids the read loop leaves to the kill loop.  idx is set to
\* nr / sizeof(pid_t), which is 1, after every pid, so that the second and the
\* later ones all go to pids[1], and the kill loop stops before that.
ReadPids(f) == IF f = <<>> THEN {} ELSE {f[1]}

\* remove_dir on the stage directory.
remove_dir ==
    /\ dir' = FALSE /\ staged' = {} /\ pidFile' = <<>>
    /\ removed' = (removed \/ dir)

\* The stage directory or the pid file is missing: return 1.
CleanRead ==
    /\ cpc = "start"
    /\ IF dir /\ pidFile # <<>>
       THEN cpc' = "kill" /\ victims' = ReadPids(pidFile)
       ELSE cpc' = "failed" /\ UNCHANGED victims
    /\ UNCHANGED <<session, pc, i, files, locks, sweeper>>

CleanKill ==
    /\ cpc = "kill" /\ cpc' = "remove"
    /\ pc' = [k \in Starts |-> IF k \in victims /\ Alive(k) THEN "ended" ELSE pc[k]]
    /\ victims' = {}
    /\ UNCHANGED <<session, i, files, locks, sweeper>>

CleanRemove ==
    /\ cpc = "remove" /\ cpc' = "unlink"
    /\ remove_dir
    /\ UNCHANGED <<session, pc, i, locks, victims, sweeper>>

\* The lock files of the instances inst-1 down to 1; then the sweep.
CleanUnlink ==
    /\ cpc = "unlink" /\ cpc' = "sweep"
    /\ locks' = locks \ (1 .. seqNum - 1)
    /\ UNCHANGED <<session, pc, i, files, victims, sweeper>>

\* The sweep may meet the stage directory again: a daemon that is late
\* unpacked into it after CleanRemove.
CleanSweep ==
    /\ cpc = "sweep"
    /\ IF dir /\ ~InUse THEN cpc' \in {"sweepRemove", "done"} ELSE cpc' = "done"
    /\ UNCHANGED <<session, pc, i, files, locks, victims, sweeper>>

CleanSweepRemove ==
    /\ cpc = "sweepRemove" /\ cpc' = "done"
    /\ remove_dir
    /\ UNCHANGED <<session, pc, i, locks, victims, sweeper>>

Cleaner ==
    \/ CleanRead \/ CleanKill \/ CleanRemove \/ CleanUnlink
    \/ CleanSweep \/ CleanSweepRemove

\* The same sweep, by the cleaner of another session under tool_path: lsof
\* finds no process in the directory, and then the directory is removed.
OtherSweepCheck ==
    /\ "sweep" \in events
    /\ dir /\ ~InUse /\ ~sweeper
    /\ sweeper' = TRUE
    /\ UNCHANGED <<session, pc, i, files, locks, cleaner>>

OtherSweepRemove ==
    /\ sweeper /\ sweeper' = FALSE
    /\ remove_dir
    /\ UNCHANGED <<session, pc, i, locks, cleaner>>

Next ==
    \/ sendManifest \/ sendManifestDone \/ execManifest
    \/ finalize \/ finalizeDone
    \/ \E k \in Starts : Daemon(k) \/ ToolEnds(k)
    \/ Cleaner
    \/ OtherSweepCheck \/ OtherSweepRemove

Spec == Init /\ [][Next]_vars

\* The node schedules every process; a tool may run for ever.
Fairness ==
    /\ \A k \in Starts : WF_vars(Daemon(k))
    /\ WF_vars(Cleaner)
    /\ WF_vars(sendManifestDone) /\ WF_vars(finalizeDone)

LiveSpec == Spec /\ Fairness

-----------------------------------------------------------------------------
(***************************************************************************)
(* Properties                                                              *)
(***************************************************************************)

\* Every variable has its type, an instance number is below m_seqNum or is the
\* number in use, and m_seqNum never counts more than the daemons started.
TypeOK ==
    /\ events \in Scenarios
    /\ fe \in {"idle", "wait", "clean", "gone"}
    /\ started \in 0 .. MaxStarts /\ seqNum \in 0 .. started
    /\ pc \in [Starts -> {"none", "start", "unpacked", "recorded", "locked",
                          "waiting", "tool", "ended", "broken", "missing"}]
    /\ inst \in [Starts -> 0 .. MaxStarts]
    /\ \A k \in Starts : inst[k] <= seqNum
    /\ binary \in [Starts -> BOOLEAN]
    /\ from \in [Starts -> 0 .. MaxStarts]
    /\ i \in [Starts -> 0 .. MaxStarts]
    /\ dir \in BOOLEAN /\ staged \subseteq Starts
    /\ pidFile \in Seq(Starts)
    /\ locks \subseteq 0 .. MaxStarts
    /\ cpc \in {"none", "start", "kill", "remove", "unlink", "sweep",
                "sweepRemove", "done", "failed"}
    /\ victims \subseteq Starts
    /\ sweeper \in BOOLEAN /\ removed \in BOOLEAN

\* Daemons that have unpacked their whole manifest ("broken" are those that
\* ended before their pid was recorded).
Unpacked(k) == pc[k] \notin {"none", "start", "broken"}

\* The purpose of the lock files: when a daemon gets past its wait loop, for
\* every instance from 1 to its own there is a daemon of that instance that has
\* unpacked its manifest, whatever order the node ran them in, and the files are
\* there unless the stage directory was removed.
DependenciesReady ==
    \A k \in Starts : pc[k] \in {"tool", "missing"} =>
        \A j \in 1 .. inst[k] - 1 :
            \E e \in Starts : inst[e] = j /\ Unpacked(e) /\ (removed \/ e \in staged)

\* "At this point it is safe to assume we have all our dependencies": a daemon that
\* got past its wait loop finds the tool it was told to exec, which its own or an
\* earlier manifest shipped, unless the stage directory was removed.
BinaryFound == \A k \in Starts : pc[k] = "missing" => removed

\* The pid is in the pid file before the lock file can be seen: whoever waits
\* for the lock file of an instance finds the pid of one of its daemons, as
\* long as the stage directory was not removed.
LockAfterPid ==
    removed \/ \A j \in locks : \E n \in 1 .. Len(pidFile) : inst[pidFile[n]] = j

\* No daemon fails, and nothing is cleaned.
Healthy == "fail" \notin events /\ fe # "clean" /\ ~removed

\* A daemon never waits for ever in a session in which nothing fails: all the
\* lock files its loop asks for are created, and none is its own or a later one.
WaitersProceed ==
    []Healthy => \A k \in Starts : (pc[k] = "waiting") ~> (pc[k] # "waiting")

\* Every lock file that cti_getSessionLockFiles lists (those of the instances
\* below m_seqNum) is created in the end if nothing fails.
LockFilesAppear ==
    []Healthy => \A j \in 0 .. MaxStarts : (seqNum > j) ~> (j \in locks)

\* cti_destroySession "will terminate every tool daemon associated with the
\* session handle": no tool is running once it has succeeded.
DestroyKillsTools == fe = "gone" => \A k \in Starts : pc[k] # "tool"

=============================================================================
