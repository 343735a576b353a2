------------------------------ MODULE FeDaemon ------------------------------
(***************************************************************************)
(* The fe_daemon process (frontend/daemon/cti_fe_daemon.cpp): a server     *)
(* forked by the CTI library.  It starts applications and utilities for    *)
(* the frontend, records them, and terminates them when the frontend asks  *)
(* or disappears.                                                          *)
(*                                                                         *)
(* Actors: the main thread (pc), which serves one request at a time; its   *)
(* signal handlers; the std::async threads that erase utility sets         *)
(* (sigchldThreads) and that run tryTerm (terms); the operating system's   *)
(* processes (proc); and the frontend, which may die at any moment.        *)
(*                                                                         *)
(* The handlers below have as guards the conditions under which they       *)
(* change state; a request that is refused is handle_Unchanging.           *)
(***************************************************************************)
EXTENDS Naturals

CONSTANTS
    Pids,        \* process ids; a freed one may be given to a new process
    External,    \* processes of the host that the daemon did not fork
    NoPid,       \* no entry
    ZeroPid,     \* pid 0: an application without a local launcher process
    MaxId,       \* bound on newId()
    ReqTypes     \* the requests the frontend makes, and SIGTERM

ASSUME FeDaemonAssumption ==
    /\ External \subseteq Pids
    /\ NoPid \notin Pids
    /\ ZeroPid \notin Pids
    /\ NoPid # ZeroPid
    /\ MaxId \in Nat

Ids == 1 .. MaxId

VARIABLES
    pc,                 \* where the main thread is
    curId, curPid,      \* the id and the pid the current handler works on
    frontend,           \* "up", or "dead": the response pipe has no reader
    reqFd,              \* "open"; "closing": the handler waits; "closed"
    proc,               \* the OS process table
    pendingChld,        \* the pid of a pending SIGCHLD with CLD_EXITED
    lastId,             \* the counter of newId()
    pidIdMap, idPidMap, \* applications
    appCleanupList,     \* launchers to terminate at exit
    utilMap,            \* utilities of each application; {} is no entry
    mpirMap,            \* launchers held by an MPIRInstance
    launchingInstance,  \* the launcher of the global MPIRInstance, while alive
    terms,              \* running tryTerm threads
    sigchldThreads,     \* async threads about to erase a utilMap entry
    duty                \* history: what the daemon owes a live process

ids    == <<lastId, pidIdMap, idPidMap>>
mpir   == <<mpirMap, launchingInstance>>
sets   == <<appCleanupList, utilMap>>
os     == <<proc, pendingChld, duty>>
peer   == <<frontend, reqFd>>
cur    == <<curId, curPid>>
threads == <<terms, sigchldThreads>>
vars   == <<pc, cur, peer, os, ids, sets, mpir, threads>>

PcValues ==
    { "read", "respond", "respondId", "respondMpir", "respondShutdown"
    , "appForked", "utilForkedAsync", "utilForkedSync", "utilWait"
    , "breakpoint", "extracted", "shimRead", "mpirTermWait"
    , "deregPid", "deregTerm", "dereg", "releasePid", "release"
    , "termWait", "wedged"
    , "cleanup", "cleanupWait", "exited", "aborted" }

Gone    == {"exited", "aborted"}
Running(p) == proc[p] \in {"child", "other"}

Init ==
    /\ pc = "read"
    /\ curId = 0 /\ curPid = NoPid
    /\ frontend = "up" /\ reqFd = "open"
    /\ proc = [p \in Pids |-> IF p \in External THEN "other" ELSE "none"]
    /\ pendingChld = NoPid
    /\ duty = [p \in Pids |-> "none"]
    /\ lastId = 0
    /\ pidIdMap = [p \in Pids |-> 0]
    /\ idPidMap = [i \in Ids |-> NoPid]
    /\ appCleanupList = {}
    /\ utilMap = [i \in Ids |-> {}]
    /\ mpirMap = [i \in Ids |-> NoPid]
    /\ launchingInstance = NoPid
    /\ terms = {}
    /\ sigchldThreads = {}

-----------------------------------------------------------------------------
(* Processes.                                                              *)

\* The instance objects of a process that terminated stay where they are, but
\* Inferior::isTerminated() holds of them from now on (ZeroPid in mpirMap).
InstancesSeeExit(p) ==
    /\ mpirMap' = [i \in Ids |-> IF mpirMap[i] = p THEN ZeroPid ELSE mpirMap[i]]
    /\ launchingInstance' =
           IF launchingInstance = p /\ reqFd # "closing" THEN NoPid
                                                         ELSE launchingInstance

\* waitpid collected p, so its pid is free again.
Reap(p) ==
    /\ proc' = [proc EXCEPT ![p] = "none"]
    /\ duty' = [duty EXCEPT ![p] = "none"]

\* A process ends by itself.  A child stays a zombie and raises SIGCHLD.  The
\* handler acts on CLD_EXITED only, and a SIGCHLD that is raised while another
\* is pending is dropped.
ProcessExit(p) ==
    /\ pc \notin Gone
    /\ Running(p)
    /\ InstancesSeeExit(p)
    /\ \/ /\ proc[p] = "other"
          /\ Reap(p)
          /\ UNCHANGED pendingChld
       \/ /\ proc[p] = "child"
          /\ proc' = [proc EXCEPT ![p] = "zombie"]
          /\ pendingChld' \in IF pendingChld = NoPid THEN {NoPid, p}
                                                     ELSE {pendingChld}
          /\ UNCHANGED duty
    /\ UNCHANGED <<pc, cur, peer, ids, sets, threads>>

\* kill(pid, terminate_signum): nothing more to do when it fails.
TryTermSignal(t) ==
    /\ pc \notin Gone
    /\ t \in terms /\ t.stage = "signal"
    /\ terms' = (terms \ {t}) \cup
           IF proc[t.pid] = "none" THEN {}
           ELSE {[pid |-> t.pid, stage |-> "kill", waiter |-> t.waiter]}
    /\ UNCHANGED <<pc, cur, peer, os, ids, sets, mpir, sigchldThreads>>

\* Mutant of TryTermKill: waitpid without the SIGKILL before it.
TryTermKill_NoSigkill(t) ==
    /\ pc \notin Gone
    /\ t \in terms /\ t.stage = "kill"
    /\ ~Running(t.pid)
    /\ terms' = terms \ {t}
    /\ Reap(t.pid)
    /\ InstancesSeeExit(t.pid)
    /\ UNCHANGED <<pc, cur, peer, pendingChld, ids, sets, sigchldThreads>>

\* After the sleep: SIGKILL and waitpid.
TryTermKill(t) ==
    /\ pc \notin Gone
    /\ t \in terms /\ t.stage = "kill"
    /\ terms' = terms \ {t}
    /\ Reap(t.pid)
    /\ InstancesSeeExit(t.pid)
    /\ UNCHANGED <<pc, cur, peer, pendingChld, ids, sets, sigchldThreads>>

\* Mutant of TryTerm: clear() starts no thread.
TryTerm_None(ps, w) == {}

\* tryTerm threads for a set of processes, started and awaited by w.
TryTerm(ps, w) == {[pid |-> p, stage |-> "signal", waiter |-> w] : p \in ps}

-----------------------------------------------------------------------------
(* Signal handlers.  They run on the main thread, before its next step.    *)

\* No signal is waiting for the main thread or being handled by it.
Settled == pendingChld = NoPid /\ reqFd # "closing"

\* The loop's SIGCHLD handler: reap and forget a launched application, and
\* erase the utilities of the application from a new thread.  pidIdMap and
\* idPidMap keep their entries.
sigchld_handler(p) ==
    /\ pendingChld = p
    /\ pc \notin Gone \cup {"cleanupWait"}
    /\ pendingChld' = NoPid
    /\ IF pc = "cleanup"    \* main_loop_running is false
       THEN UNCHANGED <<proc, duty, appCleanupList, sigchldThreads>>
       ELSE /\ IF p \in appCleanupList /\ proc[p] = "zombie"
               THEN Reap(p) ELSE UNCHANGED <<proc, duty>>
            /\ appCleanupList' = appCleanupList \ {p}
            /\ sigchldThreads' = sigchldThreads \cup
                   {i \in Ids : i = pidIdMap[p] /\ utilMap[i] # {}}
    /\ UNCHANGED <<pc, cur, peer, ids, utilMap, mpir, terms>>

\* The thread of sigchld_handler: utilMap.erase(exitedId) runs ~ProcSet.
SigchldErase(i) ==
    /\ pc \notin Gone
    /\ i \in sigchldThreads
    /\ sigchldThreads' = sigchldThreads \ {i}
    /\ utilMap' = [utilMap EXCEPT ![i] = {}]
    /\ terms' = terms \cup TryTerm(utilMap[i], "sigchld")
    /\ UNCHANGED <<pc, cur, peer, os, ids, appCleanupList, mpir>>

\* SIGTERM, or SIGHUP on the death of the frontend: close the request pipe and
\* terminate a launch in progress, waiting in the handler for its end.
terminate_main_loop ==
    /\ pc \notin Gone \cup {"cleanupWait"}
    /\ reqFd' = IF reqFd # "open" THEN reqFd
                ELSE IF launchingInstance \in Pids THEN "closing" ELSE "closed"
    /\ UNCHANGED <<pc, cur, os, ids, sets, mpir, threads>>

FrontendDies ==
    /\ frontend = "up"
    /\ frontend' = "dead"
    /\ terminate_main_loop

DaemonSigterm ==
    /\ "SIGTERM" \in ReqTypes /\ reqFd = "open"
    /\ UNCHANGED frontend
    /\ terminate_main_loop

\* Inferior::terminate() sent SIGTERM, and its waitpid returns.
TerminateLaunchDone ==
    /\ pc \notin Gone
    /\ reqFd = "closing"
    /\ ~Running(launchingInstance)
    /\ reqFd' = "closed"
    /\ launchingInstance' = NoPid
    /\ Reap(launchingInstance)
    /\ UNCHANGED <<pc, cur, frontend, pendingChld, ids, sets, mpirMap,
                   threads>>

-----------------------------------------------------------------------------
(* Registration helpers and responses.                                     *)

\* registerAppPID throws for a pid that is in pidIdMap already; pid 0 never is.
Duplicate(p) == p \in Pids /\ pidIdMap[p] # 0

newId == lastId + 1

registerAppPID(p) ==
    /\ ~Duplicate(p)
    /\ lastId < MaxId
    /\ lastId' = newId
    /\ idPidMap' = [idPidMap EXCEPT ![newId] = p]
    /\ pidIdMap' = IF p \in Pids THEN [pidIdMap EXCEPT ![p] = newId]
                                 ELSE pidIdMap

\* registerUtilPID for a registered id.  utilMap is not locked: utilMap[app_id]
\* may return the set that a sigchld thread is erasing, and the insertion then
\* comes after ~ProcSet copied it, so that the utility is on no list.
registerUtilPID(i, p) ==
    /\ duty' = [duty EXCEPT ![p] = IF Running(p) THEN "util" ELSE @]
    /\ \/ /\ utilMap' = [utilMap EXCEPT ![i] = @ \cup {p}]
          /\ UNCHANGED threads
       \/ /\ i \in sigchldThreads
          /\ utilMap' = [utilMap EXCEPT ![i] = {}]
          /\ terms' = terms \cup TryTerm(utilMap[i], "sigchld")
          /\ sigchldThreads' = sigchldThreads \ {i}

Registered(i) == idPidMap[i] # NoPid

\* Mutant of Verified: any id will do.
Verified_Any(i) == i \in Ids

\* The test of the app id in registerUtilPID; it throws when this is false.
Verified(i) == i \in Ids /\ Registered(i)

\* A handler starts: the main loop read a request of type r.
Request(r) ==
    /\ pc = "read" /\ Settled
    /\ frontend = "up" /\ reqFd = "open"
    /\ r \in ReqTypes

\* A handler that has been interrupted or was blocked goes on.
Continue(at) == pc = at /\ Settled

\* The response is written.  Without a reader the write throws; so does the
\* write of the failure response in the catch block, and nothing catches that:
\* std::terminate, log_terminate, abort.
WriteResp ==
    /\ pc \in {"respond", "respondId", "respondMpir", "respondShutdown"}
    /\ Settled
    /\ pc' = IF frontend = "dead" THEN "aborted"
             ELSE IF pc = "respondShutdown" THEN "cleanup" ELSE "read"
    /\ curId' = 0 /\ curPid' = NoPid
    /\ UNCHANGED <<peer, os, ids, sets, mpir, threads>>

-----------------------------------------------------------------------------
(* Request handlers.                                                       *)

\* forkExec returned the pid p of a new child.
Forked(p) == proc[p] = "none" /\ proc' = [proc EXCEPT ![p] = "child"]

handle_ForkExecvpApp(p) ==
    /\ Request("ForkExecvpApp") /\ lastId < MaxId
    /\ Forked(p)
    /\ curPid' = p /\ pc' = "appForked"
    /\ UNCHANGED <<curId, peer, pendingChld, duty, ids, sets, mpir, threads>>

\* ... registerAppPID(appPid).  The pid is not added to appCleanupList.
ForkedAppRegister ==
    /\ Continue("appForked")
    /\ pc' = "respondId"
    /\ \/ registerAppPID(curPid) /\ curId' = lastId'
       \/ Duplicate(curPid) /\ curId' = 0 /\ UNCHANGED ids
    /\ UNCHANGED <<curPid, peer, os, sets, mpir, threads>>

\* The utility is forked before its app id is looked at.
handle_ForkExecvpUtil(i, p) ==
    /\ Forked(p)
    /\ \/ Request("ForkExecvpUtil_Async") /\ pc' = "utilForkedAsync"
       \/ Request("ForkExecvpUtil_Sync") /\ pc' = "utilForkedSync"
    /\ curId' = i /\ curPid' = p
    /\ UNCHANGED <<peer, pendingChld, duty, ids, sets, mpir, threads>>

\* ... registerUtilPID(appId, utilPid, SIGTERM) throws for an unknown id.
ForkedUtilRegister ==
    /\ pc \in {"utilForkedAsync", "utilForkedSync"} /\ Settled
    /\ IF Verified(curId)
       THEN /\ registerUtilPID(curId, curPid)
            /\ pc' = IF pc = "utilForkedSync" THEN "utilWait" ELSE "respond"
       ELSE /\ pc' = "respond"
            /\ UNCHANGED <<utilMap, duty, threads>>
    /\ UNCHANGED <<cur, peer, proc, pendingChld, ids, appCleanupList, mpir>>

\* ... the waitpid of a synchronous run returns; utilMap keeps the pid.
SyncUtilDone ==
    /\ Continue("utilWait")
    /\ ~Running(curPid)
    /\ Reap(curPid)
    /\ pc' = "respond"
    /\ UNCHANGED <<cur, peer, pendingChld, ids, sets, mpir, threads>>

\* Assigning launchingInstance drops an instance that an earlier failure left.
\* When the MPIRInstance constructor throws, ~Inferior detaches the new process.
handle_LaunchMPIR(p) ==
    /\ Request("LaunchMPIR") /\ lastId < MaxId
    /\ Forked(p)
    /\ \/ launchingInstance' = p /\ curPid' = p /\ pc' = "breakpoint"
       \/ pc' = "respondMpir" /\ UNCHANGED <<curPid, launchingInstance>>
    /\ UNCHANGED <<curId, peer, pendingChld, duty, ids, sets, mpirMap, threads>>

\* runToMPIRBreakpoint throws: the launcher ended, or could not be read.
LaunchFails ==
    /\ Continue("breakpoint")
    /\ pc' = "respondMpir" /\ curId' = 0
    /\ UNCHANGED <<curPid, peer, os, ids, sets, mpir, threads>>

\* extractMPIRResult(inst) for the launcher p, continued at next.  It throws for
\* a pid that is registered already, and when the process table cannot be read,
\* which leaves the new id registered.  A global instance is then not moved from.
extractMPIRResult(p, next) ==
    /\ curPid' = p
    /\ \/ /\ registerAppPID(p)
          /\ mpirMap' = [mpirMap EXCEPT ![lastId'] = p]
          /\ launchingInstance' = IF launchingInstance = p THEN NoPid
                                                           ELSE launchingInstance
          /\ curId' = lastId' /\ pc' = next
       \/ /\ registerAppPID(p)
          /\ curId' = 0 /\ pc' = "respondMpir"
          /\ UNCHANGED mpir
       \/ /\ Duplicate(p)
          /\ curId' = 0 /\ pc' = "respondMpir"
          /\ UNCHANGED <<ids, mpir>>

LaunchExtract ==
    /\ Continue("breakpoint")
    /\ launchingInstance = curPid
    /\ extractMPIRResult(curPid, "extracted")
    /\ UNCHANGED <<peer, os, sets, threads>>

\* ... appCleanupList.insert(mpirResult.launcher_pid, SIGTERM).
LaunchInsert ==
    /\ Continue("extracted")
    /\ appCleanupList' = appCleanupList \cup {curPid}
    /\ duty' = [duty EXCEPT ![curPid] = IF Running(curPid) THEN "app" ELSE @]
    /\ pc' = "respondMpir"
    /\ UNCHANGED <<cur, peer, proc, pendingChld, ids, utilMap, mpir, threads>>

\* The wrapper p is forked and recorded nowhere; the shim inside it starts the
\* launcher and reports its pid over a pipe, or the pipe is closed without one.
handle_LaunchMPIRShim(p) ==
    /\ Request("LaunchMPIRShim") /\ lastId < MaxId
    /\ Forked(p)
    /\ pc' = "shimRead"
    /\ UNCHANGED <<cur, peer, pendingChld, duty, ids, sets, mpir, threads>>

ShimFails ==
    /\ Continue("shimRead")
    /\ pc' = "respondMpir" /\ curId' = 0
    /\ UNCHANGED <<curPid, peer, os, ids, sets, mpir, threads>>

\* ... the launcher p, stopped by the shim, is attached to; attaching may fail.
ShimReports(p) ==
    /\ Continue("shimRead")
    /\ proc[p] = "none"
    /\ proc' = [proc EXCEPT ![p] = "other"]
    /\ \/ extractMPIRResult(p, "extracted")
       \/ pc' = "respondMpir" /\ curId' = 0 /\ UNCHANGED <<curPid, ids, mpir>>
    /\ UNCHANGED <<peer, pendingChld, duty, sets, threads>>

\* Attaching fails for a process that an instance holds already.
handle_AttachMPIR(p) ==
    /\ Request("AttachMPIR") /\ lastId < MaxId
    /\ Running(p) /\ launchingInstance # p /\ \A i \in Ids : mpirMap[i] # p
    /\ extractMPIRResult(p, "respondMpir")
    /\ UNCHANGED <<peer, os, sets, threads>>

\* Erasing the entry destroys the instance, which detaches from the launcher.
handle_ReleaseMPIR(i) ==
    /\ Request("ReleaseMPIR")
    /\ mpirMap[i] # NoPid
    /\ mpirMap' = [mpirMap EXCEPT ![i] = NoPid]
    /\ pc' = "respond"
    /\ UNCHANGED <<cur, peer, os, ids, sets, launchingInstance, threads>>

\* waitMPIR erases the entry and then runs waitExit() on the destroyed instance.
\* That returns something, or faults; the handler installed for SIGSEGV returns
\* to the faulting instruction, for ever.
handle_WaitMPIR(i) ==
    /\ Request("WaitMPIR")
    /\ mpirMap[i] # NoPid
    /\ mpirMap' = [mpirMap EXCEPT ![i] = NoPid]
    /\ pc' \in {"respond", "wedged"}
    /\ UNCHANGED <<cur, peer, os, ids, sets, launchingInstance, threads>>

\* Inferior::terminate: detach, SIGTERM and waitpid, unless it has terminated.
handle_TerminateMPIR(i) ==
    /\ Request("TerminateMPIR")
    /\ mpirMap[i] # NoPid
    /\ curId' = i /\ curPid' = mpirMap[i]
    /\ pc' = "mpirTermWait"
    /\ UNCHANGED <<peer, os, ids, sets, mpir, threads>>

\* ... waitpid returns (at once when the launcher is not a child), and the entry
\* is erased.  The id stays registered and appCleanupList keeps the pid.
TerminateMPIRDone ==
    /\ Continue("mpirTermWait")
    /\ IF curPid \in Pids /\ proc[curPid] # "other"
       THEN proc[curPid] # "child" /\ Reap(curPid)
       ELSE UNCHANGED <<proc, duty>>
    /\ mpirMap' = [mpirMap EXCEPT ![curId] = NoPid]
    /\ pc' = "respond"
    /\ UNCHANGED <<cur, peer, pendingChld, ids, sets, launchingInstance, threads>>

\* The frontend registers a process of the host, or none (pid 0).
handle_RegisterApp(p) ==
    /\ Request("RegisterApp") /\ lastId < MaxId
    /\ p \in Pids => Running(p)
    /\ pc' = "respondId"
    /\ \/ registerAppPID(p) /\ curId' = lastId'
       \/ Duplicate(p) /\ curId' = 0 /\ UNCHANGED ids
    /\ UNCHANGED <<curPid, peer, os, sets, mpir, threads>>

\* RegisterUtil and RegisterUtilWithSigkill.
handle_RegisterUtil(i, p) ==
    /\ Request("RegisterUtil")
    /\ Verified(i) /\ proc[p] = "other"
    /\ registerUtilPID(i, p)
    /\ pc' = "respond"
    /\ UNCHANGED <<cur, peer, proc, pendingChld, ids, appCleanupList, mpir>>

\* deregisterAppID and releaseAppID begin alike: idPidMap.erase(idPidPair).
EraseId(i) ==
    /\ Registered(i)
    /\ idPidMap' = [idPidMap EXCEPT ![i] = NoPid]
    /\ curId' = i /\ curPid' = idPidMap[i]
    /\ UNCHANGED <<peer, os, lastId, pidIdMap, sets, mpir, threads>>

handle_DeregisterApp(i) ==
    /\ Request("DeregisterApp")
    /\ EraseId(i)
    /\ pc' = "deregPid"

handle_ReleaseApp(i) ==
    /\ Request("ReleaseApp")
    /\ EraseId(i)
    /\ pc' = "releasePid"

\* Mutant of ErasePid: pidIdMap keeps its entry.
ErasePid_Keep ==
    /\ pc \in {"deregPid", "releasePid"} /\ Settled
    /\ pc' = IF pc = "deregPid" THEN "deregTerm" ELSE "release"
    /\ UNCHANGED <<cur, peer, os, ids, sets, mpir, threads>>

\* ... pidIdMap.erase(app_pid).
ErasePid ==
    /\ pc \in {"deregPid", "releasePid"} /\ Settled
    /\ pidIdMap' = [p \in Pids |-> IF p = curPid THEN 0 ELSE pidIdMap[p]]
    /\ pc' = IF pc = "deregPid" THEN "deregTerm" ELSE "release"
    /\ UNCHANGED <<cur, peer, os, lastId, idPidMap, sets, mpir, threads>>

\* ... deregisterAppID starts the threads that terminate the utilities and, when
\* the cleanup list still has it, the application.  Nothing else looks at the
\* entry of utilMap any more, so its erasure is part of the thread's start.
DeregTerm ==
    /\ Continue("deregTerm")
    /\ terms' = terms \cup
           TryTerm(utilMap[curId] \cup ({curPid} \cap appCleanupList), "main")
    /\ utilMap' = [utilMap EXCEPT ![curId] = {}]
    /\ pc' = IF curPid \in appCleanupList THEN "dereg" ELSE "termWait"
    /\ UNCHANGED <<cur, peer, os, ids, appCleanupList, mpir, sigchldThreads>>

\* ... appCleanupList.erase(app_pid), after the thread was started.
DeregErase ==
    /\ Continue("dereg")
    /\ appCleanupList' = appCleanupList \ {curPid}
    /\ pc' = "termWait"
    /\ UNCHANGED <<cur, peer, os, ids, utilMap, mpir, threads>>

\* The futures the main thread waits for are ready.
TermWaitDone ==
    /\ Continue("termWait")
    /\ \A t \in terms : t.waiter # "main"
    /\ pc' = "respond"
    /\ UNCHANGED <<cur, peer, os, ids, sets, mpir, threads>>

\* ProcSet::release on the cleanup list.
release(p) == appCleanupList \ {p}

\* ... releaseAppID: the application goes on, its utilities are terminated.
ReleaseFinish ==
    /\ Continue("release")
    /\ appCleanupList' = release(curPid)
    /\ duty' = [p \in Pids |-> IF p = curPid /\ duty[p] = "app"
                               THEN "released" ELSE duty[p]]
    /\ utilMap' = [utilMap EXCEPT ![curId] = {}]
    /\ terms' = terms \cup TryTerm(utilMap[curId], "main")
    /\ pc' = "termWait"
    /\ UNCHANGED <<cur, peer, proc, pendingChld, ids, mpir, sigchldThreads>>

handle_Shutdown ==
    /\ Request("Shutdown")
    /\ pc' = "respondShutdown"
    /\ UNCHANGED <<cur, peer, os, ids, sets, mpir, threads>>

\* CheckApp and ReadStringMPIR change nothing.  Nor does a request that throws
\* before its first change: an unknown id, a launcher that is not found, a fork
\* that fails, a process that cannot be attached to.
handle_Unchanging ==
    /\ \/ /\ \E r \in ReqTypes : Request(r)
          /\ pc' = "respond"
       \/ /\ Request("ForkExecvpApp")
          /\ pc' = "respondId"
       \/ /\ \E r \in {"LaunchMPIR", "LaunchMPIRShim", "AttachMPIR"} : Request(r)
          /\ pc' = "respondMpir"
    /\ UNCHANGED <<cur, peer, os, ids, sets, mpir, threads>>

-----------------------------------------------------------------------------
(* The end of main.                                                        *)

\* The read of the next request throws: the pipe was closed by the handler.
ReadFails ==
    /\ Continue("read")
    /\ reqFd = "closed"
    /\ pc' = "cleanup"
    /\ UNCHANGED <<cur, peer, os, ids, sets, mpir, threads>>

\* Signals are blocked, and utilMap.clear() and appCleanupList.clear() started.
Cleanup ==
    /\ Continue("cleanup")
    /\ terms' = terms \cup
           TryTerm(appCleanupList \cup UNION {utilMap[i] : i \in Ids}, "main")
    /\ utilMap' = [i \in Ids |-> {}]
    /\ appCleanupList' = {}
    /\ pc' = "cleanupWait"
    /\ UNCHANGED <<cur, peer, os, ids, mpir, sigchldThreads>>

\* Mutant of Exit: only the futures of main are waited for.
Exit_NoSigchldWait ==
    /\ pc = "cleanupWait"
    /\ \A t \in terms : t.waiter # "main"
    /\ pc' = "exited"
    /\ UNCHANGED <<cur, peer, os, ids, sets, mpir, threads>>

\* All futures are ready: exit(0).
Exit ==
    /\ pc = "cleanupWait"
    /\ terms = {} /\ sigchldThreads = {}
    /\ pc' = "exited"
    /\ UNCHANGED <<cur, peer, os, ids, sets, mpir, threads>>

\* The daemon is gone, or repeats a faulting instruction.
Halted ==
    /\ pc \in Gone \cup {"wedged"}
    /\ UNCHANGED vars

-----------------------------------------------------------------------------
ProcessStep ==
    \/ \E p \in Pids : ProcessExit(p)
    \/ \E t \in terms : TryTermSignal(t) \/ TryTermKill(t)

SignalStep ==
    \/ \E p \in Pids : sigchld_handler(p)
    \/ \E i \in Ids : SigchldErase(i)
    \/ FrontendDies
    \/ DaemonSigterm
    \/ TerminateLaunchDone

LaunchStep ==
    \/ \E p \in Pids :
           \/ handle_ForkExecvpApp(p)
           \/ \E i \in 0 .. lastId : handle_ForkExecvpUtil(i, p)
           \/ handle_LaunchMPIR(p)
           \/ handle_LaunchMPIRShim(p)
           \/ ShimReports(p)
           \/ handle_AttachMPIR(p)
    \/ ForkedAppRegister
    \/ ForkedUtilRegister
    \/ SyncUtilDone
    \/ LaunchFails
    \/ LaunchExtract
    \/ LaunchInsert
    \/ ShimFails

AppStep ==
    \/ \E p \in Pids \cup {ZeroPid} : handle_RegisterApp(p)
    \/ \E i \in Ids :
           \/ handle_ReleaseMPIR(i)
           \/ handle_WaitMPIR(i)
           \/ handle_TerminateMPIR(i)
           \/ \E p \in Pids : handle_RegisterUtil(i, p)
           \/ handle_DeregisterApp(i)
           \/ handle_ReleaseApp(i)
    \/ TerminateMPIRDone
    \/ ErasePid
    \/ DeregTerm
    \/ DeregErase
    \/ ReleaseFinish
    \/ TermWaitDone
    \/ handle_Unchanging
    \/ handle_Shutdown
    \/ WriteResp

\* Mutant of readMPIRRespAccepts: the test that readIDResp makes.
readMPIRRespAccepts_Negative == pc = "respondMpir" /\ curId >= 0

\* What the frontend makes of the id in a response: readMPIRResp throws for 0.
readMPIRRespAccepts == pc = "respondMpir" /\ curId # 0

EndStep == ReadFails \/ Cleanup \/ Exit \/ Halted

Next == ProcessStep \/ SignalStep \/ LaunchStep \/ AppStep \/ EndStep

Spec == Init /\ [][Next]_vars

\* The main thread goes on whenever it is not blocked.  At the breakpoint, and
\* on the shim's pipe, it depends on the launcher.
MainProgress ==
    \/ ForkedAppRegister \/ ForkedUtilRegister \/ SyncUtilDone
    \/ LaunchInsert \/ TerminateMPIRDone
    \/ ErasePid \/ DeregTerm \/ DeregErase \/ ReleaseFinish \/ TermWaitDone
    \/ (LaunchFails /\ launchingInstance \notin Pids)
    \/ WriteResp \/ ReadFails \/ Cleanup \/ Exit

\* The threads and handlers run.
Fairness ==
    /\ WF_vars(MainProgress)
    /\ WF_vars(\E p \in Pids : sigchld_handler(p))
    /\ WF_vars(TerminateLaunchDone)
    /\ WF_vars(\E i \in Ids : SigchldErase(i))
    /\ WF_vars(\E t \in terms : TryTermSignal(t) \/ TryTermKill(t))

\* A process that a waitpid without SIGKILL waits for ends: a synchronous utility
\* finishes, a launcher that was sent SIGTERM heeds it.
Awaited(p) ==
    \/ pc \in {"utilWait", "mpirTermWait"} /\ curPid = p
    \/ reqFd = "closing" /\ launchingInstance = p

AwaitedEnd == \A p \in Pids : WF_vars(Awaited(p) /\ ProcessExit(p))

LiveSpec == Spec /\ Fairness /\ AwaitedEnd

-----------------------------------------------------------------------------
(* Properties.                                                             *)

\* Every variable of the daemon has a value of its C++ type.
TypeOK ==
    /\ pc \in PcValues
    /\ curId \in 0 .. MaxId /\ curPid \in Pids \cup {NoPid, ZeroPid}
    /\ frontend \in {"up", "dead"}
    /\ reqFd \in {"open", "closing", "closed"}
    /\ proc \in [Pids -> {"none", "child", "other", "zombie"}]
    /\ pendingChld \in Pids \cup {NoPid}
    /\ duty \in [Pids -> {"none", "util", "app", "released"}]
    /\ lastId \in 0 .. MaxId
    /\ pidIdMap \in [Pids -> 0 .. MaxId]
    /\ idPidMap \in [Ids -> Pids \cup {NoPid, ZeroPid}]
    /\ appCleanupList \subseteq Pids
    /\ utilMap \in [Ids -> SUBSET Pids]
    /\ mpirMap \in [Ids -> Pids \cup {NoPid, ZeroPid}]
    /\ launchingInstance \in Pids \cup {NoPid}
    /\ terms \subseteq [pid : Pids, stage : {"signal", "kill"},
                        waiter : {"main", "sigchld"}]
    /\ sigchldThreads \subseteq Ids

\* deregisterAppID or releaseAppID works on id i.
Erasing(i) ==
    pc \in {"deregPid", "deregTerm", "releasePid", "release"} /\ curId = i

\* pidIdMap and idPidMap are two views of one registry, whatever handlers,
\* signals and failures came in between: each local process that idPidMap
\* records for an id is recorded by pidIdMap with that id, and conversely, save
\* for the id that deregisterAppID or releaseAppID has erased from the one map
\* and not yet from the other.  So the SIGCHLD handler, which goes from pid to
\* id, and deregistration, which goes from id to pid, never act on different
\* applications, even when the signal comes between the two erasures.
MapsAgree ==
    /\ \A i \in Ids : idPidMap[i] \in Pids => pidIdMap[idPidMap[i]] = i
    /\ \A p \in Pids : pidIdMap[p] # 0 =>
           \/ idPidMap[pidIdMap[p]] = p
           \/ /\ pc \in {"deregPid", "releasePid"}
              /\ curId = pidIdMap[p] /\ curPid = p

\* No entry outlives its application: utilities are recorded only under an id
\* that is registered, or whose erasure is under way and will end them, so that
\* deregistering, releasing or the end of main finds them; and an id that
\* newId() has not handed out yet has no entry anywhere.  A late erasing thread
\* can therefore not hit the utilities of a newer application.
UtilsOwned ==
    /\ \A i \in Ids : utilMap[i] # {} => Registered(i) \/ Erasing(i)
    /\ \A i \in Ids : i > lastId => /\ ~Registered(i)
                                    /\ mpirMap[i] = NoPid
                                    /\ i \notin sigchldThreads

Doomed(p) == \E t \in terms : t.pid = p

\* A launcher whose MPIR launch succeeded and that was not released is on the
\* cleanup list, or being terminated, for as long as it is alive: no order of
\* exits, signals, deregistrations and reused pids drops it.  The SIGCHLD handler
\* takes pids off the list, and never that of a launcher that is alive.
AppsSupervised ==
    \A p \in Pids : duty[p] = "app" /\ Running(p) =>
        p \in appCleanupList \/ Doomed(p)

\* When main returns, no launched application that was not released is alive and
\* no thread is working.
CleanExit ==
    pc = "exited" =>
        /\ terms = {} /\ sigchldThreads = {}
        /\ \A p \in Pids : Running(p) => duty[p] # "app"

\* An id that the frontend takes from a response is that of a registered
\* application: tryWriteMPIRResp and readMPIRResp agree on what failure is.
MPIRRespHonest == readMPIRRespAccepts => curId \in Ids /\ Registered(curId)

\* "used to ensure child processes will be cleaned up on unexpected exit": once
\* the daemon is gone, nothing it supervised is alive.
CleanedUp ==
    pc \in Gone =>
        \A p \in Pids : Running(p) => duty[p] \in {"none", "released"}

\* When the frontend has disappeared, the daemon ends.
DaemonEnds == frontend = "dead" ~> pc \in Gone

=============================================================================
