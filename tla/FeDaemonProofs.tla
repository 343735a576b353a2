--------------------------- MODULE FeDaemonProofs ---------------------------
(***************************************************************************)
(* Proofs about FeDaemon: for any set of processes, any bound on ids and   *)
(* any set of requests.                                                    *)
(***************************************************************************)
EXTENDS FeDaemon, TLAPS

\* The process or the id a handler works on is set while the handler needs it.
CurrentPid ==
    /\ pc \in {"appForked", "utilForkedAsync", "utilForkedSync", "utilWait",
               "breakpoint", "extracted", "dereg"} => curPid \in Pids
    /\ pc \in {"deregPid", "deregTerm", "releasePid", "release"} => curId \in Ids

Typed == TypeOK /\ CurrentPid

\* The initial state is well typed.
LEMMA TypedInit == Init => Typed
<1> USE FeDaemonAssumption
<1> QED BY DEF Init, Typed, TypeOK, CurrentPid, PcValues, Ids

\* Reaping keeps the process table well typed.
LEMMA ReapType ==
    ASSUME NEW p, TypeOK, Reap(p)
    PROVE  /\ proc' \in [Pids -> {"none", "child", "other", "zombie"}]
           /\ duty' \in [Pids -> {"none", "util", "app", "released"}]
BY Zenon DEF TypeOK, Reap

\* Marking the instances of an ended process keeps them well typed.
LEMMA InstancesType ==
    ASSUME NEW p, TypeOK, InstancesSeeExit(p)
    PROVE  /\ mpirMap' \in [Ids -> Pids \cup {NoPid, ZeroPid}]
           /\ launchingInstance' \in Pids \cup {NoPid}
BY DEF TypeOK, InstancesSeeExit

\* The threads that TryTerm starts are well typed.
LEMMA TryTermType ==
    ASSUME NEW ps, ps \subseteq Pids, NEW w \in {"main", "sigchld"}
    PROVE  TryTerm(ps, w) \subseteq [pid : Pids, stage : {"signal", "kill"},
                                     waiter : {"main", "sigchld"}]
BY DEF TryTerm

\* registerAppPID hands out an id within the bound and keeps the maps well typed.
LEMMA RegisterAppType ==
    ASSUME NEW p \in Pids \cup {NoPid, ZeroPid}, TypeOK, registerAppPID(p)
    PROVE  /\ lastId' \in 0 .. MaxId
           /\ lastId' \in Ids
           /\ pidIdMap' \in [Pids -> 0 .. MaxId]
           /\ idPidMap' \in [Ids -> Pids \cup {NoPid, ZeroPid}]
<1> USE FeDaemonAssumption
<1>1. lastId' \in Ids /\ lastId' \in 0 .. MaxId /\ lastId' = lastId + 1
  BY DEF TypeOK, registerAppPID, newId, Ids
<1> QED BY <1>1 DEF TypeOK, registerAppPID, newId

\* registerUtilPID keeps the utility sets and the threads well typed.
LEMMA RegisterUtilType ==
    ASSUME NEW i \in Ids, NEW p \in Pids, TypeOK, registerUtilPID(i, p)
    PROVE  /\ duty' \in [Pids -> {"none", "util", "app", "released"}]
           /\ utilMap' \in [Ids -> SUBSET Pids]
           /\ terms' \subseteq [pid : Pids, stage : {"signal", "kill"},
                                waiter : {"main", "sigchld"}]
           /\ sigchldThreads' \subseteq Ids
<1>1. utilMap[i] \subseteq Pids
  BY DEF TypeOK
<1>2. TryTerm(utilMap[i], "sigchld") \subseteq
         [pid : Pids, stage : {"signal", "kill"}, waiter : {"main", "sigchld"}]
  BY <1>1, TryTermType
<1> QED BY <1>2 DEF TypeOK, registerUtilPID, threads

\* extractMPIRResult keeps the registry and the instances well typed.
LEMMA ExtractType ==
    ASSUME NEW p \in Pids, NEW next \in {"extracted", "respondMpir"},
           TypeOK, extractMPIRResult(p, next)
    PROVE  /\ curPid' = p
           /\ pc' \in {"extracted", "respondMpir"}
           /\ curId' \in 0 .. MaxId
           /\ lastId' \in 0 .. MaxId
           /\ pidIdMap' \in [Pids -> 0 .. MaxId]
           /\ idPidMap' \in [Ids -> Pids \cup {NoPid, ZeroPid}]
           /\ mpirMap' \in [Ids -> Pids \cup {NoPid, ZeroPid}]
           /\ launchingInstance' \in Pids \cup {NoPid}
<1> USE FeDaemonAssumption
<1>1. CASE registerAppPID(p)
  <2>1. /\ lastId' \in 0 .. MaxId
        /\ lastId' \in Ids
        /\ pidIdMap' \in [Pids -> 0 .. MaxId]
        /\ idPidMap' \in [Ids -> Pids \cup {NoPid, ZeroPid}]
    BY <1>1, RegisterAppType
  <2> QED BY <2>1 DEF TypeOK, extractMPIRResult, mpir, ids
<1>2. CASE UNCHANGED <<ids, mpir>> /\ curId' = 0 /\ pc' = "respondMpir"
  BY <1>2 DEF TypeOK, extractMPIRResult, mpir, ids
<1> QED BY <1>1, <1>2 DEF extractMPIRResult

\* Every action keeps the state well typed: one step per action.
LEMMA TypedNext == Typed /\ [Next]_vars => Typed'
<1> SUFFICES ASSUME Typed, [Next]_vars PROVE Typed'
  OBVIOUS
<1> USE FeDaemonAssumption DEF Typed
<1>1. ASSUME NEW p \in Pids, ProcessExit(p)
      PROVE  Typed'
  BY <1>1, ReapType, InstancesType
  DEF TypeOK, CurrentPid, PcValues, ProcessExit, peer, cur, ids, sets,
      threads, Running
<1>2. ASSUME NEW t \in terms, TryTermSignal(t)
      PROVE  Typed'
  BY <1>2
  DEF TypeOK, CurrentPid, PcValues, TryTermSignal, peer, cur, os, ids, sets,
      mpir
<1>3. ASSUME NEW t \in terms, TryTermKill(t)
      PROVE  Typed'
  <2>1. /\ proc' \in [Pids -> {"none", "child", "other", "zombie"}]
        /\ duty' \in [Pids -> {"none", "util", "app", "released"}]
    BY <1>3, ReapType DEF TryTermKill
  <2>2. /\ mpirMap' \in [Ids -> Pids \cup {NoPid, ZeroPid}]
        /\ launchingInstance' \in Pids \cup {NoPid}
    BY <1>3, InstancesType DEF TryTermKill
  <2> QED
    BY <1>3, <2>1, <2>2
    DEF TypeOK, CurrentPid, PcValues, TryTermKill, peer, cur, ids, sets
<1>4. ASSUME NEW p \in Pids, sigchld_handler(p)
      PROVE  Typed'
  <2>1. /\ proc' \in [Pids -> {"none", "child", "other", "zombie"}]
        /\ duty' \in [Pids -> {"none", "util", "app", "released"}]
    <3>1. CASE Reap(p)
      BY <3>1, ReapType
    <3>2. CASE UNCHANGED <<proc, duty>>
      BY <3>2 DEF TypeOK
    <3> QED BY <1>4, <3>1, <3>2 DEF sigchld_handler
  <2>2. sigchldThreads' \subseteq Ids
    BY <1>4, Zenon DEF TypeOK, sigchld_handler, Ids
  <2> QED
    BY <1>4, <2>1, <2>2
    DEF TypeOK, CurrentPid, PcValues, sigchld_handler, peer, cur, ids, mpir
<1>5. ASSUME NEW i \in Ids, SigchldErase(i)
      PROVE  Typed'
  BY <1>5, TryTermType
  DEF TypeOK, CurrentPid, PcValues, SigchldErase, peer, cur, os, ids, mpir
<1>6. ASSUME FrontendDies
      PROVE  Typed'
  BY <1>6
  DEF TypeOK, CurrentPid, PcValues, FrontendDies, terminate_main_loop, cur,
      os, ids, sets, mpir, threads
<1>7. ASSUME DaemonSigterm
      PROVE  Typed'
  BY <1>7
  DEF TypeOK, CurrentPid, PcValues, DaemonSigterm, terminate_main_loop, cur,
      os, ids, sets, mpir, threads
<1>8. ASSUME TerminateLaunchDone
      PROVE  Typed'
  BY <1>8, ReapType
  DEF TypeOK, CurrentPid, PcValues, TerminateLaunchDone, cur, ids, sets,
      threads
<1>9. ASSUME NEW p \in Pids, handle_ForkExecvpApp(p)
      PROVE  Typed'
  BY <1>9
  DEF TypeOK, CurrentPid, PcValues, handle_ForkExecvpApp, Forked, Request,
      peer, ids, sets, mpir, threads
<1>10. ASSUME NEW p \in Pids, NEW i \in 0 .. lastId, handle_ForkExecvpUtil(i, p)
      PROVE  Typed'
  BY <1>10
  DEF TypeOK, CurrentPid, PcValues, handle_ForkExecvpUtil, Forked, Request,
      peer, ids, sets, mpir, threads
<1>11. ASSUME NEW p \in Pids, handle_LaunchMPIR(p)
      PROVE  Typed'
  BY <1>11
  DEF TypeOK, CurrentPid, PcValues, handle_LaunchMPIR, Forked, Request, peer,
      ids, sets, mpir, threads
<1>12. ASSUME NEW p \in Pids, handle_LaunchMPIRShim(p)
      PROVE  Typed'
  BY <1>12
  DEF TypeOK, CurrentPid, PcValues, handle_LaunchMPIRShim, Forked, Request,
      peer, cur, ids, sets, mpir, threads
<1>13. ASSUME NEW p \in Pids, ShimReports(p)
      PROVE  Typed'
  BY <1>13, ExtractType
  DEF TypeOK, CurrentPid, PcValues, ShimReports, Continue, peer, ids, sets,
      mpir, threads
<1>14. ASSUME NEW p \in Pids, handle_AttachMPIR(p)
      PROVE  Typed'
  BY <1>14, ExtractType
  DEF TypeOK, CurrentPid, PcValues, handle_AttachMPIR, Request, peer, os,
      sets, threads
<1>15. ASSUME ForkedAppRegister
      PROVE  Typed'
  BY <1>15, RegisterAppType
  DEF TypeOK, CurrentPid, PcValues, ForkedAppRegister, Continue, peer, os,
      ids, sets, mpir, threads
<1>16. ASSUME ForkedUtilRegister
      PROVE  Typed'
  BY <1>16, RegisterUtilType
  DEF TypeOK, CurrentPid, PcValues, ForkedUtilRegister, Verified, peer, cur, ids, mpir,
      threads
<1>17. ASSUME SyncUtilDone
      PROVE  Typed'
  BY <1>17, ReapType
  DEF TypeOK, CurrentPid, PcValues, SyncUtilDone, Continue, peer, cur, ids,
      sets, mpir, threads
<1>18. ASSUME LaunchFails
      PROVE  Typed'
  BY <1>18
  DEF TypeOK, CurrentPid, PcValues, LaunchFails, Continue, peer, os, ids,
      sets, mpir, threads
<1>19. ASSUME LaunchExtract
      PROVE  Typed'
  BY <1>19, ExtractType
  DEF TypeOK, CurrentPid, PcValues, LaunchExtract, Continue, peer, os, sets,
      threads
<1>20. ASSUME LaunchInsert
      PROVE  Typed'
  BY <1>20
  DEF TypeOK, CurrentPid, PcValues, LaunchInsert, Continue, peer, cur, ids,
      mpir, threads
<1>21. ASSUME ShimFails
      PROVE  Typed'
  BY <1>21
  DEF TypeOK, CurrentPid, PcValues, ShimFails, Continue, peer, os, ids, sets,
      mpir, threads
<1>22. ASSUME NEW p \in Pids \cup {ZeroPid}, handle_RegisterApp(p)
      PROVE  Typed'
  BY <1>22, RegisterAppType
  DEF TypeOK, CurrentPid, PcValues, handle_RegisterApp, Request, peer, os,
      ids, sets, mpir, threads
<1>23. ASSUME NEW i \in Ids, handle_ReleaseMPIR(i)
      PROVE  Typed'
  BY <1>23
  DEF TypeOK, CurrentPid, PcValues, handle_ReleaseMPIR, Request, peer, cur,
      os, ids, sets, threads
<1>24. ASSUME NEW i \in Ids, handle_WaitMPIR(i)
      PROVE  Typed'
  BY <1>24
  DEF TypeOK, CurrentPid, PcValues, handle_WaitMPIR, Request, peer, cur, os,
      ids, sets, threads
<1>25. ASSUME NEW i \in Ids, handle_TerminateMPIR(i)
      PROVE  Typed'
  BY <1>25
  DEF TypeOK, CurrentPid, PcValues, handle_TerminateMPIR, Request, Ids, peer,
      os, ids, sets, mpir, threads
<1>26. ASSUME NEW i \in Ids, NEW p \in Pids, handle_RegisterUtil(i, p)
      PROVE  Typed'
  BY <1>26, RegisterUtilType
  DEF TypeOK, CurrentPid, PcValues, handle_RegisterUtil, Request, peer, cur,
      ids, mpir
<1>27. ASSUME NEW i \in Ids, handle_DeregisterApp(i) \/ handle_ReleaseApp(i)
      PROVE  Typed'
  <2>1. i \in 0 .. MaxId
    BY DEF Ids
  <2>2. /\ pc' \in {"deregPid", "releasePid"}
        /\ EraseId(i)
    BY <1>27 DEF handle_DeregisterApp, handle_ReleaseApp
  <2>3. idPidMap[i] \in Pids \cup {NoPid, ZeroPid}
    BY DEF TypeOK
  <2>4. idPidMap' \in [Ids -> Pids \cup {NoPid, ZeroPid}]
    BY <2>2 DEF TypeOK, EraseId
  <2>5. CurrentPid'
    BY <2>2 DEF CurrentPid, EraseId
  <2> QED
    BY <2>1, <2>2, <2>3, <2>4, <2>5
    DEF TypeOK, PcValues, EraseId, peer, os, sets, mpir, threads
<1>28. CASE ErasePid
  BY <1>28
  DEF TypeOK, CurrentPid, PcValues, ErasePid, peer, cur, os, sets, mpir, threads
<1>39. CASE DeregTerm
  <2>1. utilMap[curId] \subseteq Pids
    BY <1>39 DEF TypeOK, CurrentPid, DeregTerm, Continue
  <2>2. terms' \subseteq [pid : Pids, stage : {"signal", "kill"},
                         waiter : {"main", "sigchld"}]
    <3>1. utilMap[curId] \cup ({curPid} \cap appCleanupList) \subseteq Pids
      BY <2>1 DEF TypeOK
    <3> QED BY <1>39, <3>1, TryTermType DEF DeregTerm, TypeOK
  <2> QED
    BY <1>39, <2>2
    DEF TypeOK, CurrentPid, PcValues, DeregTerm, Continue, peer, cur, os, ids,
        mpir
<1>40. CASE ReleaseFinish
  <2>1. utilMap[curId] \subseteq Pids
    BY <1>40 DEF TypeOK, CurrentPid, ReleaseFinish, Continue
  <2>2. terms' \subseteq [pid : Pids, stage : {"signal", "kill"},
                         waiter : {"main", "sigchld"}]
    BY <1>40, <2>1, TryTermType DEF ReleaseFinish, TypeOK
  <2> QED
    BY <1>40, <2>2
    DEF TypeOK, CurrentPid, PcValues, ReleaseFinish, release, Continue, peer,
        cur, ids, mpir
<1>29. ASSUME TerminateMPIRDone
      PROVE  Typed'
  BY <1>29, ReapType, Zenon
  DEF TypeOK, CurrentPid, PcValues, TerminateMPIRDone, Continue, peer, cur,
      ids, sets, threads
<1>30. ASSUME DeregErase
      PROVE  Typed'
  BY <1>30
  DEF TypeOK, CurrentPid, PcValues, DeregErase, Continue, peer, cur, os, ids,
      mpir, threads
<1>31. ASSUME TermWaitDone
      PROVE  Typed'
  BY <1>31
  DEF TypeOK, CurrentPid, PcValues, TermWaitDone, Continue, peer, cur, os,
      ids, sets, mpir, threads
<1>32. ASSUME handle_Unchanging
      PROVE  Typed'
  BY <1>32
  DEF TypeOK, CurrentPid, PcValues, handle_Unchanging, Request, peer, cur, os,
      ids, sets, mpir, threads
<1>33. ASSUME handle_Shutdown
      PROVE  Typed'
  BY <1>33
  DEF TypeOK, CurrentPid, PcValues, handle_Shutdown, Request, peer, cur, os,
      ids, sets, mpir, threads
<1>34. ASSUME WriteResp
      PROVE  Typed'
  BY <1>34
  DEF TypeOK, CurrentPid, PcValues, WriteResp, peer, os, ids, sets, mpir,
      threads
<1>35. ASSUME ReadFails
      PROVE  Typed'
  BY <1>35
  DEF TypeOK, CurrentPid, PcValues, ReadFails, Continue, peer, cur, os, ids,
      sets, mpir, threads
<1>36. ASSUME Cleanup
      PROVE  Typed'
  BY <1>36, TryTermType
  DEF TypeOK, CurrentPid, PcValues, Cleanup, Continue, peer, cur, os, ids,
      mpir
<1>37. ASSUME Exit
      PROVE  Typed'
  BY <1>37
  DEF TypeOK, CurrentPid, PcValues, Exit, peer, cur, os, ids, sets, mpir,
      threads
<1>38. ASSUME UNCHANGED vars
      PROVE  Typed'
  BY <1>38
  DEF TypeOK, CurrentPid, PcValues, vars, peer, cur, os, ids, sets, mpir,
      threads
<1> QED
  BY <1>1, <1>2, <1>3, <1>4, <1>5, <1>6, <1>7, <1>8, <1>9, <1>10, <1>11,
       <1>12, <1>13, <1>14, <1>15, <1>16, <1>17, <1>18, <1>19,
       <1>20, <1>21, <1>22, <1>23, <1>24, <1>25, <1>26, <1>27,
       <1>28, <1>29, <1>30, <1>31, <1>32, <1>33, <1>34, <1>35,
       <1>36, <1>37, <1>38, <1>39, <1>40
  DEF Next, ProcessStep, SignalStep, LaunchStep, AppStep, EndStep, Halted

\* Every variable has its type in every behaviour, for all constants.
THEOREM TypeCorrect == Spec => []TypeOK
<1>1. Spec => []Typed
  BY TypedInit, TypedNext, PTL DEF Spec
<1> QED BY <1>1, PTL DEF Typed

-----------------------------------------------------------------------------
(* The registry.  MapsAgree is not inductive alone: that a fresh id cannot *)
(* already stand in pidIdMap follows from UtilsOwned, which says that ids  *)
(* above lastId are unused; and that pidIdMap.erase(app_pid) takes no      *)
(* other application's entry away follows from ErasedOnce.                 *)

Busy == {"deregPid", "deregTerm", "releasePid", "release"}

\* The id that is being erased was handed out, and no other has its process.
ErasedOnce ==
    /\ pc \in Busy => ~(curId > lastId)
    /\ pc \in {"deregPid", "releasePid"} /\ curPid \in Pids =>
           \A j \in Ids : idPidMap[j] # curPid

Registry == MapsAgree /\ UtilsOwned /\ ErasedOnce

registry == <<lastId, pidIdMap, idPidMap, utilMap, mpirMap, sigchldThreads>>

\* A step of another actor, or of the main thread outside the two erasing handlers.
Aside == \/ UNCHANGED <<pc, cur>>
         \/ pc \notin Busy /\ pc' \notin Busy

\* The empty registry is consistent.
LEMMA RegistryInit == Init => Registry
BY FeDaemonAssumption
DEF Init, Registry, MapsAgree, UtilsOwned, ErasedOnce, Busy, Registered, Ids

\* A step that leaves both maps, the places of the erasing handlers, and what is
\* unused, as they are.
LEMMA RegistryKept ==
    ASSUME Registry, Aside, UNCHANGED ids,
           \A i \in Ids : utilMap'[i] # {} => utilMap[i] # {} \/ Registered(i),
           \A i \in Ids : mpirMap[i] = NoPid => mpirMap'[i] = NoPid,
           \A i \in sigchldThreads' \ sigchldThreads : ~(i > lastId)
    PROVE  Registry'
<1>1. MapsAgree'
  <2>1. CASE UNCHANGED <<pc, cur>>
    BY <2>1, Zenon DEF Registry, MapsAgree, Erasing, ids, cur
  <2>2. CASE pc \notin Busy /\ pc' \notin Busy
    BY <2>2, Zenon DEF Registry, MapsAgree, Busy, ids
  <2> QED BY <2>1, <2>2 DEF Aside
<1>2. UtilsOwned'
  <2>1. \A i \in Ids : Erasing(i) => Erasing(i)'
    BY DEF Aside, Erasing, Busy, cur
  <2> QED BY <2>1, Zenon DEF Registry, UtilsOwned, Registered, ids
<1>3. ErasedOnce'
  <2>1. CASE UNCHANGED <<pc, cur>>
    BY <2>1, Zenon DEF Registry, ErasedOnce, ids, cur
  <2>2. CASE pc \notin Busy /\ pc' \notin Busy
    BY <2>2, Zenon DEF ErasedOnce, Busy
  <2> QED BY <2>1, <2>2 DEF Aside
<1> QED BY <1>1, <1>2, <1>3 DEF Registry

\* A step that leaves the registry alone keeps it consistent.
LEMMA RegistryUnchanged ==
    ASSUME Registry, Aside, UNCHANGED registry PROVE Registry'
BY RegistryKept, Zenon DEF registry, ids

\* An instance of an id above lastId would have to be ZeroPid.
LEMMA RegistryInstances ==
    ASSUME Typed, Registry, NEW p \in Pids, InstancesSeeExit(p), Aside,
           UNCHANGED <<ids, utilMap, sigchldThreads>>
    PROVE  Registry'
<1> USE FeDaemonAssumption
<1>1. \A i \in Ids : mpirMap[i] = NoPid => mpirMap'[i] = NoPid
  BY DEF InstancesSeeExit
<1> QED BY <1>1, RegistryKept, Zenon

\* registerAppPID adds the same pair to both maps, under an id never used before.
LEMMA RegistryApp ==
    ASSUME Typed, Registry, NEW p \in Pids \cup {ZeroPid}, registerAppPID(p),
           UNCHANGED <<utilMap, sigchldThreads>>,
           pc \notin Busy, pc' \notin Busy,
           \A i \in Ids : i > lastId + 1 => mpirMap'[i] = NoPid
    PROVE  Registry'
<1> USE FeDaemonAssumption
<1> DEFINE n == lastId + 1
<1>1. /\ n \in Ids /\ n > lastId /\ lastId' = n /\ lastId \in Nat /\ ~(n <= lastId)
      /\ \A i \in Ids : i \in Nat /\ (i > n => i > lastId)
  BY DEF Typed, TypeOK, registerAppPID, newId, Ids
<1>2. idPidMap[n] = NoPid /\ \A q \in Pids : pidIdMap[q] # n
  <2>1. idPidMap[n] = NoPid
    BY <1>1 DEF Registry, UtilsOwned, Registered
  <2> QED BY <2>1, <1>1 DEF Registry, MapsAgree, Busy, Ids
<1>3. \A i \in Ids : idPidMap'[i] = IF i = n THEN p ELSE idPidMap[i]
  BY <1>1 DEF registerAppPID, newId, Typed, TypeOK
<1>4. \A q \in Pids : pidIdMap'[q] = IF q = p THEN n ELSE pidIdMap[q]
  BY <1>1 DEF registerAppPID, newId, Typed, TypeOK
<1>5. p \in Pids => pidIdMap[p] = 0
  BY DEF registerAppPID, newId, Duplicate
<1>6. \A q \in Pids : pidIdMap[q] \in 0 .. MaxId
  BY DEF Typed, TypeOK
<1>7. MapsAgree'
  <2>1. ASSUME NEW i \in Ids, idPidMap'[i] \in Pids
        PROVE  pidIdMap'[idPidMap'[i]] = i
    BY <1>1, <1>3, <1>4, <1>5, <2>1 DEF Registry, MapsAgree, Ids
  <2>2. ASSUME NEW q \in Pids, pidIdMap'[q] # 0
        PROVE  idPidMap'[pidIdMap'[q]] = q
    BY <1>1, <1>2, <1>3, <1>4, <1>6, <2>2 DEF Registry, MapsAgree, Busy, Ids
  <2> QED BY <2>1, <2>2 DEF MapsAgree
<1>8. UtilsOwned'
  BY <1>1, <1>3 DEF Registry, UtilsOwned, Registered, Erasing, Busy
<1>9. ErasedOnce'
  BY Zenon DEF ErasedOnce, Busy
<1> QED BY <1>7, <1>8, <1>9 DEF Registry

\* extractMPIRResult adds an application, or changes nothing.
LEMMA RegistryExtract ==
    ASSUME Typed, Registry, NEW p \in Pids, NEW next, extractMPIRResult(p, next),
           UNCHANGED <<utilMap, sigchldThreads>>, pc \notin Busy, pc' \notin Busy
    PROVE  Registry'
<1>1. CASE registerAppPID(p)
  <2>1. \A i \in Ids : i > lastId + 1 => mpirMap'[i] = NoPid
    BY <1>1, FeDaemonAssumption DEF extractMPIRResult, registerAppPID, newId, mpir,
       Typed, TypeOK, Registry, UtilsOwned, Ids, ids, Duplicate
  <2> QED BY <1>1, <2>1, RegistryApp
<1>2. CASE UNCHANGED <<ids, mpir>>
  BY <1>2, RegistryUnchanged DEF ids, mpir, registry, Aside
<1> QED BY <1>1, <1>2 DEF extractMPIRResult

\* registerUtilPID adds a utility under a registered id only.
LEMMA RegistryUtil ==
    ASSUME Typed, Registry, NEW i \in Ids, Registered(i), NEW p \in Pids,
           registerUtilPID(i, p), UNCHANGED <<ids, mpirMap>>, Aside
    PROVE  Registry'
<1>1. /\ \A j \in Ids : utilMap'[j] # {} => j = i \/ utilMap[j] # {}
      /\ sigchldThreads' \subseteq sigchldThreads
  BY DEF registerUtilPID, threads, Typed, TypeOK
<1> QED BY <1>1, RegistryKept, Zenon

\* idPidMap.erase: from here on the id is the one in hand.
LEMMA RegistryEraseId ==
    ASSUME Typed, Registry, NEW i \in Ids, EraseId(i), pc = "read",
           pc' \in {"deregPid", "releasePid"}
    PROVE  Registry'
<1> USE FeDaemonAssumption
<1>1. /\ \A j \in Ids : idPidMap'[j] = IF j = i THEN NoPid ELSE idPidMap[j]
      /\ UNCHANGED <<lastId, pidIdMap, utilMap, mpirMap, sigchldThreads>>
      /\ curId' = i /\ curPid' = idPidMap[i]
      /\ idPidMap[i] # NoPid
  BY DEF EraseId, Registered, Typed, TypeOK, sets, mpir, threads
<1>2. MapsAgree'
  <2>1. ASSUME NEW j \in Ids, idPidMap'[j] \in Pids
        PROVE  pidIdMap'[idPidMap'[j]] = j
    BY <1>1, <2>1 DEF Registry, MapsAgree
  <2>2. ASSUME NEW q \in Pids, pidIdMap'[q] # 0
        PROVE  \/ idPidMap'[pidIdMap'[q]] = q
               \/ /\ pc' \in {"deregPid", "releasePid"}
                  /\ curId' = pidIdMap'[q] /\ curPid' = q
    <3>1. pidIdMap[q] \in Ids /\ idPidMap[pidIdMap[q]] = q
      BY <1>1, <2>2 DEF Registry, MapsAgree, Typed, TypeOK, Ids
    <3> QED BY <1>1, <3>1
  <2> QED BY <2>1, <2>2 DEF MapsAgree
<1>3. UtilsOwned'
  BY <1>1 DEF Registry, UtilsOwned, Registered, Erasing
<1>4. ErasedOnce'
  <2>1. ~(i > lastId)
    BY <1>1 DEF Registry, UtilsOwned, Registered
  <2>2. ASSUME curPid' \in Pids, NEW j \in Ids PROVE idPidMap'[j] # curPid'
    BY <1>1, <2>2 DEF Registry, MapsAgree
  <2> QED BY <1>1, <2>1, <2>2 DEF ErasedOnce
<1> QED BY <1>2, <1>3, <1>4 DEF Registry

\* pidIdMap.erase: the maps agree again.
LEMMA RegistryErasePid ==
    ASSUME Typed, Registry, ErasePid PROVE Registry'
<1> USE FeDaemonAssumption
<1>1. /\ \A q \in Pids : pidIdMap'[q] = IF q = curPid THEN 0 ELSE pidIdMap[q]
      /\ UNCHANGED <<lastId, idPidMap, utilMap, mpirMap, sigchldThreads, curId, curPid>>
      /\ pc \in {"deregPid", "releasePid"} /\ pc' \in {"deregTerm", "release"}
  BY DEF ErasePid, sets, mpir, threads, cur
<1>2. MapsAgree'
  <2>1. ASSUME NEW j \in Ids, idPidMap'[j] \in Pids
        PROVE  pidIdMap'[idPidMap'[j]] = j
    BY <1>1, <2>1 DEF Registry, MapsAgree, ErasedOnce
  <2>2. ASSUME NEW q \in Pids, pidIdMap'[q] # 0
        PROVE  idPidMap'[pidIdMap'[q]] = q
    BY <1>1, <2>2 DEF Registry, MapsAgree
  <2> QED BY <2>1, <2>2 DEF MapsAgree
<1>3. UtilsOwned'
  BY <1>1 DEF Registry, UtilsOwned, Registered, Erasing
<1>4. ErasedOnce'
  BY <1>1 DEF Registry, ErasedOnce, Busy
<1> QED BY <1>2, <1>3, <1>4 DEF Registry

\* The utilities go last.
LEMMA RegistryLast ==
    ASSUME Typed, Registry, pc \in {"deregTerm", "release"},
           pc' \in {"dereg", "termWait"}, utilMap' = [utilMap EXCEPT ![curId] = {}],
           UNCHANGED <<cur, ids, mpirMap, sigchldThreads>>
    PROVE  Registry'
<1>1. /\ \A j \in Ids : utilMap'[j] = IF j = curId THEN {} ELSE utilMap[j]
      /\ UNCHANGED <<lastId, pidIdMap, idPidMap, curId, curPid>>
  BY DEF Typed, TypeOK, ids, cur
<1>2. MapsAgree'
  BY <1>1 DEF Registry, MapsAgree
<1>3. UtilsOwned'
  BY <1>1 DEF Registry, UtilsOwned, Registered, Erasing
<1>4. ErasedOnce'
  BY DEF ErasedOnce, Busy
<1> QED BY <1>2, <1>3, <1>4 DEF Registry

\* Every action keeps the registry consistent.
LEMMA RegistryNext == Typed /\ Registry /\ [Next]_vars => Registry'
<1> SUFFICES ASSUME Typed, Registry, [Next]_vars
             PROVE  Registry'
  OBVIOUS
<1> USE FeDaemonAssumption
<1>1. CASE ProcessStep
  <2>1. ASSUME NEW p \in Pids, ProcessExit(p) PROVE Registry'
    BY <2>1, RegistryInstances DEF ProcessExit, sets, threads, Aside
  <2>2. ASSUME NEW t \in terms, TryTermSignal(t) PROVE Registry'
    BY <2>2, RegistryUnchanged DEF TryTermSignal, registry, ids, sets, mpir, Aside
  <2>3. ASSUME NEW t \in terms, TryTermKill(t) PROVE Registry'
    <3>1. t.pid \in Pids
      BY DEF Typed, TypeOK
    <3> QED BY <2>3, <3>1, RegistryInstances DEF TryTermKill, sets, Aside
  <2> QED BY <1>1, <2>1, <2>2, <2>3 DEF ProcessStep
<1>2. CASE SignalStep
  <2>1. ASSUME NEW p \in Pids, sigchld_handler(p) PROVE Registry'
    <3>1. UNCHANGED <<pc, cur, ids, utilMap, mpir>>
      BY <2>1 DEF sigchld_handler
    <3>2. \A i \in sigchldThreads' \ sigchldThreads : i \in Ids /\ utilMap[i] # {}
      BY <2>1, Zenon DEF sigchld_handler
    <3>3. \A i \in Ids : utilMap[i] # {} => ~(i > lastId)
      BY DEF Registry, UtilsOwned, ErasedOnce, Erasing, Busy
    <3> QED BY <3>1, <3>2, <3>3, RegistryKept, Zenon DEF Aside, mpir
  <2>2. ASSUME NEW i \in Ids, SigchldErase(i) PROVE Registry'
    <3>1. /\ UNCHANGED <<pc, cur, ids, mpir>>
          /\ sigchldThreads' \subseteq sigchldThreads
          /\ \A j \in Ids : utilMap'[j] # {} => utilMap[j] # {}
      BY <2>2 DEF SigchldErase, Typed, TypeOK
    <3> QED BY <3>1, RegistryKept, Zenon DEF Aside, mpir
  <2>3. CASE FrontendDies \/ DaemonSigterm \/ TerminateLaunchDone
    BY <2>3, RegistryUnchanged DEF FrontendDies, DaemonSigterm,
       terminate_main_loop, TerminateLaunchDone, registry, ids, sets, mpir, threads,
       Aside
  <2> QED BY <1>2, <2>1, <2>2, <2>3 DEF SignalStep
<1>3. CASE LaunchStep
  <2>1. ASSUME NEW p \in Pids,
               \/ handle_ForkExecvpApp(p)
               \/ \E i \in 0 .. lastId : handle_ForkExecvpUtil(i, p)
               \/ handle_LaunchMPIR(p)
               \/ handle_LaunchMPIRShim(p)
        PROVE  Registry'
    <3>1. Aside
      BY <2>1 DEF handle_ForkExecvpApp, handle_ForkExecvpUtil, handle_LaunchMPIR,
         handle_LaunchMPIRShim, Request, Aside, Busy
    <3> QED
      BY <2>1, <3>1, RegistryUnchanged DEF handle_ForkExecvpApp, handle_ForkExecvpUtil,
         handle_LaunchMPIR, handle_LaunchMPIRShim, registry, ids, sets, mpir, threads
  <2>2. ASSUME NEW p \in Pids, ShimReports(p) PROVE Registry'
    <3>1. pc \notin Busy /\ pc' \notin Busy
      BY <2>2 DEF ShimReports, extractMPIRResult, Continue, Busy
    <3>2. CASE extractMPIRResult(p, "extracted")
      BY <2>2, <3>1, <3>2, RegistryExtract DEF ShimReports, sets, threads
    <3>3. CASE UNCHANGED <<ids, mpir>>
      BY <2>2, <3>1, <3>3, RegistryUnchanged
      DEF ShimReports, registry, ids, sets, mpir, threads, Aside
    <3> QED BY <2>2, <3>2, <3>3 DEF ShimReports
  <2>3. ASSUME NEW p \in Pids, handle_AttachMPIR(p) PROVE Registry'
    <3>1. pc \notin Busy /\ pc' \notin Busy
      BY <2>3 DEF handle_AttachMPIR, extractMPIRResult, Request, Busy
    <3> QED BY <2>3, <3>1, RegistryExtract DEF handle_AttachMPIR, sets, threads
  <2>4. CASE ForkedAppRegister
    <3>1. pc \notin Busy /\ pc' \notin Busy
      BY <2>4 DEF ForkedAppRegister, Continue, Busy
    <3>2. CASE registerAppPID(curPid)
      <4>1. \A i \in Ids : i > lastId + 1 => mpirMap'[i] = NoPid
        BY <2>4 DEF ForkedAppRegister, mpir, Registry, UtilsOwned, Typed, TypeOK, Ids
      <4> QED BY <2>4, <3>1, <3>2, <4>1, RegistryApp
              DEF ForkedAppRegister, Continue, Typed, CurrentPid, sets, threads
    <3>3. CASE UNCHANGED ids
      BY <2>4, <3>1, <3>3, RegistryUnchanged
      DEF ForkedAppRegister, registry, ids, sets, mpir, threads, Aside
    <3> QED BY <2>4, <3>2, <3>3 DEF ForkedAppRegister
  <2>5. CASE ForkedUtilRegister
    <3>1. Aside
      BY <2>5 DEF ForkedUtilRegister, Aside, Busy
    <3>2. CASE curId \in Ids /\ Registered(curId)
      BY <2>5, <3>1, <3>2, RegistryUtil
      DEF ForkedUtilRegister, Verified, Typed, CurrentPid, mpir
    <3>3. CASE UNCHANGED <<utilMap, duty, threads>>
      BY <2>5, <3>1, <3>3, RegistryUnchanged
      DEF ForkedUtilRegister, Verified, registry, ids, mpir, threads
    <3> QED BY <2>5, <3>2, <3>3 DEF ForkedUtilRegister, Verified
  <2>6. CASE LaunchExtract
    <3>1. pc \notin Busy /\ pc' \notin Busy
      BY <2>6 DEF LaunchExtract, extractMPIRResult, Continue, Busy
    <3> QED BY <2>6, <3>1, RegistryExtract
            DEF LaunchExtract, Continue, Typed, CurrentPid, sets, threads
  <2>7. CASE SyncUtilDone \/ LaunchFails \/ LaunchInsert \/ ShimFails
    <3>1. Aside
      BY <2>7 DEF SyncUtilDone, LaunchFails, LaunchInsert, ShimFails, Continue,
         Aside, Busy
    <3> QED BY <2>7, <3>1, RegistryUnchanged DEF SyncUtilDone, LaunchFails,
            LaunchInsert, ShimFails, registry, ids, sets, mpir, threads
  <2> QED BY <1>3, <2>1, <2>2, <2>3, <2>4, <2>5, <2>6, <2>7 DEF LaunchStep
<1>4. CASE AppStep
  <2>1. ASSUME NEW p \in Pids \cup {ZeroPid}, handle_RegisterApp(p)
        PROVE  Registry'
    <3>1. pc \notin Busy /\ pc' \notin Busy
      BY <2>1 DEF handle_RegisterApp, Request, Busy
    <3>2. CASE registerAppPID(p)
      <4>1. \A i \in Ids : i > lastId + 1 => mpirMap'[i] = NoPid
        BY <2>1 DEF handle_RegisterApp, mpir, Registry, UtilsOwned, Typed, TypeOK, Ids
      <4> QED BY <2>1, <3>1, <3>2, <4>1, RegistryApp
              DEF handle_RegisterApp, sets, threads
    <3>3. CASE UNCHANGED ids
      BY <2>1, <3>1, <3>3, RegistryUnchanged
      DEF handle_RegisterApp, registry, ids, sets, mpir, threads, Aside
    <3> QED BY <2>1, <3>2, <3>3 DEF handle_RegisterApp
  <2>2. ASSUME NEW i \in Ids, handle_ReleaseMPIR(i) \/ handle_WaitMPIR(i)
        PROVE  Registry'
    <3>1. \A j \in Ids : mpirMap[j] = NoPid => mpirMap'[j] = NoPid
      BY <2>2 DEF handle_ReleaseMPIR, handle_WaitMPIR, Typed, TypeOK
    <3>2. Aside
      BY <2>2 DEF handle_ReleaseMPIR, handle_WaitMPIR, Request, Aside, Busy
    <3>3. UNCHANGED <<ids, utilMap, sigchldThreads>>
      BY <2>2 DEF handle_ReleaseMPIR, handle_WaitMPIR, sets, threads
    <3> QED BY <3>1, <3>2, <3>3, RegistryKept, Zenon
  <2>3. CASE TerminateMPIRDone
    <3>1. \A j \in Ids : mpirMap[j] = NoPid => mpirMap'[j] = NoPid
      BY <2>3 DEF TerminateMPIRDone, Typed, TypeOK
    <3>2. Aside
      BY <2>3 DEF TerminateMPIRDone, Continue, Aside, Busy
    <3>3. UNCHANGED <<ids, utilMap, sigchldThreads>>
      BY <2>3 DEF TerminateMPIRDone, sets, threads
    <3> QED BY <3>1, <3>2, <3>3, RegistryKept, Zenon
  <2>4. ASSUME NEW i \in Ids, handle_TerminateMPIR(i) PROVE Registry'
    BY <2>4, RegistryUnchanged
    DEF handle_TerminateMPIR, Request, registry, ids, sets, mpir, threads, Aside, Busy
  <2>5. ASSUME NEW i \in Ids, NEW p \in Pids, handle_RegisterUtil(i, p)
        PROVE  Registry'
    BY <2>5, RegistryUtil DEF handle_RegisterUtil, Request, Verified, mpir, Aside, Busy
  <2>6. ASSUME NEW i \in Ids, handle_DeregisterApp(i) \/ handle_ReleaseApp(i)
        PROVE  Registry'
    BY <2>6, RegistryEraseId DEF handle_DeregisterApp, handle_ReleaseApp, Request
  <2>7. CASE ErasePid
    BY <2>7, RegistryErasePid
  <2>8. CASE DeregTerm
    BY <2>8, RegistryLast DEF DeregTerm, Continue, mpir
  <2>9. CASE ReleaseFinish
    BY <2>9, RegistryLast DEF ReleaseFinish, Continue, mpir
  <2>10. CASE \/ DeregErase \/ TermWaitDone \/ handle_Unchanging
             \/ handle_Shutdown \/ WriteResp
    <3>1. Aside
      BY <2>10 DEF DeregErase, TermWaitDone, handle_Unchanging, handle_Shutdown,
         WriteResp, Continue, Request, Aside, Busy
    <3> QED BY <2>10, <3>1, RegistryUnchanged DEF DeregErase, TermWaitDone,
            handle_Unchanging, handle_Shutdown, WriteResp, registry, ids, sets, mpir,
            threads
  <2> QED BY <1>4, <2>1, <2>2, <2>3, <2>4, <2>5, <2>6, <2>7, <2>8, <2>9, <2>10
          DEF AppStep
<1>5. CASE EndStep
  <2>1. CASE Cleanup
    <3>1. Aside /\ UNCHANGED <<ids, mpir, sigchldThreads>>
      BY <2>1 DEF Cleanup, Continue, Aside, Busy
    <3>2. \A i \in Ids : utilMap'[i] = {}
      BY <2>1, Zenon DEF Cleanup
    <3> QED BY <3>1, <3>2, RegistryKept, Zenon DEF mpir
  <2>2. CASE ReadFails \/ Exit \/ Halted
    <3>1. Aside
      BY <2>2 DEF ReadFails, Exit, Halted, Continue, vars, Aside, Busy
    <3> QED BY <2>2, <3>1, RegistryUnchanged
            DEF ReadFails, Exit, Halted, vars, registry, ids, sets, mpir, threads
  <2> QED BY <1>5, <2>1, <2>2 DEF EndStep
<1>6. CASE UNCHANGED vars
  BY <1>6, RegistryUnchanged DEF vars, registry, ids, sets, mpir, threads, Aside
<1> QED BY <1>1, <1>2, <1>3, <1>4, <1>5, <1>6 DEF Next

\* The two maps of the registry agree in every behaviour of the daemon, so the
\* SIGCHLD handler and deregistration act on the same application.
THEOREM MapsAgreeCorrect == Spec => []MapsAgree
<1>1. Spec => [](Typed /\ Registry)
  BY TypedInit, TypedNext, RegistryInit, RegistryNext, PTL DEF Spec
<1> QED BY <1>1, PTL DEF Registry

\* Utilities belong to registered applications, and an id that newId() has not
\* handed out is in no map and in no erasing thread.
THEOREM UtilsOwnedCorrect == Spec => []UtilsOwned
<1>1. Spec => [](Typed /\ Registry)
  BY TypedInit, TypedNext, RegistryInit, RegistryNext, PTL DEF Spec
<1> QED BY <1>1, PTL DEF Registry

-----------------------------------------------------------------------------
(* The id in an MPIR response.  It is written two steps after it was       *)
(* handed out, or never set: the loop starts every request with id 0.      *)

CurrentId ==
    /\ pc \in {"read", "breakpoint", "shimRead"} => curId = 0
    /\ pc \in {"extracted", "respondMpir"} /\ curId # 0 =>
           curId \in Ids /\ Registered(curId)

\* No request has been read in the initial state.
LEMMA CurrentIdInit == Init => CurrentId
BY DEF Init, CurrentId

\* A step that stays where it is and keeps the id and the registry.
LEMMA CurrentIdKept ==
    ASSUME CurrentId, UNCHANGED <<pc, curId, idPidMap>>
    PROVE  CurrentId'
BY DEF CurrentId, Registered

\* extractMPIRResult leaves 0 or the id that it has just registered.
LEMMA CurrentIdExtract ==
    ASSUME Typed, NEW p \in Pids, NEW next \in {"extracted", "respondMpir"},
           extractMPIRResult(p, next)
    PROVE  CurrentId'
<1> USE FeDaemonAssumption
<1>1. pc' \in {"extracted", "respondMpir"}
  BY DEF extractMPIRResult
<1>2. CASE curId' = 0
  BY <1>1, <1>2 DEF CurrentId
<1>3. CASE registerAppPID(p) /\ curId' = lastId'
  <2>1. lastId' = lastId + 1 /\ lastId + 1 \in Ids
    BY <1>3 DEF registerAppPID, newId, Typed, TypeOK, Ids
  <2>2. idPidMap'[lastId + 1] = p
    BY <1>3, <2>1 DEF registerAppPID, newId, Typed, TypeOK
  <2> QED BY <1>1, <1>3, <2>1, <2>2 DEF CurrentId, Registered
<1> QED BY <1>2, <1>3 DEF extractMPIRResult

\* One step per group of actions that reach a place CurrentId speaks of.
LEMMA CurrentIdNext == Typed /\ CurrentId /\ [Next]_vars => CurrentId'
<1> SUFFICES ASSUME Typed, CurrentId, [Next]_vars
             PROVE  CurrentId'
  OBVIOUS
<1>1. CASE ProcessStep \/ SignalStep \/ UNCHANGED vars
  <2>1. UNCHANGED <<pc, curId, idPidMap>>
    BY <1>1, Zenon DEF ProcessStep, SignalStep, ProcessExit, TryTermSignal, TryTermKill,
       sigchld_handler, SigchldErase, FrontendDies, DaemonSigterm,
       terminate_main_loop, TerminateLaunchDone, cur, ids, vars
  <2> QED BY <2>1, CurrentIdKept
<1>2. CASE LaunchStep
  <2>1. ASSUME NEW p \in Pids, NEW i \in 0 .. lastId,
               handle_ForkExecvpApp(p) \/ handle_ForkExecvpUtil(i, p)
        PROVE  CurrentId'
    BY <2>1 DEF handle_ForkExecvpApp, handle_ForkExecvpUtil, CurrentId
  <2>2. ASSUME NEW p \in Pids, handle_LaunchMPIR(p) \/ handle_LaunchMPIRShim(p)
        PROVE  CurrentId'
    BY <2>2 DEF handle_LaunchMPIR, handle_LaunchMPIRShim, Request, cur, CurrentId
  <2>3. ASSUME NEW p \in Pids, ShimReports(p) PROVE CurrentId'
    <3>1. CASE extractMPIRResult(p, "extracted")
      BY <3>1, CurrentIdExtract
    <3>2. CASE pc' = "respondMpir" /\ curId' = 0
      BY <3>2 DEF CurrentId
    <3> QED BY <2>3, <3>1, <3>2 DEF ShimReports
  <2>4. ASSUME NEW p \in Pids, handle_AttachMPIR(p) PROVE CurrentId'
    BY <2>4, CurrentIdExtract DEF handle_AttachMPIR
  <2>5. CASE LaunchExtract
    <3>1. curPid \in Pids
      BY <2>5 DEF LaunchExtract, Continue, Typed, CurrentPid
    <3> QED BY <2>5, <3>1, CurrentIdExtract DEF LaunchExtract
  <2>6. CASE LaunchInsert
    BY <2>6 DEF LaunchInsert, Continue, cur, ids, CurrentId, Registered
  <2>7. CASE \/ ForkedAppRegister \/ ForkedUtilRegister \/ SyncUtilDone
             \/ LaunchFails \/ ShimFails
    BY <2>7, Zenon DEF ForkedAppRegister, ForkedUtilRegister, SyncUtilDone, LaunchFails,
       ShimFails, CurrentId
  <2> QED BY <1>2, <2>1, <2>2, <2>3, <2>4, <2>5, <2>6, <2>7, FeDaemonAssumption
          DEF LaunchStep, Typed, TypeOK
<1>3. CASE AppStep
  <2>1. CASE handle_Unchanging
    BY <2>1 DEF handle_Unchanging, Request, cur, CurrentId
  <2>2. CASE WriteResp
    BY <2>2 DEF WriteResp, CurrentId
  <2>3. CASE AppStep /\ ~handle_Unchanging /\ ~WriteResp
    <3>1. pc' \notin {"read", "breakpoint", "shimRead", "extracted", "respondMpir"}
      BY <2>3, Zenon DEF AppStep, handle_RegisterApp, handle_ReleaseMPIR,
         handle_WaitMPIR, handle_TerminateMPIR, handle_RegisterUtil,
         handle_DeregisterApp, handle_ReleaseApp, TerminateMPIRDone, ErasePid,
         DeregTerm, DeregErase, ReleaseFinish, TermWaitDone, handle_Shutdown
    <3> QED BY <3>1 DEF CurrentId
  <2> QED BY <1>3, <2>1, <2>2, <2>3
<1>4. CASE EndStep
  <2>1. CASE Halted
    BY <2>1, CurrentIdKept DEF Halted, vars, cur, ids
  <2>2. CASE ReadFails \/ Cleanup \/ Exit
    BY <2>2, Zenon DEF ReadFails, Cleanup, Exit, CurrentId
  <2> QED BY <1>4, <2>1, <2>2 DEF EndStep
<1> QED BY <1>1, <1>2, <1>3, <1>4 DEF Next

\* Every id that readMPIRResp takes for a success belongs to an application that
\* the daemon still has in its registry when it answers.
THEOREM MPIRRespHonestCorrect == Spec => []MPIRRespHonest
<1>1. Spec => [](Typed /\ CurrentId)
  BY TypedInit, TypedNext, CurrentIdInit, CurrentIdNext, PTL DEF Spec
<1>2. CurrentId => MPIRRespHonest
  BY DEF CurrentId, MPIRRespHonest, readMPIRRespAccepts
<1> QED BY <1>1, <1>2, PTL


-----------------------------------------------------------------------------
(***************************************************************************)
(* Supervision: nothing that the daemon took charge of escapes it.         *)
(***************************************************************************)

\* A pid that is free carries no duty of its former owner.
FreePids == \A p \in Pids : proc[p] = "none" => duty[p] = "none"

\* The process of a pending SIGCHLD has ended, and its pid is not given to
\* another before the handler has run.
ChldEnded == pendingChld \in Pids => ~Running(pendingChld)

\* Between starting the thread and appCleanupList.erase, the application that is
\* deregistered has a tryTerm thread.
DeregDoomed ==
    pc = "dereg" /\ duty[curPid] = "app" /\ Running(curPid) => Doomed(curPid)

\* After utilMap.clear() and appCleanupList.clear() nothing is added any more.
ListsEmpty ==
    pc \in {"cleanupWait", "exited"} =>
        appCleanupList = {} /\ \A i \in Ids : utilMap[i] = {}

ThreadsDone == pc = "exited" => terms = {} /\ sigchldThreads = {}

\* What makes AppsSupervised inductive.
Bookkeeping == FreePids /\ ChldEnded /\ DeregDoomed /\ ListsEmpty /\ ThreadsDone

Supervised == Bookkeeping /\ AppsSupervised

\* Nothing is supervised in the initial state.
LEMMA SupervisedInit == Init => Supervised
<1> USE FeDaemonAssumption
<1> QED BY DEF Init, Supervised, Bookkeeping, FreePids, ChldEnded, DeregDoomed,
               ListsEmpty, ThreadsDone, AppsSupervised

\* A step that gives no live process a new duty, and that moves what it takes off
\* a list to a tryTerm thread, keeps every process supervised.
LEMMA SupervisionKept ==
    ASSUME Typed, Supervised,
           \A p \in Pids : Running(p)' =>
               \/ duty'[p] \in {"none", "released"}
               \/ Running(p) /\ duty'[p] = duty[p],
           \A p \in Pids : Running(p)' /\ Doomed(p) => Doomed(p)',
           \A p \in appCleanupList : Running(p)' /\ duty'[p] = "app" =>
               p \in appCleanupList' \/ Doomed(p)'
    PROVE  AppsSupervised'
BY DEF Supervised, AppsSupervised

\* A step that leaves the processes, the lists and the threads as they are, and
\* the main thread outside the places that Bookkeeping speaks of.
LEMMA SupervisedUnchanged ==
    ASSUME Typed, Supervised, UNCHANGED <<os, sets, threads>>,
           \/ pc' \notin {"dereg", "cleanupWait", "exited"}
           \/ UNCHANGED <<pc, cur>>
    PROVE  Supervised'
BY DEF os, sets, threads, cur, Supervised, Bookkeeping, FreePids, ChldEnded,
       DeregDoomed, ListsEmpty, ThreadsDone, AppsSupervised,
       Running, Doomed

\* A new process has no duty.
LEMMA SupervisedFork ==
    ASSUME Typed, Supervised, NEW p \in Pids, proc[p] = "none", pendingChld = NoPid,
           NEW s \in {"child", "other"}, proc' = [proc EXCEPT ![p] = s],
           UNCHANGED <<pendingChld, duty, sets, threads>>,
           pc' \notin {"dereg", "cleanupWait", "exited"}
    PROVE  Supervised'
<1> USE FeDaemonAssumption
<1>1. Bookkeeping'
  BY DEF Supervised, Bookkeeping, FreePids, ChldEnded, DeregDoomed, ListsEmpty,
         ThreadsDone, Typed, TypeOK
<1>2. /\ \A q \in Pids : Running(q)' =>
               \/ duty'[q] \in {"none", "released"}
               \/ Running(q) /\ duty'[q] = duty[q]
      /\ \A q \in Pids : Running(q)' /\ Doomed(q) => Doomed(q)'
  BY DEF Supervised, Bookkeeping, FreePids, Typed, TypeOK, Running, Doomed, threads
<1> QED BY <1>1, <1>2, SupervisionKept DEF Supervised, sets

\* Collecting a process that has ended, or that is killed, frees its pid.
LEMMA SupervisedReap ==
    ASSUME Typed, Supervised, NEW p \in Pids, Reap(p),
           UNCHANGED <<pendingChld, sets, threads>>,
           pc' \notin {"dereg", "cleanupWait", "exited"} \/ UNCHANGED <<pc, cur>>
    PROVE  Supervised'
<1>1. Bookkeeping'
  BY DEF Reap, Supervised, Bookkeeping, FreePids, ChldEnded, DeregDoomed,
         ListsEmpty, ThreadsDone, Typed, TypeOK, sets, threads, cur, Running, Doomed
<1>2. /\ \A q \in Pids : Running(q)' =>
               \/ duty'[q] \in {"none", "released"}
               \/ Running(q) /\ duty'[q] = duty[q]
      /\ \A q \in Pids : Running(q)' /\ Doomed(q) => Doomed(q)'
  BY DEF Reap, Typed, TypeOK, Running, Doomed, threads
<1> QED BY <1>1, <1>2, SupervisionKept DEF Supervised, sets

\* registerUtilPID keeps the applications supervised, even when the insertion
\* races with an erasing thread.
LEMMA SupervisedUtil ==
    ASSUME Typed, Supervised, NEW i \in Ids, NEW p \in Pids, registerUtilPID(i, p),
           UNCHANGED <<proc, pendingChld, appCleanupList>>,
           pc \notin {"cleanupWait", "exited"},
           pc' \notin {"dereg", "cleanupWait", "exited"}
    PROVE  Supervised'
<1>1. \A q \in Pids : Running(q)' = Running(q)
  BY DEF Running
<1>2. /\ duty' = [duty EXCEPT ![p] = IF Running(p) THEN "util" ELSE @]
      /\ terms \subseteq terms'
  BY DEF registerUtilPID, threads
<1>3. \A q \in Pids : Doomed(q) => Doomed(q)'
  BY <1>2 DEF Doomed
<1>4. Bookkeeping'
  BY <1>1, <1>2 DEF Supervised, Bookkeeping, FreePids, ChldEnded, DeregDoomed,
     ListsEmpty, ThreadsDone, Typed, TypeOK, Running
<1>5. AppsSupervised'
  BY <1>1, <1>2, <1>3 DEF Supervised, AppsSupervised, Typed, TypeOK
<1> QED BY <1>4, <1>5 DEF Supervised

\* Applications that a handler takes off the list have a tryTerm thread from the
\* same step on.
LEMMA SupervisedMove ==
    ASSUME Typed, Supervised, UNCHANGED os,
           terms \subseteq terms',
           \A p \in appCleanupList : p \in appCleanupList' \/ Doomed(p)',
           ListsEmpty', ThreadsDone', DeregDoomed'
    PROVE  Supervised'
<1>1. Bookkeeping'
  BY DEF os, Supervised, Bookkeeping, FreePids, ChldEnded, Running
<1>2. /\ \A q \in Pids : Running(q)' => Running(q) /\ duty'[q] = duty[q]
      /\ \A q \in Pids : Running(q)' /\ Doomed(q) => Doomed(q)'
  BY DEF os, Running, Doomed
<1> QED BY <1>1, <1>2, SupervisionKept DEF Supervised

\* The processes that TryTerm is started for are doomed.
LEMMA TryTermDooms ==
    ASSUME NEW ps, NEW w, TryTerm(ps, w) \subseteq terms'
    PROVE  \A p \in ps : Doomed(p)'
<1> TAKE p \in ps
<1>1. [pid |-> p, stage |-> "signal", waiter |-> w] \in terms'
  BY DEF TryTerm
<1> QED BY <1>1 DEF Doomed

\* One step per action of the daemon.
LEMMA SupervisedNext == Typed /\ Supervised /\ [Next]_vars => Supervised'
<1> SUFFICES ASSUME Typed, Supervised, [Next]_vars
             PROVE  Supervised'
  OBVIOUS
<1> USE FeDaemonAssumption
<1>1. CASE ProcessStep
  <2>1. ASSUME NEW p \in Pids, ProcessExit(p) PROVE Supervised'
    <3>1. /\ UNCHANGED <<pc, cur, sets, threads>>
          /\ pc # "exited"
      BY <2>1 DEF ProcessExit, Gone
    <3>2. CASE proc[p] = "other" /\ Reap(p) /\ UNCHANGED pendingChld
      BY <3>1, <3>2, SupervisedReap
    <3>3. CASE /\ proc' = [proc EXCEPT ![p] = "zombie"]
               /\ pendingChld' \in {pendingChld, p}
               /\ UNCHANGED duty
      <4>1. Bookkeeping'
        BY <3>1, <3>3 DEF Supervised, Bookkeeping, FreePids, ChldEnded,
           DeregDoomed, ListsEmpty, ThreadsDone, Typed, TypeOK, sets, threads, cur,
           Running, Doomed
      <4>2. \A q \in Pids : Running(q)' => Running(q)
        BY <3>3 DEF Typed, TypeOK, Running
      <4> QED BY <3>1, <3>3, <4>1, <4>2 DEF Supervised, AppsSupervised, sets, threads, Doomed
    <3> QED BY <2>1, <3>2, <3>3 DEF ProcessExit
  <2>2. ASSUME NEW t \in terms, TryTermSignal(t) PROVE Supervised'
    <3>1. t.pid \in Pids
      BY DEF Typed, TypeOK
    <3>2. \A p \in Pids : Running(p) /\ Doomed(p) => Doomed(p)'
      <4> SUFFICES ASSUME NEW p \in Pids, Running(p), NEW u \in terms, u.pid = p
                   PROVE  Doomed(p)'
        BY DEF Doomed
      <4>1. CASE u # t
        BY <2>2, <4>1 DEF TryTermSignal, Doomed
      <4>2. CASE u = t
        <5>1. [pid |-> p, stage |-> "kill", waiter |-> t.waiter] \in terms'
          BY <2>2, <4>2 DEF TryTermSignal, Running
        <5> QED BY <5>1 DEF Doomed
      <4> QED BY <4>1, <4>2
    <3>3. UNCHANGED <<pc, cur, os, sets, sigchldThreads>> /\ pc # "exited"
      BY <2>2 DEF TryTermSignal, Gone
    <3>4. Bookkeeping'
      BY <3>2, <3>3 DEF Supervised, Bookkeeping, FreePids, ChldEnded, DeregDoomed,
         ListsEmpty, ThreadsDone, os, sets, cur, Running, Typed, CurrentPid
    <3> QED BY <3>2, <3>3, <3>4 DEF Supervised, AppsSupervised,
               os, sets, Running
  <2>3. ASSUME NEW t \in terms, TryTermKill(t) PROVE Supervised'
    <3>1. t.pid \in Pids
      BY DEF Typed, TypeOK
    <3>2. /\ UNCHANGED <<pc, cur, pendingChld, sets, sigchldThreads>>
          /\ pc # "exited"
          /\ Reap(t.pid)
          /\ terms' = terms \ {t}
      BY <2>3 DEF TryTermKill, Gone
    <3>3. \A p \in Pids : Running(p)' => p # t.pid /\ Running(p) /\ duty'[p] = duty[p]
      BY <3>1, <3>2 DEF Reap, Running, Typed, TypeOK
    <3>4. \A p \in Pids : Running(p)' /\ Doomed(p) => Doomed(p)'
      BY <3>2, <3>3, Zenon DEF Doomed
    <3>5. Bookkeeping'
      BY <3>1, <3>2, <3>3, <3>4 DEF Supervised, Bookkeeping, FreePids, ChldEnded,
         DeregDoomed, ListsEmpty, ThreadsDone, sets, cur, Reap, Typed, TypeOK,
         CurrentPid
    <3> QED BY <3>2, <3>3, <3>4, <3>5, SupervisionKept DEF Supervised, sets
  <2> QED BY <1>1, <2>1, <2>2, <2>3 DEF ProcessStep
<1>2. CASE SignalStep
  <2>1. ASSUME NEW p \in Pids, sigchld_handler(p) PROVE Supervised'
    <3>1. /\ pendingChld = p /\ pendingChld' = NoPid
          /\ UNCHANGED <<pc, cur, utilMap, terms>>
          /\ appCleanupList' \in {appCleanupList, appCleanupList \ {p}}
          /\ Reap(p) \/ UNCHANGED <<proc, duty>>
          /\ pc \notin {"exited", "cleanupWait"}
      BY <2>1 DEF sigchld_handler, Gone
    <3>2. ~Running(p)
      BY <3>1 DEF Supervised, Bookkeeping, ChldEnded
    <3>3. \A q \in Pids : Running(q)' => q # p /\ Running(q) /\ duty'[q] = duty[q]
      BY <3>1, <3>2 DEF Reap, Running, Typed, TypeOK
    <3>4. Bookkeeping'
      BY <3>1, <3>3 DEF Supervised, Bookkeeping, FreePids, ChldEnded,
         DeregDoomed, ListsEmpty, ThreadsDone, cur, Reap, Typed, TypeOK,
         CurrentPid, Doomed
    <3> QED BY <3>1, <3>3, <3>4 DEF Supervised, AppsSupervised,
               Doomed
  <2>2. ASSUME NEW i \in Ids, SigchldErase(i) PROVE Supervised'
    <3>1. \A p \in utilMap[i] : Doomed(p)'
      BY <2>2, TryTermDooms DEF SigchldErase
    <3>2. \A j \in Ids : utilMap'[j] = IF j = i THEN {} ELSE utilMap[j]
      BY <2>2 DEF SigchldErase, Typed, TypeOK
    <3>3. ListsEmpty' /\ ThreadsDone' /\ DeregDoomed'
      BY <2>2, <3>2 DEF SigchldErase, Gone, Supervised, Bookkeeping, ListsEmpty,
         ThreadsDone, DeregDoomed, Doomed, Running, os, cur
    <3> QED BY <2>2, <3>1, <3>2, <3>3, SupervisedMove DEF SigchldErase
  <2>3. CASE FrontendDies \/ DaemonSigterm
    BY <2>3, SupervisedUnchanged DEF FrontendDies, DaemonSigterm, terminate_main_loop
  <2>4. CASE TerminateLaunchDone
    <3>1. CASE launchingInstance \in Pids
      BY <2>4, <3>1, SupervisedReap DEF TerminateLaunchDone
    <3>2. CASE launchingInstance \notin Pids
      <4>1. UNCHANGED <<os, sets, threads, pc, cur>>
        BY <2>4, <3>2 DEF TerminateLaunchDone, Reap, os, Typed, TypeOK
      <4> QED BY <4>1, SupervisedUnchanged
    <3> QED BY <3>1, <3>2
  <2> QED BY <1>2, <2>1, <2>2, <2>3, <2>4 DEF SignalStep
<1>3. CASE LaunchStep
  <2>1. ASSUME NEW p \in Pids,
               \/ handle_ForkExecvpApp(p)
               \/ \E i \in 0 .. lastId : handle_ForkExecvpUtil(i, p)
               \/ handle_LaunchMPIR(p)
               \/ handle_LaunchMPIRShim(p)
        PROVE  Supervised'
    <3>1. /\ Forked(p) /\ pendingChld = NoPid
          /\ UNCHANGED <<pendingChld, duty, sets, threads>>
          /\ pc' \notin {"dereg", "cleanupWait", "exited"}
      BY <2>1 DEF handle_ForkExecvpApp, handle_ForkExecvpUtil, handle_LaunchMPIR,
         handle_LaunchMPIRShim, Request, Settled
    <3> QED BY <3>1, SupervisedFork, Zenon DEF Forked
  <2>2. ASSUME NEW p \in Pids, ShimReports(p) PROVE Supervised'
    <3>1. pc' \notin {"dereg", "cleanupWait", "exited"}
      BY <2>2 DEF ShimReports, extractMPIRResult
    <3> QED BY <2>2, <3>1, SupervisedFork, Zenon DEF ShimReports, Continue, Settled
  <2>3. ASSUME NEW p \in Pids, handle_AttachMPIR(p) PROVE Supervised'
    BY <2>3, SupervisedUnchanged DEF handle_AttachMPIR, extractMPIRResult
  <2>4. CASE ForkedUtilRegister
    <3>1. CASE curId \in Ids /\ Registered(curId)
      <4>1. curPid \in Pids
        BY <2>4 DEF ForkedUtilRegister, Verified, Typed, CurrentPid
      <4> QED BY <2>4, <3>1, <4>1, SupervisedUtil DEF ForkedUtilRegister, Verified
    <3>2. CASE ~(curId \in Ids /\ Registered(curId))
      BY <2>4, <3>2, SupervisedUnchanged DEF ForkedUtilRegister, Verified, os, sets
    <3> QED BY <3>1, <3>2
  <2>5. CASE SyncUtilDone
    <3>1. curPid \in Pids
      BY <2>5 DEF SyncUtilDone, Continue, Typed, CurrentPid
    <3> QED BY <2>5, <3>1, SupervisedReap DEF SyncUtilDone
  <2>6. CASE LaunchInsert
    <3>1. /\ duty' = [duty EXCEPT ![curPid] = IF Running(curPid) THEN "app" ELSE @]
          /\ appCleanupList' = appCleanupList \cup {curPid}
          /\ UNCHANGED <<proc, pendingChld, utilMap, threads>>
          /\ pc = "extracted" /\ pc' = "respondMpir"
      BY <2>6 DEF LaunchInsert, Continue
    <3>2. \A q \in Pids : Running(q)' = Running(q)
      BY <3>1 DEF Running
    <3>3. Bookkeeping'
      BY <3>1, <3>2 DEF Supervised, Bookkeeping, FreePids, ChldEnded, DeregDoomed,
         ListsEmpty, ThreadsDone, Typed, TypeOK, Running
    <3>4. \A q \in Pids : duty'[q] # "app" => duty'[q] = duty[q]
      BY <3>1 DEF Typed, TypeOK
    <3>5. \A q \in Pids : duty'[q] = "app" => q = curPid \/ duty[q] = "app"
      BY <3>1 DEF Typed, TypeOK
    <3> QED BY <3>1, <3>2, <3>3, <3>4, <3>5 DEF Supervised, AppsSupervised, Doomed, threads
  <2>7. CASE ForkedAppRegister \/ LaunchFails \/ LaunchExtract \/ ShimFails
    BY <2>7, SupervisedUnchanged DEF ForkedAppRegister, LaunchFails, LaunchExtract,
       ShimFails, extractMPIRResult
  <2> QED BY <1>3, <2>1, <2>2, <2>3, <2>4, <2>5, <2>6, <2>7 DEF LaunchStep
<1>4. CASE AppStep
  <2>1. ASSUME NEW i \in Ids, NEW p \in Pids, handle_RegisterUtil(i, p)
        PROVE  Supervised'
    BY <2>1, SupervisedUtil DEF handle_RegisterUtil, Request
  <2>2. CASE DeregTerm
    <3> DEFINE listed == {curPid} \cap appCleanupList
    <3>1. /\ terms' = terms \cup TryTerm(utilMap[curId] \cup listed, "main")
          /\ pc' = IF curPid \in appCleanupList THEN "dereg" ELSE "termWait"
          /\ UNCHANGED <<curPid, os, appCleanupList>>
      BY <2>2 DEF DeregTerm, cur
    <3>2. \A p \in utilMap[curId] \cup listed : Doomed(p)'
      BY <3>1, TryTermDooms
    <3>3. ListsEmpty' /\ ThreadsDone' /\ DeregDoomed'
      BY <3>1, <3>2, Zenon DEF ListsEmpty, ThreadsDone, DeregDoomed
    <3> QED BY <3>1, <3>2, <3>3, SupervisedMove
  <2>3. CASE DeregErase
    <3>1. /\ appCleanupList' = appCleanupList \ {curPid}
          /\ UNCHANGED <<os, utilMap, threads>>
          /\ pc = "dereg" /\ pc' = "termWait"
      BY <2>3 DEF DeregErase, Continue
    <3>2. Bookkeeping'
      BY <3>1 DEF Supervised, Bookkeeping, FreePids, ChldEnded, DeregDoomed,
         ListsEmpty, ThreadsDone, os, Running
    <3>3. duty[curPid] = "app" /\ Running(curPid) => Doomed(curPid)
      BY <3>1 DEF Supervised, Bookkeeping, DeregDoomed
    <3> QED BY <3>1, <3>2, <3>3, Zenon DEF Supervised, AppsSupervised,
               os, threads, Running, Doomed
  <2>4. CASE ReleaseFinish
    <3>1. /\ terms \subseteq terms'
          /\ appCleanupList' = appCleanupList \ {curPid}
          /\ pc' = "termWait"
          /\ UNCHANGED <<proc, pendingChld>>
          /\ duty' = [p \in Pids |-> IF p = curPid /\ duty[p] = "app"
                                     THEN "released" ELSE duty[p]]
      BY <2>4 DEF ReleaseFinish, release
    <3>2. Bookkeeping'
      BY <3>1 DEF Supervised, Bookkeeping, FreePids, ChldEnded, DeregDoomed,
         ListsEmpty, ThreadsDone, Running
    <3>3. \A p \in Pids : Running(p)' =>
              \/ duty'[p] \in {"none", "released"}
              \/ Running(p) /\ duty'[p] = duty[p]
      BY <3>1 DEF Running
    <3>4. \A p \in Pids : Running(p)' /\ Doomed(p) => Doomed(p)'
      BY <3>1 DEF Doomed
    <3>5. \A p \in appCleanupList : Running(p)' /\ duty'[p] = "app" =>
              p \in appCleanupList' \/ Doomed(p)'
      BY <3>1 DEF Typed, TypeOK
    <3> QED BY <3>2, <3>3, <3>4, <3>5, SupervisionKept, Zenon DEF Supervised
  <2>5. CASE TerminateMPIRDone
    <3>1. CASE curPid \in Pids /\ proc[curPid] # "other"
      BY <2>5, <3>1, SupervisedReap DEF TerminateMPIRDone
    <3>2. CASE ~(curPid \in Pids /\ proc[curPid] # "other")
      BY <2>5, <3>2, SupervisedUnchanged DEF TerminateMPIRDone, os
    <3> QED BY <3>1, <3>2
  <2>6. ASSUME NEW i \in Ids,
               \/ handle_ReleaseMPIR(i)
               \/ handle_WaitMPIR(i)
               \/ handle_TerminateMPIR(i)
        PROVE  Supervised'
    BY <2>6, SupervisedUnchanged
    DEF handle_ReleaseMPIR, handle_WaitMPIR, handle_TerminateMPIR
  <2>7. ASSUME NEW p \in Pids \cup {ZeroPid}, handle_RegisterApp(p) PROVE Supervised'
    BY <2>7, SupervisedUnchanged DEF handle_RegisterApp
  <2>8. CASE TermWaitDone \/ handle_Unchanging \/ handle_Shutdown \/ WriteResp
    BY <2>8, SupervisedUnchanged
    DEF TermWaitDone, handle_Unchanging, handle_Shutdown, WriteResp
  <2>9. ASSUME NEW i \in Ids, handle_DeregisterApp(i) \/ handle_ReleaseApp(i)
        PROVE  Supervised'
    BY <2>9, SupervisedUnchanged DEF handle_DeregisterApp, handle_ReleaseApp, EraseId
  <2>10. CASE ErasePid
    BY <2>10, SupervisedUnchanged DEF ErasePid
  <2> QED BY <1>4, <2>1, <2>2, <2>3, <2>4, <2>5, <2>6, <2>7, <2>8, <2>9, <2>10
          DEF AppStep
<1>5. CASE EndStep
  <2>1. CASE Cleanup
    <3> DEFINE all == appCleanupList \cup UNION {utilMap[i] : i \in Ids}
    <3>1. /\ terms' = terms \cup TryTerm(all, "main")
          /\ utilMap' = [i \in Ids |-> {}]
          /\ appCleanupList' = {}
          /\ pc' = "cleanupWait"
          /\ UNCHANGED os
      BY <2>1, Zenon DEF Cleanup
    <3>2. \A p \in all : Doomed(p)'
      BY <3>1, TryTermDooms, Zenon
    <3>3. ListsEmpty' /\ ThreadsDone' /\ DeregDoomed'
      BY <3>1 DEF ListsEmpty, ThreadsDone, DeregDoomed
    <3> QED BY <3>1, <3>2, <3>3, SupervisedMove, Zenon
  <2>2. CASE Exit
    BY <2>2, Zenon DEF Exit, os, sets, threads, Supervised, Bookkeeping, FreePids,
       ChldEnded, DeregDoomed, ListsEmpty, ThreadsDone, AppsSupervised, Running, Doomed
  <2>3. CASE ReadFails \/ Halted
    BY <2>3, SupervisedUnchanged DEF ReadFails, Halted, vars
  <2> QED BY <1>5, <2>1, <2>2, <2>3 DEF EndStep
<1>6. CASE UNCHANGED vars
  BY <1>6, SupervisedUnchanged DEF vars
<1> QED BY <1>1, <1>2, <1>3, <1>4, <1>5, <1>6 DEF Next

\* Supervised holds in every reachable state.
LEMMA SupervisedAlways == Spec => [](Typed /\ Supervised)
BY TypedInit, TypedNext, SupervisedInit, SupervisedNext, PTL DEF Spec

\* Every launcher whose MPIR launch succeeded is on the cleanup list or being
\* terminated while it lives, whatever the threads that share utilMap do.
THEOREM AppsSupervisedCorrect == Spec => []AppsSupervised
BY SupervisedAlways, PTL DEF Supervised

\* When main returns, every launched application that was not released is dead and
\* every thread has ended.
THEOREM CleanExitCorrect == Spec => []CleanExit
<1>1. Typed /\ Supervised => CleanExit
  BY DEF Supervised, Bookkeeping, ListsEmpty, ThreadsDone, AppsSupervised,
         CleanExit, Doomed, Typed, TypeOK
<1> QED BY <1>1, SupervisedAlways, PTL

=============================================================================
