---------------------------- MODULE FeInstLayers ----------------------------
(***************************************************************************)
(* What a process keeps: invariants of FeInst that rest on the one of      *)
(* FeInstProofs, each about one resource.                                  *)
(***************************************************************************)
EXTENDS FeInstProofs

-----------------------------------------------------------------------------
(* The forked process.                                                     *)

\* No step of a forked process takes the tool's directory, its FE daemon or the
\* resources of its applications away, those of Localhost and Eproxy excepted.
THEOREM ForkedHarmlessCorrect == Spec => ForkedHarmless
<1> DEFINE Harmless ==
        thr'[Forked] # thr[Forked] =>
         /\ "tool" \in dirs => "tool" \in dirs'
         /\ \A i \in daemons : fes[i].main = "tool" => i \in daemons'
         /\ \A i \in apps : fes[i].kind \notin {"localhost", "eproxy"} /\ fes[i].pid = "tool"
                            => i \in apps'
<1>1. ASSUME Typed, Core, [Next]_vars PROVE [Harmless]_vars
  <2> SUFFICES ASSUME Next, thr'[Forked] # thr[Forked]
               PROVE  /\ "tool" \in dirs => "tool" \in dirs'
                      /\ \A i \in daemons : fes[i].main = "tool" => i \in daemons'
                      /\ \A i \in apps : fes[i].kind \notin {"localhost", "eproxy"}
                             /\ fes[i].pid = "tool" => i \in apps'
    BY <1>1
  <2>1. Step(Forked) \/ SigchldBlocker(Forked) \/ loseHelper(Forked) \/ exit(Forked)
    <3>1. ASSUME NEW t \in Threads, t # Forked,
                 Step(t) \/ SigchldBlocker(t) \/ loseHelper(t) \/ exit(t)
          PROVE  FALSE
      <4>1. Others(t)
        BY <1>1, <3>1, Frame
      <4> QED BY <3>1, <4>1 DEF Others, Threads
    <3>2. ~(\E t \in Threads : fork(t)) /\ ~peerSweep
      BY DEF fork, peerSweep
    <3> QED BY <3>1, <3>2 DEF Next
  <2>2. Forked \in Threads /\ procOf(Forked) = "child" /\ Destructing(Forked)
    BY <1>1 DEF Threads, procOf, Core, ThreadOK
  <2> DEFINE n == Last(thr[Forked].dying)
  <2>3. thr[Forked].pc \in Destroying =>
          /\ n \in 1 .. Len(fes) /\ fes[n].pid = "child"
          /\ fes[n].d \in 1 .. Len(fes) /\ fes[fes[n].d].kind = fes[n].kind
          /\ fes[n].main = "child" => fes[n].d = n
    BY <1>1, <2>2 DEF Destructing, Core, ObjectOK
  <2>4. CASE deleteFrontend(Forked)
    BY <2>2, <2>4, Zenon DEF deleteFrontend, isOriginalInstance
  <2>5. CASE members(Forked)
    <3>1. /\ thr[Forked].pc = "members" /\ UNCHANGED dirs
          /\ apps' = apps \ dropsApps("child", n)
          /\ daemons' = IF fes[n].main = "child" THEN daemons \ {fes[n].d} ELSE daemons
      BY <2>2, <2>5 DEF members, at
    <3>2. dropsApps("child", n) =
              IF fes[n].kind \in {"localhost", "eproxy"} THEN {n, fes[n].d} ELSE {}
      BY DEF dropsApps, isOriginalInstance
    <3> HIDE DEF n
    <3> QED BY <2>3, <3>1, <3>2 DEF Destroying
  <2>6. CASE ~deleteFrontend(Forked) /\ ~members(Forked)
    <3>1. dirs \subseteq dirs' /\ daemons \subseteq daemons' /\ apps \subseteq apps'
      BY <2>1, <2>6, Zenon DEF Step, SigchldBlocker, lockIface, body, unlockIface, restoreSigchld,
         load,
         lockMutex, loseHelper, detect, ctorFails, setupCfgDir, baseFails, initialize,
         derivedFails, store, exit, exchange, writeLog, done
    <3> QED BY <3>1
  <2> QED BY <2>4, <2>5, <2>6
<1> QED BY <1>1, CoreAlways, PTL DEF Spec, ForkedHarmless

-----------------------------------------------------------------------------
(* The configuration directory.                                            *)

\* A running tool has its directory from the constructor on.
Dirs ==
    /\ DirKept
    /\ \A t \in Threads : thr[t].pc \in {"base", "derived"} /\ mine(t).st = "run"
           => procOf(t) \in dirs

\* A step that publishes nothing and takes no directory away.
LEMMA DirsQuiet ==
    ASSUME Typed, Core, Dirs, NEW t \in Threads, Others(t), ObjectsKept, dirs \subseteq dirs',
           mine(t)'.st = mine(t).st \/ mine(t)'.st \in {"exit", "gone"},
           mine(t)'.inst \in {mine(t).inst, 0},
           thr'[t].pc \in {"base", "derived"} => thr[t].pc \in {"base", "derived"}
    PROVE  Dirs'
<1>1. ASSUME NEW p \in Procs, proc'[p].st = "run", proc'[p].inst # 0,
             fes'[proc'[p].inst].main = p
      PROVE  p \in dirs'
  <2>1. proc'[p].inst = proc[p].inst /\ proc[p].st = "run"
    BY <1>1 DEF Others, mine
  <2>2. fes[proc[p].inst].main = p
    BY <1>1, <2>1 DEF Core, ProcOK, ObjectsKept
  <2> QED BY <1>1, <2>1, <2>2 DEF Dirs, DirKept, published
<1>2. ASSUME NEW u \in Threads, thr'[u].pc \in {"base", "derived"}, mine(u)'.st = "run"
      PROVE  procOf(u) \in dirs'
  <2>1. mine(u).st = "run" /\ thr[u].pc \in {"base", "derived"}
    BY <1>2, ProcOfThread DEF Others, mine, procOf
  <2> QED BY <2>1 DEF Dirs
<1> QED BY <1>1, <1>2 DEF Dirs, DirKept, published, procOf, mine

\* A sweep leaves the directories of the living.
LEMMA DirsSwept ==
    ASSUME Typed, Core, Dirs, UNCHANGED <<proc, thr, fes>>, NEW aged, dirs' = dirs \ swept(aged)
    PROVE  Dirs'
<1>1. \A p \in Procs : proc[p].st = "run" /\ p \in dirs => p \in dirs'
  BY DEF swept, alive
<1>2. DirKept'
  BY <1>1 DEF Dirs, DirKept, published
<1>3. \A t \in Threads : thr[t].pc \in {"base", "derived"} /\ mine(t).st = "run"
           => procOf(t) \in dirs'
  BY <1>1, ProcOfThread DEF Dirs, mine
<1> QED BY <1>2, <1>3 DEF Dirs, mine, procOf

\* At first there are no instances.
LEMMA DirsInit == Init => Dirs
BY ProcOfThread DEF Init, Dirs, DirKept, Outside

\* Every step keeps it.
LEMMA DirsNext == Typed /\ Core /\ Dirs /\ [Next]_vars => Dirs'
<1> SUFFICES ASSUME Typed, Core, Dirs, [Next]_vars PROVE Dirs'
  OBVIOUS
<1>1. ASSUME NEW t \in Threads, Step(t) \/ SigchldBlocker(t) \/ loseHelper(t) \/ exit(t)
      PROVE  Dirs'
  <2>0. /\ Calling(t) /\ Constructing(t) /\ Destructing(t) /\ Holding(t) /\ ProcOK(procOf(t))
        /\ procOf(t) \in Procs /\ procOf(t)' = procOf(t)
    BY InCore, ProcOfThread DEF ThreadOK
  <2>1. /\ Others(t) /\ runs(t) /\ ObjectsKept
        /\ mine(t)'.st = mine(t).st \/ mine(t)'.st \in {"exit", "gone"}
    BY <1>1, Frame
  <2>2. CASE setupCfgDir(t)
    <3>1. /\ procOf(t) \in dirs' /\ dirs \subseteq dirs'
          /\ mine(t)'.inst = mine(t).inst
          /\ \A u \in Threads : u # t => thr'[u] = thr[u]
      BY <2>1, <2>2, setupCfgDirEffect, Zenon DEF setupCfgDir, SameStatics, Statics, Others
    <3>2. \A p \in Procs : p # procOf(t) => proc'[p] = proc[p]
      BY <2>1 DEF Others
    <3>3. DirKept'
      <4> SUFFICES ASSUME NEW p \in Procs, p # procOf(t), proc[p].st = "run", proc[p].inst # 0,
                          fes'[proc[p].inst].main = p
                   PROVE  p \in dirs'
        BY <3>1, <3>2 DEF DirKept, published
      <4>1. fes[proc[p].inst].main = p
        BY <2>1, Zenon DEF Core, ProcOK, ObjectsKept
      <4> QED BY <3>1, <4>1 DEF Dirs, DirKept, published
    <3>4. ASSUME NEW u \in Threads, thr'[u].pc \in {"base", "derived"}, mine(u)'.st = "run"
          PROVE  procOf(u) \in dirs'
      <4>1. CASE procOf(u) = procOf(t)
        BY <3>1, <4>1
      <4>2. CASE procOf(u) # procOf(t)
        BY <3>1, <3>2, <3>4, <4>2, ProcOfThread DEF Dirs, mine, procOf
      <4> QED BY <4>1, <4>2
    <3> QED BY <3>3, <3>4 DEF Dirs, mine, procOf
  <2>3. CASE store(t)
    <3>1. /\ thr[t].pc = "derived" /\ mine(t)'.inst = thr[t].fe /\ mine(t)'.st = mine(t).st
          /\ dirs' = dirs /\ thr'[t].pc = thr[t].ret
      BY <2>0, <2>3, storeEffect, Zenon DEF store, Statics, Locals
    <3>2. mine(t).st = "run" => procOf(t) \in dirs
      BY <3>1 DEF Dirs
    <3>3. thr'[t].pc \notin {"base", "derived"}
      BY <2>0, <3>1 DEF Calling, Building
    <3>4. \A p \in Procs : p # procOf(t) => proc'[p] = proc[p]
      BY <2>1 DEF Others
    <3>5. DirKept'
      <4> SUFFICES ASSUME NEW p \in Procs, p # procOf(t), proc[p].st = "run", proc[p].inst # 0,
                          fes'[proc[p].inst].main = p
                   PROVE  p \in dirs'
        BY <3>1, <3>2, <3>4 DEF DirKept, published, mine
      <4>1. fes[proc[p].inst].main = p
        BY <2>1 DEF Core, ProcOK, ObjectsKept
      <4> QED BY <3>1, <4>1, Zenon DEF Dirs, DirKept, published
    <3>6. ASSUME NEW u \in Threads, thr'[u].pc \in {"base", "derived"}, mine(u)'.st = "run"
          PROVE  procOf(u) \in dirs'
      <4>1. u # t /\ thr[u].pc \in {"base", "derived"} /\ mine(u).st = "run"
        BY <2>1, <3>1, <3>3, <3>6, ProcOfThread DEF Others, mine, procOf
      <4> QED BY <3>1, <4>1 DEF Dirs
    <3> QED BY <3>5, <3>6 DEF Dirs, mine, procOf
  <2>4. CASE deleteFrontend(t)
    <3>1. /\ thr[t].pc = "delete" /\ UNCHANGED <<proc, fes>>
          /\ thr'[t].pc \in {"log", "members"} /\ \A u \in Threads : u # t => thr'[u] = thr[u]
      BY <2>1, <2>4, deleteFrontendEffect, Zenon DEF deleteFrontend, Moves, Locals, Others
    <3>2. \A p \in Procs : p # procOf(t) /\ proc[p].st = "run" /\ p \in dirs => p \in dirs'
      BY <2>4, Zenon DEF deleteFrontend, swept, alive
    <3>3. mine(t).st = "run" => mine(t).inst = 0 /\ mine(t).mutex = t
      BY <2>0, <2>1, <3>1, Zenon DEF Calling, Holding, InExit, Destroying, runs, mine
    <3>4. DirKept'
      BY <3>1, <3>2, <3>3 DEF Dirs, DirKept, published, mine
    <3>5. ASSUME NEW u \in Threads, thr'[u].pc \in {"base", "derived"}, mine(u)'.st = "run"
          PROVE  procOf(u) \in dirs'
      <4>1. u # t /\ thr[u].pc \in {"base", "derived"} /\ mine(u).st = "run"
            /\ mine(u).mutex = u /\ procOf(u) \in dirs
        BY <3>1, <3>5 DEF mine, procOf, Dirs, Core, ThreadOK, Holding, Building
      <4>2. procOf(u) # procOf(t)
        BY <3>3, <4>1 DEF mine
      <4> QED BY <3>2, <4>1, <4>2, ProcOfThread DEF mine
    <3> QED BY <3>4, <3>5 DEF Dirs, mine, procOf
  <2>5. CASE ~setupCfgDir(t) /\ ~store(t) /\ ~deleteFrontend(t)
    <3>1. dirs' = dirs
      BY <1>1, <2>5, Zenon DEF Step, SigchldBlocker, lockIface, body, unlockIface, restoreSigchld,
         load,
         lockMutex, loseHelper, detect, ctorFails, baseFails, initialize,
         derivedFails, exit, exchange, writeLog, members, done
    <3> USE DEF Moves, Locals, SameStatics, Statics, Fails
    <3>2. CASE SigchldBlocker(t) \/ lockIface(t) \/ body(t) \/ unlockIface(t) \/ restoreSigchld(t)
      BY <2>1, <3>1, <3>2, DirsQuiet, SigchldBlockerEffect, lockIfaceEffect, bodyEffect,
         unlockIfaceEffect, restoreSigchldEffect, Zenon
    <3>3. CASE load(t) \/ lockMutex(t) \/ loseHelper(t) \/ detect(t) \/ ctorFails(t)
      <4>1. thr[t].pc \in {"inst", "slow"} => thr[t].ret \in {"body", "ret", "members"}
        BY <2>0, Zenon DEF Calling
      <4> QED BY <2>0, <2>1, <3>1, <3>3, <4>1, DirsQuiet, loadEffect, lockMutexEffect,
                 loseHelperEffect, detectEffect, ctorFailsEffect, Zenon
    <3>4. CASE baseFails(t) \/ initialize(t) \/ derivedFails(t)
      BY <2>0, <2>1, <3>1, <3>4, DirsQuiet, baseFailsEffect, initializeEffect, derivedFailsEffect,
         Zenon
    <3>5. CASE exit(t) \/ writeLog(t) \/ done(t)
      BY <2>1, <3>1, <3>5, DirsQuiet, exitEffect, writeLogEffect, doneEffect, Zenon
    <3>6. CASE exchange(t) \/ members(t)
      BY <2>0, <2>1, <3>1, <3>6, DirsQuiet, exchangeEffect, membersEffect, Zenon
    <3> QED BY <1>1, <2>5, <3>2, <3>3, <3>4, <3>5, <3>6 DEF Step
  <2> QED BY <2>2, <2>3, <2>4, <2>5
<1>2. ASSUME NEW t \in Threads, fork(t)
      PROVE  Dirs'
  <2>0. /\ "tool" \in Procs /\ "child" \in Procs /\ ProcOK("tool") /\ Forked \in Threads
        /\ \A p \in Procs : p = "tool" \/ p = "child"
    BY DEF Procs, Core, Threads
  <2>1. /\ thr' = thr /\ proc["tool"].st = "run" /\ proc["child"].st = "none"
        /\ proc'["tool"] = proc["tool"] /\ dirs' = dirs
        /\ \/ proc["tool"].inst = 0 /\ fes' = fes /\ proc'["child"].inst = 0
           \/ /\ proc["tool"].inst # 0 /\ proc'["child"].inst = Len(fes) + 1
              /\ \A i \in 1 .. Len(fes) : fes'[i] = fes[i]
              /\ fes'[Len(fes) + 1].main = published("tool").main
    BY <1>2, <2>0, forkEffect, Zenon DEF fork
  <2>2. thr[Forked].pc = "out"
    BY <2>0, <2>1, Zenon DEF Core, ThreadOK, Calling, mine, procOf
  <2>3. proc["tool"].inst # 0 =>
            /\ published("tool").main = "tool"
            /\ fes'[proc["tool"].inst] = fes[proc["tool"].inst]
    BY <2>0, <2>1, Zenon DEF Core, ProcOK, ObjectOK, published
  <2>4. DirKept'
    BY <2>0, <2>1, <2>3 DEF Dirs, DirKept, published
  <2>5. \A u \in Threads : thr[u].pc \in {"base", "derived"} => mine(u)' = mine(u)
    BY <2>1, <2>2 DEF mine, procOf
  <2> QED BY <2>1, <2>4, <2>5, Zenon DEF Dirs, procOf
<1>3. CASE peerSweep
  <2>1. PICK aged \in SUBSET dirs : dirs' = dirs \ swept(aged)
    BY <1>3 DEF peerSweep
  <2> QED BY <1>3, <2>1, DirsSwept DEF peerSweep
<1>4. CASE UNCHANGED vars
  BY <1>4 DEF vars, Dirs, DirKept, published, mine, procOf
<1> QED BY <1>1, <1>2, <1>3, <1>4 DEF Next

\* The configuration directory of a running tool stays while it has an instance,
\* whoever sweeps the old directories of the user.
THEOREM DirKeptCorrect == Spec => []DirKept
<1>1. Init => Typed /\ Core /\ Dirs
  BY TypedInit, CoreInit, DirsInit
<1>2. Dirs => DirKept
  BY DEF Dirs
<1> QED BY <1>1, <1>2, CoreNext, DirsNext, PTL DEF Spec

-----------------------------------------------------------------------------
(* The SIGCHLD action of the tool.                                         *)

\* Thread t is the only one of its process in a call, and it has saved the action
\* of the tool.
Alone(t) ==
    /\ thr[t].saved = "tool" /\ mine(t).handler = "cti"
    /\ \A u \in Threads \ {t} : procOf(u) = procOf(t) => thr[u].saved = None

\* As long as calls do not overlap, the action is that of the tool, or the one
\* thread in a call has saved it.
Handler ==
    ~overlap => \A p \in Procs : proc[p].st = "run" =>
       /\ \A t \in Threads : procOf(t) = p /\ thr[t].saved # None => Alone(t)
       /\ (\A t \in Threads : procOf(t) = p => thr[t].saved = None) => proc[p].handler = "tool"

\* A step that neither begins nor ends a call.
LEMMA HandlerQuiet ==
    ASSUME Typed, Core, Handler, NEW t \in Threads, Others(t),
           mine(t)'.st = mine(t).st \/ mine(t)'.st \in {"exit", "gone"},
           mine(t)'.handler = mine(t).handler, thr'[t].saved = thr[t].saved,
           overlap => overlap'
    PROVE  Handler'
<1> SUFFICES ASSUME ~overlap', NEW p \in Procs, proc'[p].st = "run"
             PROVE  /\ \A u \in Threads : procOf(u) = p /\ thr'[u].saved # None => Alone(u)'
                    /\ (\A u \in Threads : procOf(u) = p => thr'[u].saved = None)
                       => proc'[p].handler = "tool"
  BY Zenon DEF Handler, procOf
<1>1. proc[p].st = "run" /\ proc'[p].handler = proc[p].handler
  BY Zenon DEF Others, mine
<1>2. \A u \in Threads : thr'[u].saved = thr[u].saved
  BY DEF Others
<1>3. /\ \A u \in Threads : procOf(u) = p /\ thr[u].saved # None => Alone(u)
      /\ (\A u \in Threads : procOf(u) = p => thr[u].saved = None) => proc[p].handler = "tool"
  BY <1>1, Zenon DEF Handler
<1> QED BY <1>1, <1>2, <1>3 DEF Alone, mine, procOf

\* At first the action is the tool's.
LEMMA HandlerInit == Init => Handler
<1> SUFFICES ASSUME Init PROVE Handler
  OBVIOUS
<1>1. \A t \in Threads : thr[t].saved = None
  BY Zenon DEF Init, Outside
<1>2. \A p \in Procs : proc[p].handler = "tool"
  BY Zenon DEF Init
<1> QED BY <1>1, <1>2 DEF Handler

\* A step of t with what its process has then; the other process is as before.
LEMMA HandlerStep ==
    ASSUME Typed, Core, Handler, NEW t \in Threads, Others(t), overlap => overlap',
           ~overlap' /\ mine(t)'.st = "run" =>
               /\ \A u \in Threads : procOf(u) = procOf(t) /\ thr'[u].saved # None => Alone(u)'
               /\ (\A u \in Threads : procOf(u) = procOf(t) => thr'[u].saved = None)
                  => mine(t)'.handler = "tool"
    PROVE  Handler'
<1> SUFFICES ASSUME ~overlap', NEW p \in Procs, proc'[p].st = "run", p # procOf(t)
             PROVE  /\ \A u \in Threads : procOf(u) = p /\ thr'[u].saved # None => Alone(u)'
                    /\ (\A u \in Threads : procOf(u) = p => thr'[u].saved = None)
                       => proc'[p].handler = "tool"
  BY DEF Handler, procOf, mine
<1>1. proc'[p] = proc[p] /\ \A u \in Threads : procOf(u) = p => thr'[u] = thr[u]
  BY Zenon DEF Others
<1>2. /\ \A u \in Threads : procOf(u) = p /\ thr[u].saved # None => Alone(u)
      /\ (\A u \in Threads : procOf(u) = p => thr[u].saved = None) => proc[p].handler = "tool"
  BY <1>1, Zenon DEF Handler
<1> QED BY <1>1, <1>2 DEF Alone, mine, procOf

\* Every step keeps it.
LEMMA HandlerNext == Typed /\ Core /\ Handler /\ [Next]_vars => Handler'
<1> SUFFICES ASSUME Typed, Core, Handler, [Next]_vars PROVE Handler'
  OBVIOUS
<1>1. ASSUME NEW t \in Threads, Step(t) \/ SigchldBlocker(t) \/ loseHelper(t) \/ exit(t)
      PROVE  Handler'
  <2>0. /\ Calling(t) /\ Constructing(t) /\ Destructing(t) /\ ProcOK(procOf(t))
        /\ procOf(t) \in Procs /\ procOf(t)' = procOf(t)
    BY InCore, ProcOfThread, Zenon DEF ThreadOK
  <2>1. /\ Others(t) /\ runs(t)
        /\ mine(t)'.st = mine(t).st \/ mine(t)'.st \in {"exit", "gone"}
    BY <1>1, Frame
  <2>2. overlap => overlap'
    BY <1>1, GhostsStay
  <2> USE DEF Moves, Locals, SameStatics, Statics, SameEnv, Env, Fails
  <2>3. CASE SigchldBlocker(t)
    <3>1. /\ thr[t].pc = "out" /\ thr'[t].saved = mine(t).handler /\ mine(t)'.handler = "cti"
          /\ mine(t)'.st = mine(t).st
      BY <2>3, SigchldBlockerEffect, Zenon
    <3>2. thr[t].saved = None
      BY <2>0, <3>1, Zenon DEF Calling
    <3>3. ASSUME ~overlap', mine(t)'.st = "run"
          PROVE  /\ \A u \in Threads \ {t} : procOf(u) = procOf(t) => thr'[u].saved = None
                 /\ mine(t).handler = "tool"
      <4>1. ~overlap /\ ~othersIn(t)
        BY <2>3, <3>3, Zenon DEF SigchldBlocker
      <4>2. \A u \in Threads \ {t} : procOf(u) = procOf(t) => thr[u].saved = None
        BY <2>1, <4>1, NobodyIn
      <4> QED BY <2>0, <2>1, <3>1, <3>2, <3>3, <4>1, <4>2, Zenon DEF Others, Handler, mine
    <3>4. None # "tool"
      BY FeInstAssumption
    <3>5. ~overlap' /\ mine(t)'.st = "run" =>
               /\ \A u \in Threads : procOf(u) = procOf(t) /\ thr'[u].saved # None => Alone(u)'
               /\ (\A u \in Threads : procOf(u) = procOf(t) => thr'[u].saved = None)
                  => mine(t)'.handler = "tool"
      <4> SUFFICES ASSUME ~overlap', mine(t)'.st = "run"
                   PROVE  Alone(t)'
        BY <3>1, <3>3, <3>4, Zenon
      <4> QED BY <3>1, <3>3, Zenon DEF Alone, procOf
    <3> QED BY <2>1, <2>2, <3>5, HandlerStep, Zenon
  <2>4. CASE restoreSigchld(t)
    <3>1. /\ thr[t].pc = "unlocked" /\ thr'[t].saved = None /\ mine(t)'.handler = thr[t].saved
          /\ mine(t)'.st = mine(t).st
      BY <2>4, restoreSigchldEffect, Zenon
    <3>2. thr[t].saved # None
      BY <2>0, <2>1, <3>1, Zenon DEF Calling, runs, mine
    <3>3. ~overlap' /\ mine(t)'.st = "run" => Alone(t)
      BY <2>0, <2>2, <3>1, <3>2, Zenon DEF Handler, mine
    <3>4. \A u \in Threads \ {t} : thr'[u] = thr[u]
      BY <2>1, Zenon DEF Others
    <3> QED BY <2>1, <2>2, <3>1, <3>3, <3>4, HandlerStep DEF Alone
  <2>5. CASE lockIface(t) \/ body(t) \/ unlockIface(t)
    BY <2>1, <2>2, <2>5, HandlerQuiet, lockIfaceEffect, bodyEffect, unlockIfaceEffect, Zenon
  <2>6. CASE load(t) \/ lockMutex(t) \/ loseHelper(t) \/ detect(t) \/ ctorFails(t)
    BY <2>0, <2>1, <2>2, <2>6, HandlerQuiet, loadEffect, lockMutexEffect, loseHelperEffect,
       detectEffect, ctorFailsEffect, Zenon
  <2>7. CASE setupCfgDir(t) \/ baseFails(t) \/ initialize(t) \/ derivedFails(t) \/ store(t)
    BY <2>0, <2>1, <2>2, <2>7, HandlerQuiet, setupCfgDirEffect, baseFailsEffect,
       initializeEffect, derivedFailsEffect, storeEffect, Zenon
  <2>8. CASE exit(t) \/ exchange(t) \/ deleteFrontend(t) \/ writeLog(t) \/ members(t) \/ done(t)
    BY <2>0, <2>1, <2>2, <2>8, HandlerQuiet, exitEffect, exchangeEffect, deleteFrontendEffect,
       writeLogEffect, membersEffect, doneEffect, Zenon
  <2> QED BY <1>1, <2>3, <2>4, <2>5, <2>6, <2>7, <2>8, Zenon DEF Step
<1>2. ASSUME NEW t \in Threads, fork(t)
      PROVE  Handler'
  <2>0. /\ "tool" \in Procs /\ "child" \in Procs /\ ProcOK("tool") /\ Forked \in Threads
        /\ \A p \in Procs : p = "tool" \/ p = "child"
    BY DEF Procs, Core, Threads
  <2>1. /\ thr' = thr /\ runs(t) /\ t \in ToolThreads /\ overlap' = (overlap \/ othersIn(t))
        /\ proc["tool"].st = "run" /\ proc["child"].st = "none"
        /\ proc'["tool"] = proc["tool"] /\ proc'["child"].handler = proc["tool"].handler
    BY <1>2, <2>0, forkEffect, Zenon
  <2>2. thr[Forked].saved = None /\ thr[t].saved = None /\ procOf(t) = "tool"
    BY <1>2, <2>0, <2>1, FeInstAssumption, Zenon DEF Core, ThreadOK, Calling, mine, procOf, fork, at
  <2>3. ASSUME ~overlap', NEW p \in Procs
        PROVE  /\ \A u \in Threads : thr[u].saved = None
               /\ proc'[p].handler = "tool"
    <3>1. \A u \in Threads \ {t} : procOf(u) = procOf(t) => thr[u].saved = None
      BY <2>1, <2>3, NobodyIn, Zenon
    <3>2. \A u \in Threads : thr[u].saved = None
      BY <2>2, <3>1 DEF procOf
    <3>3. proc["tool"].handler = "tool"
      BY <2>0, <2>1, <2>3, <3>2, Zenon DEF Handler
    <3> QED BY <2>0, <2>1, <3>2, <3>3, Zenon
  <2> QED BY <2>1, <2>3, Zenon DEF Handler
<1>3. CASE peerSweep \/ UNCHANGED vars
  BY <1>3 DEF peerSweep, vars, ghosts, Handler, Alone, mine, procOf
<1> QED BY <1>1, <1>2, <1>3 DEF Next

\* Calls that do not overlap leave the SIGCHLD action of the tool in place.
THEOREM SigchldRestoredCorrect == Spec => []SigchldRestored
<1>1. Init => Typed /\ Core /\ Handler
  BY TypedInit, CoreInit, HandlerInit
<1>2. Typed /\ Core /\ Handler => SigchldRestored
  <2> SUFFICES ASSUME Typed, Core, Handler, NEW p \in Procs, proc[p].st = "run", ~overlap,
                      \A t \in Threads : procOf(t) = p => ~inCall(t)
               PROVE  proc[p].handler = "tool"
    BY Zenon DEF SigchldRestored
  <2>1. ASSUME NEW t \in Threads, procOf(t) = p PROVE thr[t].saved = None
    <3>1. Calling(t) /\ mine(t).st = "run"
      BY <2>1, Zenon DEF Core, ThreadOK, mine
    <3> QED BY <2>1, <3>1, Zenon DEF Calling, inCall, runs, mine
  <2> QED BY <2>1, Zenon DEF Handler
<1> QED BY <1>1, <1>2, CoreNext, HandlerNext, PTL DEF Spec

-----------------------------------------------------------------------------
(* The choice of the workload manager.                                     *)

SlurmHost ==
    /\ setup.conf.wlm = "" /\ "srun" \in setup.machine.programs
    /\ setup.machine.wlmDetect # "ALPS"
SlurmKinds == {"slurm", "hpcm", "eproxy"}

\* While calls do not overlap no helper is lost, and where srun works the
\* frontend under construction is a Slurm one.
Slurm ==
    /\ SlurmNotMissed
    /\ ~overlap => \A t \in Threads : mine(t).st = "run" =>
         /\ thr[t].lost = {}
         /\ SlurmHost /\ thr[t].pc = "ctor" => thr[t].kind \in SlurmKinds
         /\ SlurmHost /\ thr[t].pc \in {"base", "derived"} => fes[thr[t].fe].kind \in SlurmKinds

\* Where srun answers, the heuristics of PALS, Flux and ssh are not reached.
LEMMA SlurmFirst ==
    ASSUME SlurmHost, NEW system
    PROVE  make_Frontend(setup.machine, system,
                         detect_WLM(setup.machine, system, setup.conf.wlm, {})) \in SlurmKinds
<1>1. detect_WLM(setup.machine, system, setup.conf.wlm, {}) = "Slurm"
  BY Zenon DEF SlurmHost, detect_WLM, heuristics, detect_Slurm
<1> QED BY <1>1 DEF make_Frontend, SlurmKinds

\* A step of t with what it and its process have then.
LEMMA SlurmStep ==
    ASSUME Typed, Core, Slurm, NEW t \in Threads, Others(t), ObjectsKept, setup' = setup,
           mine(t)'.st = mine(t).st \/ mine(t)'.st \in {"exit", "gone"}, overlap => overlap',
           ~overlap' /\ mine(t)'.st = "run" =>
             /\ thr'[t].lost = {}
             /\ SlurmHost =>
                  /\ thr'[t].pc = "ctor" => thr'[t].kind \in SlurmKinds
                  /\ thr'[t].pc \in {"base", "derived"} => fes'[thr'[t].fe].kind \in SlurmKinds
                  /\ mine(t)'.inst # 0 /\ mine(t)'.inst # mine(t).inst
                     => fes'[mine(t)'.inst].kind \in SlurmKinds
    PROVE  Slurm'
<1>1. ASSUME ~overlap', SlurmHost, NEW p \in Procs, proc'[p].st = "run", proc'[p].inst # 0
      PROVE  fes'[proc'[p].inst].kind \in SlurmKinds
  <2>1. ProcOK(p)
    BY Zenon DEF Core
  <2>2. CASE p = procOf(t) /\ mine(t)'.inst # mine(t).inst
    BY <1>1, <2>2, Zenon DEF mine, procOf
  <2>3. CASE p # procOf(t) \/ mine(t)'.inst = mine(t).inst
    <3>1. proc'[p].inst = proc[p].inst /\ proc[p].st = "run"
      BY <1>1, <2>3 DEF Others, mine, procOf
    <3>2. fes'[proc[p].inst].kind = fes[proc[p].inst].kind
      BY <1>1, <2>1, <3>1, Zenon DEF ProcOK, ObjectsKept
    <3> QED BY <1>1, <3>1, <3>2, Zenon DEF Slurm, SlurmNotMissed, SlurmHost, SlurmKinds, published
  <2> QED BY <2>2, <2>3, Zenon
<1>2. ASSUME ~overlap', NEW u \in Threads, mine(u)'.st = "run"
      PROVE  /\ thr'[u].lost = {}
             /\ SlurmHost /\ thr'[u].pc = "ctor" => thr'[u].kind \in SlurmKinds
             /\ SlurmHost /\ thr'[u].pc \in {"base", "derived"}
                => fes'[thr'[u].fe].kind \in SlurmKinds
  <2>1. CASE u = t
    BY <1>2, <2>1, Zenon
  <2>2. CASE u # t
    <3>1. thr'[u] = thr[u] /\ Constructing(u) /\ mine(u).st = "run"
      <4>1. procOf(u)' = procOf(u) /\ procOf(u) \in Procs
        BY ProcOfThread, Zenon DEF procOf
      <4>2. procOf(u) # procOf(t) => mine(u)' = mine(u)
        BY <4>1 DEF Others, mine
      <4>3. procOf(u) = procOf(t) => mine(u)' = mine(t)' /\ mine(u) = mine(t)
        BY DEF mine
      <4> QED BY <1>2, <2>2, <4>2, <4>3, Zenon DEF Others, Core, ThreadOK
    <3>2. thr[u].pc \in {"base", "derived"} => fes'[thr[u].fe].kind = fes[thr[u].fe].kind
      BY <3>1, Zenon DEF Constructing, ObjectsKept
    <3> QED BY <1>2, <3>1, <3>2, Zenon DEF Slurm
  <2> QED BY <2>1, <2>2, Zenon
<1>3. SlurmHost' <=> SlurmHost
  BY Zenon DEF SlurmHost
<1> QED BY <1>1, <1>2, <1>3, Zenon DEF Slurm, SlurmNotMissed, SlurmHost, SlurmKinds, published,
           mine, procOf

\* At first nothing has been detected.
LEMMA SlurmInit == Init => Slurm
<1> SUFFICES ASSUME Init PROVE Slurm
  OBVIOUS
<1>1. \A t \in Threads : thr[t].pc = "out" /\ thr[t].lost = {}
  BY Zenon DEF Init, Outside
<1>2. \A p \in Procs : proc[p].inst = 0
  BY Zenon DEF Init
<1> QED BY <1>1, <1>2, Zenon DEF Slurm, SlurmNotMissed

\* Every step keeps it.
LEMMA SlurmNext == Typed /\ Core /\ Handler /\ Slurm /\ [Next]_vars => Slurm'
<1> SUFFICES ASSUME Typed, Core, Handler, Slurm, [Next]_vars PROVE Slurm'
  OBVIOUS
<1>1. ASSUME NEW t \in Threads, Step(t) \/ SigchldBlocker(t) \/ loseHelper(t) \/ exit(t)
      PROVE  Slurm'
  <2>0. /\ Calling(t) /\ Constructing(t) /\ Destructing(t) /\ ProcOK(procOf(t))
        /\ procOf(t) \in Procs /\ procOf(t)' = procOf(t)
    BY InCore, ProcOfThread, Zenon DEF ThreadOK
  <2>1. /\ Others(t) /\ runs(t) /\ ObjectsKept /\ setup' = setup
        /\ mine(t)'.st = mine(t).st \/ mine(t)'.st \in {"exit", "gone"}
    BY <1>1, Frame, Zenon
  <2>2. overlap => overlap'
    BY <1>1, GhostsStay
  <2>3. thr[t].pc \in {"inst", "slow"} \cup Building => thr[t].ret \in {"body", "ret", "members"}
    BY <2>0, Zenon DEF Calling
  <2>4. ~overlap' /\ mine(t)'.st = "run" =>
          /\ ~overlap /\ mine(t).st = "run" /\ thr[t].lost = {}
          /\ SlurmHost /\ thr[t].pc = "ctor" => thr[t].kind \in SlurmKinds
          /\ SlurmHost /\ thr[t].pc \in {"base", "derived"} => fes[thr[t].fe].kind \in SlurmKinds
    BY <2>1, <2>2, Zenon DEF Slurm
  <2>5. thr[t].pc \in {"base", "derived"} =>
           thr[t].fe \in 1 .. Len(fes) /\ fes'[thr[t].fe].kind = fes[thr[t].fe].kind
    BY <2>0, <2>1, Zenon DEF Constructing, ObjectsKept
  <2> USE DEF Moves, Locals, SameStatics, Statics, Fails, SameDetected, Detected
  <2>6. CASE SigchldBlocker(t) \/ lockIface(t) \/ body(t) \/ unlockIface(t) \/ restoreSigchld(t)
    BY <2>1, <2>2, <2>4, <2>6, SlurmStep, SigchldBlockerEffect, lockIfaceEffect, bodyEffect,
       unlockIfaceEffect, restoreSigchldEffect, Zenon
  <2>7. CASE load(t) \/ lockMutex(t)
    BY <2>0, <2>1, <2>2, <2>3, <2>4, <2>7, SlurmStep, loadEffect, lockMutexEffect, Zenon
  <2>8. CASE loseHelper(t)
    <3>1. thr[t].pc = "detect" /\ mine(t).handler = "tool"
      BY <2>8, loseHelperEffect, Zenon
    <3>2. mine(t).st = "run" => thr[t].saved # None
      BY <2>0, <3>1, Zenon DEF Calling, InExit
    <3>3. mine(t).st = "run" /\ ~overlap => Alone(t)
      BY <2>0, <3>2, Zenon DEF Handler, mine
    <3>4. ~(~overlap' /\ mine(t)'.st = "run")
      BY <2>4, <3>1, <3>3, Zenon DEF Alone
    <3> QED BY <2>1, <2>2, <3>4, SlurmStep, Zenon
  <2>9. CASE detect(t)
    <3> DEFINE k == make_Frontend(setup.machine,
                              detect_System(setup.machine, setup.conf.system),
                              detect_WLM(setup.machine,
                                         detect_System(setup.machine, setup.conf.system),
                                         setup.conf.wlm, thr[t].lost))
    <3>1. \/ /\ thr'[t].pc = "ctor" /\ thr'[t].lost = thr[t].lost /\ thr'[t].kind = k
             /\ mine(t)'.inst = mine(t).inst
          \/ thr'[t].pc = "ret" /\ thr'[t].lost = {} /\ mine(t)'.inst = mine(t).inst
      BY <2>9, detectEffect, Zenon
    <3>2. SlurmHost /\ thr[t].lost = {} => k \in SlurmKinds
      BY SlurmFirst, Zenon
    <3> HIDE DEF k
    <3> QED BY <2>1, <2>2, <2>4, <3>1, <3>2, SlurmStep, Zenon
  <2>10. CASE ctorFails(t)
    BY <2>1, <2>2, <2>10, SlurmStep, ctorFailsEffect, Zenon
  <2>11. CASE setupCfgDir(t)
    <3> DEFINE n == Len(fes) + 1
    <3>1. /\ thr[t].pc = "ctor" /\ thr'[t].pc = "base" /\ thr'[t].fe = n
          /\ mine(t)'.inst = mine(t).inst /\ thr'[t].lost = thr[t].lost
      BY <2>11, setupCfgDirEffect, Zenon
    <3>2. fes'[n] = [pid |-> procOf(t), d |-> n, kind |-> thr[t].kind,
                     main |-> procOf(t), st |-> "ctor"]
      BY <2>11, setupCfgDirEffect, Zenon
    <3>3. fes'[n].kind = thr[t].kind
      BY <3>2
    <3> HIDE DEF n
    <3> QED BY <2>1, <2>2, <2>4, <3>1, <3>3, SlurmStep, Zenon
  <2>12. CASE baseFails(t) \/ initialize(t) \/ derivedFails(t)
    <3>1. CASE baseFails(t)
      BY <2>0, <2>1, <2>2, <2>4, <2>5, <3>1, SlurmStep, baseFailsEffect, Zenon
    <3>2. CASE initialize(t)
      BY <2>0, <2>1, <2>2, <2>4, <2>5, <3>2, SlurmStep, initializeEffect, Zenon
    <3>3. CASE derivedFails(t)
      BY <2>0, <2>1, <2>2, <2>4, <2>5, <3>3, SlurmStep, derivedFailsEffect, Zenon
    <3> QED BY <2>12, <3>1, <3>2, <3>3
  <2>13. CASE store(t)
    <3>1. /\ thr[t].pc = "derived" /\ thr'[t].pc = thr[t].ret /\ thr'[t].lost = {}
          /\ mine(t)'.inst = thr[t].fe
      BY <2>0, <2>13, storeEffect, Zenon
    <3> QED BY <2>1, <2>2, <2>3, <2>4, <2>5, <3>1, SlurmStep, Zenon DEF Building
  <2>14. CASE exit(t) \/ deleteFrontend(t) \/ writeLog(t)
    <3>1. /\ thr'[t].lost = thr[t].lost /\ mine(t)'.inst = mine(t).inst
          /\ thr'[t].pc \notin {"ctor", "base", "derived"}
      BY <2>14, exitEffect, deleteFrontendEffect, writeLogEffect, Zenon
    <3> QED BY <2>1, <2>2, <2>4, <3>1, SlurmStep, Zenon
  <2>15. CASE exchange(t) \/ members(t)
    BY <2>0, <2>1, <2>2, <2>4, <2>15, SlurmStep, exchangeEffect, membersEffect, Zenon
  <2>16. CASE done(t)
    BY <2>1, <2>2, <2>16, SlurmStep, doneEffect, Zenon
  <2> QED BY <1>1, <2>6, <2>7, <2>8, <2>9, <2>10, <2>11, <2>12, <2>13, <2>14, <2>15, <2>16, Zenon
          DEF Step
<1>2. ASSUME NEW t \in Threads, fork(t)
      PROVE  Slurm'
  <2>0. /\ "tool" \in Procs /\ "child" \in Procs /\ ProcOK("tool") /\ Forked \in Threads
        /\ \A p \in Procs : p = "tool" \/ p = "child"
    BY DEF Procs, Core, Threads
  <2>1. /\ thr' = thr /\ proc["tool"].st = "run" /\ proc["child"].st = "none"
        /\ proc'["tool"] = proc["tool"] /\ overlap' = (overlap \/ othersIn(t))
        /\ \/ proc["tool"].inst = 0 /\ fes' = fes /\ proc'["child"].inst = 0
           \/ /\ proc["tool"].inst # 0 /\ proc'["child"].inst = Len(fes) + 1
              /\ \A i \in 1 .. Len(fes) : fes'[i] = fes[i]
              /\ fes'[Len(fes) + 1].kind = published("tool").kind
    BY <1>2, <2>0, forkEffect, Zenon
  <2>2. /\ thr[Forked].pc = "out" /\ thr[Forked].lost = {} /\ setup' = setup
    BY <1>2, <2>0, <2>1, Zenon DEF Core, ThreadOK, Calling, mine, procOf, fork
  <2>3. proc["tool"].inst # 0 => fes'[proc["tool"].inst] = fes[proc["tool"].inst]
    BY <2>0, <2>1, Zenon DEF ProcOK
  <2>4. SlurmNotMissed'
    <3>1. ~overlap' /\ SlurmHost /\ proc["tool"].inst # 0 =>
              fes[proc["tool"].inst].kind \in SlurmKinds
      BY <2>0, <2>1, Zenon DEF Slurm, SlurmNotMissed, SlurmHost, SlurmKinds, published
    <3>2. \A p \in Procs : ~overlap' /\ SlurmHost /\ proc'[p].inst # 0 =>
              fes'[proc'[p].inst].kind \in SlurmKinds
      BY <2>0, <2>1, <2>3, <3>1, Zenon DEF published
    <3> QED BY <2>2, <3>2, Zenon DEF SlurmNotMissed, SlurmHost, SlurmKinds, published
  <2>5. ASSUME ~overlap', NEW u \in Threads, mine(u)'.st = "run"
        PROVE  /\ thr'[u].lost = {}
               /\ SlurmHost /\ thr'[u].pc = "ctor" => thr'[u].kind \in SlurmKinds
               /\ SlurmHost /\ thr'[u].pc \in {"base", "derived"}
                  => fes'[thr'[u].fe].kind \in SlurmKinds
    <3>1. CASE u = Forked
      BY <2>1, <2>2, <3>1, Zenon
    <3>2. CASE u # Forked
      <4>1. mine(u)' = mine(u) /\ Constructing(u)
        BY <2>1, <3>2, Zenon DEF mine, procOf, Core, ThreadOK
      <4>2. thr[u].pc \in {"base", "derived"} => fes'[thr[u].fe] = fes[thr[u].fe]
        BY <2>1, <4>1, Zenon DEF Constructing
      <4> QED BY <2>1, <2>5, <4>1, <4>2, Zenon DEF Slurm
    <3> QED BY <3>1, <3>2, Zenon
  <2>6. SlurmHost' <=> SlurmHost
    BY <2>2, Zenon DEF SlurmHost
  <2> QED BY <2>4, <2>5, <2>6, Zenon DEF Slurm, mine, procOf, SlurmKinds
<1>3. CASE peerSweep \/ UNCHANGED vars
  <2>1. UNCHANGED <<setup, thr, proc, fes, overlap>>
    BY <1>3, Zenon DEF peerSweep, vars, ghosts
  <2>2. SlurmNotMissed'
    BY <2>1, Zenon DEF Slurm, SlurmNotMissed, published
  <2> QED BY <2>1, <2>2, Zenon DEF Slurm, SlurmHost, mine, procOf
<1> QED BY <1>1, <1>2, <1>3 DEF Next

\* Where srun works and nothing is set, the frontend is a Slurm one.
THEOREM SlurmNotMissedCorrect == Spec => []SlurmNotMissed
<1>1. Init => Typed /\ Core /\ Handler /\ Slurm
  BY TypedInit, CoreInit, HandlerInit, SlurmInit
<1>2. Slurm => SlurmNotMissed
  BY DEF Slurm
<1> QED BY <1>1, <1>2, CoreNext, HandlerNext, SlurmNext, PTL DEF Spec


-----------------------------------------------------------------------------
(* What exit leaves behind.                                                *)

\* The tool has begun to exit, and no call was under way.
Quit == proc["tool"].st \in {"exit", "gone"} /\ ~overlap

\* From then on a thread is outside or on the way through destroy, which takes
\* the directory before it comes to the log.
Leaving(t) ==
    /\ thr[t].pc \in {"out", "exchange", "delete", "log", "inst", "slow", "members", "done"}
    /\ mine(t).mutex # t
    /\ thr[t].pc \in {"log", "inst", "slow", "members"} => "tool" \notin dirs

Cleaned(i) == fes[i].pid = "tool" /\ fes[i].st = "dead" =>
                  "tool" \notin dirs /\ i \notin daemons \cup apps

Exiting ==
    /\ \A i \in 1 .. Len(fes) : fes[i].pid = "tool" /\ fes[i].st \in {"dying", "dead"} =>
           proc["tool"].st \in {"exit", "gone"}
    /\ Quit => \A t \in ToolThreads : thr[t].saved = None
    /\ Quit /\ ~again => /\ \A t \in ToolThreads : Leaving(t)
                         /\ \A i \in 1 .. Len(fes) : Cleaned(i)

\* What a step adds belongs to the process of its thread, and it sets the states
\* of objects of that process only.
LEMMA Apart ==
    ASSUME Typed, Core, NEW t \in Threads,
           Step(t) \/ SigchldBlocker(t) \/ loseHelper(t) \/ exit(t)
    PROVE  /\ \A i \in 1 .. Len(fes') :
                  fes'[i].pid # procOf(t) => i \in 1 .. Len(fes) /\ fes'[i].st = fes[i].st
           /\ \A i \in (apps' \ apps) \cup (daemons' \ daemons) :
                  thr[t].pc \in {"body", "base"} /\ i \in 1 .. Len(fes) /\ fes[i].pid = procOf(t)
           /\ \A o \in dirs' \ dirs : thr[t].pc = "ctor" /\ o = procOf(t)
<1>0. /\ Calling(t) /\ Constructing(t) /\ Destructing(t) /\ Working(t) /\ ProcOK(procOf(t))
      /\ Len(fes) \in Nat
  BY InCore DEF ThreadOK, Typed
<1>1. \A i \in 1 .. Len(fes') :
          fes'[i].pid # procOf(t) => i \in 1 .. Len(fes) /\ fes'[i].st = fes[i].st
  <2>1. CASE fes' = fes
    BY <2>1
  <2>2. CASE setupCfgDir(t)
    <3>1. Len(fes') = Len(fes) + 1 /\ \A i \in 1 .. Len(fes) : fes'[i] = fes[i]
      BY <2>2, setupCfgDirEffect, Zenon
    <3>2. fes'[Len(fes) + 1].pid = procOf(t)
      <4>1. fes'[Len(fes) + 1] =
                  [pid |-> procOf(t), d |-> Len(fes) + 1, kind |-> thr[t].kind,
                   main |-> procOf(t), st |-> "ctor"]
        BY <2>2, setupCfgDirEffect, Zenon
      <4> QED BY <4>1
    <3> QED BY <1>0, <3>1, <3>2
  <2>3. ASSUME NEW n \in 1 .. Len(fes), NEW s, fes[n].pid = procOf(t), StateSet(n, s)
        PROVE  \A i \in 1 .. Len(fes') :
                   fes'[i].pid # procOf(t) => i \in 1 .. Len(fes) /\ fes'[i].st = fes[i].st
    BY <2>3 DEF StateSet, ObjectsKept
  <2>4. CASE baseFails(t) \/ derivedFails(t) \/ store(t)
    <3>1. /\ thr[t].pc \in {"base", "derived"}
          /\ \E s : StateSet(thr[t].fe, s)
      BY <1>0, <2>4, baseFailsEffect, derivedFailsEffect, storeEffect
    <3> QED BY <1>0, <2>3, <3>1 DEF Constructing
  <2>5. CASE exchange(t)
    <3>1. fes' = fes \/ (mine(t).inst # 0 /\ StateSet(mine(t).inst, "dying"))
      BY <1>0, <2>5, exchangeEffect
    <3>2. mine(t).inst # 0 => mine(t).inst \in 1 .. Len(fes) /\ fes[mine(t).inst].pid = procOf(t)
      BY <1>0 DEF ProcOK, published, mine
    <3> QED BY <2>1, <2>3, <3>1, <3>2
  <2>6. CASE members(t)
    <3>1. /\ thr[t].pc = "members" /\ \E s : StateSet(Last(thr[t].dying), s)
      BY <1>0, <2>6, membersEffect
    <3>2. Last(thr[t].dying) \in 1 .. Len(fes) /\ fes[Last(thr[t].dying)].pid = procOf(t)
      BY <1>0, <3>1 DEF Destructing, Destroying
    <3> QED BY <2>3, <3>1, <3>2
  <2>7. \/ fes' = fes \/ setupCfgDir(t) \/ baseFails(t) \/ derivedFails(t) \/ store(t)
        \/ exchange(t) \/ members(t)
    BY Zenon DEF Step, SigchldBlocker, lockIface, body, unlockIface, restoreSigchld, load,
       lockMutex,
       loseHelper, detect, ctorFails, initialize, exit, deleteFrontend, writeLog, done
  <2> QED BY <2>1, <2>2, <2>4, <2>5, <2>6, <2>7
<1>2. \A i \in (apps' \ apps) \cup (daemons' \ daemons) :
          thr[t].pc \in {"body", "base"} /\ i \in 1 .. Len(fes) /\ fes[i].pid = procOf(t)
  <2>1. CASE body(t)
    <3>1. thr[t].pc = "body" /\ apps' \subseteq apps \cup {thr[t].fe} /\ daemons' = daemons
      BY <2>1 DEF body, at
    <3> QED BY <1>0, <3>1 DEF Working
  <2>2. CASE initialize(t)
    <3>1. thr[t].pc = "base" /\ apps' = apps /\ daemons' = daemons \cup {thr[t].fe}
      BY <2>2 DEF initialize, at
    <3> QED BY <1>0, <3>1 DEF Constructing
  <2>3. CASE ~body(t) /\ ~initialize(t)
    <3>1. apps' \subseteq apps /\ daemons' \subseteq daemons
      BY <2>3, Zenon DEF Step, SigchldBlocker, lockIface, unlockIface, restoreSigchld, load,
         lockMutex,
         loseHelper, detect, ctorFails, setupCfgDir, baseFails, derivedFails, store, exit,
         exchange, deleteFrontend, writeLog, members, done
    <3> QED BY <3>1
  <2> QED BY <2>1, <2>2, <2>3
<1>3. \A o \in dirs' \ dirs : thr[t].pc = "ctor" /\ o = procOf(t)
  BY Zenon DEF Step, SigchldBlocker, lockIface, body, unlockIface, restoreSigchld, load, lockMutex,
     loseHelper, detect, ctorFails, setupCfgDir, baseFails, initialize, derivedFails, store,
     exit, exchange, deleteFrontend, writeLog, members, done, at
<1> QED BY <1>1, <1>2, <1>3

\* No object is dying before the exit.
LEMMA ExitingObjects ==
    ASSUME Typed, Core, Exiting, NEW t \in Threads,
           Step(t) \/ SigchldBlocker(t) \/ loseHelper(t) \/ exit(t)
    PROVE  \A i \in 1 .. Len(fes') : fes'[i].pid = "tool" /\ fes'[i].st \in {"dying", "dead"} =>
               proc'["tool"].st \in {"exit", "gone"}
<1>0. /\ Calling(t) /\ Constructing(t) /\ Destructing(t) /\ ProcOK(procOf(t))
      /\ Len(fes) \in Nat /\ "tool" \in Procs
  BY InCore DEF ThreadOK, Typed, Procs
<1>1. /\ Others(t) /\ runs(t) /\ ObjectsKept
      /\ mine(t)'.st = mine(t).st \/ mine(t)'.st \in {"exit", "gone"}
  BY Frame
<1>2. proc["tool"].st \in {"exit", "gone"} => proc'["tool"].st \in {"exit", "gone"}
  BY <1>0, <1>1 DEF Others, mine, procOf
<1> SUFFICES ASSUME NEW i \in 1 .. Len(fes'), fes'[i].pid = "tool",
                    fes'[i].st \in {"dying", "dead"},
                    proc["tool"].st \notin {"exit", "gone"}
             PROVE  FALSE
  BY <1>2
<1>3. ~(i \in 1 .. Len(fes) /\ fes'[i].st = fes[i].st)
  <2> SUFFICES ASSUME i \in 1 .. Len(fes), fes'[i].st = fes[i].st
               PROVE  FALSE
    OBVIOUS
  <2>1. fes[i].pid = "tool"
    BY <1>1 DEF ObjectsKept
  <2> QED BY <2>1 DEF Exiting
<1>4. procOf(t) = "tool"
  BY <1>3, Apart
<1>5. CASE exchange(t)
  <2>1. thr[t].pc = "exchange"
    BY <1>0, <1>5, exchangeEffect, Zenon
  <2> QED BY <1>0, <1>4, <2>1 DEF Calling, InExit, mine
<1>6. CASE members(t)
  <2> DEFINE n == Last(thr[t].dying)
  <2>1. /\ thr[t].pc = "members" /\ n \in 1 .. Len(fes)
        /\ \/ fes[n].st = "unwound" /\ StateSet(n, "failed")
           \/ fes[n].st # "unwound" /\ StateSet(n, "dead")
    BY <1>0, <1>6, membersEffect, Zenon
  <2>2. fes[n].pid = "tool" /\ fes[n].st \in {"unwound", "dying"}
    BY <1>0, <1>4, <2>1, Zenon DEF Destructing, Destroying
  <2>3. fes[n].st = "unwound"
    BY <2>1, <2>2, Zenon DEF Exiting
  <2> HIDE DEF n
  <2>4. StateSet(n, "failed")
    BY <2>1, <2>3
  <2> QED BY <1>3, <2>4 DEF StateSet
<1>7. CASE setupCfgDir(t)
  <2>1. Len(fes') = Len(fes) + 1 /\ \A j \in 1 .. Len(fes) : fes'[j] = fes[j]
    BY <1>7, setupCfgDirEffect, Zenon
  <2>2. fes'[Len(fes) + 1] =
              [pid |-> procOf(t), d |-> Len(fes) + 1, kind |-> thr[t].kind,
               main |-> procOf(t), st |-> "ctor"]
    BY <1>7, setupCfgDirEffect, Zenon
  <2>3. fes'[Len(fes) + 1].st = "ctor"
    BY <2>2
  <2> QED BY <1>0, <1>3, <2>1, <2>3
<1>8. CASE baseFails(t) \/ derivedFails(t) \/ store(t)
  <2>1. \E s \in {"failed", "unwound", "made"} : StateSet(thr[t].fe, s)
    BY <1>0, <1>8, baseFailsEffect, derivedFailsEffect, storeEffect, Zenon
  <2> QED BY <1>3, <2>1 DEF StateSet
<1>9. CASE fes' = fes
  BY <1>3, <1>9
<1>10. \/ fes' = fes \/ setupCfgDir(t) \/ baseFails(t) \/ derivedFails(t) \/ store(t)
       \/ exchange(t) \/ members(t)
  BY Zenon DEF Step, SigchldBlocker, lockIface, body, unlockIface, restoreSigchld, load, lockMutex,
     loseHelper, detect, ctorFails, initialize, exit, deleteFrontend, writeLog, done
<1> QED BY <1>5, <1>6, <1>7, <1>8, <1>9, <1>10

\* The other threads, and what was destroyed before: nothing comes back.
LEMMA ExitingOthers ==
    ASSUME Typed, Core, Exiting, NEW t \in Threads,
           Step(t) \/ SigchldBlocker(t) \/ loseHelper(t) \/ exit(t),
           Quit, ~again
    PROVE  /\ "tool" \notin dirs => "tool" \notin dirs'
           /\ \A u \in ToolThreads \ {t} : mine(u)'.mutex = u => mine(u).mutex = u
           /\ \A i \in 1 .. Len(fes) : fes[i].pid = "tool" =>
                  (i \notin apps => i \notin apps') /\ (i \notin daemons => i \notin daemons')
<1>1. t \in ToolThreads => thr[t].pc \notin {"body", "base", "ctor"}
  BY DEF Exiting, Leaving
<1>2. t \notin ToolThreads => procOf(t) = "child"
  BY DEF Threads, procOf
<1>3. /\ \A i \in (apps' \ apps) \cup (daemons' \ daemons) :
            thr[t].pc \in {"body", "base"} /\ i \in 1 .. Len(fes) /\ fes[i].pid = procOf(t)
      /\ \A o \in dirs' \ dirs : thr[t].pc = "ctor" /\ o = procOf(t)
  BY Apart
<1>4. "tool" \notin dirs => "tool" \notin dirs'
  BY <1>1, <1>2, <1>3
<1>5. \A i \in 1 .. Len(fes) : fes[i].pid = "tool" =>
          (i \notin apps => i \notin apps') /\ (i \notin daemons => i \notin daemons')
  BY <1>1, <1>2, <1>3
<1>6. ASSUME NEW u \in ToolThreads \ {t}, mine(u)'.mutex = u
      PROVE  mine(u).mutex = u
  <2>0. /\ Calling(t) /\ Constructing(t) /\ Destructing(t) /\ ProcOK(procOf(t))
        /\ u \in Threads /\ procOf(u) \in Procs /\ u # None /\ Others(t)
    BY InCore, ProcOfThread, Frame, FeInstAssumption, Zenon DEF ThreadOK, Threads
  <2>1. CASE procOf(u) # procOf(t)
    BY <1>6, <2>0, <2>1, Zenon DEF Others, mine, procOf
  <2>2. CASE procOf(u) = procOf(t)
    <3> USE DEF Moves, Locals, SameStatics, Statics, Fails
    <3>1. mine(u)' = mine(t)' /\ mine(u) = mine(t)
      BY <2>2 DEF mine, procOf
    <3>2. mine(t)'.mutex \in {mine(t).mutex, None, t}
      <4>1. CASE SigchldBlocker(t) \/ lockIface(t) \/ body(t) \/ unlockIface(t) \/ restoreSigchld(t)
        BY <4>1, SigchldBlockerEffect, lockIfaceEffect, bodyEffect, unlockIfaceEffect,
           restoreSigchldEffect, Zenon
      <4>2. CASE load(t) \/ lockMutex(t) \/ loseHelper(t) \/ detect(t) \/ ctorFails(t)
        BY <2>0, <4>2, loadEffect, lockMutexEffect, loseHelperEffect, detectEffect,
           ctorFailsEffect, Zenon
      <4>3. CASE setupCfgDir(t) \/ baseFails(t) \/ initialize(t) \/ derivedFails(t) \/ store(t)
        BY <2>0, <4>3, setupCfgDirEffect, baseFailsEffect, initializeEffect, derivedFailsEffect,
           storeEffect, Zenon
      <4>4. CASE exit(t) \/ exchange(t) \/ deleteFrontend(t) \/ writeLog(t) \/ members(t) \/ done(t)
        BY <2>0, <4>4, exitEffect, exchangeEffect, deleteFrontendEffect, writeLogEffect,
           membersEffect, doneEffect, Zenon
      <4> QED BY <4>1, <4>2, <4>3, <4>4, Zenon DEF Step
    <3> QED BY <1>6, <2>0, <3>1, <3>2, Zenon
  <2> QED BY <2>1, <2>2
<1> QED BY <1>4, <1>5, <1>6

\* A thread of the tool on its way through destroy.
LEMMA ExitingThread ==
    ASSUME Typed, Core, Exiting, NEW t \in ToolThreads, Step(t) \/ loseHelper(t),
           Quit, ~again'
    PROVE  Leaving(t)' /\ \A i \in 1 .. Len(fes') : Cleaned(i)'
<1>0. /\ t \in Threads /\ procOf(t) = "tool" /\ t # None /\ procOf(t)' = procOf(t)
      /\ ~again /\ Leaving(t) /\ thr[t].saved = None /\ \A i \in 1 .. Len(fes) : Cleaned(i)
  BY GhostsStay, FeInstAssumption DEF Exiting, Threads, procOf
<1>1. Calling(t) /\ Destructing(t) /\ ProcOK("tool") /\ ObjectsKept /\ Others(t)
  BY <1>0, InCore, Frame, Zenon DEF ThreadOK
<1>2. /\ "tool" \notin dirs => "tool" \notin dirs'
      /\ \A i \in 1 .. Len(fes) : fes[i].pid = "tool" =>
             (i \notin apps => i \notin apps') /\ (i \notin daemons => i \notin daemons')
  BY <1>0, ExitingOthers, Zenon
<1>3. \/ exchange(t) \/ deleteFrontend(t) \/ writeLog(t) \/ load(t) \/ lockMutex(t)
      \/ members(t) \/ done(t)
  BY <1>0, Zenon DEF Step, Leaving, lockIface, body, unlockIface, restoreSigchld, loseHelper,
     detect,
     ctorFails, setupCfgDir, baseFails, initialize, derivedFails, store, at
<1> DEFINE n == Last(thr[t].dying)
<1>4. thr[t].pc \in {"delete", "log", "members", "inst", "slow"} =>
          n \in 1 .. Len(fes) /\ fes[n].pid = "tool" /\ fes[n].st = "dying"
  BY <1>0, <1>1, Zenon DEF Destructing, Destroying, Leaving
<1>5. ASSUME NEW i \in 1 .. Len(fes), fes'[i].st = "dead" => fes[i].st = "dead"
      PROVE  Cleaned(i)'
  <2>1. fes'[i].pid = fes[i].pid /\ Cleaned(i)
    BY <1>0, <1>1, Zenon DEF ObjectsKept
  <2> QED BY <1>2, <1>5, <2>1, Zenon DEF Cleaned
<1> HIDE DEF n
<1> USE DEF Moves, Locals, SameStatics, Statics
<1>6. CASE exchange(t)
  <2>1. /\ thr'[t].pc \in {"done", "delete"} /\ mine(t)'.mutex = mine(t).mutex
        /\ fes' = fes \/ StateSet(mine(t).inst, "dying")
    BY <1>0, <1>1, <1>6, exchangeEffect, Zenon
  <2>2. Len(fes') = Len(fes) /\ \A i \in 1 .. Len(fes) : fes'[i].st = "dead" => fes[i].st = "dead"
    BY <2>1, Zenon DEF StateSet
  <2>3. Leaving(t)'
    BY <1>0, <2>1 DEF Leaving
  <2> QED BY <1>5, <2>2, <2>3, Zenon
<1>7. CASE deleteFrontend(t)
  <2>1. /\ thr'[t].pc \in {"log", "members"} /\ mine(t)'.mutex = mine(t).mutex
        /\ thr'[t].dying = thr[t].dying
    BY <1>0, <1>7, deleteFrontendEffect, Zenon
  <2>2. "tool" \notin dirs' /\ fes' = fes
    BY <1>0, <1>7, Zenon DEF deleteFrontend, isOriginalInstance
  <2>3. Leaving(t)'
    BY <1>0, <2>1, <2>2, Zenon DEF Leaving
  <2> QED BY <1>5, <2>2, <2>3
<1>8. CASE writeLog(t) \/ load(t) \/ lockMutex(t)
  <2>1. fes' = fes /\ thr[t].pc \in {"log", "inst", "slow"}
    BY <1>8 DEF writeLog, load, lockMutex, at
  <2>2. "tool" \notin dirs'
    BY <1>0, <1>2, <2>1, Zenon DEF Leaving
  <2>3. /\ thr'[t].pc \in {"members", "inst", "slow"} /\ mine(t)'.mutex = mine(t).mutex
        /\ thr'[t].dying = thr[t].dying
    <3>1. CASE writeLog(t)
      BY <1>0, <3>1, writeLogEffect, Zenon DEF Leaving
    <3>2. thr[t].pc \in {"inst", "slow"} => thr[t].ret = "members"
      BY <1>0, <1>1, Zenon DEF Calling
    <3>3. CASE load(t)
      BY <1>0, <1>1, <3>2, <3>3, loadEffect, Zenon
    <3>4. CASE lockMutex(t)
      <4>1. mine(t).st = "exit"
        BY <1>0, <3>4 DEF lockMutex, at, runs, mine, Quit
      <4> QED BY <1>0, <1>1, <3>2, <3>4, <4>1, lockMutexEffect, Zenon
    <3> QED BY <1>8, <3>1, <3>3, <3>4, Zenon
  <2>4. Leaving(t)'
    BY <1>0, <2>2, <2>3, Zenon DEF Leaving
  <2> QED BY <1>5, <2>1, <2>4, Zenon
<1>9. CASE members(t)
  <2>1. thr[t].pc = "members"
    BY <1>9 DEF members, at
  <2>2. fes[n].main = "tool" /\ fes[n].d = n
    BY <1>4, <2>1 DEF Core, ObjectOK
  <2>3. "tool" \notin dirs' /\ n \notin apps' /\ n \notin daemons'
    <3>1. "tool" \notin dirs
      BY <1>0, <2>1 DEF Leaving
    <3>2. daemons' = daemons \ {n} /\ apps' = apps \ {n}
      BY <1>0, <1>9, <2>2, Zenon DEF members, dropsApps, isOriginalInstance, n
    <3> QED BY <1>2, <3>1, <3>2
  <2>4. /\ StateSet(n, "dead") /\ thr'[t].pc = "done" /\ mine(t)'.mutex = mine(t).mutex
    BY <1>0, <1>1, <1>4, <1>9, <2>1, membersEffect, Zenon DEF n
  <2>5. Leaving(t)'
    BY <1>0, <2>4, Zenon DEF Leaving
  <2>6. ASSUME NEW i \in 1 .. Len(fes) PROVE Cleaned(i)'
    <3>1. CASE i = n
      BY <2>3, <3>1 DEF Cleaned
    <3>2. CASE i # n
      BY <1>5, <2>4, <3>2 DEF StateSet
    <3> QED BY <3>1, <3>2
  <2> QED BY <2>4, <2>5, <2>6 DEF StateSet
<1>10. CASE done(t)
  <2>1. thr' = thr /\ fes' = fes /\ thr[t].pc = "done"
    BY <1>10 DEF done, at
  <2>2. mine(t)'.mutex = mine(t).mutex
    BY <1>0, <1>10, doneEffect, Zenon
  <2>3. Leaving(t)'
    BY <1>0, <2>1, <2>2, Zenon DEF Leaving
  <2> QED BY <1>5, <2>1, <2>3
<1> QED BY <1>3, <1>6, <1>7, <1>8, <1>9, <1>10

\* At the start nothing has been destroyed.
LEMMA ExitingInit == Init => Exiting
<1> SUFFICES ASSUME Init PROVE Exiting
  OBVIOUS
<1>1. fes = << >> /\ proc["tool"].st = "run"
  BY DEF Init, Procs
<1> QED BY <1>1 DEF Exiting, Quit

\* Only exit() takes a running process out of "run", and only a call sets saved.
LEMMA OnlyExit ==
    ASSUME Typed, Core, NEW t \in Threads, Step(t) \/ loseHelper(t)
    PROVE  /\ mine(t).st = "run" => mine(t)'.st = "run"
           /\ thr'[t].saved \in {thr[t].saved, None}
<1>0. Calling(t) /\ Constructing(t) /\ Destructing(t) /\ ProcOK(procOf(t))
  BY InCore, Zenon DEF ThreadOK
<1>1. mine(t).st = "run" =>
        /\ thr[t].pc \notin {"exchange", "done"}
        /\ thr[t].pc \in Building \cup Destroying => thr[t].ret \in {"body", "ret"}
  BY <1>0, Zenon DEF Calling, InExit, Building, Destroying
<1> USE DEF Moves, Locals, SameStatics, Statics, Fails, Building, Destroying
<1>2. CASE lockIface(t) \/ body(t) \/ unlockIface(t) \/ restoreSigchld(t)
  BY <1>2, lockIfaceEffect, bodyEffect, unlockIfaceEffect, restoreSigchldEffect, Zenon
<1>3. CASE load(t) \/ lockMutex(t) \/ loseHelper(t) \/ detect(t) \/ ctorFails(t)
  BY <1>0, <1>1, <1>3, loadEffect, lockMutexEffect, loseHelperEffect, detectEffect,
     ctorFailsEffect, Zenon
<1>4. CASE setupCfgDir(t) \/ baseFails(t) \/ initialize(t) \/ derivedFails(t) \/ store(t)
  BY <1>0, <1>1, <1>4, setupCfgDirEffect, baseFailsEffect, initializeEffect, derivedFailsEffect,
     storeEffect, Zenon
<1>5. CASE exchange(t) \/ deleteFrontend(t) \/ writeLog(t) \/ members(t) \/ done(t)
  BY <1>0, <1>1, <1>5, exchangeEffect, deleteFrontendEffect, writeLogEffect, membersEffect,
     doneEffect, Zenon
<1> QED BY <1>2, <1>3, <1>4, <1>5, Zenon DEF Step

\* Every step keeps it.
LEMMA ExitingNext == Typed /\ Core /\ Exiting /\ [Next]_vars => Exiting'
<1> SUFFICES ASSUME Typed, Core, Exiting, [Next]_vars PROVE Exiting'
  OBVIOUS
<1>0. "tool" \in Procs /\ \A u \in ToolThreads : u \in Threads /\ procOf(u) = "tool"
  BY FeInstAssumption DEF Procs, Threads, procOf
<1>1. ASSUME NEW t \in Threads, Step(t) \/ SigchldBlocker(t) \/ loseHelper(t) \/ exit(t)
      PROVE  Exiting'
  <2>1. /\ Others(t) /\ runs(t) /\ ObjectsKept /\ (overlap => overlap') /\ (again => again')
        /\ mine(t)'.st = mine(t).st \/ mine(t)'.st \in {"exit", "gone"}
    BY <1>1, Frame, GhostsStay
  <2>2. \A i \in 1 .. Len(fes') : fes'[i].pid = "tool" /\ fes'[i].st \in {"dying", "dead"} =>
            proc'["tool"].st \in {"exit", "gone"}
    BY <1>1, ExitingObjects
  <2>3. SUFFICES ASSUME Quit'
                 PROVE  /\ \A u \in ToolThreads : thr'[u].saved = None
                        /\ ~again' => /\ \A u \in ToolThreads : Leaving(u)'
                                      /\ \A i \in 1 .. Len(fes') : Cleaned(i)'
    BY <2>2, Zenon DEF Exiting
  <2>4. ~overlap /\ ~overlap' /\ proc'["tool"].st \in {"exit", "gone"}
    BY <2>1, <2>3 DEF Quit
  <2>5. ASSUME Quit, ~again', NEW u \in ToolThreads \ {t}
        PROVE  Leaving(u)'
    <3>1. ~again /\ Leaving(u) /\ thr'[u] = thr[u] /\ thr[u].saved = None
      BY <1>0, <2>1, <2>5, Zenon DEF Exiting, Others
    <3>2. /\ "tool" \notin dirs => "tool" \notin dirs'
          /\ mine(u)'.mutex = u => mine(u).mutex = u
      BY <1>1, <2>5, <3>1, ExitingOthers, Zenon
    <3> QED BY <3>1, <3>2, Zenon DEF Leaving
  <2>6. CASE t \notin ToolThreads
    <3>1. /\ Quit /\ procOf(t) = "child"
          /\ \A u \in ToolThreads : u # t /\ thr'[u] = thr[u]
      BY <1>0, <2>1, <2>4, <2>6, Zenon DEF Others, Quit, Threads, procOf
    <3>2. ASSUME ~again', NEW i \in 1 .. Len(fes')
          PROVE  Cleaned(i)'
      <4> SUFFICES ASSUME fes'[i].pid = "tool", fes'[i].st = "dead"
                   PROVE  "tool" \notin dirs' /\ i \notin daemons' \cup apps'
        BY DEF Cleaned
      <4>1. i \in 1 .. Len(fes) /\ fes'[i].st = fes[i].st
        BY <1>1, <3>1, Apart, Zenon
      <4>2. fes[i].pid = "tool" /\ ~again
        BY <2>1, <3>2, <4>1, Zenon DEF ObjectsKept
      <4>3. "tool" \notin dirs /\ i \notin daemons \cup apps
        BY <3>1, <4>1, <4>2, Zenon DEF Exiting, Cleaned
      <4>4. /\ "tool" \notin dirs => "tool" \notin dirs'
            /\ (i \notin apps => i \notin apps') /\ (i \notin daemons => i \notin daemons')
        BY <1>1, <3>1, <4>1, <4>2, ExitingOthers, Zenon
      <4> QED BY <4>3, <4>4
    <3> QED BY <2>5, <3>1, <3>2, Zenon DEF Exiting
  <2>7. CASE t \in ToolThreads /\ exit(t)
    <3>1. /\ mine(t).st = "run" /\ thr[t].pc = "out" /\ ~othersIn(t)
          /\ thr'[t].saved = thr[t].saved /\ thr'[t].pc \in {"exchange", "done"}
          /\ mine(t)'.mutex = mine(t).mutex
      BY <2>4, <2>7, exitEffect, Zenon DEF Moves, Locals, Statics
    <3>2. ASSUME NEW u \in ToolThreads
          PROVE  /\ thr[u].saved = None /\ thr[u].pc = "out" /\ mine(u).mutex # u
                 /\ mine(u)'.mutex = mine(u).mutex
      <4>1. Calling(u) /\ Holding(u) /\ Calling(t) /\ mine(u) = mine(t) /\ mine(u)' = mine(t)'
        BY <1>0, <2>7 DEF Core, ThreadOK, mine, procOf
      <4>2. thr[u].saved = None
        <5>1. CASE u = t
          BY <3>1, <4>1, <5>1, Zenon DEF Calling
        <5>2. CASE u # t
          BY <1>0, <2>1, <2>7, <3>1, <5>2, NobodyIn, Zenon
        <5> QED BY <5>1, <5>2
      <4>3. thr[u].pc = "out"
        BY <3>1, <4>1, <4>2, Zenon DEF Calling, InExit
      <4> QED BY <3>1, <4>1, <4>2, <4>3, Zenon DEF Holding, Building, Destroying
    <3>3. ASSUME NEW u \in ToolThreads
          PROVE  thr'[u].saved = None /\ Leaving(u)'
      <4>1. /\ thr'[u].pc \in {"out", "exchange", "done"} /\ thr'[u].saved = None
            /\ mine(u)'.mutex # u
        BY <1>0, <2>1, <3>1, <3>2 DEF Others
      <4> QED BY <4>1, Zenon DEF Leaving
    <3>4. ASSUME NEW i \in 1 .. Len(fes')
          PROVE  Cleaned(i)'
      <4>1. fes' = fes /\ proc["tool"].st = "run"
        BY <1>0, <2>7, <3>1 DEF exit, mine
      <4> QED BY <4>1, Zenon DEF Exiting, Cleaned
    <3> QED BY <3>3, <3>4
  <2>8. CASE t \in ToolThreads /\ SigchldBlocker(t)
    <3>1. mine(t)'.st = mine(t).st
      BY <2>8, SigchldBlockerEffect, Zenon DEF SameStatics, Statics
    <3>2. mine(t).st # "exit"
      BY <2>4, <2>8, Zenon DEF SigchldBlocker, mine
    <3> QED BY <1>0, <2>1, <2>4, <2>8, <3>1, <3>2, Zenon DEF runs, mine, procOf
  <2>9. CASE t \in ToolThreads /\ (Step(t) \/ loseHelper(t))
    <3>1. mine(t).st \in {"run", "exit"} /\ mine(t).st # "run"
      <4>1. mine(t)'.st = proc'["tool"].st /\ mine(t).st = proc["tool"].st
        BY <1>0, <2>9 DEF mine, procOf
      <4> QED BY <2>1, <2>4, <2>9, <4>1, OnlyExit, Zenon DEF runs, mine
    <3>2. Quit
      BY <1>0, <2>4, <2>9, <3>1 DEF Quit, mine
    <3>3. \A u \in ToolThreads : thr'[u].saved = None
      <4>1. thr'[t].saved \in {thr[t].saved, None}
        BY <2>9, OnlyExit
      <4> QED BY <1>0, <2>1, <3>2, <4>1, Zenon DEF Exiting, Others
    <3>4. ~again' => Leaving(t)' /\ \A i \in 1 .. Len(fes') : Cleaned(i)'
      BY <2>9, <3>2, ExitingThread
    <3> QED BY <2>5, <3>2, <3>3, <3>4
  <2> QED BY <1>1, <2>6, <2>7, <2>8, <2>9, Zenon
<1>2. ASSUME NEW t \in Threads, fork(t)
      PROVE  Exiting'
  <2>0. ProcOK("tool")
    BY <1>0 DEF Core
  <2>1. /\ proc["tool"].st = "run" /\ proc'["tool"] = proc["tool"]
        /\ \/ fes' = fes
           \/ /\ Len(fes') = Len(fes) + 1 /\ \A i \in 1 .. Len(fes) : fes'[i] = fes[i]
              /\ fes'[Len(fes) + 1].pid = "child"
    BY <1>2, <2>0, forkEffect, Zenon
  <2>2. Len(fes) \in Nat
    BY DEF Typed
  <2>3. \A i \in 1 .. Len(fes') : fes'[i].pid = "tool" => i \in 1 .. Len(fes) /\ fes'[i] = fes[i]
    BY <2>1, <2>2
  <2> QED BY <2>1, <2>3, Zenon DEF Exiting, Quit
<1>3. CASE peerSweep
  <2>1. UNCHANGED <<proc, thr, fes, daemons, apps, overlap, again>> /\ dirs' \subseteq dirs
    BY <1>3 DEF peerSweep, ghosts
  <2>2. \A u \in ToolThreads : Leaving(u) => Leaving(u)'
    BY <2>1, Zenon DEF Leaving, mine, procOf
  <2>3. \A i \in 1 .. Len(fes) : Cleaned(i) => Cleaned(i)'
    BY <2>1 DEF Cleaned
  <2> QED BY <2>1, <2>2, <2>3, Zenon DEF Exiting, Quit
<1>4. CASE UNCHANGED vars
  BY <1>4, Zenon DEF vars, Exiting, Quit, Leaving, Cleaned, mine, procOf
<1> QED BY <1>1, <1>2, <1>3, <1>4 DEF Next

\* A tool that has exited, none of its threads in a call at the time, has removed
\* its directory, shut its FE daemon down and finalized its applications, unless a
\* log message brought a second instance to life.
THEOREM ExitCleansCorrect == Spec => []ExitCleans
<1>1. Init => Typed /\ Core /\ Exiting
  BY TypedInit, CoreInit, ExitingInit
<1>2. Exiting => ExitCleans
  BY Zenon DEF Exiting, ExitCleans, Quit, Cleaned
<1> QED BY <1>1, <1>2, CoreNext, ExitingNext, PTL DEF Spec
=============================================================================
