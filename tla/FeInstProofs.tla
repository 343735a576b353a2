---------------------------- MODULE FeInstProofs ----------------------------
(***************************************************************************)
(* Proofs about FeInst: for any number of threads and calls, any machines  *)
(* and any settings.                                                       *)
(***************************************************************************)
EXTENDS FeInst, TLAPS


Pcs == {"out", "blocked", "inst", "slow", "detect", "ctor", "base", "derived", "body", "ret",
        "unlocked", "exchange", "delete", "log", "members", "stuck", "done"}
Helpers == {"srun", "palstat", "sacctmgr", "links", "eproxy", "rpm", "flux", "sh"}
Returns == {"body", "ret", "members"}
Kinds == {"slurm", "hpcm", "eproxy", "alps", "pals", "flux", "ssh", "localhost", "assert"}

ThreadType == [pc : Pcs, saved : {"tool", "cti", None}, lost : SUBSET Helpers,
               kind : Kinds \cup {None}, ret : Returns \cup {None}, fe : Nat,
               dying : Seq(Nat)]
ProcType == [st : {"none", "run", "exit", "gone"}, inst : Nat, cleanup : BOOLEAN,
             mutex : Threads \cup {None}, iface : Threads \cup {None},
             handler : {"tool", "cti", None}, logger : BOOLEAN, guard : Threads \cup {None}]
FeType == [pid : Procs, d : Nat, kind : Kinds \cup {None}, main : Procs,
           st : {"ctor", "made", "failed", "unwound", "dying", "dead"}]

\* The variables have the types of the statics, locals and objects they stand for.
Typed ==
    /\ thr \in [Threads -> ThreadType]
    /\ proc \in [Procs -> ProcType]
    /\ fes \in Seq(FeType)
    /\ overlap \in BOOLEAN /\ again \in BOOLEAN

\* A thread that has not entered a call.
LEMMA OutsideType == Outside \in ThreadType
<1>1. << >> \in Seq(Nat)
  OBVIOUS
<1> QED BY <1>1 DEF Outside, ThreadType, Pcs

\* The initial state is well typed.
LEMMA TypedInit == Init => Typed
<1> SUFFICES ASSUME Init PROVE Typed
  OBVIOUS
<1>1. thr \in [Threads -> ThreadType]
  BY OutsideType DEF Init
<1>2. proc \in [Procs -> ProcType]
  BY DEF Init, ProcType
<1>3. fes \in Seq(FeType)
  BY DEF Init
<1> QED BY <1>1, <1>2, <1>3, Zenon DEF Init, Typed

\* A thread belongs to one of the two processes.
LEMMA ProcOfThread == \A t \in Threads : procOf(t) \in Procs
BY DEF procOf, Procs

\* make_Frontend gives a kind of frontend unless it throws.
LEMMA MadeKind ==
    ASSUME NEW m, NEW system, NEW wlm, make_Frontend(m, system, wlm) # Throw
    PROVE  make_Frontend(m, system, wlm) \in Kinds
<1>1. CASE wlm \in {"ALPS", "PALS", "Flux"}
  BY <1>1 DEF make_Frontend, Kinds
<1>2. CASE wlm \notin {"ALPS", "PALS", "Flux"}
  BY <1>2 DEF make_Frontend, Kinds
<1> QED BY <1>1, <1>2

mine(t) == proc[procOf(t)]

-----------------------------------------------------------------------------
(* What a step does to its thread and its process, field by field.         *)

\* Only thread t and its process are changed.
Others(t) ==
    /\ \A u \in Threads \ {t} : thr'[u] = thr[u]
    /\ \A q \in Procs \ {procOf(t)} : proc'[q] = proc[q]

Locals(t, pc, saved, ret, fe, dying) ==
    /\ thr'[t].pc = pc /\ thr'[t].saved = saved /\ thr'[t].ret = ret
    /\ thr'[t].fe = fe /\ thr'[t].dying = dying

\* Thread t only moves.
Moves(t, pc) == Locals(t, pc, thr[t].saved, thr[t].ret, thr[t].fe, thr[t].dying)

Detected(t, lost, kind) == thr'[t].lost = lost /\ thr'[t].kind = kind
SameDetected(t) == Detected(t, thr[t].lost, thr[t].kind)

Statics(t, st, inst, mutex) ==
    mine(t)'.st = st /\ mine(t)'.inst = inst /\ mine(t)'.mutex = mutex
SameStatics(t) == Statics(t, mine(t).st, mine(t).inst, mine(t).mutex)

Env(t, handler) == mine(t)'.handler = handler
SameEnv(t) == Env(t, mine(t).handler)

\* Assigning a thread and its process.
LEMMA Update ==
    ASSUME Typed, NEW t \in Threads, NEW r \in ThreadType, NEW f \in ProcType,
           thr' = [thr EXCEPT ![t] = r], proc' = [proc EXCEPT ![procOf(t)] = f]
    PROVE  /\ thr' \in [Threads -> ThreadType] /\ proc' \in [Procs -> ProcType]
           /\ Others(t) /\ thr'[t] = r /\ mine(t)' = f
BY ProcOfThread DEF Typed, Others, mine

\* The same when the process is left alone.
LEMMA UpdateThread ==
    ASSUME Typed, NEW t \in Threads, NEW r \in ThreadType,
           thr' = [thr EXCEPT ![t] = r], proc' = proc
    PROVE  /\ thr' \in [Threads -> ThreadType] /\ proc' \in [Procs -> ProcType]
           /\ Others(t) /\ thr'[t] = r /\ SameStatics(t) /\ SameEnv(t)
BY ProcOfThread DEF Typed, Others, mine, SameStatics, SameEnv, Statics, Env

\* A thread and its process are records.
LEMMA Records ==
    ASSUME Typed, NEW t \in Threads
    PROVE  thr[t] \in ThreadType /\ mine(t) \in ProcType
BY ProcOfThread DEF Typed, mine

\* Moving is well typed.
LEMMA MovedType ==
    ASSUME NEW r \in ThreadType, NEW c \in Pcs
    PROVE  /\ [r EXCEPT !.pc = c] \in ThreadType
           /\ [r EXCEPT !.pc = c].pc = c /\ [r EXCEPT !.pc = c].saved = r.saved
           /\ [r EXCEPT !.pc = c].ret = r.ret /\ [r EXCEPT !.pc = c].fe = r.fe
           /\ [r EXCEPT !.pc = c].dying = r.dying /\ [r EXCEPT !.pc = c].lost = r.lost
           /\ [r EXCEPT !.pc = c].kind = r.kind
BY Zenon DEF ThreadType

\* A thread moves.
LEMMA ToEffect ==
    ASSUME Typed, NEW t \in Threads, NEW c \in Pcs, to(t, c), proc' = proc
    PROVE  /\ thr' \in [Threads -> ThreadType] /\ proc' \in [Procs -> ProcType]
           /\ Others(t) /\ Moves(t, c) /\ SameDetected(t) /\ SameStatics(t) /\ SameEnv(t)
<1> DEFINE r == [thr[t] EXCEPT !.pc = c]
<1>1. r \in ThreadType
  BY Records, MovedType
<1>2. thr' = [thr EXCEPT ![t] = r]
  BY DEF to
<1>3. /\ thr' \in [Threads -> ThreadType] /\ proc' \in [Procs -> ProcType]
      /\ Others(t) /\ thr'[t] = r /\ SameStatics(t) /\ SameEnv(t)
  <2> HIDE DEF r
  <2> QED BY <1>1, <1>2, UpdateThread, Zenon
<1> QED BY <1>3, Records, MovedType DEF Moves, Locals, SameDetected, Detected

\* A thread moves and changes something in its process.
LEMMA ToProcEffect ==
    ASSUME Typed, NEW t \in Threads, NEW c \in Pcs, to(t, c),
           NEW f \in ProcType, setProc(procOf(t), f)
    PROVE  /\ thr' \in [Threads -> ThreadType] /\ proc' \in [Procs -> ProcType]
           /\ Others(t) /\ Moves(t, c) /\ SameDetected(t) /\ mine(t)' = f
<1> DEFINE r == [thr[t] EXCEPT !.pc = c]
<1>1. r \in ThreadType
  BY Records, MovedType
<1>2. thr' = [thr EXCEPT ![t] = r] /\ proc' = [proc EXCEPT ![procOf(t)] = f]
  BY DEF to, setProc
<1>3. /\ thr' \in [Threads -> ThreadType] /\ proc' \in [Procs -> ProcType]
      /\ Others(t) /\ thr'[t] = r /\ mine(t)' = f
  <2> HIDE DEF r
  <2> QED BY <1>1, <1>2, Update, Zenon
<1> QED BY <1>3, Records, MovedType DEF Moves, Locals, SameDetected, Detected

\* The guard of the logger is released.
LEMMA FreeGuardType ==
    ASSUME NEW t \in Threads, NEW f \in ProcType
    PROVE  LET g == freeGuard(t, f) IN
           /\ g \in ProcType /\ g.st = f.st /\ g.inst = f.inst /\ g.mutex = f.mutex
           /\ g.handler = f.handler
BY DEF freeGuard, ProcType

\* inst() throws: the lock is released, and the call returns or the process ends.
LEMMA FailsEffect ==
    ASSUME Typed, NEW t \in Threads, NEW f \in ProcType, fails(t, f)
    PROVE  /\ thr' \in [Threads -> ThreadType] /\ proc' \in [Procs -> ProcType]
           /\ Others(t)
           /\ Locals(t, "ret", thr[t].saved, thr[t].ret, thr[t].fe, << >>)
           /\ Detected(t, {}, None)
           /\ Statics(t, IF thr[t].ret # "members" THEN f.st ELSE "gone", f.inst, None)
           /\ Env(t, f.handler)
<1> DEFINE r == [thr[t] EXCEPT !.lost = {}, !.kind = None, !.dying = << >>, !.pc = "ret"]
           g == [freeGuard(t, f) EXCEPT !.mutex = None]
           h == IF thr[t].ret # "members" THEN g ELSE [g EXCEPT !.st = "gone"]
<1>1. thr[t] \in ThreadType /\ << >> \in Seq(Nat)
  BY Records
<1>2. /\ r \in ThreadType
      /\ r.pc = "ret" /\ r.saved = thr[t].saved /\ r.ret = thr[t].ret /\ r.fe = thr[t].fe
      /\ r.dying = << >> /\ r.lost = {} /\ r.kind = None
  BY <1>1, Zenon DEF ThreadType, Pcs
<1>3. /\ g \in ProcType
      /\ g.st = f.st /\ g.inst = f.inst /\ g.mutex = None /\ g.handler = f.handler
  BY FreeGuardType, Zenon DEF ProcType
<1> HIDE DEF g
<1>4. /\ h \in ProcType
      /\ h.st = IF thr[t].ret # "members" THEN f.st ELSE "gone"
      /\ h.inst = f.inst /\ h.mutex = None /\ h.handler = f.handler
  BY <1>3 DEF ProcType
<1>5. thr' = [thr EXCEPT ![t] = r] /\ proc' = [proc EXCEPT ![procOf(t)] = h]
  BY DEF fails, goes, setProc, g
<1> HIDE DEF r, h
<1>6. /\ thr' \in [Threads -> ThreadType] /\ proc' \in [Procs -> ProcType]
      /\ Others(t) /\ thr'[t] = r /\ mine(t)' = h
  BY <1>2, <1>4, <1>5, Update, Zenon
<1> QED BY <1>2, <1>4, <1>6 DEF Locals, Detected, Statics, Env

\* inst() returns the instance.
LEMMA FoundEffect ==
    ASSUME Typed, NEW t \in Threads, NEW f \in ProcType, found(t, f), thr[t].ret \in Returns
    PROVE  /\ thr' \in [Threads -> ThreadType] /\ proc' \in [Procs -> ProcType]
           /\ Others(t)
           /\ Locals(t, thr[t].ret, thr[t].saved, thr[t].ret, f.inst, thr[t].dying)
           /\ Detected(t, {}, None)
           /\ Statics(t, f.st, f.inst, f.mutex)
           /\ Env(t, f.handler)
<1> DEFINE r == [thr[t] EXCEPT !.fe = f.inst, !.lost = {}, !.kind = None, !.pc = thr[t].ret]
           g == [freeGuard(t, f) EXCEPT !.logger = @ \/ thr[t].ret # "body"]
<1>1. thr[t] \in ThreadType
  BY Records
<1>2. /\ r \in ThreadType
      /\ r.pc = thr[t].ret /\ r.saved = thr[t].saved /\ r.ret = thr[t].ret /\ r.fe = f.inst
      /\ r.dying = thr[t].dying /\ r.lost = {} /\ r.kind = None
  BY <1>1, Zenon DEF ThreadType, ProcType, Pcs, Returns
<1>3. /\ g \in ProcType
      /\ g.st = f.st /\ g.inst = f.inst /\ g.mutex = f.mutex /\ g.handler = f.handler
  BY FreeGuardType, Zenon DEF ProcType
<1>4. thr' = [thr EXCEPT ![t] = r] /\ proc' = [proc EXCEPT ![procOf(t)] = g]
  BY DEF found, goes, setProc
<1> HIDE DEF r, g
<1>5. /\ thr' \in [Threads -> ThreadType] /\ proc' \in [Procs -> ProcType]
      /\ Others(t) /\ thr'[t] = r /\ mine(t)' = g
  BY <1>2, <1>3, <1>4, Update, Zenon
<1> QED BY <1>2, <1>3, <1>5 DEF Locals, Detected, Statics, Env

\* A thread moves and changes its locals and its process.
LEMMA GoesEffect ==
    ASSUME Typed, NEW t \in Threads, NEW c \in Pcs, NEW s \in ThreadType, goes(t, c, s),
           NEW f \in ProcType, setProc(procOf(t), f)
    PROVE  /\ thr' \in [Threads -> ThreadType] /\ proc' \in [Procs -> ProcType]
           /\ Others(t) /\ Locals(t, c, s.saved, s.ret, s.fe, s.dying)
           /\ Detected(t, s.lost, s.kind) /\ mine(t)' = f
<1> DEFINE r == [s EXCEPT !.pc = c]
<1>1. r \in ThreadType
  BY MovedType
<1>2. thr' = [thr EXCEPT ![t] = r] /\ proc' = [proc EXCEPT ![procOf(t)] = f]
  BY DEF goes, setProc
<1>3. /\ thr' \in [Threads -> ThreadType] /\ proc' \in [Procs -> ProcType]
      /\ Others(t) /\ thr'[t] = r /\ mine(t)' = f
  <2> HIDE DEF r
  <2> QED BY <1>1, <1>2, Update, Zenon
<1> QED BY <1>3, MovedType DEF Locals, Detected

\* The same when the process is left alone.
LEMMA GoesAloneEffect ==
    ASSUME Typed, NEW t \in Threads, NEW c \in Pcs, NEW s \in ThreadType, goes(t, c, s),
           proc' = proc
    PROVE  /\ thr' \in [Threads -> ThreadType] /\ proc' \in [Procs -> ProcType]
           /\ Others(t) /\ Locals(t, c, s.saved, s.ret, s.fe, s.dying)
           /\ Detected(t, s.lost, s.kind) /\ SameStatics(t) /\ SameEnv(t)
<1> DEFINE r == [s EXCEPT !.pc = c]
<1>1. r \in ThreadType
  BY MovedType
<1>2. thr' = [thr EXCEPT ![t] = r]
  BY DEF goes
<1>3. /\ thr' \in [Threads -> ThreadType] /\ proc' \in [Procs -> ProcType]
      /\ Others(t) /\ thr'[t] = r /\ SameStatics(t) /\ SameEnv(t)
  <2> HIDE DEF r
  <2> QED BY <1>1, <1>2, UpdateThread, Zenon
<1> QED BY <1>3, MovedType DEF Locals, Detected

\* The call begins.
LEMMA SigchldBlockerEffect ==
    ASSUME Typed, NEW t \in Threads, SigchldBlocker(t)
    PROVE  /\ Typed' /\ Others(t) /\ runs(t) /\ thr[t].pc = "out"
           /\ Locals(t, "blocked", mine(t).handler, thr[t].ret, thr[t].fe, thr[t].dying)
           /\ SameDetected(t) /\ SameStatics(t)
           /\ Env(t, "cti")
<1> DEFINE s == [thr[t] EXCEPT !.saved = mine(t).handler]
           f == [mine(t) EXCEPT !.handler = "cti"]
<1>1. thr[t] \in ThreadType /\ mine(t) \in ProcType
  BY Records
<1>2. /\ s \in ThreadType
      /\ s.saved = mine(t).handler /\ s.ret = thr[t].ret /\ s.fe = thr[t].fe
      /\ s.dying = thr[t].dying /\ s.lost = thr[t].lost /\ s.kind = thr[t].kind
  BY <1>1, Zenon DEF ThreadType, ProcType
<1>3. /\ f \in ProcType
      /\ f.st = mine(t).st /\ f.inst = mine(t).inst /\ f.mutex = mine(t).mutex
      /\ f.handler = "cti"
  BY <1>1 DEF ProcType
<1>4. goes(t, "blocked", s) /\ setProc(procOf(t), f) /\ "blocked" \in Pcs
  BY DEF SigchldBlocker, mine, Pcs
<1> HIDE DEF s, f
<1>5. /\ thr' \in [Threads -> ThreadType] /\ proc' \in [Procs -> ProcType] /\ Others(t)
      /\ Locals(t, "blocked", s.saved, s.ret, s.fe, s.dying)
      /\ Detected(t, s.lost, s.kind) /\ mine(t)' = f
  BY <1>2, <1>3, <1>4, GoesEffect
<1>6. overlap' \in BOOLEAN /\ again' = again /\ fes' = fes
  BY DEF SigchldBlocker, Typed
<1> QED BY <1>2, <1>3, <1>5, <1>6 DEF SigchldBlocker, Typed, at, SameDetected, SameStatics,
           Statics, Env

\* The lock of the interface is taken.
LEMMA lockIfaceEffect ==
    ASSUME Typed, NEW t \in Threads, lockIface(t)
    PROVE  /\ Typed' /\ Others(t) /\ runs(t) /\ thr[t].pc = "blocked"
           /\ Locals(t, "inst", thr[t].saved, "body", thr[t].fe, thr[t].dying)
           /\ SameDetected(t) /\ SameStatics(t) /\ SameEnv(t)
<1> DEFINE s == [thr[t] EXCEPT !.ret = "body"]
           f == [mine(t) EXCEPT !.iface = t]
<1>1. thr[t] \in ThreadType /\ mine(t) \in ProcType
  BY Records
<1>2. /\ s \in ThreadType
      /\ s.saved = thr[t].saved /\ s.ret = "body" /\ s.fe = thr[t].fe
      /\ s.dying = thr[t].dying /\ s.lost = thr[t].lost /\ s.kind = thr[t].kind
  BY <1>1, Zenon DEF ThreadType, Returns
<1>3. /\ f \in ProcType
      /\ f.st = mine(t).st /\ f.inst = mine(t).inst /\ f.mutex = mine(t).mutex
      /\ f.handler = mine(t).handler
  BY <1>1 DEF ProcType
<1>4. goes(t, "inst", s) /\ setProc(procOf(t), f) /\ "inst" \in Pcs
  BY DEF lockIface, mine, Pcs
<1> HIDE DEF s, f
<1>5. /\ thr' \in [Threads -> ThreadType] /\ proc' \in [Procs -> ProcType] /\ Others(t)
      /\ Locals(t, "inst", s.saved, s.ret, s.fe, s.dying)
      /\ Detected(t, s.lost, s.kind) /\ mine(t)' = f
  BY <1>2, <1>3, <1>4, GoesEffect
<1> QED BY <1>2, <1>3, <1>5 DEF lockIface, Typed, at, SameDetected, SameStatics, SameEnv,
           Statics, Env, ghosts

\* The logger is made on its first use.
LEMMA getLoggerEffect ==
    ASSUME Typed, NEW t \in Threads, NEW back \in {"ret", "members"}, getLogger(t, back)
    PROVE  /\ thr' \in [Threads -> ThreadType] /\ proc' \in [Procs -> ProcType] /\ Others(t)
           /\ Locals(t, "inst", thr[t].saved, back, thr[t].fe, thr[t].dying)
           /\ SameDetected(t) /\ SameStatics(t) /\ SameEnv(t)
<1> DEFINE s == [thr[t] EXCEPT !.ret = back]
           f == [mine(t) EXCEPT !.guard = t]
<1>1. thr[t] \in ThreadType /\ mine(t) \in ProcType
  BY Records
<1>2. /\ s \in ThreadType
      /\ s.saved = thr[t].saved /\ s.ret = back /\ s.fe = thr[t].fe
      /\ s.dying = thr[t].dying /\ s.lost = thr[t].lost /\ s.kind = thr[t].kind
  BY <1>1, Zenon DEF ThreadType, Returns
<1>3. /\ f \in ProcType
      /\ f.st = mine(t).st /\ f.inst = mine(t).inst /\ f.mutex = mine(t).mutex
      /\ f.handler = mine(t).handler
  BY <1>1 DEF ProcType
<1>4. goes(t, "inst", s) /\ setProc(procOf(t), f) /\ "inst" \in Pcs
  BY DEF getLogger, mine, Pcs
<1> HIDE DEF s, f
<1>5. /\ thr' \in [Threads -> ThreadType] /\ proc' \in [Procs -> ProcType] /\ Others(t)
      /\ Locals(t, "inst", s.saved, s.ret, s.fe, s.dying)
      /\ Detected(t, s.lost, s.kind) /\ mine(t)' = f
  BY <1>2, <1>3, <1>4, GoesEffect
<1> QED BY <1>2, <1>3, <1>5 DEF SameDetected, SameStatics, SameEnv, Statics, Env

\* The work of the call, and its end.
LEMMA bodyEffect ==
    ASSUME Typed, NEW t \in Threads, body(t)
    PROVE  /\ Typed' /\ Others(t) /\ runs(t) /\ thr[t].pc = "body"
           /\ \/ Moves(t, "ret")
              \/ Locals(t, "inst", thr[t].saved, "ret", thr[t].fe, thr[t].dying)
           /\ SameDetected(t) /\ SameStatics(t) /\ SameEnv(t)
<1>1. fes' = fes /\ UNCHANGED ghosts /\ thr[t].pc = "body" /\ runs(t)
  BY DEF body, at
<1>2. CASE to(t, "ret") /\ UNCHANGED proc
  <2>1. /\ thr' \in [Threads -> ThreadType] /\ proc' \in [Procs -> ProcType] /\ Others(t)
        /\ Moves(t, "ret") /\ SameDetected(t) /\ SameStatics(t) /\ SameEnv(t)
    BY <1>2, ToEffect DEF Pcs
  <2> QED BY <1>1, <2>1 DEF Typed, ghosts
<1>3. CASE getLogger(t, "ret")
  BY <1>1, <1>3, getLoggerEffect DEF Typed, ghosts
<1> QED BY <1>2, <1>3 DEF body

\* The lock of the interface is released.
LEMMA unlockIfaceEffect ==
    ASSUME Typed, NEW t \in Threads, unlockIface(t)
    PROVE  /\ Typed' /\ Others(t) /\ runs(t) /\ thr[t].pc = "ret"
           /\ Moves(t, "unlocked") /\ SameDetected(t) /\ SameStatics(t) /\ SameEnv(t)
<1> DEFINE f == [mine(t) EXCEPT !.iface = None]
<1>1. mine(t) \in ProcType
  BY Records
<1>2. /\ f \in ProcType
      /\ f.st = mine(t).st /\ f.inst = mine(t).inst /\ f.mutex = mine(t).mutex
      /\ f.handler = mine(t).handler
  BY <1>1 DEF ProcType
<1>3. to(t, "unlocked") /\ "unlocked" \in Pcs /\ setProc(procOf(t), f)
  BY DEF unlockIface, mine, Pcs
<1> HIDE DEF f
<1>4. /\ thr' \in [Threads -> ThreadType] /\ proc' \in [Procs -> ProcType] /\ Others(t)
      /\ Moves(t, "unlocked") /\ SameDetected(t) /\ mine(t)' = f
  BY <1>2, <1>3, ToProcEffect
<1> QED BY <1>2, <1>4 DEF unlockIface, Typed, at, SameStatics, SameEnv, Statics, Env, ghosts

\* The call ends: the saved SIGCHLD action is put back.
LEMMA restoreSigchldEffect ==
    ASSUME Typed, NEW t \in Threads, restoreSigchld(t)
    PROVE  /\ Typed' /\ Others(t) /\ runs(t) /\ thr[t].pc = "unlocked"
           /\ Locals(t, "out", None, None, 0, << >>) /\ Detected(t, {}, None)
           /\ SameStatics(t) /\ Env(t, thr[t].saved)
<1> DEFINE f == [mine(t) EXCEPT !.handler = thr[t].saved]
<1>1. mine(t) \in ProcType /\ thr[t].saved \in {"tool", "cti", None}
  BY Records DEF ThreadType
<1>2. /\ f \in ProcType
      /\ f.st = mine(t).st /\ f.inst = mine(t).inst /\ f.mutex = mine(t).mutex
      /\ f.handler = thr[t].saved
  BY <1>1 DEF ProcType
<1>3. thr' = [thr EXCEPT ![t] = Outside] /\ proc' = [proc EXCEPT ![procOf(t)] = f]
  BY DEF restoreSigchld, setProc, mine
<1> HIDE DEF f
<1>4. /\ thr' \in [Threads -> ThreadType] /\ proc' \in [Procs -> ProcType] /\ Others(t)
      /\ thr'[t] = Outside /\ mine(t)' = f
  BY <1>2, <1>3, OutsideType, Update, Zenon
<1> QED BY <1>2, <1>4 DEF restoreSigchld, Typed, at, SameStatics, Statics, Env, Locals,
           Detected, Outside, ghosts

-----------------------------------------------------------------------------
(* The inductive invariant: for each thread, for each object, for each     *)
(* process.                                                                *)

Building == {"detect", "ctor", "base", "derived"}
Destroying == {"delete", "log", "members", "stuck"}
InExit(t) == thr[t].pc # "out" /\ thr[t].saved = None

\* The lock is held exactly during a construction and its unwinding, and then
\* there is no instance.
Holding(t) ==
    /\ thr[t].pc \in Building => mine(t).mutex = t
    /\ mine(t).mutex = t => thr[t].pc \in Building \cup Destroying /\ mine(t).inst = 0

\* A constructor works on an object of its own.
Constructing(t) ==
    thr[t].pc \in {"base", "derived"} =>
        /\ thr[t].fe \in 1 .. Len(fes)
        /\ fes[thr[t].fe].pid = procOf(t) /\ fes[thr[t].fe].main = procOf(t)
        /\ fes[thr[t].fe].d = thr[t].fe /\ fes[thr[t].fe].st = "ctor"

\* A call works on an object of its process, the published one until the exit.
Working(t) ==
    thr[t].pc = "body" =>
        /\ thr[t].fe \in 1 .. Len(fes) /\ fes[thr[t].fe].pid = procOf(t)
        /\ mine(t).st = "run" => thr[t].fe = mine(t).inst

\* A thread is outside, in a call (saved is set) or in exit.
Calling(t) ==
    /\ t \notin setup.actors \/ mine(t).st = "none" => thr[t].pc = "out"
    /\ thr[t].pc = "out" =>
           thr[t].saved = None /\ thr[t].ret = None /\ thr[t].lost = {}
    /\ thr[t].pc \in {"inst", "slow"} \cup Building =>
           thr[t].ret \in IF thr[t].saved # None THEN {"body", "ret"} ELSE {"members"}
    /\ thr[t].ret \in {"body", "ret"} => thr[t].saved # None
    /\ mine(t).mutex = t => thr[t].ret \in {"body", "ret", "members"}
    /\ thr[t].pc \in {"blocked", "body", "ret", "unlocked"} /\ thr[t].saved = None =>
           mine(t).st = "gone"
    /\ thr[t].pc \in {"exchange", "done"} => thr[t].saved = None
    /\ thr[t].pc \in Destroying /\ thr[t].saved # None =>
           mine(t).mutex = t /\ thr[t].ret \in {"body", "ret"}
    /\ InExit(t) => mine(t).st \in {"exit", "gone"}

\* A destructor works on an object of its process that is not published: one
\* whose constructor failed, under the lock, or the one that exit took.
Destructing(t) ==
    \/ thr[t].pc \in Destroying
    \/ thr[t].pc \in {"inst", "slow"} \cup Building /\ thr[t].saved = None
    => /\ thr[t].dying # << >>
       /\ Last(thr[t].dying) \in 1 .. Len(fes)
       /\ fes[Last(thr[t].dying)].pid = procOf(t)
       /\ fes[Last(thr[t].dying)].st =
              IF thr[t].pc \in Destroying /\ mine(t).mutex = t THEN "unwound" ELSE "dying"

ThreadOK(t) ==
    Holding(t) /\ Constructing(t) /\ Working(t) /\ Calling(t) /\ Destructing(t)

\* The published object is complete and of the process.
ProcOK(p) ==
    /\ proc[p].inst # 0 => /\ proc[p].inst \in 1 .. Len(fes)
                           /\ published(p).pid = p /\ published(p).st = "made"
    /\ p = "tool" => proc[p].mutex # Forked
    /\ proc[p].handler # None

\* An object that is complete is published, and one under construction has its
\* constructor.  A forked copy refers to the object of the tool.
ObjectOK(i) ==
    /\ fes[i].st = "made" => proc[fes[i].pid].inst = i
    /\ fes[i].st = "ctor" =>
           \E t \in Threads : procOf(t) = fes[i].pid /\ thr[t].fe = i
                              /\ thr[t].pc \in {"base", "derived"}
    /\ fes[i].d \in 1 .. Len(fes) /\ fes[fes[i].d].kind = fes[i].kind
    /\ fes[i].pid = "tool" => fes[i].main = "tool"
    /\ fes[i].main = fes[i].pid => fes[i].d = i

OneExit ==
    \A t, u \in Threads : procOf(t) = procOf(u) /\ InExit(t) /\ InExit(u) => t = u

\* The child has nothing before the fork.
Unborn == proc["child"].st = "none" => proc["child"].inst = 0

Core ==
    /\ \A t \in Threads : ThreadOK(t)
    /\ \A p \in Procs : ProcOK(p)
    /\ \A i \in 1 .. Len(fes) : ObjectOK(i)
    /\ OneExit
    /\ Unborn

-----------------------------------------------------------------------------
(* The effects of the other steps, in the states of the invariant.         *)

\* Objects stay what they are, but for their state.
ObjectsKept ==
    /\ Len(fes) <= Len(fes') /\ Len(fes') \in Nat
    /\ \A i \in 1 .. Len(fes) :
           /\ fes'[i].pid = fes[i].pid /\ fes'[i].main = fes[i].main
           /\ fes'[i].d = fes[i].d /\ fes'[i].kind = fes[i].kind

\* Object n gets the state s.
StateSet(n, s) ==
    /\ ObjectsKept /\ Len(fes') = Len(fes)
    /\ \A i \in 1 .. Len(fes) : fes'[i].st = IF i = n THEN s ELSE fes[i].st

\* The states of an object are set one at a time.
LEMMA StateEffect ==
    ASSUME Typed, NEW n \in 1 .. Len(fes),
           NEW s \in {"ctor", "made", "failed", "unwound", "dying", "dead"},
           fes' = [fes EXCEPT ![n].st = s]
    PROVE  fes' \in Seq(FeType) /\ StateSet(n, s)
<1> DEFINE o == [fes[n] EXCEPT !.st = s]
<1>1. Len(fes) \in Nat /\ fes \in [1 .. Len(fes) -> FeType] /\ fes[n] \in FeType
  BY DEF Typed
<1>2. /\ o \in FeType
      /\ o.pid = fes[n].pid /\ o.main = fes[n].main /\ o.d = fes[n].d /\ o.kind = fes[n].kind
      /\ o.st = s
  BY <1>1 DEF FeType
<1>3. fes' = [fes EXCEPT ![n] = o]
  OBVIOUS
<1> HIDE DEF o
<1>4. fes' \in Seq(FeType) /\ Len(fes') = Len(fes)
  BY <1>1, <1>2, <1>3 DEF Typed
<1>5. \A i \in 1 .. Len(fes) : fes'[i] = IF i = n THEN o ELSE fes[i]
  BY <1>1, <1>3
<1> QED BY <1>1, <1>2, <1>4, <1>5 DEF StateSet, ObjectsKept

\* A new object comes last.
LEMMA AppendEffect ==
    ASSUME Typed, NEW o \in FeType, fes' = Append(fes, o)
    PROVE  /\ fes' \in Seq(FeType) /\ ObjectsKept
           /\ Len(fes') = Len(fes) + 1 /\ fes'[Len(fes) + 1] = o
           /\ \A i \in 1 .. Len(fes) : fes'[i] = fes[i]
<1>1. Len(fes) \in Nat /\ fes \in Seq(FeType)
  BY DEF Typed
<1>2. /\ fes' \in Seq(FeType) /\ Len(fes') = Len(fes) + 1 /\ fes'[Len(fes) + 1] = o
      /\ \A i \in 1 .. Len(fes) : fes'[i] = fes[i]
  BY <1>1
<1> QED BY <1>1, <1>2 DEF ObjectsKept

\* Objects that no step touches.
LEMMA SameObjects ==
    ASSUME Typed, fes' = fes
    PROVE  ObjectsKept
BY DEF Typed, ObjectsKept

\* The first look at the instance.
LEMMA loadEffect ==
    ASSUME Typed, NEW t \in Threads, Calling(t), load(t)
    PROVE  /\ Typed' /\ Others(t) /\ runs(t) /\ thr[t].pc = "inst"
           /\ SameStatics(t) /\ SameEnv(t)
           /\ \/ /\ mine(t).inst # 0 /\ Detected(t, {}, None)
                 /\ Locals(t, thr[t].ret, thr[t].saved, thr[t].ret, mine(t).inst, thr[t].dying)
              \/ mine(t).inst = 0 /\ Moves(t, "slow") /\ SameDetected(t)
<1>1. mine(t) \in ProcType /\ thr[t].pc = "inst"
  BY Records DEF load, at
<1>2. fes' = fes /\ UNCHANGED ghosts /\ runs(t)
  BY DEF load, at
<1>3. CASE mine(t).inst # 0
  <2>1. found(t, mine(t)) /\ thr[t].ret \in Returns
    BY <1>1, <1>3 DEF load, mine, Calling, Returns
  <2>2. /\ thr' \in [Threads -> ThreadType] /\ proc' \in [Procs -> ProcType]
        /\ Others(t)
        /\ Locals(t, thr[t].ret, thr[t].saved, thr[t].ret, mine(t).inst, thr[t].dying)
        /\ Detected(t, {}, None)
        /\ Statics(t, mine(t).st, mine(t).inst, mine(t).mutex)
        /\ Env(t, mine(t).handler)
    BY <1>1, <2>1, FoundEffect, Zenon
  <2> QED BY <1>1, <1>2, <1>3, <2>2 DEF SameStatics, SameEnv, Typed, ghosts
<1>4. CASE mine(t).inst = 0
  <2>1. to(t, "slow") /\ "slow" \in Pcs /\ proc' = proc
    BY <1>4 DEF load, mine, Pcs
  <2>2. /\ thr' \in [Threads -> ThreadType] /\ proc' \in [Procs -> ProcType]
        /\ Others(t) /\ Moves(t, "slow") /\ SameDetected(t) /\ SameStatics(t) /\ SameEnv(t)
    BY <2>1, ToEffect
  <2> QED BY <1>1, <1>2, <1>4, <2>2 DEF Typed, ghosts
<1> QED BY <1>3, <1>4

\* The second look, under the lock.
LEMMA lockMutexEffect ==
    ASSUME Typed, NEW t \in Threads, Calling(t), lockMutex(t)
    PROVE  /\ Typed' /\ Others(t) /\ runs(t) /\ thr[t].pc = "slow" /\ mine(t).mutex = None
           /\ SameEnv(t)
           /\ \/ /\ mine(t).inst # 0 /\ SameStatics(t) /\ Detected(t, {}, None)
                 /\ Locals(t, thr[t].ret, thr[t].saved, thr[t].ret, mine(t).inst, thr[t].dying)
                 /\ again' = again
              \/ /\ mine(t).inst = 0 /\ Statics(t, mine(t).st, 0, t)
                 /\ Moves(t, "detect") /\ SameDetected(t)
                 /\ again' = (again \/ mine(t).st = "exit")
<1>1. mine(t) \in ProcType /\ thr[t].pc = "slow" /\ mine(t).mutex = None
  BY Records DEF lockMutex, at, mine
<1>2. fes' = fes /\ UNCHANGED overlap /\ runs(t)
  BY DEF lockMutex, at
<1>3. CASE mine(t).inst # 0
  <2>1. found(t, mine(t)) /\ thr[t].ret \in Returns /\ again' = again
    BY <1>1, <1>3 DEF lockMutex, mine, Calling, Returns
  <2>2. /\ thr' \in [Threads -> ThreadType] /\ proc' \in [Procs -> ProcType]
        /\ Others(t)
        /\ Locals(t, thr[t].ret, thr[t].saved, thr[t].ret, mine(t).inst, thr[t].dying)
        /\ Detected(t, {}, None)
        /\ Statics(t, mine(t).st, mine(t).inst, mine(t).mutex)
        /\ Env(t, mine(t).handler)
    BY <1>1, <2>1, FoundEffect, Zenon
  <2> QED BY <1>1, <1>2, <1>3, <2>1, <2>2 DEF SameStatics, SameEnv, Typed
<1>4. CASE mine(t).inst = 0
  <2> DEFINE f == [mine(t) EXCEPT !.mutex = t, !.cleanup = TRUE]
  <2>1. /\ to(t, "detect") /\ "detect" \in Pcs /\ setProc(procOf(t), f)
        /\ again' = (again \/ mine(t).st = "exit")
    BY <1>4 DEF lockMutex, mine, Pcs
  <2>2. /\ f \in ProcType
        /\ f.st = mine(t).st /\ f.inst = mine(t).inst /\ f.mutex = t
        /\ f.handler = mine(t).handler
    BY <1>1, Zenon DEF ProcType
  <2> HIDE DEF f
  <2>3. /\ thr' \in [Threads -> ThreadType] /\ proc' \in [Procs -> ProcType]
        /\ Others(t) /\ Moves(t, "detect") /\ SameDetected(t) /\ mine(t)' = f
    BY <2>1, <2>2, ToProcEffect
  <2>4. Typed'
    BY <1>2, <2>1, <2>3 DEF Typed
  <2> QED BY <1>1, <1>2, <1>4, <2>1, <2>2, <2>3, <2>4, Zenon DEF Statics, SameEnv, Env
<1> QED BY <1>3, <1>4, Zenon

\* The exit status of a helper is taken away.
LEMMA loseHelperEffect ==
    ASSUME Typed, NEW t \in Threads, loseHelper(t)
    PROVE  /\ Typed' /\ Others(t) /\ runs(t) /\ thr[t].pc = "detect"
           /\ mine(t).handler = "tool"
           /\ Moves(t, "detect") /\ SameStatics(t) /\ SameEnv(t)
<1>1. thr[t] \in ThreadType /\ thr[t].pc = "detect" /\ runs(t) /\ mine(t).handler = "tool"
  BY Records DEF loseHelper, at, mine
<1>2. PICK h \in (asks(setup.machine, setup.conf, thr[t].lost)
                    \cup waits(setup.machine, setup.conf, thr[t].lost)) \ thr[t].lost :
          goes(t, "detect", [thr[t] EXCEPT !.lost = @ \cup {h}])
  BY Zenon DEF loseHelper
<1>3. h \in Helpers
  BY Zenon DEF asks, waits, Helpers
<1> DEFINE s == [thr[t] EXCEPT !.lost = @ \cup {h}]
<1>4. /\ s \in ThreadType
      /\ s.saved = thr[t].saved /\ s.ret = thr[t].ret /\ s.fe = thr[t].fe
      /\ s.dying = thr[t].dying
  BY <1>1, <1>3, Zenon DEF ThreadType
<1>5. goes(t, "detect", s) /\ "detect" \in Pcs /\ proc' = proc
  BY <1>2 DEF loseHelper, Pcs
<1> HIDE DEF s
<1>6. /\ thr' \in [Threads -> ThreadType] /\ proc' \in [Procs -> ProcType]
      /\ Others(t) /\ Locals(t, "detect", s.saved, s.ret, s.fe, s.dying)
      /\ SameStatics(t) /\ SameEnv(t)
  BY <1>4, <1>5, GoesAloneEffect, Zenon
<1> QED BY <1>1, <1>4, <1>6 DEF loseHelper, Moves, Typed, ghosts

\* What inst() leaves behind when it throws.
Fails(t) ==
    /\ Locals(t, "ret", thr[t].saved, thr[t].ret, thr[t].fe, << >>)
    /\ Detected(t, {}, None)
    /\ Statics(t, IF thr[t].ret # "members" THEN mine(t).st ELSE "gone", mine(t).inst, None)
    /\ SameEnv(t)

\* A throw leaves the rest as it is.
LEMMA FailsHere ==
    ASSUME Typed, NEW t \in Threads, fails(t, proc[procOf(t)])
    PROVE  /\ thr' \in [Threads -> ThreadType] /\ proc' \in [Procs -> ProcType]
           /\ Others(t) /\ Fails(t)
<1>1. mine(t) \in ProcType /\ fails(t, mine(t))
  BY Records DEF mine
<1> QED BY <1>1, FailsEffect, Zenon DEF Fails, SameEnv

\* The detection ends with a frontend, or inst() throws.
LEMMA detectEffect ==
    ASSUME Typed, NEW t \in Threads, detect(t)
    PROVE  /\ Typed' /\ Others(t) /\ runs(t) /\ thr[t].pc = "detect"
           /\ \/ /\ Moves(t, "ctor") /\ SameStatics(t) /\ SameEnv(t)
                 /\ Detected(t, thr[t].lost,
                          make_Frontend(setup.machine,
                              detect_System(setup.machine, setup.conf.system),
                              detect_WLM(setup.machine,
                                         detect_System(setup.machine, setup.conf.system),
                                         setup.conf.wlm, thr[t].lost)))
              \/ Fails(t)
<1>1. thr[t] \in ThreadType /\ thr[t].pc = "detect" /\ runs(t)
  BY Records DEF detect, at
<1>2. fes' = fes /\ UNCHANGED ghosts
  BY DEF detect
<1> DEFINE system == detect_System(setup.machine, setup.conf.system)
           wlm == detect_WLM(setup.machine, system, setup.conf.wlm, thr[t].lost)
           k == make_Frontend(setup.machine, system, wlm)
<1>3. CASE k # Throw /\ proc' = proc /\ goes(t, "ctor", [thr[t] EXCEPT !.kind = k])
  <2>1. k \in Kinds
    BY <1>3, MadeKind
  <2> HIDE DEF k
  <2> DEFINE s == [thr[t] EXCEPT !.kind = k]
  <2>2. /\ s \in ThreadType
        /\ s.saved = thr[t].saved /\ s.ret = thr[t].ret /\ s.fe = thr[t].fe
        /\ s.dying = thr[t].dying /\ s.lost = thr[t].lost /\ s.kind = k
    BY <1>1, <2>1, Zenon DEF ThreadType
  <2>3. goes(t, "ctor", s) /\ "ctor" \in Pcs
    BY <1>3 DEF Pcs
  <2> HIDE DEF s
  <2>4. /\ thr' \in [Threads -> ThreadType] /\ proc' \in [Procs -> ProcType]
        /\ Others(t) /\ Locals(t, "ctor", s.saved, s.ret, s.fe, s.dying)
        /\ Detected(t, s.lost, s.kind) /\ SameStatics(t) /\ SameEnv(t)
    BY <1>3, <2>2, <2>3, GoesAloneEffect
  <2>5. Detected(t, thr[t].lost, k) /\ Moves(t, "ctor")
    BY <2>2, <2>4 DEF Moves
  <2>6. Typed'
    BY <1>2, <2>4 DEF Typed, ghosts
  <2> QED BY <1>1, <2>4, <2>5, <2>6, Zenon DEF k
<1>4. CASE fails(t, proc[procOf(t)])
  BY <1>1, <1>2, <1>4, FailsHere DEF Typed, ghosts
<1> HIDE DEF k
<1> QED BY <1>3, <1>4 DEF detect, k

\* The constructor throws before there is an object.
LEMMA ctorFailsEffect ==
    ASSUME Typed, NEW t \in Threads, ctorFails(t)
    PROVE  Typed' /\ Others(t) /\ runs(t) /\ thr[t].pc = "ctor" /\ Fails(t)
<1>1. thr[t].pc = "ctor" /\ runs(t) /\ fails(t, proc[procOf(t)]) /\ fes' = fes /\ UNCHANGED ghosts
  BY DEF ctorFails, at
<1> QED BY <1>1, FailsHere DEF Typed, ghosts

\* The directory is made: the object begins.
LEMMA setupCfgDirEffect ==
    ASSUME Typed, NEW t \in Threads, setupCfgDir(t)
    PROVE  /\ Typed' /\ Others(t) /\ runs(t) /\ thr[t].pc = "ctor"
           /\ Locals(t, "base", thr[t].saved, thr[t].ret, Len(fes) + 1, thr[t].dying)
           /\ SameDetected(t) /\ SameStatics(t) /\ SameEnv(t)
           /\ ObjectsKept /\ Len(fes') = Len(fes) + 1
           /\ \A i \in 1 .. Len(fes) : fes'[i] = fes[i]
           /\ fes'[Len(fes) + 1] =
                  [pid |-> procOf(t), d |-> Len(fes) + 1, kind |-> thr[t].kind,
                   main |-> procOf(t), st |-> "ctor"]
<1> DEFINE n == Len(fes) + 1
           s == [thr[t] EXCEPT !.fe = n]
           o == [pid |-> procOf(t), d |-> n, kind |-> thr[t].kind,
                 main |-> procOf(t), st |-> "ctor"]
<1>1. /\ thr[t] \in ThreadType /\ mine(t) \in ProcType /\ n \in Nat
      /\ procOf(t) \in Procs /\ thr[t].pc = "ctor" /\ runs(t)
  BY Records, ProcOfThread DEF setupCfgDir, at, Typed
<1>2. /\ s \in ThreadType
      /\ s.saved = thr[t].saved /\ s.ret = thr[t].ret /\ s.fe = n
      /\ s.dying = thr[t].dying /\ s.lost = thr[t].lost /\ s.kind = thr[t].kind
  BY <1>1, Zenon DEF ThreadType
<1>4. o \in FeType
  BY <1>1, Zenon DEF FeType, ThreadType, ProcType
<1>5. /\ goes(t, "base", s) /\ proc' = proc /\ "base" \in Pcs
      /\ fes' = Append(fes, o) /\ UNCHANGED ghosts
  BY DEF setupCfgDir, Pcs
<1> HIDE DEF s, o
<1>6. /\ thr' \in [Threads -> ThreadType] /\ proc' \in [Procs -> ProcType] /\ Others(t)
      /\ Locals(t, "base", s.saved, s.ret, s.fe, s.dying)
      /\ Detected(t, s.lost, s.kind) /\ SameStatics(t) /\ SameEnv(t)
  BY <1>2, <1>5, GoesAloneEffect, Zenon
<1>7. /\ fes' \in Seq(FeType) /\ ObjectsKept
      /\ Len(fes') = Len(fes) + 1 /\ fes'[Len(fes) + 1] = o
      /\ \A i \in 1 .. Len(fes) : fes'[i] = fes[i]
  BY <1>4, <1>5, AppendEffect
<1>8. Typed'
  BY <1>5, <1>6, <1>7 DEF Typed, ghosts
<1> QED BY <1>1, <1>2, <1>6, <1>7, <1>8, Zenon DEF SameDetected, o

\* The constructor of the base throws.
LEMMA baseFailsEffect ==
    ASSUME Typed, NEW t \in Threads, Constructing(t), baseFails(t)
    PROVE  /\ Typed' /\ Others(t) /\ runs(t) /\ thr[t].pc = "base" /\ Fails(t)
           /\ StateSet(thr[t].fe, "failed")
<1>1. /\ thr[t].fe \in 1 .. Len(fes) /\ thr[t].pc = "base" /\ runs(t)
      /\ mine(t) \in ProcType /\ fails(t, mine(t))
  BY Records DEF Constructing, baseFails, at, mine
<1>2. fes' \in Seq(FeType) /\ StateSet(thr[t].fe, "failed")
  BY <1>1, StateEffect, Zenon DEF baseFails
<1>3. /\ thr' \in [Threads -> ThreadType] /\ proc' \in [Procs -> ProcType]
      /\ Others(t) /\ Fails(t)
  BY <1>1, FailsHere DEF mine
<1> QED BY <1>1, <1>2, <1>3 DEF baseFails, Typed, ghosts

\* The FE daemon has been started.
LEMMA initializeEffect ==
    ASSUME Typed, NEW t \in Threads, initialize(t)
    PROVE  /\ Typed' /\ Others(t) /\ runs(t) /\ thr[t].pc = "base"
           /\ Moves(t, "derived") /\ SameDetected(t) /\ SameStatics(t) /\ SameEnv(t)
<1>1. to(t, "derived") /\ "derived" \in Pcs /\ proc' = proc
  BY DEF initialize, Pcs
<1>2. /\ thr' \in [Threads -> ThreadType] /\ proc' \in [Procs -> ProcType]
      /\ Others(t) /\ Moves(t, "derived") /\ SameDetected(t) /\ SameStatics(t) /\ SameEnv(t)
  BY <1>1, ToEffect
<1> QED BY <1>2 DEF initialize, Typed, at, ghosts

\* One more object to destroy.
LEMMA DyingType ==
    ASSUME NEW r \in ThreadType, NEW n \in Nat
    PROVE  LET s == [r EXCEPT !.dying = Append(@, n)] IN
           /\ s \in ThreadType
           /\ s.saved = r.saved /\ s.ret = r.ret /\ s.fe = r.fe
           /\ s.dying = Append(r.dying, n) /\ s.lost = r.lost /\ s.kind = r.kind
           /\ s.dying # << >> /\ Last(s.dying) = n
<1> DEFINE d == Append(r.dying, n)
<1>1. r.dying \in Seq(Nat)
  BY DEF ThreadType
<1>2. d \in Seq(Nat) /\ d # << >> /\ Last(d) = n
  BY <1>1 DEF Last
<1> HIDE DEF d
<1>3. LET s == [r EXCEPT !.dying = d] IN
           /\ s \in ThreadType
           /\ s.saved = r.saved /\ s.ret = r.ret /\ s.fe = r.fe
           /\ s.dying = d /\ s.lost = r.lost /\ s.kind = r.kind
           /\ s.dying # << >> /\ Last(s.dying) = n
  BY <1>2, Zenon DEF ThreadType
<1> QED BY <1>3 DEF d

\* The constructor of the workload manager's frontend throws.
LEMMA derivedFailsEffect ==
    ASSUME Typed, NEW t \in Threads, Constructing(t), derivedFails(t)
    PROVE  /\ Typed' /\ Others(t) /\ runs(t) /\ thr[t].pc = "derived"
           /\ Locals(t, "delete", thr[t].saved, thr[t].ret, thr[t].fe,
                     Append(thr[t].dying, thr[t].fe))
           /\ thr'[t].dying # << >> /\ Last(thr'[t].dying) = thr[t].fe
           /\ SameDetected(t) /\ SameStatics(t) /\ SameEnv(t)
           /\ StateSet(thr[t].fe, "unwound")
<1> DEFINE n == thr[t].fe
           s == [thr[t] EXCEPT !.dying = Append(@, n)]
<1>1. /\ n \in 1 .. Len(fes) /\ thr[t].pc = "derived" /\ runs(t)
      /\ thr[t] \in ThreadType /\ n \in Nat
  BY Records DEF Constructing, derivedFails, at, ThreadType
<1>2. /\ s \in ThreadType
      /\ s.saved = thr[t].saved /\ s.ret = thr[t].ret /\ s.fe = thr[t].fe
      /\ s.dying = Append(thr[t].dying, n) /\ s.lost = thr[t].lost /\ s.kind = thr[t].kind
      /\ s.dying # << >> /\ Last(s.dying) = n
  BY <1>1, DyingType, Zenon
<1>3. /\ goes(t, "delete", s) /\ "delete" \in Pcs /\ proc' = proc
      /\ fes' = [fes EXCEPT ![n].st = "unwound"] /\ UNCHANGED ghosts
  BY DEF derivedFails, Pcs
<1> HIDE DEF s
<1>4. /\ thr' \in [Threads -> ThreadType] /\ proc' \in [Procs -> ProcType]
      /\ Others(t) /\ Locals(t, "delete", s.saved, s.ret, s.fe, s.dying)
      /\ Detected(t, s.lost, s.kind) /\ SameStatics(t) /\ SameEnv(t)
  BY <1>2, <1>3, GoesAloneEffect, Zenon
<1>5. fes' \in Seq(FeType) /\ StateSet(n, "unwound")
  BY <1>1, <1>3, StateEffect, Zenon
<1>6. Typed'
  BY <1>3, <1>4, <1>5 DEF Typed, ghosts
<1> QED BY <1>1, <1>2, <1>4, <1>5, <1>6, Zenon DEF SameDetected, Locals

\* The instance is published.
LEMMA storeEffect ==
    ASSUME Typed, NEW t \in Threads, Constructing(t), Calling(t), store(t)
    PROVE  /\ Typed' /\ Others(t) /\ runs(t) /\ thr[t].pc = "derived"
           /\ Locals(t, thr[t].ret, thr[t].saved, thr[t].ret, thr[t].fe, thr[t].dying)
           /\ Detected(t, {}, None)
           /\ Statics(t, mine(t).st, thr[t].fe, None) /\ SameEnv(t)
           /\ StateSet(thr[t].fe, "made")
<1> DEFINE n == thr[t].fe
           f == [mine(t) EXCEPT !.inst = n, !.mutex = None]
<1>1. /\ n \in 1 .. Len(fes) /\ thr[t].pc = "derived" /\ runs(t)
      /\ thr[t] \in ThreadType /\ mine(t) \in ProcType /\ n \in Nat
      /\ thr[t].ret \in Returns
  BY Records DEF Constructing, Calling, Building, store, at, ThreadType, Returns
<1>2. /\ f \in ProcType
      /\ f.st = mine(t).st /\ f.inst = n /\ f.mutex = None
      /\ f.handler = mine(t).handler
  BY <1>1, Zenon DEF ProcType
<1>3. /\ found(t, f) /\ fes' = [fes EXCEPT ![n].st = "made"] /\ UNCHANGED ghosts
  BY DEF store, mine
<1> HIDE DEF f
<1>4. /\ thr' \in [Threads -> ThreadType] /\ proc' \in [Procs -> ProcType] /\ Others(t)
      /\ Locals(t, thr[t].ret, thr[t].saved, thr[t].ret, f.inst, thr[t].dying)
      /\ Detected(t, {}, None) /\ Statics(t, f.st, f.inst, f.mutex)
      /\ Env(t, f.handler)
  BY <1>1, <1>2, <1>3, FoundEffect
<1>5. fes' \in Seq(FeType) /\ StateSet(n, "made")
  BY <1>1, <1>3, StateEffect, Zenon
<1>6. Typed'
  BY <1>3, <1>4, <1>5 DEF Typed, ghosts
<1> QED BY <1>1, <1>2, <1>4, <1>5, <1>6, Zenon DEF SameEnv

\* exit() begins.
LEMMA exitEffect ==
    ASSUME Typed, NEW t \in Threads, exit(t)
    PROVE  /\ Typed' /\ Others(t) /\ runs(t) /\ thr[t].pc = "out" /\ mine(t).st = "run"
           /\ Moves(t, "exchange") \/ Moves(t, "done")
           /\ SameDetected(t) /\ Statics(t, "exit", mine(t).inst, mine(t).mutex)
           /\ SameEnv(t)
           /\ again' = again /\ overlap' = (overlap \/ othersIn(t))
<1> DEFINE f == [mine(t) EXCEPT !.st = "exit"]
           c == IF mine(t).cleanup THEN "exchange" ELSE "done"
<1>1. mine(t) \in ProcType /\ mine(t).st = "run" /\ thr[t].pc = "out" /\ runs(t)
  BY Records DEF exit, at, mine
<1>2. /\ f \in ProcType
      /\ f.st = "exit" /\ f.inst = mine(t).inst /\ f.mutex = mine(t).mutex
      /\ f.handler = mine(t).handler
  BY <1>1 DEF ProcType
<1>3. to(t, c) /\ c \in Pcs /\ c \in {"exchange", "done"} /\ setProc(procOf(t), f)
  BY DEF exit, mine, Pcs
<1> HIDE DEF f, c
<1>4. /\ thr' \in [Threads -> ThreadType] /\ proc' \in [Procs -> ProcType] /\ Others(t)
      /\ Moves(t, c) /\ SameDetected(t) /\ mine(t)' = f
  BY <1>2, <1>3, ToProcEffect, Zenon
<1>5. fes' = fes /\ again' = again /\ overlap' = (overlap \/ othersIn(t))
  BY DEF exit
<1>6. Typed'
  BY <1>4, <1>5, Zenon DEF Typed, othersIn, inCall, runs
<1> QED BY <1>1, <1>2, <1>3, <1>4, <1>5, <1>6, Zenon DEF Statics, SameEnv, Env

\* The instance is taken.
LEMMA exchangeEffect ==
    ASSUME Typed, NEW t \in Threads, ProcOK(procOf(t)), exchange(t)
    PROVE  /\ Typed' /\ Others(t) /\ runs(t) /\ thr[t].pc = "exchange"
           /\ SameDetected(t) /\ SameEnv(t)
           /\ \/ mine(t).inst = 0 /\ Moves(t, "done") /\ SameStatics(t) /\ fes' = fes
              \/ /\ mine(t).inst # 0
                 /\ Locals(t, "delete", thr[t].saved, thr[t].ret, thr[t].fe,
                           Append(thr[t].dying, mine(t).inst))
                 /\ thr'[t].dying # << >> /\ Last(thr'[t].dying) = mine(t).inst
                 /\ Statics(t, mine(t).st, 0, mine(t).mutex)
                 /\ StateSet(mine(t).inst, "dying")
<1> DEFINE n == mine(t).inst
<1>1. /\ thr[t].pc = "exchange" /\ runs(t) /\ UNCHANGED ghosts
      /\ thr[t] \in ThreadType /\ mine(t) \in ProcType /\ n \in Nat
  BY Records DEF exchange, at, ProcType
<1>2. CASE n = 0
  <2>1. to(t, "done") /\ "done" \in Pcs /\ proc' = proc /\ fes' = fes
    BY <1>2 DEF exchange, mine, Pcs
  <2>2. /\ thr' \in [Threads -> ThreadType] /\ proc' \in [Procs -> ProcType]
        /\ Others(t) /\ Moves(t, "done") /\ SameDetected(t) /\ SameStatics(t) /\ SameEnv(t)
    BY <2>1, ToEffect
  <2> QED BY <1>1, <1>2, <2>1, <2>2, Zenon DEF Typed, ghosts
<1>3. CASE n # 0
  <2> DEFINE s == [thr[t] EXCEPT !.dying = Append(@, n)]
             f == [mine(t) EXCEPT !.inst = 0]
  <2>1. n \in 1 .. Len(fes)
    BY <1>3, Zenon DEF ProcOK, mine
  <2>2. /\ s \in ThreadType
        /\ s.saved = thr[t].saved /\ s.ret = thr[t].ret /\ s.fe = thr[t].fe
        /\ s.dying = Append(thr[t].dying, n) /\ s.lost = thr[t].lost /\ s.kind = thr[t].kind
        /\ s.dying # << >> /\ Last(s.dying) = n
    BY <1>1, DyingType, Zenon
  <2>3. /\ f \in ProcType
        /\ f.st = mine(t).st /\ f.inst = 0 /\ f.mutex = mine(t).mutex
        /\ f.handler = mine(t).handler
    BY <1>1 DEF ProcType
  <2>4. /\ goes(t, "delete", s) /\ "delete" \in Pcs /\ setProc(procOf(t), f)
        /\ fes' = [fes EXCEPT ![n].st = "dying"]
    BY <1>3 DEF exchange, mine, Pcs
  <2> HIDE DEF s, f
  <2>5. /\ thr' \in [Threads -> ThreadType] /\ proc' \in [Procs -> ProcType]
        /\ Others(t) /\ Locals(t, "delete", s.saved, s.ret, s.fe, s.dying)
        /\ Detected(t, s.lost, s.kind) /\ mine(t)' = f
    BY <2>2, <2>3, <2>4, GoesEffect, Zenon
  <2>6. fes' \in Seq(FeType) /\ StateSet(n, "dying")
    BY <2>1, <2>4, StateEffect, Zenon
  <2>7. Typed'
    BY <1>1, <2>5, <2>6 DEF Typed, ghosts
  <2> QED BY <1>1, <1>3, <2>2, <2>3, <2>5, <2>6, <2>7, Zenon
          DEF SameDetected, Locals, Statics, SameEnv, Env
<1> QED BY <1>2, <1>3, Zenon

\* The destructors of the object.
LEMMA deleteFrontendEffect ==
    ASSUME Typed, NEW t \in Threads, deleteFrontend(t)
    PROVE  /\ Typed' /\ Others(t) /\ runs(t) /\ thr[t].pc = "delete"
           /\ Moves(t, "log") \/ Moves(t, "members")
           /\ SameDetected(t) /\ SameStatics(t) /\ SameEnv(t)
<1>1. PICK c \in {"log", "members"} : to(t, c)
  BY Zenon DEF deleteFrontend
<1>2. c \in Pcs /\ proc' = proc
  BY Zenon DEF deleteFrontend, Pcs
<1>3. /\ thr' \in [Threads -> ThreadType] /\ proc' \in [Procs -> ProcType]
      /\ Others(t) /\ Moves(t, c) /\ SameDetected(t) /\ SameStatics(t) /\ SameEnv(t)
  BY <1>1, <1>2, ToEffect
<1> QED BY <1>3, Zenon DEF deleteFrontend, Typed, at

\* A message in the log, for which there may be no logger.
LEMMA writeLogEffect ==
    ASSUME Typed, NEW t \in Threads, writeLog(t)
    PROVE  /\ Typed' /\ Others(t) /\ runs(t) /\ thr[t].pc = "log"
           /\ \/ Moves(t, "members")
              \/ mine(t).mutex = t /\ Moves(t, "stuck")
              \/ /\ mine(t).mutex # t
                 /\ Locals(t, "inst", thr[t].saved, "members", thr[t].fe, thr[t].dying)
           /\ SameDetected(t) /\ SameStatics(t) /\ SameEnv(t)
<1>1. thr[t].pc = "log" /\ runs(t) /\ fes' = fes /\ UNCHANGED ghosts
  BY DEF writeLog, at
<1>2. CASE UNCHANGED proc /\ (to(t, "members") \/ (mine(t).mutex = t /\ to(t, "stuck")))
  <2>1. PICK c \in {"members", "stuck"} :
            c \in Pcs /\ to(t, c) /\ (c = "stuck" => mine(t).mutex = t)
    BY <1>2 DEF Pcs
  <2>2. /\ thr' \in [Threads -> ThreadType] /\ proc' \in [Procs -> ProcType]
        /\ Others(t) /\ Moves(t, c) /\ SameDetected(t) /\ SameStatics(t) /\ SameEnv(t)
    BY <1>2, <2>1, ToEffect, Zenon
  <2> QED BY <1>1, <2>1, <2>2 DEF Typed, ghosts
<1>3. CASE mine(t).mutex # t /\ getLogger(t, "members")
  BY <1>1, <1>3, getLoggerEffect DEF Typed, ghosts
<1> QED BY <1>2, <1>3 DEF writeLog, mine

\* The members of the object are destroyed.
LEMMA membersEffect ==
    ASSUME Typed, NEW t \in Threads, Destructing(t), members(t)
    PROVE  LET n == Last(thr[t].dying) IN
           /\ Typed' /\ Others(t) /\ runs(t) /\ thr[t].pc = "members"
           /\ n \in 1 .. Len(fes)
           /\ \/ fes[n].st = "unwound" /\ Fails(t) /\ StateSet(n, "failed")
              \/ /\ fes[n].st # "unwound" /\ StateSet(n, "dead")
                 /\ Locals(t, "done", thr[t].saved, thr[t].ret, thr[t].fe, << >>)
                 /\ SameDetected(t) /\ SameStatics(t) /\ SameEnv(t)
<1> DEFINE n == Last(thr[t].dying)
<1>1. /\ thr[t].pc = "members" /\ runs(t) /\ UNCHANGED ghosts
      /\ thr[t] \in ThreadType /\ mine(t) \in ProcType /\ n \in 1 .. Len(fes)
  BY Records DEF members, at, Destructing, Destroying
<1> HIDE DEF n
<1>2. CASE fes[n].st = "unwound"
  <2>1. fails(t, mine(t)) /\ fes' = [fes EXCEPT ![n].st = "failed"]
    BY <1>1, <1>2 DEF members, mine, n
  <2>2. fes' \in Seq(FeType) /\ StateSet(n, "failed")
    BY <1>1, <2>1, StateEffect, Zenon
  <2>3. /\ thr' \in [Threads -> ThreadType] /\ proc' \in [Procs -> ProcType]
        /\ Others(t) /\ Fails(t)
    BY <2>1, FailsHere DEF mine
  <2> QED BY <1>1, <1>2, <2>2, <2>3, Zenon DEF Typed, ghosts, n
<1>3. CASE fes[n].st # "unwound"
  <2> DEFINE s == [thr[t] EXCEPT !.dying = << >>]
  <2>1. /\ s \in ThreadType
        /\ s.saved = thr[t].saved /\ s.ret = thr[t].ret /\ s.fe = thr[t].fe
        /\ s.dying = << >> /\ s.lost = thr[t].lost /\ s.kind = thr[t].kind
    <3>1. << >> \in Seq(Nat)
      OBVIOUS
    <3> QED BY <1>1, <3>1, Zenon DEF ThreadType
  <2>2. /\ goes(t, "done", s) /\ "done" \in Pcs /\ proc' = proc
        /\ fes' = [fes EXCEPT ![n].st = "dead"]
    BY <1>1, <1>3 DEF members, Pcs, n
  <2> HIDE DEF s
  <2>3. /\ thr' \in [Threads -> ThreadType] /\ proc' \in [Procs -> ProcType]
        /\ Others(t) /\ Locals(t, "done", s.saved, s.ret, s.fe, s.dying)
        /\ Detected(t, s.lost, s.kind) /\ SameStatics(t) /\ SameEnv(t)
    BY <2>1, <2>2, GoesAloneEffect
  <2>4. fes' \in Seq(FeType) /\ StateSet(n, "dead")
    BY <1>1, <2>2, StateEffect, Zenon
  <2> QED BY <1>1, <1>3, <2>1, <2>3, <2>4, Zenon DEF Typed, ghosts, SameDetected, n
<1> QED BY <1>2, <1>3, Zenon

\* The process is gone.
LEMMA doneEffect ==
    ASSUME Typed, NEW t \in Threads, done(t)
    PROVE  /\ Typed' /\ Others(t) /\ runs(t) /\ thr[t].pc = "done" /\ thr' = thr
           /\ Statics(t, "gone", mine(t).inst, mine(t).mutex) /\ SameEnv(t)
<1> DEFINE f == [mine(t) EXCEPT !.st = "gone"]
<1>1. thr[t] \in ThreadType /\ mine(t) \in ProcType
  BY Records
<1>2. /\ f \in ProcType
      /\ f.st = "gone" /\ f.inst = mine(t).inst /\ f.mutex = mine(t).mutex
      /\ f.handler = mine(t).handler
  BY <1>1 DEF ProcType
<1>3. proc' = [proc EXCEPT ![procOf(t)] = f] /\ thr' = thr
  BY DEF done, setProc, mine
<1> HIDE DEF f
<1>4. /\ thr' \in [Threads -> ThreadType] /\ proc' \in [Procs -> ProcType]
      /\ Others(t) /\ mine(t)' = f
  BY <1>2, <1>3, ProcOfThread DEF Typed, Others, mine
<1> QED BY <1>2, <1>3, <1>4 DEF done, Typed, at, ghosts, Statics, SameEnv, Env

\* The tool forks: the child has copies of the statics, and its own copy of the
\* object.
LEMMA forkEffect ==
    ASSUME Typed, NEW t \in Threads, ProcOK("tool"), fork(t)
    PROVE  /\ Typed' /\ thr' = thr /\ runs(t) /\ t \in ToolThreads
           /\ proc["tool"].st = "run" /\ proc["child"].st = "none"
           /\ proc'["tool"] = proc["tool"]
           /\ proc'["child"].st = "run" /\ proc'["child"].mutex = proc["tool"].mutex
           /\ proc'["child"].handler = proc["tool"].handler
           /\ \/ proc["tool"].inst = 0 /\ fes' = fes /\ proc'["child"].inst = 0
              \/ /\ proc["tool"].inst # 0 /\ proc'["child"].inst = Len(fes) + 1
                 /\ ObjectsKept /\ Len(fes') = Len(fes) + 1
                 /\ \A i \in 1 .. Len(fes) : fes'[i] = fes[i]
                 /\ fes'[Len(fes) + 1].pid = "child"
                 /\ fes'[Len(fes) + 1].st = published("tool").st
                 /\ fes'[Len(fes) + 1].main = published("tool").main
                 /\ fes'[Len(fes) + 1].d = published("tool").d
                 /\ fes'[Len(fes) + 1].kind = published("tool").kind
           /\ again' = again /\ overlap' = (overlap \/ othersIn(t))
<1> DEFINE f == proc["tool"]
           n == Len(fes) + 1
           g == [f EXCEPT !.inst = n]
           o == [fes[f.inst] EXCEPT !.pid = "child"]
<1>1. /\ f \in ProcType /\ n \in Nat /\ t \in ToolThreads /\ runs(t) /\ f.st = "run"
      /\ proc["child"].st = "none" /\ thr' = thr
      /\ again' = again /\ overlap' = (overlap \/ othersIn(t))
  BY DEF fork, at, Typed, Procs
<1>2. overlap' \in BOOLEAN /\ again' \in BOOLEAN
  BY <1>1 DEF Typed
<1>3. /\ g \in ProcType
      /\ g.st = f.st /\ g.inst = n /\ g.mutex = f.mutex
      /\ g.handler = f.handler
  BY <1>1 DEF ProcType
<1>4. CASE f.inst = 0
  <2>1. proc' = [proc EXCEPT !["child"] = f] /\ fes' = fes
    BY <1>4 DEF fork, setProc
  <2>2. /\ proc' \in [Procs -> ProcType]
        /\ proc'["tool"] = proc["tool"] /\ proc'["child"] = f
    BY <1>1, <2>1 DEF Typed, Procs
  <2> QED BY <1>1, <1>2, <1>4, <2>1, <2>2, Zenon DEF Typed
<1>5. CASE f.inst # 0
  <2>1. f.inst \in 1 .. Len(fes) /\ fes[f.inst] \in FeType
    BY <1>5 DEF ProcOK, Typed
  <2>2. /\ o \in FeType
        /\ o.pid = "child" /\ o.st = fes[f.inst].st /\ o.main = fes[f.inst].main
        /\ o.d = fes[f.inst].d /\ o.kind = fes[f.inst].kind
    BY <2>1, Zenon DEF FeType, Procs
  <2>3. proc' = [proc EXCEPT !["child"] = g] /\ fes' = Append(fes, o)
    BY <1>5 DEF fork, setProc
  <2> HIDE DEF g, o
  <2>4. /\ proc' \in [Procs -> ProcType]
        /\ proc'["tool"] = proc["tool"] /\ proc'["child"] = g
    BY <1>3, <2>3 DEF Typed, Procs
  <2>5. /\ fes' \in Seq(FeType) /\ ObjectsKept
        /\ Len(fes') = Len(fes) + 1 /\ fes'[Len(fes) + 1] = o
        /\ \A i \in 1 .. Len(fes) : fes'[i] = fes[i]
    BY <2>2, <2>3, AppendEffect
  <2> QED BY <1>1, <1>2, <1>3, <1>5, <2>2, <2>4, <2>5, Zenon DEF Typed, published
<1> QED BY <1>4, <1>5, Zenon

\* A thread in the states of the invariant.
LEMMA InCore ==
    ASSUME Typed, Core, NEW t \in Threads
    PROVE  /\ ThreadOK(t) /\ ProcOK(procOf(t)) /\ procOf(t)' = procOf(t)
           /\ thr[t] \in ThreadType /\ mine(t) \in ProcType /\ None # t
           /\ mine(t).handler # None
BY ProcOfThread, Records, FeInstAssumption, Zenon DEF Core, procOf, Threads, ProcOK, mine

-----------------------------------------------------------------------------
(* What the steps have in common.                                          *)

\* What every step but a fork does: it is one of a running thread, objects stay
\* what they are, and a process only leaves "run".
LEMMA Frame ==
    ASSUME Typed, Core, NEW t \in Threads,
           Step(t) \/ SigchldBlocker(t) \/ loseHelper(t) \/ exit(t)
    PROVE  /\ Others(t) /\ runs(t) /\ ObjectsKept /\ setup' = setup
           /\ mine(t)'.st = mine(t).st \/ mine(t)'.st \in {"exit", "gone"}
<1>0. Calling(t) /\ Constructing(t) /\ Destructing(t) /\ ProcOK(procOf(t))
  BY InCore, Zenon DEF ThreadOK
<1>1. setup' = setup
  BY Zenon DEF Step, SigchldBlocker, lockIface, body, unlockIface, restoreSigchld, load, lockMutex,
     loseHelper, detect, ctorFails, setupCfgDir, baseFails, initialize, derivedFails, store,
     exit, exchange, deleteFrontend, writeLog, members, done
<1> USE DEF Moves, Locals, SameStatics, Statics, SameEnv, Env, Fails
<1>2. CASE SigchldBlocker(t) \/ lockIface(t) \/ body(t) \/ unlockIface(t) \/ restoreSigchld(t)
  <2>1. fes' = fes
    BY <1>2 DEF SigchldBlocker, lockIface, body, unlockIface, restoreSigchld
  <2> QED BY <1>1, <1>2, <2>1, SameObjects, SigchldBlockerEffect, lockIfaceEffect, bodyEffect,
             unlockIfaceEffect, restoreSigchldEffect, Zenon
<1>3. CASE load(t) \/ lockMutex(t) \/ loseHelper(t) \/ detect(t) \/ ctorFails(t) \/ initialize(t)
  <2>1. fes' = fes
    BY <1>3, Zenon DEF load, lockMutex, loseHelper, detect, ctorFails, initialize
  <2>2. CASE load(t) \/ loseHelper(t) \/ initialize(t)
    BY <1>0, <1>1, <2>1, <2>2, SameObjects, loadEffect, loseHelperEffect, initializeEffect, Zenon
  <2>3. CASE lockMutex(t)
    BY <1>0, <1>1, <2>1, <2>3, SameObjects, lockMutexEffect, Zenon
  <2>4. CASE detect(t) \/ ctorFails(t)
    BY <1>0, <1>1, <2>1, <2>4, SameObjects, detectEffect, ctorFailsEffect, Zenon
  <2> QED BY <1>3, <2>2, <2>3, <2>4, Zenon
<1>4. CASE setupCfgDir(t) \/ baseFails(t) \/ derivedFails(t) \/ store(t)
  BY <1>0, <1>1, <1>4, setupCfgDirEffect, baseFailsEffect, derivedFailsEffect, storeEffect, Zenon
     DEF StateSet
<1>5. CASE exit(t) \/ deleteFrontend(t) \/ writeLog(t) \/ done(t)
  <2>1. fes' = fes
    BY <1>5 DEF exit, deleteFrontend, writeLog, done
  <2> QED BY <1>1, <1>5, <2>1, SameObjects, exitEffect, deleteFrontendEffect, writeLogEffect,
             doneEffect, Zenon
<1>6. CASE exchange(t)
  BY <1>0, <1>1, <1>6, SameObjects, exchangeEffect, Zenon DEF StateSet
<1>7. CASE members(t)
  BY <1>0, <1>1, <1>7, membersEffect, Zenon DEF StateSet
<1> QED BY <1>2, <1>3, <1>4, <1>5, <1>6, <1>7, Zenon DEF Step

\* What was noted stays noted.
LEMMA GhostsStay ==
    ASSUME NEW t \in Threads, Step(t) \/ SigchldBlocker(t) \/ loseHelper(t) \/ exit(t)
    PROVE  (overlap => overlap') /\ (again => again')
<1>1. overlap => overlap'
  BY Zenon DEF Step, SigchldBlocker, lockIface, body, unlockIface, restoreSigchld, load, lockMutex,
     loseHelper, detect, ctorFails, setupCfgDir, baseFails, initialize, derivedFails, store,
     exit, exchange, deleteFrontend, writeLog, members, done, ghosts
<1>2. ~lockMutex(t) => again' = again
  BY Zenon DEF Step, SigchldBlocker, lockIface, body, unlockIface, restoreSigchld, load,
     loseHelper, detect, ctorFails, setupCfgDir, baseFails, initialize, derivedFails, store,
     exit, exchange, deleteFrontend, writeLog, members, done, ghosts
<1>3. lockMutex(t) => (again => again')
  BY Zenon DEF lockMutex
<1> QED BY <1>1, <1>2, <1>3

\* Nobody else is in a call.
LEMMA NobodyIn ==
    ASSUME Typed, Core, NEW t \in Threads, runs(t), ~othersIn(t)
    PROVE  \A u \in Threads \ {t} : procOf(u) = procOf(t) => thr[u].saved = None
<1> SUFFICES ASSUME NEW u \in Threads \ {t}, procOf(u) = procOf(t), thr[u].saved # None
             PROVE  FALSE
  OBVIOUS
<1>1. Calling(u) /\ mine(u) = mine(t)
  BY DEF Core, ThreadOK, mine
<1>2. u \in setup.actors
  BY <1>1, Zenon DEF Calling
<1> QED BY <1>2 DEF othersIn, inCall, runs


-----------------------------------------------------------------------------
(* What a step of thread t leaves of the invariant: everything about the   *)
(* other threads, and what does not concern its own object.                *)

\* The object whose state a step of t may change.
Own(t, i) ==
    \/ thr[t].pc \in {"base", "derived"} /\ i = thr[t].fe
    \/ thr[t].pc = "exchange" /\ i = mine(t).inst
    \/ thr[t].pc = "members" /\ i = Last(thr[t].dying)

\* The changes of the statics that a step of t may make.
Disciplined(t) ==
    /\ \/ mine(t)'.st = mine(t).st
       \/ mine(t).st = "run" /\ mine(t)'.st = "exit"
       \/ mine(t)'.st = "gone"
    /\ \/ mine(t)'.mutex = mine(t).mutex
       \/ mine(t).mutex = None /\ mine(t)'.mutex = t
       \/ mine(t).mutex = t /\ mine(t)'.mutex = None
    /\ \/ mine(t)'.inst = mine(t).inst
       \/ mine(t).mutex = t
       \/ mine(t).st = "exit" /\ mine(t)'.inst = 0
    /\ mine(t)'.handler # None

\* What an object belongs to when two threads of a process could both own it.
LEMMA OwnApart ==
    ASSUME Typed, Core, NEW t \in Threads, NEW u \in Threads \ {t}, procOf(u) = procOf(t)
    PROVE  /\ thr[u].pc \in {"base", "derived"} => ~Own(t, thr[u].fe)
           /\ \/ thr[u].pc \in Destroying
              \/ thr[u].pc \in {"inst", "slow"} \cup Building /\ thr[u].saved = None
              => ~Own(t, Last(thr[u].dying))
<1>1. /\ ThreadOK(t) /\ ThreadOK(u) /\ ProcOK(procOf(t)) /\ OneExit
      /\ mine(u) = mine(t) /\ u # t
  BY ProcOfThread DEF Core, mine
<1>2. ASSUME thr[u].pc \in {"base", "derived"}, Own(t, thr[u].fe) PROVE FALSE
  <2>1. mine(t).mutex = u /\ fes[thr[u].fe].st = "ctor" /\ thr[u].fe \in 1 .. Len(fes)
    BY <1>1, <1>2 DEF ThreadOK, Holding, Constructing, Building
  <2>2. CASE thr[t].pc \in {"base", "derived"}
    BY <1>1, <2>1, <2>2 DEF ThreadOK, Holding, Building
  <2>3. CASE thr[t].pc = "exchange" /\ thr[u].fe = mine(t).inst
    BY <1>1, <2>1, <2>3 DEF ProcOK, mine, published
  <2>4. CASE thr[t].pc = "members" /\ thr[u].fe = Last(thr[t].dying)
    BY <1>1, <2>1, <2>4 DEF ThreadOK, Destructing, Destroying
  <2> QED BY <1>2, <2>2, <2>3, <2>4 DEF Own
<1>3. ASSUME \/ thr[u].pc \in Destroying
             \/ thr[u].pc \in {"inst", "slow"} \cup Building /\ thr[u].saved = None,
             Own(t, Last(thr[u].dying))
      PROVE  FALSE
  <2> DEFINE i == Last(thr[u].dying)
  <2>1. /\ i \in 1 .. Len(fes) /\ fes[i].st \in {"unwound", "dying"}
        /\ fes[i].st = "unwound" => mine(t).mutex = u
        /\ fes[i].st = "dying" => InExit(u)
    BY <1>1, <1>3, Zenon DEF ThreadOK, Destructing, Calling, InExit, Destroying, Building
  <2>2. CASE thr[t].pc \in {"base", "derived"} /\ i = thr[t].fe
    BY <1>1, <2>1, <2>2, Zenon DEF ThreadOK, Constructing
  <2>3. CASE thr[t].pc = "exchange" /\ i = mine(t).inst
    BY <1>1, <2>1, <2>3 DEF ProcOK, mine, published
  <2>4. CASE thr[t].pc = "members" /\ i = Last(thr[t].dying)
    <3>1. /\ fes[i].st = "unwound" => mine(t).mutex = t
          /\ fes[i].st = "dying" => InExit(t)
      BY <1>1, <2>4 DEF ThreadOK, Destructing, Calling, InExit, Destroying
    <3> QED BY <1>1, <2>1, <3>1 DEF OneExit
  <2> QED BY <1>3, <2>2, <2>3, <2>4 DEF Own
<1> QED BY <1>2, <1>3

\* The other threads stay as the invariant says.
LEMMA OtherThread ==
    ASSUME Typed, Core, NEW t \in Threads, runs(t), Others(t), setup' = setup,
           Disciplined(t), ObjectsKept,
           \A i \in 1 .. Len(fes) : fes'[i].st = fes[i].st \/ (Own(t, i) /\ fes[i].pid = procOf(t)),
           NEW u \in Threads, u # t
    PROVE  ThreadOK(u)'
<1>1. /\ ThreadOK(t) /\ ThreadOK(u) /\ thr'[u] = thr[u] /\ procOf(u)' = procOf(u)
      /\ procOf(u) \in Procs /\ procOf(t) \in Procs
      /\ mine(t).st \in {"run", "exit"} /\ None \notin Threads
  BY ProcOfThread, FeInstAssumption DEF Core, Others, procOf, runs, mine, Threads
<1>2. procOf(u) = procOf(t) => mine(u) = mine(t) /\ mine(u)' = mine(t)'
  BY DEF mine
<1>3. procOf(u) # procOf(t) => mine(u)' = mine(u)
  BY <1>1 DEF mine, Others
<1>4. /\ mine(u)'.st = mine(u).st \/ (mine(u).st # "none" /\ mine(u)'.st \in {"exit", "gone"})
      /\ mine(u)'.st = "run" => mine(u).st = "run"
      /\ mine(u).st = "gone" => mine(u)'.st = "gone"
      /\ (mine(u)'.mutex = u) <=> (mine(u).mutex = u)
  BY <1>1, <1>2, <1>3 DEF Disciplined
<1>5. Holding(u)'
  <2>1. mine(u).mutex = u => mine(u)'.inst = mine(u).inst \/ mine(u)'.inst = 0
    BY <1>2, <1>3 DEF Disciplined
  <2> QED BY <1>1, <1>4, <2>1 DEF ThreadOK, Holding
<1>6. Constructing(u)'
  <2> SUFFICES ASSUME thr[u].pc \in {"base", "derived"} PROVE Constructing(u)'
    BY <1>1 DEF Constructing
  <2> DEFINE i == thr[u].fe
  <2>1. /\ i \in 1 .. Len(fes) /\ fes[i].pid = procOf(u) /\ fes[i].main = procOf(u)
        /\ fes[i].d = i /\ fes[i].st = "ctor"
    BY <1>1 DEF ThreadOK, Constructing
  <2>2. fes'[i].st = fes[i].st
    BY <1>1, <2>1, OwnApart
  <2>3. Len(fes) <= Len(fes') /\ Len(fes) \in Nat /\ Len(fes') \in Nat
    BY DEF ObjectsKept, Typed
  <2>4. i \in 1 .. Len(fes')
    BY <2>1, <2>3
  <2> QED BY <1>1, <2>1, <2>2, <2>4, Zenon DEF Constructing, ObjectsKept
<1>7. Working(u)'
  <2> SUFFICES ASSUME thr[u].pc = "body" PROVE Working(u)'
    BY <1>1 DEF Working
  <2> DEFINE i == thr[u].fe
  <2>1. /\ i \in 1 .. Len(fes) /\ fes[i].pid = procOf(u)
        /\ mine(u).st = "run" => i = mine(u).inst
    BY <1>1 DEF ThreadOK, Working
  <2>2. i \in 1 .. Len(fes') /\ fes'[i].pid = procOf(u)
    BY <2>1 DEF ObjectsKept, Typed
  <2>3. mine(u)'.st = "run" => i = mine(u)'.inst
    BY <1>1, <1>2, <1>3, <1>4, <2>1 DEF Disciplined, ThreadOK, Holding
  <2> QED BY <1>1, <2>2, <2>3 DEF Working
<1>8. Calling(u)'
  BY <1>1, <1>4, Zenon DEF ThreadOK, Calling, InExit
<1>9. Destructing(u)'
  <2> SUFFICES ASSUME \/ thr[u].pc \in Destroying
                      \/ thr[u].pc \in {"inst", "slow"} \cup Building /\ thr[u].saved = None
               PROVE  Destructing(u)'
    BY <1>1 DEF Destructing
  <2> DEFINE i == Last(thr[u].dying)
  <2>1. /\ thr[u].dying # << >> /\ i \in 1 .. Len(fes) /\ fes[i].pid = procOf(u)
        /\ fes[i].st = IF thr[u].pc \in Destroying /\ mine(u).mutex = u
                       THEN "unwound" ELSE "dying"
    BY <1>1, Zenon DEF ThreadOK, Destructing
  <2>2. fes'[i].st = fes[i].st
    BY <1>1, <2>1, OwnApart
  <2>3. i \in 1 .. Len(fes') /\ fes'[i].pid = procOf(u)
    BY <2>1 DEF ObjectsKept, Typed
  <2> QED BY <1>1, <1>4, <2>1, <2>2, <2>3, Zenon DEF Destructing
<1> QED BY <1>5, <1>6, <1>7, <1>8, <1>9 DEF ThreadOK

\* Only one thread is in exit: it began when no other was.
LEMMA OneExitKept ==
    ASSUME Typed, Core, NEW t \in Threads, Others(t), InExit(t)' => InExit(t) \/ mine(t).st = "run"
    PROVE  OneExit'
<1> SUFFICES ASSUME NEW a \in Threads, NEW b \in Threads, procOf(a)' = procOf(b)',
                    InExit(a)', InExit(b)'
             PROVE  a = b
  BY DEF OneExit
<1>1. \A u \in Threads : u # t => (InExit(u)' <=> InExit(u))
  BY DEF Others, InExit
<1>2. \A u \in Threads : procOf(u) = procOf(t) /\ InExit(u) => mine(t).st # "run"
  BY DEF Core, ThreadOK, Calling, mine
<1> QED BY <1>1, <1>2 DEF Core, OneExit, procOf

\* An object is of a process.
LEMMA ObjectType ==
    ASSUME Typed, NEW i \in 1 .. Len(fes)
    PROVE  fes[i] \in FeType /\ fes[i].pid \in Procs /\ fes[i].main \in Procs
<1>1. fes[i] \in FeType
  BY DEF Typed
<1> QED BY <1>1 DEF FeType

\* A step that leaves the objects and the instance alone.
LEMMA QuietObjects ==
    ASSUME Typed, Core, NEW t \in Threads, Others(t), fes' = fes,
           mine(t)'.inst = mine(t).inst, mine(t)'.mutex \in {mine(t).mutex, t, None},
           mine(t)'.handler # None,
           thr[t].pc \in {"base", "derived"} =>
               thr'[t].pc \in {"base", "derived"} /\ thr'[t].fe = thr[t].fe
    PROVE  (\A p \in Procs : ProcOK(p)') /\ (\A i \in 1 .. Len(fes') : ObjectOK(i)')
<1>1. ASSUME NEW p \in Procs PROVE ProcOK(p)'
  <2>1. ProcOK(p)
    BY DEF Core
  <2>2. CASE p = procOf(t)
    BY <2>1, <2>2, FeInstAssumption, Zenon DEF ProcOK, mine, published, procOf, Threads
  <2>3. CASE p # procOf(t)
    BY <2>1, <2>3, Zenon DEF ProcOK, Others, published
  <2> QED BY <2>2, <2>3
<1>2. ASSUME NEW i \in 1 .. Len(fes) PROVE ObjectOK(i)'
  <2>1. ObjectOK(i) /\ fes[i].pid \in Procs
    BY ObjectType DEF Core
  <2>2. proc'[fes[i].pid].inst = proc[fes[i].pid].inst
    BY <2>1 DEF Others, mine
  <2>3. \A u \in Threads : thr[u].fe = i /\ thr[u].pc \in {"base", "derived"} =>
            thr'[u].fe = i /\ thr'[u].pc \in {"base", "derived"}
    BY DEF Others
  <2> QED BY <2>1, <2>2, <2>3, Zenon DEF ObjectOK, procOf
<1> QED BY <1>1, <1>2

\* A step that changes the state of the object of t.
LEMMA StateObjects ==
    ASSUME Typed, Core, NEW t \in Threads, Others(t),
           NEW n \in 1 .. Len(fes), fes[n].pid = procOf(t), NEW s, s # "ctor", StateSet(n, s),
           \/ mine(t)'.inst = mine(t).inst /\ fes[n].st # "made" /\ s # "made"
           \/ mine(t).inst = 0 /\ mine(t)'.inst = n /\ s = "made"
           \/ mine(t).inst = n /\ mine(t)'.inst = 0 /\ s # "made",
           mine(t)'.mutex \in {mine(t).mutex, t, None}, mine(t)'.handler # None,
           thr[t].pc \in {"base", "derived"} => thr[t].fe = n
    PROVE  (\A p \in Procs : ProcOK(p)') /\ (\A i \in 1 .. Len(fes') : ObjectOK(i)')
<1>0. /\ Len(fes') = Len(fes) /\ Len(fes) \in Nat
      /\ \A i \in 1 .. Len(fes) :
           /\ fes'[i].pid = fes[i].pid /\ fes'[i].main = fes[i].main
           /\ fes'[i].d = fes[i].d /\ fes'[i].kind = fes[i].kind
           /\ fes'[i].st = IF i = n THEN s ELSE fes[i].st
  BY DEF StateSet, ObjectsKept, Typed
<1>1. ASSUME NEW p \in Procs PROVE ProcOK(p)'
  <2>1. ProcOK(p)
    BY DEF Core
  <2>2. CASE p = procOf(t)
    BY <1>0, <2>1, <2>2, FeInstAssumption DEF ProcOK, mine, published, procOf, Threads
  <2>3. CASE p # procOf(t)
    BY <1>0, <2>1, <2>3, Zenon DEF ProcOK, Others, published
  <2> QED BY <2>2, <2>3
<1>2. ASSUME NEW i \in 1 .. Len(fes) PROVE ObjectOK(i)'
  <2>1. ObjectOK(i) /\ fes[i].pid \in Procs /\ ProcOK(procOf(t))
    BY ProcOfThread, ObjectType, Zenon DEF Core
  <2>2. fes'[i].st = "made" => proc'[fes[i].pid].inst = i
    <3>1. CASE fes[i].pid # procOf(t)
      BY <1>0, <2>1, <3>1, Zenon DEF ObjectOK, Others
    <3>2. CASE fes[i].pid = procOf(t)
      BY <1>0, <2>1, <3>2 DEF ObjectOK, mine
    <3> QED BY <3>1, <3>2, Zenon
  <2>3. fes'[i].st = "ctor" => \E u \in Threads : procOf(u) = fes[i].pid /\ thr'[u].fe = i
                                    /\ thr'[u].pc \in {"base", "derived"}
    <3> SUFFICES ASSUME fes[i].st = "ctor", i # n
                 PROVE  \E u \in Threads : procOf(u) = fes[i].pid /\ thr'[u].fe = i
                                    /\ thr'[u].pc \in {"base", "derived"}
      BY <1>0, Zenon
    <3>1. PICK u \in Threads : procOf(u) = fes[i].pid /\ thr[u].fe = i
                                    /\ thr[u].pc \in {"base", "derived"}
      BY <2>1, Zenon DEF ObjectOK
    <3>2. u # t
      BY <3>1, Zenon
    <3> QED BY <3>1, <3>2 DEF Others
  <2>4. /\ fes'[i].d \in 1 .. Len(fes') /\ fes'[fes'[i].d].kind = fes'[i].kind
        /\ fes'[i].pid = "tool" => fes'[i].main = "tool"
        /\ fes'[i].main = fes'[i].pid => fes'[i].d = i
    BY <1>0, <2>1, Zenon DEF ObjectOK
  <2> QED BY <1>0, <2>2, <2>3, <2>4 DEF ObjectOK, procOf
<1> QED BY <1>0, <1>1, <1>2

-----------------------------------------------------------------------------
(* The invariant is inductive.                                             *)

\* A step is reduced to what it does to its own thread and object.
LEMMA CoreStep ==
    ASSUME Typed, Core, NEW t \in Threads, runs(t), Others(t), setup' = setup,
           Disciplined(t), ObjectsKept,
           \A i \in 1 .. Len(fes) : fes'[i].st = fes[i].st \/ (Own(t, i) /\ fes[i].pid = procOf(t)),
           ThreadOK(t)', InExit(t)' => InExit(t) \/ mine(t).st = "run",
           \A p \in Procs : ProcOK(p)', \A i \in 1 .. Len(fes') : ObjectOK(i)'
    PROVE  Core'
<1>1. \A u \in Threads : ThreadOK(u)'
  BY OtherThread, Zenon
<1>2. OneExit'
  BY OneExitKept, Zenon
<1>3. Unborn'
  BY DEF Core, Unborn, Others, Disciplined, runs, mine, procOf, Procs
<1> QED BY <1>1, <1>2, <1>3, Zenon DEF Core

\* The same for a step that leaves the objects and the instance alone.
LEMMA QuietStep ==
    ASSUME Typed, Core, NEW t \in Threads, runs(t), Others(t), setup' = setup, fes' = fes,
           Disciplined(t), mine(t)'.inst = mine(t).inst,
           thr[t].pc \in {"base", "derived"} =>
               thr'[t].pc \in {"base", "derived"} /\ thr'[t].fe = thr[t].fe,
           ThreadOK(t)', InExit(t)' => InExit(t) \/ mine(t).st = "run"
    PROVE  Core'
<1>1. ObjectsKept
  BY SameObjects
<1>2. (\A p \in Procs : ProcOK(p)') /\ (\A i \in 1 .. Len(fes') : ObjectOK(i)')
  BY QuietObjects, Zenon DEF Disciplined
<1>3. \A i \in 1 .. Len(fes) : fes'[i].st = fes[i].st
  OBVIOUS
<1> QED BY <1>1, <1>2, <1>3, CoreStep, Zenon

\* The invariant is kept around the call,
LEMMA CoreCall ==
    ASSUME Typed, Core, NEW t \in Threads,
           SigchldBlocker(t) \/ lockIface(t) \/ body(t) \/ unlockIface(t) \/ restoreSigchld(t)
    PROVE  Typed' /\ Core'
<1>0. /\ ThreadOK(t) /\ procOf(t)' = procOf(t) /\ None # t /\ mine(t).handler # None
      /\ mine(t).handler \in {"tool", "cti", None} /\ None \notin {"tool", "cti", "body", "ret", "members"}
  BY InCore, FeInstAssumption, Zenon DEF ProcType
<1> USE DEF Moves, Locals, SameStatics, Statics, SameEnv, Env, SameDetected, Detected, InExit,
            Building, Destroying
<1>1. CASE SigchldBlocker(t)
  <2>1. /\ Typed' /\ Others(t) /\ runs(t) /\ thr[t].pc = "out"
        /\ Locals(t, "blocked", mine(t).handler, thr[t].ret, thr[t].fe, thr[t].dying)
        /\ SameDetected(t) /\ SameStatics(t)
        /\ Env(t, "cti")
    BY <1>1, SigchldBlockerEffect, Zenon
  <2>2. setup' = setup /\ fes' = fes
    BY <1>1 DEF SigchldBlocker
  <2>3. ThreadOK(t)'
    BY <1>0, <2>1, <2>2, Zenon DEF ThreadOK, Holding, Constructing, Working, Calling, Destructing,
       runs, mine
  <2> QED BY <1>0, <2>1, <2>2, <2>3, QuietStep, Zenon DEF Disciplined
<1>2. CASE lockIface(t)
  <2>1. /\ Typed' /\ Others(t) /\ runs(t) /\ thr[t].pc = "blocked"
        /\ Locals(t, "inst", thr[t].saved, "body", thr[t].fe, thr[t].dying)
        /\ SameDetected(t) /\ SameStatics(t) /\ SameEnv(t)
    BY <1>2, lockIfaceEffect, Zenon
  <2>2. setup' = setup /\ fes' = fes
    BY <1>2 DEF lockIface
  <2>3. ThreadOK(t)'
    BY <1>0, <2>1, <2>2, Zenon DEF ThreadOK, Holding, Constructing, Working, Calling, Destructing,
       runs, mine
  <2> QED BY <1>0, <2>1, <2>2, <2>3, QuietStep, Zenon DEF Disciplined
<1>3. CASE body(t)
  <2>1. /\ Typed' /\ Others(t) /\ runs(t) /\ thr[t].pc = "body"
        /\ \/ Moves(t, "ret")
           \/ Locals(t, "inst", thr[t].saved, "ret", thr[t].fe, thr[t].dying)
        /\ SameDetected(t) /\ SameStatics(t) /\ SameEnv(t)
    BY <1>3, bodyEffect, Zenon
  <2>2. setup' = setup /\ fes' = fes
    BY <1>3 DEF body
  <2>3. ThreadOK(t)'
    BY <1>0, <2>1, <2>2, Zenon DEF ThreadOK, Holding, Constructing, Working, Calling, Destructing,
       runs, mine
  <2> QED BY <1>0, <2>1, <2>2, <2>3, QuietStep, Zenon DEF Disciplined
<1>4. CASE unlockIface(t)
  <2>1. /\ Typed' /\ Others(t) /\ runs(t) /\ thr[t].pc = "ret"
        /\ Moves(t, "unlocked") /\ SameDetected(t) /\ SameStatics(t) /\ SameEnv(t)
    BY <1>4, unlockIfaceEffect, Zenon
  <2>2. setup' = setup /\ fes' = fes
    BY <1>4 DEF unlockIface
  <2>3. ThreadOK(t)'
    BY <1>0, <2>1, <2>2, Zenon DEF ThreadOK, Holding, Constructing, Working, Calling, Destructing,
       runs, mine
  <2> QED BY <1>0, <2>1, <2>2, <2>3, QuietStep, Zenon DEF Disciplined
<1>5. CASE restoreSigchld(t)
  <2>1. /\ Typed' /\ Others(t) /\ runs(t) /\ thr[t].pc = "unlocked"
        /\ Locals(t, "out", None, None, 0, << >>) /\ Detected(t, {}, None)
        /\ SameStatics(t) /\ Env(t, thr[t].saved)
    BY <1>5, restoreSigchldEffect, Zenon
  <2>2. setup' = setup /\ fes' = fes
    BY <1>5 DEF restoreSigchld
  <2>3. thr[t].saved # None
    BY <1>0, <2>1, Zenon DEF ThreadOK, Calling, runs, mine
  <2>4. ThreadOK(t)'
    BY <1>0, <2>1, <2>2, Zenon DEF ThreadOK, Holding, Constructing, Working, Calling, Destructing,
       runs, mine
  <2> QED BY <1>0, <2>1, <2>2, <2>3, <2>4, QuietStep, Zenon DEF Disciplined
<1> QED BY <1>1, <1>2, <1>3, <1>4, <1>5

\* A construction that fails gives the lock back.
LEMMA FailsThread ==
    ASSUME Typed, Core, NEW t \in Threads, runs(t), thr[t].pc # "out", mine(t).mutex = t,
           setup' = setup, Fails(t)
    PROVE  ThreadOK(t)' /\ Disciplined(t) /\ (InExit(t)' => InExit(t))
           /\ mine(t)'.inst = mine(t).inst
<1>1. /\ ThreadOK(t) /\ procOf(t)' = procOf(t) /\ None # t /\ mine(t).handler # None
      /\ None \notin {"tool", "cti", "body", "ret", "members"}
  BY InCore, FeInstAssumption, Zenon
<1> QED BY <1>1, Zenon DEF ThreadOK, Holding, Constructing, Working, Calling, Destructing, runs,
           mine,
           Fails, Locals, Detected, Statics, SameEnv, Env, InExit, Building, Destroying, Disciplined

\* in inst() up to the constructor,
LEMMA CoreInst ==
    ASSUME Typed, Core, NEW t \in Threads,
           load(t) \/ lockMutex(t) \/ loseHelper(t) \/ detect(t) \/ ctorFails(t)
    PROVE  Typed' /\ Core'
<1>0. /\ ThreadOK(t) /\ Calling(t) /\ procOf(t)' = procOf(t) /\ None # t
      /\ mine(t).handler # None /\ None \notin {"tool", "cti", "body", "ret", "members"}
      /\ mine(t).inst # 0 => /\ mine(t).inst \in 1 .. Len(fes)
                             /\ fes[mine(t).inst].pid = procOf(t)
  BY InCore, FeInstAssumption, Zenon DEF ThreadOK, ProcOK, mine, published
<1> USE DEF Moves, Locals, SameStatics, Statics, SameEnv, Env, SameDetected, Detected, InExit,
            Building, Destroying
<1>1. CASE load(t)
  <2>1. /\ Typed' /\ Others(t) /\ runs(t) /\ thr[t].pc = "inst"
        /\ SameStatics(t) /\ SameEnv(t)
        /\ \/ /\ mine(t).inst # 0 /\ Detected(t, {}, None)
              /\ Locals(t, thr[t].ret, thr[t].saved, thr[t].ret, mine(t).inst, thr[t].dying)
           \/ mine(t).inst = 0 /\ Moves(t, "slow") /\ SameDetected(t)
    BY <1>0, <1>1, loadEffect, Zenon
  <2>2. setup' = setup /\ fes' = fes
    BY <1>1, Zenon DEF load
  <2>3. ThreadOK(t)'
    BY <1>0, <2>1, <2>2, Zenon DEF ThreadOK, Holding, Constructing, Working, Calling, Destructing,
       runs, mine
  <2> QED BY <1>0, <2>1, <2>2, <2>3, QuietStep, Zenon DEF Disciplined
<1>2. CASE lockMutex(t)
  <2>1. /\ Typed' /\ Others(t) /\ runs(t) /\ thr[t].pc = "slow" /\ mine(t).mutex = None
        /\ SameEnv(t)
        /\ \/ /\ mine(t).inst # 0 /\ SameStatics(t) /\ Detected(t, {}, None)
              /\ Locals(t, thr[t].ret, thr[t].saved, thr[t].ret, mine(t).inst, thr[t].dying)
           \/ /\ mine(t).inst = 0 /\ Statics(t, mine(t).st, 0, t)
              /\ Moves(t, "detect") /\ SameDetected(t)
    BY <1>0, <1>2, lockMutexEffect, Zenon
  <2>2. setup' = setup /\ fes' = fes
    BY <1>2 DEF lockMutex
  <2>3. ThreadOK(t)'
    BY <1>0, <2>1, <2>2, Zenon DEF ThreadOK, Holding, Constructing, Working, Calling, Destructing,
       runs, mine
  <2> QED BY <1>0, <2>1, <2>2, <2>3, QuietStep, Zenon DEF Disciplined
<1>3. CASE loseHelper(t)
  <2>1. /\ Typed' /\ Others(t) /\ runs(t) /\ thr[t].pc = "detect"
        /\ Moves(t, "detect") /\ SameStatics(t) /\ SameEnv(t)
    BY <1>3, loseHelperEffect, Zenon
  <2>2. setup' = setup /\ fes' = fes
    BY <1>3 DEF loseHelper
  <2>3. ThreadOK(t)'
    BY <1>0, <2>1, <2>2, Zenon DEF ThreadOK, Holding, Constructing, Working, Calling, Destructing,
       runs, mine
  <2> QED BY <1>0, <2>1, <2>2, <2>3, QuietStep, Zenon DEF Disciplined
<1>4. CASE detect(t)
  <2>1. /\ Typed' /\ Others(t) /\ runs(t) /\ thr[t].pc = "detect"
        /\ (Moves(t, "ctor") /\ SameStatics(t) /\ SameEnv(t)) \/ Fails(t)
    BY <1>4, detectEffect, Zenon
  <2>2. setup' = setup /\ fes' = fes
    BY <1>4 DEF detect
  <2>3. mine(t).mutex = t
    BY <1>0, <2>1, Zenon DEF ThreadOK, Holding
  <2>4. CASE Moves(t, "ctor") /\ SameStatics(t) /\ SameEnv(t)
    <3>1. ThreadOK(t)'
      BY <1>0, <2>1, <2>2, <2>4, Zenon DEF ThreadOK, Holding, Constructing, Working, Calling,
         Destructing, runs, mine
    <3> QED BY <1>0, <2>1, <2>2, <2>4, <3>1, QuietStep, Zenon DEF Disciplined
  <2>5. CASE Fails(t)
    BY <2>1, <2>2, <2>3, <2>5, FailsThread, QuietStep, Zenon
  <2> QED BY <2>1, <2>4, <2>5, Zenon
<1>5. CASE ctorFails(t)
  <2>1. Typed' /\ Others(t) /\ runs(t) /\ thr[t].pc = "ctor" /\ Fails(t)
    BY <1>5, ctorFailsEffect, Zenon
  <2>2. setup' = setup /\ fes' = fes
    BY <1>5 DEF ctorFails
  <2>3. mine(t).mutex = t
    BY <1>0, <2>1, Zenon DEF ThreadOK, Holding
  <2> QED BY <2>1, <2>2, <2>3, FailsThread, QuietStep, Zenon
<1> QED BY <1>1, <1>2, <1>3, <1>4, <1>5

\* The step of t that sets the state of its object.
LEMMA StateStep ==
    ASSUME Typed, Core, NEW t \in Threads, runs(t), Others(t), setup' = setup,
           Disciplined(t), NEW n \in 1 .. Len(fes), Own(t, n), fes[n].pid = procOf(t),
           NEW s, s # "ctor", StateSet(n, s),
           \/ mine(t)'.inst = mine(t).inst /\ fes[n].st # "made" /\ s # "made"
           \/ mine(t).inst = 0 /\ mine(t)'.inst = n /\ s = "made"
           \/ mine(t).inst = n /\ mine(t)'.inst = 0 /\ s # "made",
           ThreadOK(t)', InExit(t)' => InExit(t) \/ mine(t).st = "run"
    PROVE  Core'
<1>1. mine(t)'.mutex \in {mine(t).mutex, t, None} /\ mine(t)'.handler # None
  BY Zenon DEF Disciplined
<1>2. thr[t].pc \in {"base", "derived"} => thr[t].fe = n
  BY Zenon DEF Own
<1>3. (\A p \in Procs : ProcOK(p)') /\ (\A i \in 1 .. Len(fes') : ObjectOK(i)')
  BY <1>1, <1>2, StateObjects, Zenon
<1>4. ObjectsKept /\ \A i \in 1 .. Len(fes) : fes'[i].st = fes[i].st \/ i = n
  BY Zenon DEF StateSet
<1> QED BY <1>3, <1>4, CoreStep, Zenon

\* in the constructors,
LEMMA CoreCtor ==
    ASSUME Typed, Core, NEW t \in Threads,
           baseFails(t) \/ initialize(t) \/ derivedFails(t) \/ store(t)
    PROVE  Typed' /\ Core'
<1> DEFINE n == thr[t].fe
<1>0. /\ ThreadOK(t) /\ Calling(t) /\ Constructing(t) /\ procOf(t)' = procOf(t) /\ None # t
      /\ mine(t).handler # None /\ None \notin {"tool", "cti", "body", "ret", "members"}
  BY InCore, FeInstAssumption, Zenon DEF ThreadOK
<1>m. ASSUME thr[t].pc \in {"base", "derived"}
      PROVE  /\ mine(t).mutex = t /\ mine(t).inst = 0 /\ n \in 1 .. Len(fes) /\ Own(t, n)
             /\ fes[n].pid = procOf(t) /\ fes[n].st = "ctor" /\ thr[t].pc # "out"
  BY <1>0, <1>m, Zenon DEF ThreadOK, Holding, Constructing, Building, Own
<1> USE DEF Moves, Locals, SameStatics, Statics, SameEnv, Env, SameDetected, Detected, InExit,
            Building, Destroying
<1>1. CASE baseFails(t)
  <2>1. /\ Typed' /\ Others(t) /\ runs(t) /\ thr[t].pc = "base" /\ Fails(t)
        /\ StateSet(n, "failed")
    BY <1>0, <1>1, baseFailsEffect, Zenon
  <2>2. setup' = setup
    BY <1>1 DEF baseFails
  <2>3. /\ ThreadOK(t)' /\ Disciplined(t) /\ (InExit(t)' => InExit(t))
        /\ mine(t)'.inst = mine(t).inst
    BY <1>m, <2>1, <2>2, FailsThread, Zenon
  <2> QED BY <1>m, <2>1, <2>2, <2>3, StateStep, Zenon
<1>2. CASE initialize(t)
  <2>1. /\ Typed' /\ Others(t) /\ runs(t) /\ thr[t].pc = "base"
        /\ Moves(t, "derived") /\ SameDetected(t) /\ SameStatics(t) /\ SameEnv(t)
    BY <1>2, initializeEffect, Zenon
  <2>2. setup' = setup /\ fes' = fes
    BY <1>2 DEF initialize
  <2>3. ThreadOK(t)'
    BY <1>0, <2>1, <2>2, Zenon DEF ThreadOK, Holding, Constructing, Working, Calling, Destructing,
       runs, mine
  <2> QED BY <1>0, <2>1, <2>2, <2>3, QuietStep, Zenon DEF Disciplined
<1>3. CASE derivedFails(t)
  <2>1. /\ Typed' /\ Others(t) /\ runs(t) /\ thr[t].pc = "derived"
        /\ thr'[t].pc = "delete" /\ thr'[t].saved = thr[t].saved
        /\ thr'[t].ret = thr[t].ret /\ thr'[t].fe = n
        /\ thr'[t].dying # << >> /\ Last(thr'[t].dying) = n
        /\ SameDetected(t) /\ SameStatics(t) /\ SameEnv(t)
        /\ StateSet(n, "unwound")
    BY <1>0, <1>3, derivedFailsEffect, Zenon
  <2>2. setup' = setup
    BY <1>3 DEF derivedFails
  <2>3. /\ n \in 1 .. Len(fes') /\ fes'[n].pid = procOf(t) /\ fes'[n].st = "unwound"
    BY <1>m, <2>1, Zenon DEF StateSet, ObjectsKept
  <2>4. ThreadOK(t)'
    BY <1>0, <1>m, <2>1, <2>2, <2>3, Zenon DEF ThreadOK, Holding, Constructing, Working, Calling,
       Destructing, runs, mine
  <2>5. Disciplined(t) /\ (InExit(t)' => InExit(t)) /\ mine(t)'.inst = mine(t).inst
    BY <1>0, <2>1, Zenon DEF Disciplined
  <2> QED BY <1>m, <2>1, <2>2, <2>4, <2>5, StateStep, Zenon
<1>4. CASE store(t)
  <2>1. /\ Typed' /\ Others(t) /\ runs(t) /\ thr[t].pc = "derived"
        /\ Locals(t, thr[t].ret, thr[t].saved, thr[t].ret, n, thr[t].dying)
        /\ Statics(t, mine(t).st, n, None) /\ SameEnv(t)
        /\ StateSet(n, "made")
    BY <1>0, <1>4, storeEffect, Zenon
  <2>2. setup' = setup
    BY <1>4 DEF store
  <2>3. n \in 1 .. Len(fes') /\ fes'[n].pid = procOf(t)
    BY <1>m, <2>1, Zenon DEF StateSet, ObjectsKept
  <2>4. thr[t].saved = None =>
          LET i == Last(thr[t].dying) IN
          /\ thr[t].dying # << >> /\ i \in 1 .. Len(fes') /\ fes'[i].pid = procOf(t)
          /\ fes'[i].st = "dying"
    BY <1>0, <1>m, <2>1, Zenon DEF ThreadOK, Destructing, StateSet, ObjectsKept
  <2>5. ThreadOK(t)'
    BY <1>0, <1>m, <2>1, <2>2, <2>3, <2>4, Zenon DEF ThreadOK, Holding, Constructing, Working,
       Calling,
       Destructing, runs, mine
  <2>6. Disciplined(t) /\ (InExit(t)' => InExit(t))
    BY <1>0, <1>m, <2>1, Zenon DEF Disciplined
  <2> QED BY <1>m, <2>1, <2>2, <2>5, <2>6, StateStep, Zenon
<1> QED BY <1>1, <1>2, <1>3, <1>4

\* What an added object leaves of the others.
LEMMA AddedObjects ==
    ASSUME Typed, Core, ObjectsKept, Len(fes') = Len(fes) + 1,
           \A i \in 1 .. Len(fes) : fes'[i] = fes[i]
    PROVE  /\ Len(fes') \in Nat /\ Len(fes) \in Nat
           /\ \A i \in 1 .. Len(fes) :
                /\ i \in 1 .. Len(fes') /\ fes[i].d \in 1 .. Len(fes)
                /\ fes[i].d \in 1 .. Len(fes')
                /\ fes'[fes[i].d].kind = fes[i].kind
                /\ fes[i].pid = "tool" => fes[i].main = "tool"
                /\ fes[i].main = fes[i].pid => fes[i].d = i
           /\ \A i \in 1 .. Len(fes') : i \in 1 .. Len(fes) \/ i = Len(fes')
<1>1. Len(fes') \in Nat /\ Len(fes) \in Nat
  BY DEF Typed, ObjectsKept
<1>2. \A i \in 1 .. Len(fes) :
          /\ fes[i].d \in 1 .. Len(fes) /\ fes[fes[i].d].kind = fes[i].kind
          /\ fes[i].pid = "tool" => fes[i].main = "tool"
          /\ fes[i].main = fes[i].pid => fes[i].d = i
  BY Zenon DEF Core, ObjectOK
<1> QED BY <1>1, <1>2

\* where a constructor begins its object,
LEMMA CoreSetupCfgDir ==
    ASSUME Typed, Core, NEW t \in Threads, setupCfgDir(t)
    PROVE  Typed' /\ Core'
<1> DEFINE n == Len(fes) + 1
<1>0. /\ ThreadOK(t) /\ procOf(t)' = procOf(t) /\ procOf(t) \in Procs /\ None # t
      /\ mine(t).handler # None /\ None \notin {"tool", "cti", "body", "ret", "members"}
  BY InCore, ProcOfThread, FeInstAssumption, Zenon
<1>1. /\ Typed' /\ Others(t) /\ runs(t) /\ thr[t].pc = "ctor"
      /\ Locals(t, "base", thr[t].saved, thr[t].ret, n, thr[t].dying)
      /\ SameDetected(t) /\ SameStatics(t) /\ SameEnv(t)
      /\ ObjectsKept /\ Len(fes') = n
      /\ \A i \in 1 .. Len(fes) : fes'[i] = fes[i]
      /\ fes'[n] =
             [pid |-> procOf(t), d |-> n, kind |-> thr[t].kind,
              main |-> procOf(t), st |-> "ctor"]
  BY setupCfgDirEffect, Zenon
<1>2. setup' = setup /\ Len(fes) \in Nat /\ n \in 1 .. Len(fes') /\ n \notin 1 .. Len(fes)
  BY <1>1 DEF setupCfgDir, Typed
<1>3. /\ fes'[n].pid = procOf(t) /\ fes'[n].d = n /\ fes'[n].main = procOf(t)
      /\ fes'[n].st = "ctor"
  BY <1>1
<1>4. /\ \A i \in 1 .. Len(fes) :
           /\ i \in 1 .. Len(fes') /\ fes[i].d \in 1 .. Len(fes')
           /\ fes'[fes[i].d].kind = fes[i].kind
           /\ fes[i].pid = "tool" => fes[i].main = "tool"
           /\ fes[i].main = fes[i].pid => fes[i].d = i
      /\ \A i \in 1 .. Len(fes') : i \in 1 .. Len(fes) \/ i = n
  BY <1>1, AddedObjects, Zenon
<1> USE DEF Locals, SameStatics, Statics, SameEnv, Env, InExit, Building, Destroying
<1>5. ThreadOK(t)'
  <2>1. mine(t).mutex = t /\ mine(t).inst = 0
    BY <1>0, <1>1, Zenon DEF ThreadOK, Holding
  <2>2. thr[t].saved = None =>
          LET i == Last(thr[t].dying) IN
          /\ thr[t].dying # << >> /\ i \in 1 .. Len(fes') /\ fes'[i].pid = procOf(t)
          /\ fes'[i].st = "dying"
    BY <1>0, <1>1, <1>4, Zenon DEF ThreadOK, Destructing
  <2>3. Holding(t)' /\ Constructing(t)' /\ Working(t)'
    BY <1>0, <1>1, <1>2, <1>3, <2>1, Zenon DEF Holding, Constructing, Working
  <2>4. Calling(t)'
    BY <1>0, <1>1, <1>2, Zenon DEF ThreadOK, Calling, runs, mine
  <2>5. Destructing(t)'
    BY <1>0, <1>1, <2>2, Zenon DEF Destructing
  <2> QED BY <2>3, <2>4, <2>5 DEF ThreadOK
<1>6. Disciplined(t) /\ (InExit(t)' => InExit(t))
  BY <1>0, <1>1, Zenon DEF Disciplined
<1>7. ASSUME NEW p \in Procs PROVE ProcOK(p)'
  <2>1. ProcOK(p)
    BY DEF Core
  <2>2. /\ proc'[p].inst = proc[p].inst /\ proc'[p].mutex = proc[p].mutex
        /\ proc'[p].handler = proc[p].handler
    BY <1>1, Zenon DEF Others, mine
  <2> QED BY <1>1, <1>4, <2>1, <2>2, Zenon DEF ProcOK, published
<1>8. ASSUME NEW i \in 1 .. Len(fes') PROVE ObjectOK(i)'
  <2>1. CASE i = n
    BY <1>0, <1>1, <1>2, <1>3, <2>1, Zenon DEF ObjectOK
  <2>2. CASE i \in 1 .. Len(fes)
    <3>1. ObjectOK(i) /\ fes[i].pid \in Procs /\ fes'[i] = fes[i]
      BY <1>1, <2>2, ObjectType, Zenon DEF Core
    <3>2. proc'[fes[i].pid].inst = proc[fes[i].pid].inst
      BY <1>1, <3>1, Zenon DEF Others, mine
    <3>3. \A u \in Threads : thr[u].pc \in {"base", "derived"} => thr'[u] = thr[u]
      BY <1>1, Zenon DEF Others
    <3>4. fes[i].st = "ctor" => \E u \in Threads : procOf(u) = fes[i].pid /\ thr'[u].fe = i
                                   /\ thr'[u].pc \in {"base", "derived"}
      BY <3>1, <3>3, Zenon DEF ObjectOK
    <3>5. fes[i].st = "made" => proc'[fes[i].pid].inst = i
      BY <3>1, <3>2, Zenon DEF ObjectOK
    <3> HIDE DEF n
    <3> QED BY <1>4, <2>2, <3>1, <3>4, <3>5, Zenon DEF ObjectOK, procOf
  <2> QED BY <1>4, <2>1, <2>2, Zenon
<1>9. \A i \in 1 .. Len(fes) : fes'[i].st = fes[i].st
  BY <1>1, Zenon
<1> QED BY <1>1, <1>2, <1>5, <1>6, <1>7, <1>8, <1>9, CoreStep, Zenon

\* in exit,
LEMMA CoreExit ==
    ASSUME Typed, Core, NEW t \in Threads,
           exit(t) \/ exchange(t) \/ deleteFrontend(t) \/ writeLog(t) \/ members(t) \/ done(t)
    PROVE  Typed' /\ Core'
<1>0. /\ ThreadOK(t) /\ Destructing(t) /\ Calling(t) /\ ProcOK(procOf(t))
      /\ procOf(t)' = procOf(t) /\ None # t
      /\ mine(t).handler # None /\ None \notin {"tool", "cti", "body", "ret", "members"}
  BY InCore, FeInstAssumption, Zenon DEF ThreadOK
<1> USE DEF Moves, Locals, SameStatics, Statics, SameEnv, Env, SameDetected, Detected, InExit,
            Building, Destroying
<1>1. CASE exit(t)
  <2>1. /\ Typed' /\ Others(t) /\ runs(t) /\ thr[t].pc = "out" /\ mine(t).st = "run"
        /\ Moves(t, "exchange") \/ Moves(t, "done")
        /\ Statics(t, "exit", mine(t).inst, mine(t).mutex) /\ SameEnv(t)
    BY <1>1, exitEffect, Zenon
  <2>2. setup' = setup /\ fes' = fes
    BY <1>1 DEF exit
  <2>3. ThreadOK(t)'
    BY <1>0, <2>1, <2>2, Zenon DEF ThreadOK, Holding, Constructing, Working, Calling, Destructing,
       runs, mine
  <2> QED BY <1>0, <2>1, <2>2, <2>3, QuietStep, Zenon DEF Disciplined
<1>2. CASE exchange(t)
  <2> DEFINE n == mine(t).inst
  <2>1. /\ Typed' /\ Others(t) /\ runs(t) /\ thr[t].pc = "exchange" /\ SameEnv(t)
        /\ \/ mine(t).inst = 0 /\ Moves(t, "done") /\ SameStatics(t) /\ fes' = fes
           \/ /\ mine(t).inst # 0
              /\ thr'[t].pc = "delete" /\ thr'[t].saved = thr[t].saved
              /\ thr'[t].ret = thr[t].ret /\ thr'[t].fe = thr[t].fe
              /\ thr'[t].dying # << >> /\ Last(thr'[t].dying) = mine(t).inst
              /\ Statics(t, mine(t).st, 0, mine(t).mutex)
              /\ StateSet(mine(t).inst, "dying")
    BY <1>0, <1>2, exchangeEffect, Zenon
  <2>2. setup' = setup
    BY <1>2 DEF exchange
  <2>3. /\ thr[t].saved = None /\ mine(t).st = "exit" /\ mine(t).mutex # t
    BY <1>0, <2>1, Zenon DEF ThreadOK, Calling, Holding, runs, mine
  <2>4. CASE n = 0
    <3>1. ThreadOK(t)'
      BY <1>0, <2>1, <2>2, <2>4, Zenon DEF ThreadOK, Holding, Constructing, Working, Calling,
         Destructing, runs, mine
    <3> QED BY <1>0, <2>1, <2>2, <2>4, <3>1, QuietStep, Zenon DEF Disciplined
  <2>5. CASE n # 0
    <3>1. n \in 1 .. Len(fes) /\ fes[n].pid = procOf(t) /\ Own(t, n)
      BY <1>0, <2>1, <2>5, Zenon DEF ProcOK, mine, published, Own
    <3>2. n \in 1 .. Len(fes') /\ fes'[n].pid = procOf(t) /\ fes'[n].st = "dying"
      BY <2>1, <2>5, <3>1, Zenon DEF StateSet, ObjectsKept
    <3>3. ThreadOK(t)'
      BY <1>0, <2>1, <2>2, <2>3, <2>5, <3>2, Zenon DEF ThreadOK, Holding, Constructing, Working,
         Calling,
         Destructing, runs, mine
    <3>4. Disciplined(t) /\ (InExit(t)' => InExit(t)) /\ mine(t)'.inst = 0
          /\ StateSet(n, "dying")
      BY <1>0, <2>1, <2>3, <2>5, Zenon DEF Disciplined
    <3> HIDE DEF n
    <3> QED BY <2>1, <2>2, <3>1, <3>3, <3>4, StateStep, Zenon DEF n
  <2> QED BY <2>4, <2>5
<1>3. CASE deleteFrontend(t)
  <2>1. /\ Typed' /\ Others(t) /\ runs(t) /\ thr[t].pc = "delete"
        /\ Moves(t, "log") \/ Moves(t, "members")
        /\ SameStatics(t) /\ SameEnv(t)
    BY <1>3, deleteFrontendEffect, Zenon
  <2>2. setup' = setup /\ fes' = fes
    BY <1>3, Zenon DEF deleteFrontend
  <2>3. ThreadOK(t)'
    BY <1>0, <2>1, <2>2, Zenon DEF ThreadOK, Holding, Constructing, Working, Calling, Destructing,
       runs, mine
  <2> QED BY <1>0, <2>1, <2>2, <2>3, QuietStep, Zenon DEF Disciplined
<1>4. CASE writeLog(t)
  <2>1. /\ Typed' /\ Others(t) /\ runs(t) /\ thr[t].pc = "log"
        /\ \/ Moves(t, "members")
           \/ mine(t).mutex = t /\ Moves(t, "stuck")
           \/ /\ mine(t).mutex # t
              /\ Locals(t, "inst", thr[t].saved, "members", thr[t].fe, thr[t].dying)
        /\ SameStatics(t) /\ SameEnv(t)
    BY <1>4, writeLogEffect, Zenon
  <2>2. setup' = setup /\ fes' = fes
    BY <1>4 DEF writeLog
  <2>3. ThreadOK(t)'
    BY <1>0, <2>1, <2>2, Zenon DEF ThreadOK, Holding, Constructing, Working, Calling, Destructing,
       runs, mine
  <2> QED BY <1>0, <2>1, <2>2, <2>3, QuietStep, Zenon DEF Disciplined
<1>5. CASE members(t)
  <2> DEFINE n == Last(thr[t].dying)
  <2>1. /\ Typed' /\ Others(t) /\ runs(t) /\ thr[t].pc = "members"
        /\ n \in 1 .. Len(fes)
        /\ \/ fes[n].st = "unwound" /\ Fails(t) /\ StateSet(n, "failed")
           \/ /\ fes[n].st # "unwound" /\ StateSet(n, "dead")
              /\ Locals(t, "done", thr[t].saved, thr[t].ret, thr[t].fe, << >>)
              /\ SameStatics(t) /\ SameEnv(t)
    BY <1>0, <1>5, membersEffect, Zenon
  <2>2. setup' = setup
    BY <1>5 DEF members
  <2>3. /\ fes[n].pid = procOf(t) /\ Own(t, n)
        /\ fes[n].st = IF mine(t).mutex = t THEN "unwound" ELSE "dying"
    BY <1>0, <2>1, Zenon DEF Destructing, Own
  <2> HIDE DEF n
  <2>4. CASE fes[n].st = "unwound"
    <3>1. /\ ThreadOK(t)' /\ Disciplined(t) /\ (InExit(t)' => InExit(t))
          /\ mine(t)'.inst = mine(t).inst
      BY <2>1, <2>2, <2>3, <2>4, FailsThread, Zenon
    <3> QED BY <2>1, <2>2, <2>3, <2>4, <3>1, StateStep, Zenon
  <2>5. CASE fes[n].st # "unwound"
    <3>1. thr[t].saved = None /\ mine(t).mutex # t
      BY <1>0, <2>1, <2>3, <2>5, Zenon DEF Calling
    <3>2. ThreadOK(t)'
      BY <1>0, <2>1, <2>2, <2>5, <3>1, Zenon DEF ThreadOK, Holding, Constructing, Working, Calling,
         Destructing, runs, mine
    <3>3. /\ Disciplined(t) /\ (InExit(t)' => InExit(t)) /\ mine(t)'.inst = mine(t).inst
          /\ StateSet(n, "dead") /\ fes[n].st = "dying"
      BY <1>0, <2>1, <2>3, <2>5, <3>1, Zenon DEF Disciplined
    <3> QED BY <2>1, <2>2, <2>3, <3>2, <3>3, StateStep, Zenon
  <2> QED BY <2>4, <2>5, Zenon
<1>6. CASE done(t)
  <2>1. /\ Typed' /\ Others(t) /\ runs(t) /\ thr[t].pc = "done" /\ thr' = thr
        /\ Statics(t, "gone", mine(t).inst, mine(t).mutex) /\ SameEnv(t)
    BY <1>6, doneEffect, Zenon
  <2>2. setup' = setup /\ fes' = fes
    BY <1>6 DEF done
  <2>3. ThreadOK(t)'
    BY <1>0, <2>1, <2>2, Zenon DEF ThreadOK, Holding, Constructing, Working, Calling, Destructing,
       runs, mine
  <2> QED BY <1>0, <2>1, <2>2, <2>3, QuietStep, Zenon DEF Disciplined
<1> QED BY <1>1, <1>2, <1>3, <1>4, <1>5, <1>6

\* and in a fork.
LEMMA CoreFork ==
    ASSUME Typed, Core, NEW t \in Threads, fork(t)
    PROVE  Typed' /\ Core'
<1> DEFINE n == Len(fes) + 1
           copied == proc["tool"].inst # 0
<1>0. /\ "tool" \in Procs /\ "child" \in Procs /\ ProcOK("tool") /\ Forked \in Threads
      /\ \A p \in Procs : p = "tool" \/ p = "child"
  BY DEF Procs, Core, Threads
<1>1. /\ Typed' /\ thr' = thr /\ t \in ToolThreads
      /\ proc["tool"].st = "run" /\ proc["child"].st = "none"
      /\ proc'["tool"] = proc["tool"]
      /\ proc'["child"].st = "run" /\ proc'["child"].mutex = proc["tool"].mutex
      /\ proc'["child"].handler = proc["tool"].handler
      /\ \/ ~copied /\ fes' = fes /\ proc'["child"].inst = 0
         \/ /\ copied /\ proc'["child"].inst = n
            /\ ObjectsKept /\ Len(fes') = n
            /\ \A i \in 1 .. Len(fes) : fes'[i] = fes[i]
            /\ fes'[n].pid = "child"
            /\ fes'[n].st = published("tool").st
            /\ fes'[n].main = published("tool").main
            /\ fes'[n].d = published("tool").d
            /\ fes'[n].kind = published("tool").kind
  BY <1>0, forkEffect, Zenon
<1>2. setup' = setup /\ Len(fes) \in Nat /\ n \in Nat
  BY DEF fork, Typed
<1>3. /\ \A i \in 1 .. Len(fes) : i \in 1 .. Len(fes') /\ fes'[i] = fes[i]
      /\ Len(fes') \in {Len(fes), n}
  BY <1>1, <1>2
<1>4. ASSUME NEW u \in Threads PROVE ThreadOK(u)'
  <2>1. ThreadOK(u) /\ procOf(u)' = procOf(u)
    BY DEF Core, procOf
  <2>2. CASE u # Forked
    <3>1. mine(u)' = mine(u)
      BY <1>1, <2>2, Zenon DEF mine, procOf
    <3>2. Holding(u)' /\ Working(u)' /\ Calling(u)' /\ Constructing(u)'
      BY <1>1, <1>2, <1>3, <2>1, <3>1, Zenon DEF ThreadOK, Holding, Constructing, Working,
         Calling, InExit
    <3>3. Destructing(u)'
      BY <1>1, <1>3, <2>1, <3>1, Zenon DEF ThreadOK, Destructing
    <3> QED BY <3>2, <3>3 DEF ThreadOK
  <2>3. CASE u = Forked
    <3>1. mine(u) = proc["child"] /\ mine(u)' = proc'["child"]
      BY <2>3 DEF mine, procOf
    <3>2. thr[u].pc = "out"
      BY <1>1, <2>1, <3>1, Zenon DEF ThreadOK, Calling
    <3>3. mine(u)'.mutex # u
      BY <1>0, <1>1, <2>3, <3>1, Zenon DEF ProcOK
    <3> QED BY <1>1, <1>2, <2>1, <3>1, <3>2, <3>3, Zenon DEF ThreadOK, Holding, Constructing,
               Working, Calling, Destructing, InExit, Building, Destroying
  <2> QED BY <2>2, <2>3
<1>5. ASSUME NEW p \in Procs PROVE ProcOK(p)'
  <2>1. CASE p = "tool"
    BY <1>0, <1>1, <1>3, <2>1, Zenon DEF ProcOK, published
  <2>2. CASE p = "child"
    <3>1. proc'[p].handler # None /\ p # "tool"
      BY <1>0, <1>1, <2>2, Zenon DEF ProcOK
    <3>2. copied => proc["tool"].inst \in 1 .. Len(fes) /\ published("tool").st = "made"
      BY <1>0, Zenon DEF ProcOK
    <3>3. copied => n \in 1 .. Len(fes') /\ fes'[n].pid = p /\ fes'[n].st = "made"
      <4>1. copied => Len(fes') = n /\ fes'[n].pid = "child" /\ fes'[n].st = published("tool").st
        BY <1>1, Zenon
      <4> QED BY <1>2, <2>2, <3>2, <4>1
    <3>4. proc'[p].inst = IF copied THEN n ELSE 0
      BY <1>1, <2>2, Zenon
    <3> HIDE DEF n, copied
    <3> QED BY <3>1, <3>3, <3>4 DEF ProcOK, published
  <2> QED BY <1>0, <2>1, <2>2
<1>6. ASSUME NEW i \in 1 .. Len(fes') PROVE ObjectOK(i)'
  <2>1. CASE i \in 1 .. Len(fes)
    <3>1. ObjectOK(i) /\ fes'[i] = fes[i] /\ fes[i].d \in 1 .. Len(fes)
          /\ fes[i].d \in 1 .. Len(fes') /\ fes'[fes[i].d] = fes[fes[i].d]
      BY <1>3, <2>1, Zenon DEF Core, ObjectOK
    <3>2. fes[i].st = "made" => fes[i].pid = "tool"
      <4>1. fes[i].pid \in Procs /\ proc["child"].inst = 0
        BY <1>1, <2>1, ObjectType, Zenon DEF Core, Unborn
      <4> QED BY <1>0, <2>1, <3>1, <4>1 DEF ObjectOK
    <3>3. fes[i].st = "made" => proc'[fes[i].pid].inst = i
      BY <1>1, <3>1, <3>2, Zenon DEF ObjectOK
    <3> QED BY <1>1, <3>1, <3>3, Zenon DEF ObjectOK, procOf
  <2>2. CASE i \notin 1 .. Len(fes)
    <3>1. /\ i = n /\ copied
      BY <1>1, <1>2, <1>3, <2>2
    <3>2. proc["tool"].inst \in 1 .. Len(fes) /\ published("tool").pid = "tool"
          /\ published("tool").st = "made"
      BY <1>0, <3>1 DEF ProcOK
    <3>3. /\ published("tool").d \in 1 .. Len(fes)
          /\ fes[published("tool").d].kind = published("tool").kind
          /\ published("tool").main = "tool"
      BY <3>2, Zenon DEF Core, ObjectOK, published
    <3> QED BY <1>1, <1>3, <3>1, <3>2, <3>3, Zenon DEF ObjectOK
  <2> QED BY <2>1, <2>2
<1>7. OneExit'
  BY <1>1, Zenon DEF Core, OneExit, InExit, procOf
<1>8. Unborn'
  BY <1>1, Zenon DEF Unborn
<1> QED BY <1>1, <1>4, <1>5, <1>6, <1>7, <1>8, Zenon DEF Core

\* At first nothing has been made.
LEMMA CoreInit == Init => Core
<1> SUFFICES ASSUME Init PROVE Core
  OBVIOUS
<1>1. \A t \in Threads : thr[t] = Outside /\ procOf(t) \in Procs
  BY ProcOfThread, Zenon DEF Init
<1>2. \A p \in Procs : /\ proc[p].inst = 0 /\ proc[p].mutex = None /\ proc[p].handler = "tool"
                       /\ proc[p].st = IF p = "tool" THEN "run" ELSE "none"
  BY Zenon DEF Init
<1>3. Len(fes) = 0
  BY Zenon DEF Init
<1>4. ASSUME NEW t \in Threads PROVE ThreadOK(t)
  <2>1. /\ thr[t].pc = "out" /\ thr[t].saved = None /\ thr[t].ret = None /\ thr[t].lost = {}
        /\ mine(t).mutex # t
    BY <1>1, <1>2, FeInstAssumption DEF Outside, mine, Threads
  <2> QED BY <2>1, FeInstAssumption, Zenon DEF ThreadOK, Holding, Constructing, Working, Calling,
             Destructing, InExit, Building, Destroying
<1>5. \A p \in Procs : ProcOK(p)
  BY <1>2, FeInstAssumption, Zenon DEF ProcOK
<1>6. OneExit /\ Unborn
  BY <1>1, <1>2 DEF OneExit, InExit, Outside, Unborn, Procs
<1> QED BY <1>3, <1>4, <1>5, <1>6 DEF Core

\* Every step keeps the types and the invariant.
LEMMA CoreNext == Typed /\ Core /\ [Next]_vars => Typed' /\ Core'
<1> SUFFICES ASSUME Typed, Core, [Next]_vars PROVE Typed' /\ Core'
  OBVIOUS
<1>1. ASSUME NEW t \in Threads,
             Step(t) \/ SigchldBlocker(t) \/ loseHelper(t) \/ exit(t) \/ fork(t)
      PROVE  Typed' /\ Core'
  BY <1>1, CoreCall, CoreInst, CoreSetupCfgDir, CoreCtor, CoreExit, CoreFork, Zenon DEF Step
<1>2. CASE peerSweep \/ UNCHANGED vars
  <2>1. UNCHANGED <<setup, thr, proc, fes, overlap, again>>
    BY <1>2, Zenon DEF peerSweep, vars, ghosts
  <2>2. Typed'
    BY <2>1 DEF Typed
  <2>3. ASSUME NEW t \in Threads, ThreadOK(t) PROVE ThreadOK(t)'
    <3>1. mine(t)' = mine(t) /\ procOf(t)' = procOf(t)
      BY <2>1, Zenon DEF mine, procOf
    <3> QED BY <2>1, <2>3, <3>1, Zenon DEF ThreadOK, Holding, Constructing, Working, Calling,
               Destructing, InExit
  <2>4. \A p \in Procs : ProcOK(p) => ProcOK(p)'
    BY <2>1, Zenon DEF ProcOK, published
  <2>5. \A i \in 1 .. Len(fes) : ObjectOK(i) => ObjectOK(i)'
    BY <2>1, Zenon DEF ObjectOK, procOf
  <2>6. OneExit' /\ Unborn'
    BY <2>1, Zenon DEF Core, OneExit, InExit, Unborn, procOf
  <2> QED BY <2>1, <2>2, <2>3, <2>4, <2>5, <2>6, Zenon DEF Core
<1> QED BY <1>1, <1>2 DEF Next

\* Every reachable state satisfies the invariant.
LEMMA CoreAlways == Spec => [](Typed /\ Core)
<1>1. Init => Typed /\ Core
  BY TypedInit, CoreInit
<1> QED BY <1>1, CoreNext, PTL DEF Spec

-----------------------------------------------------------------------------
(* The theorems that follow from it.                                       *)

\* Double-checked locking makes one Frontend at a time in a process, with any
\* number of threads.
THEOREM OneFrontendCorrect == Spec => []OneFrontend
<1>1. Typed /\ Core => OneFrontend
  <2> SUFFICES ASSUME Typed, Core, NEW p \in Procs, NEW i \in 1 .. Len(fes),
                      NEW j \in 1 .. Len(fes),
                      fes[i].st \in {"ctor", "made"}, fes[j].st \in {"ctor", "made"},
                      fes[i].pid = p, fes[j].pid = p
               PROVE  i = j
    BY DEF OneFrontend
  <2>1. ObjectOK(i) /\ ObjectOK(j) /\ \A t \in Threads : ThreadOK(t)
    BY Zenon DEF Core
  <2>2. ASSUME NEW k \in {i, j}, fes[k].st = "ctor"
        PROVE  proc[p].inst = 0 /\ \E t \in Threads : proc[p].mutex = t /\ thr[t].fe = k
    <3>1. PICK t \in Threads : procOf(t) = p /\ thr[t].fe = k /\ thr[t].pc \in {"base", "derived"}
      BY <2>1, <2>2, Zenon DEF ObjectOK
    <3> QED BY <2>1, <3>1, Zenon DEF ThreadOK, Holding, Building, mine
  <2>3. \A k \in {i, j} : fes[k].st = "made" => proc[p].inst = k
    BY <2>1, Zenon DEF ObjectOK
  <2> QED BY <2>2, <2>3
<1> QED BY <1>1, CoreAlways, PTL

\* Every call works on the published and complete Frontend until the exit.
THEOREM UsesPublishedCorrect == Spec => []UsesPublished
<1>1. Typed /\ Core => UsesPublished
  <2> SUFFICES ASSUME Typed, Core, NEW t \in Threads, at(t, "body"), mine(t).st = "run"
               PROVE  thr[t].fe = mine(t).inst /\ published(procOf(t)).st = "made"
    BY Zenon DEF UsesPublished, mine
  <2>1. Working(t) /\ ProcOK(procOf(t)) /\ Len(fes) \in Nat
    BY ProcOfThread DEF Core, ThreadOK, Typed
  <2> QED BY <2>1 DEF Working, ProcOK, mine, at
<1> QED BY <1>1, CoreAlways, PTL
=============================================================================
