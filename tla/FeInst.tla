------------------------------- MODULE FeInst -------------------------------
(***************************************************************************)
(* The life of the Frontend singleton in a tool of several threads: what   *)
(* every interface call does around its work (SigchldBlocker, the lock of  *)
(* the interface, Frontend::inst), the construction and its failures, the  *)
(* destruction at exit, a forked copy of the tool, and the clean-up of     *)
(* configuration directories that dead tools have left.                    *)
(***************************************************************************)
EXTENDS WlmDetect, Naturals, Sequences, FiniteSets

CONSTANTS ToolThreads,    \* the threads of the tool that call the interface
          Forked,         \* the one thread of a process forked from the tool
          MaxCalls,       \* bound: interface calls of a run
          Setups,         \* what a run is about: the machine, the settings of the
                          \* environment, the threads that act, and whether the
                          \* SIGCHLD action of the tool takes its children's status
          None

(* The forked process has a thread of its own, and None is no thread and no *)
(* value of a local: null.                                                  *)
ASSUME FeInstAssumption ==
    /\ Forked \notin ToolThreads
    /\ None \notin ToolThreads \cup {Forked}
    /\ None \notin {"tool", "cti", "body", "ret", "members"}

Threads == ToolThreads \cup {Forked}
Procs == {"tool", "child"}
procOf(t) == IF t = Forked THEN "child" ELSE "tool"
Last(s) == s[Len(s)]

VARIABLES setup,    \* [machine, conf, actors, reaps]
          proc,     \* per process: its state and its copies of the statics
          thr,      \* per thread: where it is, and its locals
          fes,      \* the Frontend objects, numbered as they are made
          daemons,  \* objects whose FE daemon runs
          apps,     \* objects with applications whose resources are held
          dirs,     \* owners of the configuration directories there are
          calls,
          overlap,  \* a call has overlapped another, a fork or the exit
          again,    \* an instance was made while its process was exiting
          threw     \* some sweep of old directories has thrown

vars == <<setup, proc, thr, fes, daemons, apps, dirs, calls, overlap, again, threw>>
ghosts == <<overlap, again, threw>>

Outside == [pc |-> "out", saved |-> None, lost |-> {}, kind |-> None, ret |-> None, fe |-> 0,
            dying |-> << >>]

Init ==
    /\ setup \in Setups
    /\ proc = [p \in Procs |->
                 [st |-> IF p = "tool" THEN "run" ELSE "none", inst |-> 0, cleanup |-> FALSE,
                  mutex |-> None, iface |-> None, handler |-> "tool", logger |-> FALSE,
                  guard |-> None]]
    /\ thr = [t \in Threads |-> Outside]
    /\ fes = << >> /\ daemons = {} /\ apps = {}
    /\ dirs = {"old", "peer"}
    /\ calls = 0
    /\ overlap = FALSE /\ again = FALSE /\ threw = FALSE

runs(t) == t \in setup.actors /\ proc[procOf(t)].st \in {"run", "exit"}
at(t, c) == runs(t) /\ thr[t].pc = c
to(t, c) == thr' = [thr EXCEPT ![t].pc = c]
goes(t, c, f) == thr' = [thr EXCEPT ![t] = [f EXCEPT !.pc = c]]
setProc(p, f) == proc' = [proc EXCEPT ![p] = f]
isOriginalInstance(p) == p = "tool"
inCall(t) == runs(t) /\ thr[t].saved # None
othersIn(t) == \E u \in Threads \ {t} : procOf(u) = procOf(t) /\ inCall(u)

(***************************************************************************)
(* runSafely: the handler is saved before the lock of the interface is     *)
(* taken and restored after it is released.                                *)
(***************************************************************************)
SigchldBlocker(t) ==
    LET p == procOf(t)
    IN /\ at(t, "out") /\ calls < MaxCalls
       /\ calls' = calls + 1
       /\ goes(t, "blocked", [thr[t] EXCEPT !.saved = proc[p].handler])
       /\ setProc(p, [proc[p] EXCEPT !.handler = "cti"])
       /\ overlap' = (overlap \/ proc[p].st = "exit" \/ othersIn(t))
       /\ UNCHANGED <<setup, fes, daemons, apps, dirs, again, threw>>

lockIface(t) ==
    LET p == procOf(t)
    IN /\ at(t, "blocked") /\ proc[p].iface = None
       /\ setProc(p, [proc[p] EXCEPT !.iface = t])
       /\ goes(t, "inst", [thr[t] EXCEPT !.ret = "body"])
       /\ UNCHANGED <<setup, fes, daemons, apps, dirs, calls, ghosts>>

(* getLogger makes the logger on its first use, from Frontend::inst; while  *)
(* one thread does, the guard of the static keeps the others waiting.       *)
getLogger(t, back) ==
    LET p == procOf(t)
    IN /\ ~proc[p].logger /\ proc[p].guard = None
       /\ setProc(p, [proc[p] EXCEPT !.guard = t])
       /\ goes(t, "inst", [thr[t] EXCEPT !.ret = back])

(* The work of the call: it may make an App, and it may write to the log. *)
body(t) ==
    /\ at(t, "body")
    /\ apps' \in {apps} \cup {apps \cup {thr[t].fe} : x \in {fes[thr[t].fe].d} \cap daemons}
    /\ \/ to(t, "ret") /\ UNCHANGED proc
       \/ getLogger(t, "ret")
    /\ UNCHANGED <<setup, fes, daemons, dirs, calls, ghosts>>

unlockIface(t) ==
    LET p == procOf(t)
    IN /\ at(t, "ret")
       /\ setProc(p, [proc[p] EXCEPT !.iface = None])
       /\ to(t, "unlocked")
       /\ UNCHANGED <<setup, fes, daemons, apps, dirs, calls, ghosts>>

(* A mutant: the handler of CTI is put back instead of the saved one. *)
restoreSigchld_Keeps(t) ==
    /\ at(t, "unlocked")
    /\ thr' = [thr EXCEPT ![t] = Outside]
    /\ UNCHANGED <<setup, proc, fes, daemons, apps, dirs, calls, ghosts>>

restoreSigchld(t) ==
    LET p == procOf(t)
    IN /\ at(t, "unlocked")
       /\ setProc(p, [proc[p] EXCEPT !.handler = thr[t].saved])
       /\ thr' = [thr EXCEPT ![t] = Outside]
       /\ UNCHANGED <<setup, fes, daemons, apps, dirs, calls, ghosts>>

(***************************************************************************)
(* Frontend::inst.                                                         *)
(***************************************************************************)
freeGuard(t, f) == [f EXCEPT !.guard = IF @ = t THEN None ELSE @]

(* The instance is there: back to the caller, or to the log's writer. *)
found(t, f) ==
    /\ goes(t, thr[t].ret, [thr[t] EXCEPT !.fe = f.inst, !.lost = {}, !.kind = None])
    /\ setProc(procOf(t), [freeGuard(t, f) EXCEPT !.logger = @ \/ thr[t].ret # "body"])

(* A mutant: the lock stays taken. *)
fails_Locked(t, f) ==
    /\ goes(t, "ret", [thr[t] EXCEPT !.lost = {}, !.kind = None, !.dying = << >>])
    /\ setProc(procOf(t), f)

(* inst() throws: the call returns its error; a destructor terminates. *)
fails(t, f) ==
    LET f2 == [freeGuard(t, f) EXCEPT !.mutex = None]
    IN /\ goes(t, "ret", [thr[t] EXCEPT !.lost = {}, !.kind = None, !.dying = << >>])
       /\ setProc(procOf(t), IF thr[t].ret # "members" THEN f2 ELSE [f2 EXCEPT !.st = "gone"])

load(t) ==
    LET f == proc[procOf(t)]
    IN /\ at(t, "inst")
       /\ IF f.inst # 0 THEN found(t, f) ELSE to(t, "slow") /\ UNCHANGED proc
       /\ UNCHANGED <<setup, fes, daemons, apps, dirs, calls, ghosts>>

(* A mutant: the condition is not checked again under the lock. *)
lockMutex_NoSecondCheck(t) ==
    LET p == procOf(t)
    IN /\ at(t, "slow") /\ proc[p].mutex = None
       /\ setProc(p, [proc[p] EXCEPT !.mutex = t, !.cleanup = TRUE])
       /\ to(t, "detect")
       /\ again' = (again \/ proc[p].st = "exit")
       /\ UNCHANGED <<setup, fes, daemons, apps, dirs, calls, overlap, threw>>

(* The check under the lock, and the handle that destroys at exit.  It      *)
(* replaces an earlier one, whose destroy() finds no instance: only a       *)
(* holder of this lock stores one.  At exit that earlier handle is itself   *)
(* being destroyed and is deleted a second time when destroy() is back:     *)
(* whatever that does, the process is in done and calls CTI no more.        *)
lockMutex(t) ==
    LET p == procOf(t)
    IN /\ at(t, "slow") /\ proc[p].mutex = None
       /\ IF proc[p].inst # 0
          THEN found(t, proc[p]) /\ UNCHANGED again
          ELSE /\ setProc(p, [proc[p] EXCEPT !.mutex = t, !.cleanup = TRUE])
               /\ to(t, "detect")
               /\ again' = (again \/ proc[p].st = "exit")
       /\ UNCHANGED <<setup, fes, daemons, apps, dirs, calls, overlap, threw>>

(* A helper whose status is lost is waited for in vain: the last one. *)
hangs(t) == waits(setup.machine, setup.conf, thr[t].lost) \cap thr[t].lost # {}

(* While the tool's own SIGCHLD action is in place it takes the status of   *)
(* a helper that ends.                                                      *)
loseHelper(t) ==
    LET lost == thr[t].lost
    IN /\ at(t, "detect") /\ ~hangs(t) /\ setup.reaps /\ proc[procOf(t)].handler = "tool"
       /\ \E h \in (asks(setup.machine, setup.conf, lost)
                    \cup waits(setup.machine, setup.conf, lost)) \ lost :
             goes(t, "detect", [thr[t] EXCEPT !.lost = @ \cup {h}])
       /\ UNCHANGED <<setup, proc, fes, daemons, apps, dirs, calls, ghosts>>

(* The detection ends once no helper is waited for in vain. *)
detect(t) ==
    LET m == setup.machine
        system == detect_System(m, setup.conf.system)
        wlm == detect_WLM(m, system, setup.conf.wlm, thr[t].lost)
        ok == /\ Throw \notin {system, wlm}
              /\ verify_System_WLM_configured(m, system, wlm, setup.conf.skip, thr[t].lost)
        kind == make_Frontend(m, system, wlm)
    IN /\ at(t, "detect") /\ ~hangs(t)
       /\ IF ok /\ kind # Throw
          THEN goes(t, "ctor", [thr[t] EXCEPT !.kind = kind]) /\ UNCHANGED proc
          ELSE fails(t, proc[procOf(t)])
       /\ UNCHANGED <<setup, fes, daemons, apps, dirs, calls, ghosts>>

(***************************************************************************)
(* The constructors.                                                       *)
(***************************************************************************)
(* The log directory or the password entry is bad. *)
ctorFails(t) ==
    /\ at(t, "ctor")
    /\ fails(t, proc[procOf(t)])
    /\ UNCHANGED <<setup, fes, daemons, apps, dirs, calls, ghosts>>

(* setupCfgDir makes the directory that carries the pid. *)
setupCfgDir(t) ==
    LET p == procOf(t)
        n == Len(fes) + 1
    IN /\ at(t, "ctor")
       /\ fes' = Append(fes, [pid |-> p, d |-> n, kind |-> thr[t].kind, main |-> p, st |-> "ctor"])
       /\ dirs' = dirs \cup {p}
       /\ goes(t, "base", [thr[t] EXCEPT !.fe = n])
       /\ UNCHANGED <<setup, proc, daemons, apps, calls, ghosts>>

(* No installation, a wrong checksum, or a daemon that does not start: the  *)
(* directory stays.                                                         *)
baseFails(t) ==
    /\ at(t, "base")
    /\ fes' = [fes EXCEPT ![thr[t].fe].st = "failed"]
    /\ fails(t, proc[procOf(t)])
    /\ UNCHANGED <<setup, daemons, apps, dirs, calls, ghosts>>

(* A mutant: the instance is stored before it is complete. *)
initialize_Stores(t) ==
    LET p == procOf(t)
    IN /\ at(t, "base")
       /\ daemons' = daemons \cup {thr[t].fe}
       /\ setProc(p, [proc[p] EXCEPT !.inst = thr[t].fe])
       /\ to(t, "derived")
       /\ UNCHANGED <<setup, fes, apps, dirs, calls, ghosts>>

initialize(t) ==
    /\ at(t, "base")
    /\ daemons' = daemons \cup {thr[t].fe}
    /\ to(t, "derived")
    /\ UNCHANGED <<setup, proc, fes, apps, dirs, calls, ghosts>>

(* The constructor of the workload manager's frontend. *)
derivedFails(t) ==
    LET n == thr[t].fe
    IN /\ at(t, "derived")
       /\ fes' = [fes EXCEPT ![n].st = "unwound"]
       /\ goes(t, "delete", [thr[t] EXCEPT !.dying = Append(@, n)])
       /\ UNCHANGED <<setup, proc, daemons, apps, dirs, calls, ghosts>>

store(t) ==
    LET p == procOf(t)
        n == thr[t].fe
    IN /\ at(t, "derived")
       /\ fes' = [fes EXCEPT ![n].st = "made"]
       /\ found(t, [proc[p] EXCEPT !.inst = n, !.mutex = None])
       /\ UNCHANGED <<setup, daemons, apps, dirs, calls, ghosts>>

(***************************************************************************)
(* Frontend::destroy, from the static destructors of exit.                 *)
(***************************************************************************)
exit(t) ==
    LET p == procOf(t)
    IN /\ at(t, "out") /\ proc[p].st = "run"
       /\ setProc(p, [proc[p] EXCEPT !.st = "exit"])
       /\ to(t, IF proc[p].cleanup THEN "exchange" ELSE "done")
       /\ overlap' = (overlap \/ othersIn(t))
       /\ UNCHANGED <<setup, fes, daemons, apps, dirs, calls, again, threw>>

(* The instance is taken, without the lock. *)
exchange(t) ==
    LET p == procOf(t)
        n == proc[p].inst
    IN /\ at(t, "exchange")
       /\ IF n = 0
          THEN to(t, "done") /\ UNCHANGED <<proc, fes>>
          ELSE /\ setProc(p, [proc[p] EXCEPT !.inst = 0])
               /\ fes' = [fes EXCEPT ![n].st = "dying"]
               /\ goes(t, "delete", [thr[t] EXCEPT !.dying = Append(@, n)])
       /\ UNCHANGED <<setup, daemons, apps, dirs, calls, ghosts>>

(* A directory is old when its owner is gone; kill with signal 0 tells. *)
alive(o) == o = "peer" \/ (o \in Procs /\ proc[o].st \in {"run", "exit"})

(* A mutant: the owner is not asked for. *)
swept_Unasked(aged) == aged

swept(aged) == {o \in aged : ~alive(o)}

(* A mutant: the destructor does not ask which process it is in. *)
deleteFrontend_AnyPid(t) ==
    LET p == procOf(t)
        n == Last(thr[t].dying)
    IN /\ at(t, "delete")
       /\ dirs' = dirs \ {fes[n].main}
       /\ to(t, "members")
       /\ UNCHANGED <<setup, proc, fes, daemons, apps, calls, ghosts>>

(* The body of ~Frontend: its directory and the sweep of old ones, which    *)
(* writes to the log when it throws.  A forked process only writes.         *)
deleteFrontend(t) ==
    LET p == procOf(t)
        mine == isOriginalInstance(p)
    IN /\ at(t, "delete")
       /\ \/ /\ ~mine
             /\ to(t, "log") /\ UNCHANGED <<dirs, threw>>
          \/ /\ mine
             /\ \E aged \in SUBSET dirs : dirs' = (dirs \ {p}) \ swept(aged)
             /\ to(t, "members") /\ UNCHANGED threw
          \/ /\ mine
             /\ dirs' = dirs \ {p}
             /\ to(t, "log") /\ threw' = TRUE
       /\ UNCHANGED <<setup, proc, fes, daemons, apps, calls, overlap, again>>

(* A thread that unwinds a constructor already holds the lock that the      *)
(* first use of the logger takes.                                           *)
writeLog(t) ==
    LET f == proc[procOf(t)]
    IN /\ at(t, "log")
       /\ \/ f.logger /\ to(t, "members") /\ UNCHANGED proc
          \/ ~f.logger /\ f.mutex = t /\ to(t, "stuck") /\ UNCHANGED proc
          \/ f.mutex # t /\ getLogger(t, "members")
       /\ UNCHANGED <<setup, fes, daemons, apps, dirs, calls, ghosts>>

(* The destructors of the Apps keep in a forked process what is the tool's, *)
(* but for Localhost and Eproxy.                                            *)
dropsApps(p, n) ==
    IF isOriginalInstance(p) THEN {n}
    ELSE IF fes[n].kind \in {"localhost", "eproxy"} THEN {n, fes[n].d}
    ELSE {}

(* A mutant: the daemon is left alone by its own process. *)
members_Other(t) ==
    LET n == Last(thr[t].dying)
    IN /\ at(t, "members")
       /\ apps' = apps \ dropsApps(procOf(t), n)
       /\ fes' = [fes EXCEPT ![n].st = "dead"]
       /\ goes(t, "done", [thr[t] EXCEPT !.dying = << >>])
       /\ UNCHANGED <<setup, proc, daemons, dirs, calls, ghosts>>

(* The members, last first: the Apps, then ~FE_daemon, which shuts the      *)
(* daemon down in the process that has started it.                          *)
members(t) ==
    LET p == procOf(t)
        n == Last(thr[t].dying)
    IN /\ at(t, "members")
       /\ apps' = apps \ dropsApps(p, n)
       /\ daemons' = IF fes[n].main = p THEN daemons \ {fes[n].d} ELSE daemons
       /\ fes' = [fes EXCEPT ![n].st = IF @ = "unwound" THEN "failed" ELSE "dead"]
       /\ IF fes[n].st = "unwound"
          THEN fails(t, proc[p])
          ELSE /\ goes(t, "done", [thr[t] EXCEPT !.dying = << >>])
               /\ UNCHANGED proc
       /\ UNCHANGED <<setup, dirs, calls, ghosts>>

done(t) ==
    LET p == procOf(t)
    IN /\ at(t, "done")
       /\ setProc(p, [proc[p] EXCEPT !.st = "gone"])
       /\ UNCHANGED <<setup, thr, fes, daemons, apps, dirs, calls, ghosts>>

(***************************************************************************)
(* The environment: the tool forks, another tool of the user exits.        *)
(***************************************************************************)
fork(t) ==
    LET f == proc["tool"]
        n == Len(fes) + 1
    IN /\ t \in ToolThreads /\ Forked \in setup.actors /\ at(t, "out") /\ f.st = "run" /\ proc["child"].st = "none"
       /\ setProc("child", IF f.inst = 0 THEN f ELSE [f EXCEPT !.inst = n])
       /\ fes' = IF f.inst = 0 THEN fes ELSE Append(fes, [fes[f.inst] EXCEPT !.pid = "child"])
       /\ overlap' = (overlap \/ othersIn(t))
       /\ UNCHANGED <<setup, thr, daemons, apps, dirs, calls, again, threw>>

peerSweep ==
    /\ \E aged \in SUBSET dirs : swept(aged) # {} /\ dirs' = dirs \ swept(aged)
    /\ UNCHANGED <<setup, proc, thr, fes, daemons, apps, calls, ghosts>>

Step(t) ==
    \/ lockIface(t) \/ body(t) \/ unlockIface(t) \/ restoreSigchld(t)
    \/ load(t) \/ lockMutex(t) \/ detect(t)
    \/ ctorFails(t) \/ setupCfgDir(t) \/ baseFails(t) \/ initialize(t)
    \/ derivedFails(t) \/ store(t)
    \/ exchange(t) \/ deleteFrontend(t) \/ writeLog(t) \/ members(t) \/ done(t)

Next ==
    \/ \E t \in Threads : Step(t) \/ SigchldBlocker(t) \/ loseHelper(t) \/ exit(t) \/ fork(t)
    \/ peerSweep

(* A thread that is in a call or in exit is scheduled, and a helper ends;   *)
(* nothing makes a thread call, fork or exit.                               *)
Fairness == \A t \in Threads : WF_vars(Step(t))
Spec == Init /\ [][Next]_vars /\ Fairness

(***************************************************************************)
(* Properties.                                                             *)
(***************************************************************************)
published(p) == fes[proc[p].inst]

(* Double-checked locking makes one Frontend at a time in a process, even   *)
(* where a destructor's log message makes inst() build the next one while   *)
(* another thread asks for it.                                              *)
OneFrontend ==
    \A p \in Procs : \A i, j \in 1 .. Len(fes) :
        {fes[i].st, fes[j].st} \subseteq {"ctor", "made"} /\ fes[i].pid = p /\ fes[j].pid = p
        => i = j

(* Until its process exits, every call works on the published Frontend, and *)
(* that one is complete, whatever constructions have failed before.         *)
UsesPublished ==
    \A t \in Threads :
        at(t, "body") /\ proc[procOf(t)].st = "run"
        => thr[t].fe = proc[procOf(t)].inst /\ published(procOf(t)).st = "made"

(* The configuration directory of a running tool stays while it has an      *)
(* instance, whoever sweeps the old directories of the user.                *)
DirKept ==
    \A p \in Procs :
        proc[p].st = "run" /\ proc[p].inst # 0 /\ published(p).main = p => p \in dirs

(* No step of a forked process takes the tool's directory, its FE daemon or *)
(* the resources of its applications away; Localhost and Eproxy Apps do.    *)
ForkedHarmless ==
    [][thr'[Forked] # thr[Forked] =>
         /\ "tool" \in dirs => "tool" \in dirs'
         /\ \A i \in daemons : fes[i].main = "tool" => i \in daemons'
         /\ \A i \in apps : fes[i].kind \notin {"localhost", "eproxy"} /\ fes[i].pid = "tool"
                            => i \in apps']_vars

(* A tool that has exited, none of its threads in a call at the time, has   *)
(* removed its directory, shut its FE daemon down and finalized its         *)
(* applications, unless a log message brought a second instance to life.    *)
ExitCleans ==
    proc["tool"].st = "gone" /\ ~overlap /\ ~again =>
        \A i \in 1 .. Len(fes) :
            fes[i].pid = "tool" /\ fes[i].st = "dead"
            => "tool" \notin dirs /\ i \notin daemons \cup apps

(* Calls that do not overlap leave the SIGCHLD action of the tool in place. *)
SigchldRestored ==
    \A p \in Procs :
        proc[p].st = "run" /\ ~overlap /\ (\A t \in Threads : procOf(t) = p => ~inCall(t))
        => proc[p].handler = "tool"

(* Where srun works and nothing is set, the frontend is a Slurm one, though *)
(* the heuristics of other workload managers hold as well.                  *)
SlurmNotMissed ==
    \A p \in Procs :
        /\ proc[p].st = "run" /\ proc[p].inst # 0 /\ ~overlap
        /\ setup.conf.wlm = "" /\ "srun" \in setup.machine.programs
        /\ setup.machine.wlmDetect # "ALPS"
        => published(p).kind \in {"slurm", "hpcm", "eproxy"}

(* Every call of the tool returns as long as calls do not overlap and no     *)
(* sweep throws: a failed construction does not block the next.              *)
CallReturns ==
    \A t \in ToolThreads : inCall(t) ~> (~inCall(t) \/ overlap \/ threw)
=============================================================================
