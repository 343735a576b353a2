# Verification of the Common Tools Interface (CTI)

CTI is a library with which parallel debuggers and profilers launch or attach to
an application, copy their files to the compute nodes, and run tool daemons
there.  This directory holds TLA+ models of the parts of CTI in which processes,
signals and failures interact, TLC configurations that check them on small
instances, and TLAPS proofs for all values of the constants.

Paths below are relative to the repository (`src/frontend/...`); `PROJECT.json`
maps every definition to its lines.

## 1. The system

| Part | Source | State it keeps | Operations |
|---|---|---|---|
| C interface | `frontend/cti_fe_iface.*` | registries from ids to weak pointers, SIGCHLD action, error string | the `cti_*` functions, each under one mutex |
| Frontend, App | `frontend/Frontend.*` | singleton, set of applications, their sessions, configuration directory | `inst`, `destroy`, `removeApp`, `App::finalize`, WLM detection |
| fe_daemon | `frontend/daemon/cti_fe_daemon.cpp` | application and utility maps, cleanup lists, MPIR instances, futures | 16 requests, SIGCHLD/SIGTERM/SIGHUP handlers, end of `main` |
| fe_daemon client | `frontend/daemon/cti_fe_daemon_iface.cpp` | two pipes | one request and one response at a time |
| MPIR | `frontend/mpir_iface/*`, `frontend/daemon/mpir_shim.cpp` | a launcher under the control of Dyninst | launch, attach, read the process table, release, terminate |
| Session, Manifest | `frontend/transfer/Session.*`, `Manifest.*` | record of shipped files, open manifests, `m_seqNum`, library path | add, send, exec, finalize |
| Archive | `frontend/transfer/Archive.cpp` | one tar file | add entries |
| WLM frontends | `frontend/frontend_impl/*` | a job id, a flag whether the daemon binary was shipped | `shipPackage`, `startDaemon`, `releaseBarrier`, `kill` |
| be_daemon | `backend/daemon/cti_be_daemon.c` | stage directory, pid file, lock files on a node | unpack, wait, exec, clean |
| backend libraries | `backend/*.c` | cached attributes of the application | `cti_be_*` |
| helpers | `useful/*`, `utilities/*`, `SSHSession/*` | none, or a connection | |

How they interact: a tool calls the C interface, which serialises calls.  Launching
goes through the fe_daemon, a forked server that owns the launcher processes and
must terminate them when the tool disappears.  Shipping goes through a Session,
which merges a Manifest into its record, makes an Archive, and lets the WLM frontend
copy it and start be_daemons on all nodes.  The be_daemons of one session run
concurrently on a node and coordinate through lock files; the be_daemon with
`--clean` ends the session, and looks at the directories of other sessions too.

What makes it hard: signal handlers and threads of the fe_daemon share its maps
with the request loop; pids are reused; the frontend can die at any moment; launches
fail half way; be_daemons of later manifests may run before those of earlier ones;
merges, transfers and starts fail after state has been recorded; cleaners run next
to daemons that are starting.  `PROJECT.json` lists these hazards at their lines.

## 2. Modules

| Module | What it models |
|---|---|
| `FeDaemon` | the fe_daemon process, its threads and handlers, its child processes, the frontend's death |
| `FeDaemonProofs` | proofs about it |
| `BeDaemon` | the daemons of one session on one node, its cleaner, a cleaner of another session, and the instance numbers of the frontend |
| `Transfer` | what manifests hold, what a session records and what reaches the nodes |
| `TransferProofs` | proofs about it |
| `HandleTable` | what the documentation of the C interface promises about its ids: the abstract specification |
| `Handles` | the registries over weak pointers and the sets that own the objects |
| `WlmApp` | the seven workload manager frontends (SLURM, its Eproxy variant, PALS, Flux, ALPS, GenericSSH, Localhost) as scripts of effects |
| `FeIface` | the C interface: `Handles` and `WlmApp` composed with the FE daemon's registry |
| `WlmAppProofs`, `FeIfaceParts`, `FeIfaceProofs` | proofs about the scripts, the registries and the interface |
| `WlmDetect` | detection and verification of system and workload manager, as operators |
| `FeInst` | the Frontend singleton under threads, fork, failing constructors and exit |
| `FeInstProofs`, `FeInstLayers` | proofs about it |
| `Layout` | placements of tasks, and the layout and pid files made from them |
| `BeLib` | the backend library and its six WLM libraries in a tool daemon |
| `BackendProofs` | proofs about `BeDaemon` and `BeLib` |
| `MCFeDaemon`, `MCBeDaemon`, `MCTransfer`, `MCFeIface`, `MCFeInst`, `MCBeLib` | instances for TLC |

Operators named `X_Something` are variants of the operator `X` that follows them,
each with a plausible mistake; nothing uses them in the specifications.  They
show that a property depends on the line of code that the operator stands for.

### FeDaemon

The main thread has a program counter `pc`: `"read"` between requests, a value for
each place where a handler can be interrupted or blocks (`"breakpoint"`,
`"utilWait"`, `"dereg"`, ...), a `"respond..."` value when a response is due, and the
stages of the end of `main`.  `pidIdMap`, `idPidMap`, `appCleanupList`, `utilMap`
and `mpirMap` are the variables of the same names; `proc` is the table of the
operating system, with zombies and reuse of pids; `terms` are the threads that run
`tryTerm` (signal, sleep, SIGKILL, waitpid), `sigchldThreads` those that erase a
utility set.  `duty` is a history variable: what the daemon owes a live process.

- A handler whose request is refused only answers: `handle_Unchanging`.
- A signal is handled before the next step of the main thread (`Settled`).  The
  kernel may deliver to any thread; it prefers the main thread, and the model
  assumes it.
- `std::unordered_map` has no lock, so an insertion into `utilMap` that overlaps the
  erasure by the thread of the SIGCHLD handler is undefined behaviour.
  `registerUtilPID` has the outcome in which the insertion goes to the set that is
  being erased, besides the regular one.
- Deregistration erases `idPidMap`, erases `pidIdMap`, starts the terminating threads,
  erases the cleanup list and waits: five steps (`handle_DeregisterApp`, `ErasePid`,
  `DeregTerm`, `DeregErase`, `TermWaitDone`), with signals between any two.  Release has
  three.
- `ReqTypes` selects the requests of a run, to keep the state space small.

### BeDaemon

A daemon `k` unpacks its manifest, appends its pid to the pid file, creates the
lock file of its instance, enters the stage directory, waits for the lock files of
the instances before it, and execs its tool.  `from[k]` is the manifest that brought
the tool, since a session leaves out what it has shipped before.  The cleaner
reads the pids, kills, removes the directory, unlinks lock files and sweeps.
`Scenarios` is a set of sets of events, one of which a run picks at its start: `"fail"`
(a step of a daemon fails), `"throw"` (`startDaemon` throws after the daemon ran, as
Flux's does when it ends with an error), `"destroy"`, `"early"` (destroy while a daemon
is starting), `"sweep"` (the cleaner of another session), `"reuse"` (a tool that an
earlier manifest has shipped).

One node stands for all: daemons on different nodes share nothing.  Unpacking and
`remove_dir` are single steps.  `--file`, which only prints, is left out.

### Transfer

A slot is a place under the stage directory, `<<folder, base name>>`; `sourcePaths`
is the session's record, `remote` what is on the nodes.  Every call holds the
library's mutex, so a call is one step, also one that throws half way: such a call
leaves the part of the work done before the exception.  `mergeTransfered` goes over
the slots in the order of `std::map` (`Precedes`) and stops at the first conflict, or
at a source file that has disappeared.  `Binaries`, `Libraries`, `LibDirs` and `Plain`
are what tools pass to the four add calls; `Extra` is what the application's
`getExtra...` functions return (in this repository only files).  Unpacking happens in the
step that ships; the real daemon does it later, but what two archives write is
disjoint (`NeverReplaced`), so the order does not matter.  `Session::m_folders` is
written and never read, and left out, as are file contents and the links that
replace files which the nodes have already.

### Handles and FeIface

A registry maps ids to weak pointers, so an id is valid when it is on its map and the
chain of owners (`m_apps`, `m_sessions`, `m_manifests`) holds its object.  An id whose
object is gone stays on the map until it is looked up (`sweepApp`, `sweepSession`,
`sweepManifest`).  `HandleTable` has none of this: it knows the valid ids only, and says
of them what the documentation says: an id is valid when it is issued, and an application
that becomes invalid takes its sessions along.  The mapping sends the valid ids of
`Handles` to the open ids of the table.  The code departs from the table in two places,
which `Departs` names: an Eproxy launch returns an id whose App is gone, and
`cti_releaseApp` leaves the sessions of the application valid.  Every other step must be
one of the table's.

A call of the interface holds its lock and is one step of `FeIface`.  What it does to
a job and to the FE daemon is a script of `WlmApp`: a sequence of effects, before each
of which an exception may stop it.  `unwind` is what C++ undoes then.  The daemon is
seen through its registry (`dmn`): last id, pids, MPIR sessions, cleanup list; its
threads and signals are the subject of `FeDaemon`.  `dropped`, `strays`, `freed`
and `notCleaned` are history variables.  `Limits` bounds the calls of a run.

### FeInst and WlmDetect

A thread walks through `runSafely` (save the SIGCHLD action, lock, work, unlock,
restore), through the double-checked `Frontend::inst`, and through the static
destructors at exit.  A constructor may fail before, in, or after its base class.  A fork
copies the statics; `isOriginalInstance` tells the copy from the tool.  The first log
message of a process makes the logger, which calls `inst()` again (`getLogger`); other
threads wait for the static's guard meanwhile.  A helper
whose exit status the tool's own SIGCHLD action has taken is `lost`.  `WlmDetect`
computes from a description of the machine and the environment settings which
frontend is made, and which helper programs are waited for with `getExitStatus` (`asks`)
and with `runExitStatus` (`waits`); `FeInst` uses it in `detect`.

`inst()` assigns a new handle to `m_cleanup` each time it is about to build.  The handle it
replaces calls `destroy()`, which finds no instance, because only the holder of `m_mutex`
stores one; so the assignment changes nothing but the flag (`lockMutex`).

### BeLib and Layout

`env` is what the frontend and the node hand to a tool daemon: manager, placement, files,
host names.  Names are sequences of tokens, since several lookups compare beginnings of
names.  The application writes its `pmi_attribs` file in pieces while a query polls for it.

## 3. Runs

All passing runs finish in less than five minutes with two workers.

| Run | Bounds | What it shows |
|---|---|---|
| `fe_registry` | 1 foreign and 1 child process, 2 ids | the two maps agree except for the pid whose erasure is under way (`MapsAgree`), utilities belong to registered ids and late threads cannot hit a newer application (`UtilsOwned`), an accepted MPIR response names a registered application (`MPIRRespHonest`) |
| `fe_supervision` | 2 child processes, 1 id, both kinds of utility | no live launched application is forgotten (`AppsSupervised`), none is left at a normal exit (`CleanExit`), and after the frontend's death the daemon ends (`DaemonEnds`) |
| `be_daemon` | 3 daemons; failures and throws, destroy at any moment, other sessions' sweeps, reused tools | past the wait loop the instances from 1 on are unpacked and, unless the directory was removed, there (`DependenciesReady`); a lock file follows its pid (`LockAfterPid`); when nothing fails or is removed, no daemon waits for ever (`WaitersProceed`) and all listed lock files appear (`LockFilesAppear`) |
| `tr_ship` | 3 manifests, 4 files, 2 of one name | record and nodes agree (`RemoteAsRecorded`), nothing is replaced (`NeverReplaced`), what is missing has a cause (`MissingExplained`), override folders are searched (`OverrideSearched`), the application's files come first (`RequirementsShipped`) |
| `fe_api` | 7 frontends; 1 application with 2 sessions and 2 manifests, or 2 applications and 1 session | registries implement the documented id table, two departures apart (`ImplementsTable`); daemon ids have an owner or a known cause (`IdsOwned`); a held job can be let go (`HeldCanBeReleased`); files are cleaned unless a cleanup threw (`FilesCleaned`); the jobs of a tool that releases nothing die with it (`LaunchedDieWithTool`) |
| `fe_inst` | 2 threads, or 1 and a fork; 2 calls; 5 machines | one Frontend at a time (`OneFrontend`, `UsesPublished`); its directory is kept and cleaned (`DirKept`, `ExitCleans`); a fork is harmless (`ForkedHarmless`); SIGCHLD comes back (`SigchldRestored`); calls return (`CallReturns`); Slurm is found where `srun` works (`SlurmNotMissed`) |
| `be_lib` | 3 nodes, 3 tasks, every placement, every manager | the tasks, counts and attributes reported are those of the node (`ReportsOwnTasks`, `CountsRight`, `AttribsWhole`); only a library that was started and not stopped answers (`OnlyStartedAnswers`); a query returns (`FindReturns`) |
| `fe_abort`, `be_destroy`, `be_first`, `fe_release`, `fe_exit` | the smallest that show it | five disagreements with the documentation, below |

The type invariants of FeDaemon, BeDaemon and Transfer are proved, not run.  The
other modules have none.

Several properties name the cases in which the code does not keep them (a frontend, an
overlapping call, a throw).  Each such case is a behaviour of the code, and is listed
under the observations.

Why the bounds are enough to be interesting:

- FeDaemon: pids are reused, so with two ids and two pids an application ends, its pid
  becomes another application's, and a late thread erases the first one's set.  What
  larger numbers could add is covered by the proofs.
- BeDaemon: three daemons give a predecessor that has a predecessor itself, a number
  that is used twice, and instance 0 that nobody waits for.
- Transfer: three manifests let two be open while a third was shipped; two
  libraries of one name produce every kind of conflict.  A manifest with
  more than `MaxEntries` = 1 slots is not added to, except by the call that ships it.
- FeIface: two tries let a failed launch part the ids of interface and daemon; two
  sessions let the first one's failing cleanup skip the second.  `fe_exit` needs three:
  a failed launch and two applications.
- FeInst: two calls overlap, or the second follows a failed construction.
- BeLib: node1, node10 and node2 have names that begin alike; three tasks split over them
  in every way, with the two listing orders different.

FeDaemon and BeLib runs check for deadlock; a daemon that is gone stutters (`Halted`).
In the other modules a session may simply be over, so deadlock is not checked.

### Disagreements between code and documentation

Five runs expect a violation.  Each counterexample is short, and `PROJECT.json`
quotes the sentence that it contradicts.

- `fe_abort`: the frontend dies while a response is due.  The write fails, the
  catch block writes again and throws again, and the daemon aborts before its
  cleanup: launchers and utilities survive.
- `be_destroy`: the index into the array of pids is not advanced, so
  `cti_destroySession` kills only the first process of the pid file.
- `be_first`: the wait loop stops at instance 1, but instances start at 0.  A manifest with
  the tool's binary is sent, then the tool is started from a second one: the second daemon
  may look for the binary before the first has unpacked it.
- `fe_release`: after `cti_releaseApp` the application's id is invalid and its sessions are
  not.
- `fe_exit`: `cti_releaseApp` gives its own id to the FE daemon, which counts separately.
  After a launch that failed half way the daemon lets go of another application than
  the one the tool named, and that one survives the tool though it was never released.

Others were found with runs that are no longer kept; TLC gave a counterexample for each:

- A failed registration is reported as id 0 (`cti_fe_daemon.cpp:567`), which `readIDResp`
  accepts: it rejects only negative ids (`cti_fe_daemon_iface.cpp:148`).
- The cleaner of one session removes the directory of another that no process is in at
  that moment (`cti_be_daemon.c:1149`, `README.md:429-433`).
- The id that an Eproxy launch returns is of an App already destroyed: `launch` returns
  before the App is in `m_apps` (`SLURM/Frontend.cpp:2636`, `common_tools_fe.h:561`).
  `Departs` names this case.
- `~Frontend` writes to the log while `inst()` holds its mutex, when a derived constructor
  throws in a forked process or after a sweep that threw; the comment at
  `Frontend.cpp:120` warns of the deadlock.  `CallReturns` names the second case.
- After a failed construction `LD_PRELOAD` is gone (`Frontend.cpp:1370`), although the comment
  at 1365-1367 says that it is saved for the applications.

### Fairness

- FeDaemon (`Fairness`): the main thread, its handlers and its threads run when they
  can: they are threads of one process under a fair scheduler.  Nothing is assumed
  of a launcher that has not reached its breakpoint.
- FeDaemon (`AwaitedEnd`): a process for which the daemon waits without SIGKILL ends:
  a synchronous utility, and a launcher that was sent SIGTERM.  The code does not
  enforce this, and without it `DaemonEnds` is false: the daemon hangs in `waitpid`
  with such a process (`cti_fe_daemon.cpp:1082`).
- BeDaemon (`Fairness`): every daemon, the cleaner and the waiting frontend run when
  they can.  A tool may run for ever.
- FeDaemon's `DaemonEnds` is checked without `WaitMPIR`, which waits for as long as the
  application runs; with it the property is false.
- FeInst (`Fairness`): a thread in a call or in exit is scheduled and a helper program
  ends.  Nothing makes a thread call, fork or exit.
- BeLib: a query in progress goes on; nothing makes the application write its file.

## 4. Proofs

Every theorem holds for all values of the constants that satisfy the named
`ASSUME` of the module: any number of processes, ids, daemons, files, manifests.

- **FeDaemon, registry** (`TypeCorrect`, `MapsAgreeCorrect`, `UtilsOwnedCorrect`,
  `MPIRRespHonestCorrect`).  `TypeOK` is inductive together with `CurrentPid`: the process
  and the id a handler works on are set while they are needed.  The registry invariant adds
  that ids not handed out yet have no entry, without which a fresh id might find old
  utilities, and that an erasure under way is of the id in `curId`.
- **FeDaemon, supervision** (`AppsSupervisedCorrect`, `CleanExitCorrect`).  The
  strengthening says: a free pid carries no duty; the process of a pending SIGCHLD has
  ended, so the handler never drops a live launcher; a launcher between the two halves of
  a deregistration has a `tryTerm` thread; the lists stay empty once `main` has cleared
  them.  Both theorems include the racing accesses to `utilMap`.  That no utility is ever
  lost is not among them, because it is false then.
- **BeDaemon** (`TypeCorrect`, `DependenciesReadyCorrect`, `LockAfterPidCorrect` in
  `BackendProofs`).  The invariant has three layers: instance numbers grow with
  the order of starts; lock files, pid file entries and the cleaner's victims all
  belong to daemons that have recorded their pid; a daemon in its wait loop knows all
  instances above its loop counter to be ready.
- **BeLib** (`AttribsWholeCorrect`, `OnlyStartedAnswersCorrect`).  `AttribsWhole` is
  inductive as it stands: a list is cached only by a parse that found as many pairs as the
  file's count says, whichever digits of the last pid were written by then.  For the
  other, `Started` says that outside the time between constructor and destructor the
  functions in place are those of no manager, which answer nothing.
- **Transfer** (six theorems, one per property and the type).  Of the contents of a manifest
  only one fact is needed: each slot has a source and lies in a folder of that
  manifest (`Good`).  `Recorded` adds that nothing is recorded before the
  application's own files are, so that the first archive leaves nothing out.
- **Handles** (`HandlesImplementTable`): `HSpec => ImplementsTable`, the refinement of the id
  table.  Each action of the registries is a step of the table, leaves it alone, or is one
  of the two departures.  The inductive invariant `HInv` says that ids in use were issued,
  that owners are older than what they own, and that a living session or manifest is on its
  registry (`AliveListed`).  Without the last, closing an application would close sessions
  that the table does not know to be open.  `InterfaceImplementsTable` is the same for
  `FeIface`: its calls only take such steps.
- **FeIface** (`IdsOwnedCorrect`, `LaunchedDieWithToolCorrect`, `HeldCanBeReleasedCorrect`,
  `FilesCleanedCorrect`).  `FInv` ties each App to its job and to the lists of the FE
  daemon.  `WlmAppProofs` says what a script may have done wherever an exception stops
  it; scripts are run by a recursive function, and the module derives the induction it
  needs from well-foundedness.
- **FeInst** (`OneFrontendCorrect`, `UsesPublishedCorrect` in `FeInstProofs`; `DirKeptCorrect`,
  `ExitCleansCorrect`, `ForkedHarmlessCorrect`, `SigchldRestoredCorrect`, `SlurmNotMissedCorrect`
  in `FeInstLayers`).  The core is that only the holder of `m_mutex` builds or stores, and what
  a thread's position says about the object it works on; the layers add one resource each.

Only model-checked: `ReportsOwnTasks` and `CountsRight` of BeLib, which rest on what
recursive definitions compute, and the liveness properties `DaemonEnds`,
`WaitersProceed`, `LockFilesAppear`, `CallReturns` and `FindReturns`, since the prover
does not do liveness under fairness.

## 5. Observations

These came up while modelling and have no run of their own.

fe_daemon:
- A utility that is registered while the SIGCHLD thread erases its set is on no list
  afterwards and is never terminated (`:236` against `:286`).
- The pid of a finished synchronous utility stays in `utilMap` (`:1082`); it is signalled
  later, and may be that of a released application by then.
- When the process table cannot be read, the launcher stays registered and is on no
  list (`:734`).
- A utility is forked before its application id is verified (`:1075`); when the id is
  refused, the utility runs unsupervised.
- A child of `ForkExecvpApp` is never put on the cleanup list.  No caller in the
  repository uses this request.

be_daemon:
- The README (463-465) describes SIGTERM, then SIGKILL ten seconds later; the cleaner
  sends SIGKILL at once.
- The lock file of instance 0 is never removed.
- `FLOCK` asks for a write lock on a descriptor opened for reading, does not wait, and
  its result is ignored (`:1046`).  Appending a pid is one write with `O_APPEND`.
- The result of `copy_data` is ignored (`:940`): an archive member that could not be
  written in full counts as unpacked.
- The SLURM and Localhost `startDaemon` ignore the exit status of a daemon, Flux's
  throws.

Session and Manifest:
- A manifest keeps sources by base name, without the folder.  Two files of one name in
  one manifest both become the second one; `README.md:515-521` describes separate
  directories for libraries of the same name.
- `README.md:518` places these directories under the session's `/lib`; the code uses
  `<stage>/lib.<n>`.
- A source file that changed since it was shipped counts as shipped: `isSameFile`
  compares paths (`cti_wrappers.hpp:399`).
- When the merge of the first manifest throws, the application's own files are never
  shipped: `m_add_requirements` is already false (`Session.cpp:120`).

- The pid of a daemon that ended may belong to another process when the cleaner kills it
  (`cti_be_daemon.c:1081`); pids are not reused in `BeDaemon`.

FE daemon, further: a launcher whose `MPIRInstance` constructor failed runs on
(`cti_fe_daemon.cpp:812`), and `waitMPIR` uses an iterator after erasing it (`:885`; the
model lets it return or fault).

C interface and Frontend:
- With two threads the saves and restores of the SIGCHLD action interleave
  (`cti_fe_iface.hpp:165`): the tool's handler may be active in a call.  If it takes the
  status of a helper, `runExitStatus` waits for ever, or `srun` counts as missing.  The
  properties of `fe_inst` except overlapping calls for this reason.
- The first log message in a destructor makes a second Frontend.  A tool that forks
  before its first call is not the original instance, so nothing of it is cleaned.
- Localhost and Eproxy Apps do not ask `isOriginalInstance`: a forked copy gives up the
  tool's applications.  A fork during another thread's call leaves locks taken.
- `kill`'s result is compared with `EPERM`, which is only ever in `errno` (`:1431`).  The
  check is per host and not atomic with the removal.
- `App::finalize` stops at the first session that throws (`:1555`).  Files shipped for a
  daemon that never started are never cleaned.
- `detect_PALS` holds when `rpm` is missing.

Workload manager frontends:
- The destructors of PALS and ALPS Apps do not deregister their id.  A job id query
  leaves the launcher's pid registered, so that a second query fails as a duplicate.
  SLURM tool daemons keep their ids as well.
- A failed Eproxy constructor deregisters a remote id at the local daemon; the success
  of the remote daemon's responses is not looked at.
- A Flux App whose SIGCONT is lost believes it is released.  Job ids and binaries are
  kept in a static map.
- GenericSSH, ALPS and Localhost make a link that stands in the way of a retry.
- Flux, ALPS and local jobs outlive the tool, contrary to `common_tools_fe.h:312-316`.
- The Localhost barrier is silently absent when its lock file cannot be made.

Backend libraries:
- GenericSSH and the PMIx lookup of PALS compare beginnings of host names
  (`generic_ssh_be.c:189`, `pals_be.c:1061`): node1 may take the line of node10.
- A read in the middle of the write of `pmi_attribs` may cut the last pid, which is cached.
- SLURM tests for the tool's attributes directory, but the parser opens the other one.
- Flux only prints a message when its pid file cannot be opened and goes on to read from
  it (`flux_be.c:215-220`), which ends the process: `flux_findAppPids`.  `detect_libpals` never runs
  (`pals_be.c:654`); the Localhost table says `CTI_WLM_SSH` (`localhost_be.c:46`).

Other parts:
- `get_attr_str` terminates its string one past the buffer (`cti_fe_iface.cpp:112`).
- After a short write, `Archive::addFile` writes the rest with the full length
  (`Archive.cpp:140`).

## 6. Not modelled

- Archive, SSHSession, loader audit, logging, path and string helpers: input and
  output without state that outlives a call.
- Dyninst, libssh2, libarchive, workload managers: external.
- Command line parsing and the environment handed to tools.
- Attribute getters, host and layout queries and error strings of the C interface.
- The text that workload managers print, and their libraries; a query is one step that
  may fail.
- The default branch of ALPS's `kill`.

## 7. Plan

1. Composition of `Transfer` and `BeDaemon`: the abstract promise "a tool finds
   its files" and the session with its daemons as an implementation of it.
2. MPIR: `Inferior` and the shim as a component of their own below FeDaemon.
3. An abstract supervisor that FeDaemon implements.
