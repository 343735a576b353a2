------------------------------- MODULE WlmApp -------------------------------
(***************************************************************************)
(* The workload manager frontends behind cti_launchApp and the register    *)
(* functions: how each one launches a job or attaches to one, lets it out  *)
(* of its startup barrier, starts a tool daemon, and destroys its App.     *)
(* An operation is a script of effects on a world record; a C++ exception  *)
(* stops the script before one of its effects and leaves the earlier ones. *)
(*                                                                         *)
(* The world:  n, pid, mpir, listed  are the FE daemon's last id, its      *)
(* idPidMap, its mpirMap and the ids whose process is on appCleanupList;   *)
(* the other fields belong to the App at hand (did is m_daemonAppId, at is *)
(* m_atBarrier, sent is m_beDaemonSent, link the unique name of the daemon *)
(* binary in the configuration directory, rmpir the MPIR session an Eproxy *)
(* keeps at its remote daemon, owns whether this App launched the job).    *)
(***************************************************************************)
EXTENDS Naturals, Sequences

Wlms == {"slurm", "eproxy", "pals", "flux", "alps", "ssh", "localhost"}

Jobs == {"none", "held", "running", "ended"}

(* What a process id stands for: no process, a process launched by the      *)
(* daemon, the launcher of the job a tool attaches to, the tool itself.     *)
Pids == {"zero", "child", "target", "self"}

NoApp == [did |-> 0, at |-> FALSE, sent |-> FALSE, link |-> FALSE, stage |-> FALSE,
          job |-> "none", rmpir |-> FALSE, owns |-> FALSE]

(* The world of the daemon d and the App r, and its two parts. *)
join(d, r) ==
    [n |-> d.n, pid |-> d.pid, mpir |-> d.mpir, listed |-> d.listed,
     did |-> r.did, at |-> r.at, sent |-> r.sent, link |-> r.link, stage |-> r.stage,
     job |-> r.job, rmpir |-> r.rmpir, owns |-> r.owns]

dmnOf(w) == [n |-> w.n, pid |-> w.pid, mpir |-> w.mpir, listed |-> w.listed]

appRec(w) ==
    [did |-> w.did, at |-> w.at, sent |-> w.sent, link |-> w.link, stage |-> w.stage,
     job |-> w.job, rmpir |-> w.rmpir, owns |-> w.owns]

Ids(w) == DOMAIN w.pid

(* registerAppPID: a process may be registered once. *)
registerable(w, p) == p \in {"zero", "child"} \/ \A i \in Ids(w) : w.pid[i] # p

registerAppPID(w, p) ==
    [w EXCEPT !.n = @ + 1,
              !.pid = [i \in Ids(w) \cup {w.n + 1} |-> IF i = w.n + 1 THEN p ELSE @[i]]]

(* A mutant: the launcher is not put on appCleanupList. *)
launchMPIR_Unlisted(w) ==
    [registerAppPID(w, "child") EXCEPT !.mpir = @ \cup {w.n + 1}]

(* launchMPIR: the launcher is the daemon's child and is killed with it. *)
launchMPIR(w) ==
    [registerAppPID(w, "child") EXCEPT
        !.mpir = @ \cup {w.n + 1}, !.listed = @ \cup {w.n + 1}]

(* attachMPIR: the launcher is someone else's process. *)
attachMPIR(w) ==
    [registerAppPID(w, "target") EXCEPT !.mpir = @ \cup {w.n + 1}]

(* deregisterAppID: an unknown id throws; a listed process is terminated. *)
deregisterAppID(w, i) ==
    IF i \notin Ids(w) THEN w
    ELSE [w EXCEPT !.pid = [j \in Ids(w) \ {i} |-> w.pid[j]],
                   !.listed = @ \ {i},
                   !.job = IF i \in w.listed /\ i = w.did /\ w.owns /\ @ # "none"
                           THEN "ended" ELSE @]

(* releaseAppID: the same without the termination. *)
releaseAppID(w, i) ==
    [w EXCEPT !.pid = [j \in Ids(w) \ {i} |-> w.pid[j]], !.listed = @ \ {i}]

letGo(j) == IF j = "held" THEN "running" ELSE j

(* Whether an effect can happen; otherwise its call throws. *)
Can(w, e) ==
    CASE e \in {"attachMPIR", "registerTarget"} -> registerable(w, "target")
      [] e = "registerSelf" -> registerable(w, "self")
      [] e = "releaseMPIR" -> w.did \in w.mpir
      [] e = "link" -> ~w.link
      [] e = "util" -> w.did \in Ids(w)
      [] e = "checkBarrier" -> w.at
      [] OTHER -> TRUE

(* The effects that cannot throw of themselves. *)
Sure == {"eject", "atBarrier", "checkBarrier", "leaveBarrier",
         "removeLock", "sent", "unlink", "continueJob", "loseSignal"}

Apply(w, e) ==
    LET new == w.n + 1 IN
    CASE e = "launchMPIR"     -> [launchMPIR(w) EXCEPT !.did = new, !.job = "held", !.owns = TRUE]
      [] e = "sattachMPIR"    -> [launchMPIR(w) EXCEPT !.did = new, !.job = "running"]
      [] e = "attachMPIR"     -> [attachMPIR(w) EXCEPT !.did = new, !.job = "running"]
      [] e = "launchTool"     -> launchMPIR(w)
      [] e = "endTool"        -> [w EXCEPT !.mpir = @ \ {w.n}]
      [] e = "register"       -> [registerAppPID(w, "zero") EXCEPT !.did = new]
      [] e = "registerAprun"  -> [registerAppPID(w, "child") EXCEPT !.did = new]
      [] e = "registerTarget" -> [registerAppPID(w, "target") EXCEPT !.did = new]
      [] e = "registerSelf"   -> [registerAppPID(w, "self") EXCEPT !.did = new]
      [] e = "found"          -> [w EXCEPT !.job = "running"]
      [] e = "startHeld"      -> [w EXCEPT !.job = "held", !.owns = TRUE]
      [] e = "startFree"      -> [w EXCEPT !.job = "running", !.owns = TRUE]
      [] e = "launchRemote"   -> [w EXCEPT !.rmpir = TRUE, !.job = "held", !.owns = TRUE]
      [] e = "attachRemote"   -> [w EXCEPT !.rmpir = TRUE, !.job = "running"]
      [] e = "releaseRemote"  -> [w EXCEPT !.rmpir = FALSE, !.job = IF w.rmpir THEN letGo(@) ELSE @]
      [] e = "releaseMPIR"    -> [w EXCEPT !.mpir = @ \ {w.did}, !.job = letGo(@)]
      [] e \in {"leaveBarrier", "loseSignal"} -> [w EXCEPT !.at = FALSE]
      [] e \in {"continueJob", "writeBarrier", "removeLock"} ->
                                 [w EXCEPT !.at = FALSE, !.job = letGo(@)]
      [] e = "atBarrier"      -> [w EXCEPT !.at = TRUE]
      [] e = "stage"          -> [w EXCEPT !.stage = TRUE]
      [] e = "link"           -> [w EXCEPT !.link = TRUE]
      [] e = "unlink"         -> [w EXCEPT !.link = FALSE]
      [] e = "sent"           -> [w EXCEPT !.sent = TRUE]
      [] OTHER                -> w

(***************************************************************************)
(* Running a script.                                                       *)
(***************************************************************************)
(* The worlds it goes through, from the one it starts in. *)
Run(w, s) ==
    LET run[k \in 0 .. Len(s)] == IF k = 0 THEN w ELSE Apply(run[k - 1], s[k])
    IN run

After(w, s, k) == Run(w, s)[k]

Reaches(w, s, k) == \A i \in 1 .. k : Can(After(w, s, i - 1), s[i])

Completes(w, s) == Reaches(w, s, Len(s))

(* The numbers of effects after which an exception may end the script. *)
Throws(w, s) ==
    {k \in 0 .. Len(s) - 1 :
        /\ Reaches(w, s, k)
        /\ s[k + 1] \notin Sure \/ ~Can(After(w, s, k), s[k + 1])}

(* Where it may end, with or without one. *)
Ends(w, s) == Throws(w, s) \cup (IF Completes(w, s) THEN {Len(s)} ELSE {})

Past(s, k, e) == \E i \in 1 .. k : s[i] = e

(***************************************************************************)
(* SLURM.  "own" is the end of a constructor: from there an exception runs *)
(* the destructor.                                                         *)
(***************************************************************************)
(* The launch under MPIR control, then the checks of its process table. *)
srunMPIR(launch) == <<launch, "checkProctable">>

slurm_launchApp == srunMPIR("launchMPIR")

SLURMApp == <<"stage", "own">>

slurm_releaseBarrier == <<"releaseMPIR">>

slurm_launch == slurm_launchApp \o SLURMApp \o slurm_releaseBarrier
slurm_launchBarrier == slurm_launchApp \o SLURMApp

(* One sattach per component of a heterogeneous job; the App keeps the      *)
(* first, the other ones are let go.                                        *)
sattachMPIR == {<<"sattachMPIR">>, <<"sattachMPIR", "launchTool", "endTool">>}

slurm_registerJob == {s \o SLURMApp : s \in sattachMPIR}

getSrunInfo == <<"attachMPIR", "readString", "releaseMPIR">>

(* sbcast, up to three times. *)
slurm_shipPackage == <<"util", "ship">>

(* The copy overwrites an older one. *)
slurm_shipDaemon(package) == <<"copy">> \o package \o <<"sent">>

(* The daemon is a job step of its own, or goes over SSH when the step was  *)
(* started and then found to be one too many for its node.                  *)
slurm_startDaemon == {srunMPIR("launchTool") \o <<"endTool">>, <<"launchTool", "ssh">>}

slurm_kill == <<"util">>

(* A mutant: the id is not given back. *)
slurm_destroy_KeepsId(w) == [w EXCEPT !.stage = FALSE]

slurm_destroy(w) == [deregisterAppID(w, w.did) EXCEPT !.stage = FALSE]

(***************************************************************************)
(* Eproxy: the launcher runs under an FE daemon at the login node.  The    *)
(* base class has taken that daemon's id for an id of the local one, until *)
(* the constructor's last step replaces it.                                *)
(***************************************************************************)
eproxy_launchApp == <<"launchRemote", "readString">>

EproxySLURMApp == <<"stage", "base", "register", "own">>

(* A refusal of the remote daemon goes unnoticed. *)
eproxy_releaseBarrier == <<"releaseRemote">>

eproxy_launch == eproxy_launchApp \o EproxySLURMApp \o eproxy_releaseBarrier
eproxy_launchBarrier == eproxy_launchApp \o EproxySLURMApp
eproxy_registerJob == <<"attachRemote">> \o EproxySLURMApp

eproxy_shipPackage == <<"scp">> \o slurm_shipPackage

(* The remote daemon ends the launcher, then the base class deregisters. *)
eproxy_destroy(w) ==
    [slurm_destroy(w) EXCEPT !.rmpir = FALSE, !.job = IF w.owns THEN "ended" ELSE @]

(* The id at the local daemon that an Eproxy's base class deregisters when   *)
(* the constructor throws: the number the remote daemon gave out.            *)
RemoteId == 1

eproxy_unwind(w, based) ==
    [(IF based THEN [deregisterAppID(w, RemoteId) EXCEPT !.stage = FALSE] ELSE w)
        EXCEPT !.rmpir = FALSE, !.job = IF w.owns THEN "ended" ELSE @]

(***************************************************************************)
(* PALS.                                                                   *)
(***************************************************************************)
pals_launchApp == <<"launchMPIR", "readString">>

(* The tool directory on the nodes is made by a utility. *)
PALSApp == <<"stage", "util", "own">>

(* A mutant: the App forgets the barrier before it has been released. *)
pals_releaseBarrier_FlagFirst == <<"checkBarrier", "leaveBarrier", "releaseMPIR">>

pals_releaseBarrier == <<"checkBarrier", "releaseMPIR", "leaveBarrier">>

pals_launch == pals_launchApp \o <<"atBarrier">> \o PALSApp \o pals_releaseBarrier
pals_launchBarrier == pals_launchApp \o <<"atBarrier">> \o PALSApp

pals_attachApp == <<"found", "register", "palstat">>

pals_registerJob == pals_attachApp \o PALSApp

pals_getApid == <<"attachMPIR", "readString", "releaseMPIR">>

(* palscp, then a move out of the directory it copies to. *)
pals_shipPackage == <<"util", "util", "ship">>

pals_shipDaemon == <<"util">> \o pals_shipPackage \o <<"sent">>
pals_startDaemon == {<<"util">>}
pals_kill == <<"util">>

(* Neither the daemon's id nor the staging directory is given back. *)
pals_destroy(w) == w

(***************************************************************************)
(* Flux submits the job, then builds the App around it.                    *)
(***************************************************************************)
flux_launchApp(barrier) == IF barrier THEN <<"startHeld">> ELSE <<"startFree">>

(* The output of the job goes through a utility process. *)
FluxApp(barrier) ==
    <<"register", "stage">> \o (IF barrier THEN <<"atBarrier">> ELSE << >>) \o <<"util", "own">>

flux_launch == flux_launchApp(FALSE) \o FluxApp(FALSE)
flux_launchBarrier == flux_launchApp(TRUE) \o FluxApp(TRUE)
flux_registerJob == <<"found">> \o FluxApp(FALSE)

flux_getJobid == <<"attachMPIR", "readString", "releaseMPIR">>

(* The outcome of the signal is not looked at. *)
flux_releaseBarrier == {<<"checkBarrier", "continueJob">>, <<"checkBarrier", "loseSignal">>}

flux_shipPackage == <<"copy", "ship">>
flux_shipDaemon == <<"copy">> \o flux_shipPackage \o <<"sent">>
flux_startDaemon == {<<"submit", "wait">>}

flux_destroy(w) == [deregisterAppID(w, w.did) EXCEPT !.stage = FALSE]

(***************************************************************************)
(* ALPS.  A guard kills the launcher until the App has been described; a   *)
(* wrapped aprun has its wrapper registered as a utility after that.       *)
(***************************************************************************)
getAprunLaunchInfo(register) == <<register>>

(* The end of launchApp and of launchAppBarrier: is aprun wrapped? *)
alps_letGo == {<<"eject">>, <<"eject", "util">>}

alps_launchApp ==
    {<<"startFree">> \o getAprunLaunchInfo("registerAprun") \o s : s \in alps_letGo}

alps_launchAppBarrier ==
    {<<"startHeld">> \o getAprunLaunchInfo("registerAprun") \o <<"atBarrier">> \o s : s \in alps_letGo}

ALPSApp == <<"own">>

alps_launch == {s \o ALPSApp : s \in alps_launchApp}
alps_launchBarrier == {s \o ALPSApp : s \in alps_launchAppBarrier}
alps_registerJob == <<"found">> \o getAprunLaunchInfo("registerTarget") \o ALPSApp

alps_releaseBarrier == <<"checkBarrier", "writeBarrier">>

(* A symbolic link under the daemon's unique name; it must not exist yet.   *)
alps_linkDaemon == <<"util", "link">>
alps_startDaemon == {<<"toolHelper", "sent">>}
alps_kill == <<"util">>

alps_destroy(w) == w

(***************************************************************************)
(* GenericSSH.                                                             *)
(***************************************************************************)
ssh_launchApp == <<"launchMPIR">>

GenericSSHApp == <<"stage", "own">>

ssh_releaseBarrier == <<"releaseMPIR">>

ssh_launch == ssh_launchApp \o GenericSSHApp \o ssh_releaseBarrier
ssh_launchBarrier == ssh_launchApp \o GenericSSHApp
ssh_registerJob == <<"attachMPIR">> \o GenericSSHApp

(* A remote launcher is registered under the tool's own process id. *)
registerRemoteJob == <<"found", "registerSelf">> \o GenericSSHApp

ssh_shipPackage == <<"ship">>
ssh_shipDaemon == <<"util", "link">> \o ssh_shipPackage \o <<"sent">>
ssh_startDaemon == {<<"ssh">>}

ssh_destroy(w) == [deregisterAppID(w, w.did) EXCEPT !.stage = FALSE]

(***************************************************************************)
(* Localhost.  The barrier of a local job is a lock file; when it cannot   *)
(* be made the job runs on.                                                *)
(***************************************************************************)
LocalhostApp(barrier) ==
    (IF barrier THEN <<"stage", "atBarrier", "startHeld">> ELSE <<"stage", "startFree">>)
        \o <<"writeAppPEs", "own">>

localhost_launch == {LocalhostApp(FALSE)}
localhost_launchBarrier == {LocalhostApp(TRUE), LocalhostApp(FALSE)}
localhost_registerJob == <<"found", "stage", "writeAppPEs", "own">>

localhost_releaseBarrier == <<"removeLock">>

(* The link is moved away at once. *)
localhost_shipDaemon == <<"link", "rename", "unlink", "sent">>
localhost_startDaemon == {<<"fork">>}

localhost_destroy(w) == [w EXCEPT !.stage = FALSE, !.link = FALSE]

(***************************************************************************)
(* The virtual functions of Frontend and App.                              *)
(***************************************************************************)
launchScripts(wlm, barrier) ==
    CASE wlm = "slurm"     -> {IF barrier THEN slurm_launchBarrier ELSE slurm_launch}
      [] wlm = "eproxy"    -> {IF barrier THEN eproxy_launchBarrier ELSE eproxy_launch}
      [] wlm = "pals"      -> {IF barrier THEN pals_launchBarrier ELSE pals_launch}
      [] wlm = "flux"      -> {IF barrier THEN flux_launchBarrier ELSE flux_launch}
      [] wlm = "alps"      -> IF barrier THEN alps_launchBarrier ELSE alps_launch
      [] wlm = "ssh"       -> {IF barrier THEN ssh_launchBarrier ELSE ssh_launch}
      [] wlm = "localhost" -> IF barrier THEN localhost_launchBarrier ELSE localhost_launch

(* Eproxy's launch returns before it has put the App into m_apps. *)
keepsApp(wlm, barrier) == wlm # "eproxy" \/ barrier

registerScripts(wlm) ==
    CASE wlm = "slurm"     -> slurm_registerJob
      [] wlm = "eproxy"    -> {eproxy_registerJob}
      [] wlm = "pals"      -> {pals_registerJob}
      [] wlm = "flux"      -> {flux_registerJob}
      [] wlm = "alps"      -> {alps_registerJob}
      [] wlm = "ssh"       -> {ssh_registerJob, registerRemoteJob}
      [] wlm = "localhost" -> {localhost_registerJob}

(* The functions that attach to a launcher to read its job id. *)
queryScripts(wlm) ==
    CASE wlm = "slurm" -> {getSrunInfo}
      [] wlm = "pals"  -> {pals_getApid}
      [] wlm = "flux"  -> {flux_getJobid}
      [] OTHER         -> {}

releaseScripts(wlm) ==
    CASE wlm = "slurm"     -> {slurm_releaseBarrier}
      [] wlm = "eproxy"    -> {eproxy_releaseBarrier}
      [] wlm = "pals"      -> {pals_releaseBarrier}
      [] wlm = "flux"      -> flux_releaseBarrier
      [] wlm = "alps"      -> {alps_releaseBarrier}
      [] wlm = "ssh"       -> {ssh_releaseBarrier}
      [] wlm = "localhost" -> {localhost_releaseBarrier}

(* The first startDaemon ships the backend daemon under its unique name. *)
shipDaemon(wlm) ==
    CASE wlm = "slurm"     -> slurm_shipDaemon(slurm_shipPackage)
      [] wlm = "eproxy"    -> slurm_shipDaemon(eproxy_shipPackage)
      [] wlm = "pals"      -> pals_shipDaemon
      [] wlm = "flux"      -> flux_shipDaemon
      [] wlm = "alps"      -> alps_linkDaemon
      [] wlm = "ssh"       -> ssh_shipDaemon
      [] wlm = "localhost" -> localhost_shipDaemon

runDaemon(wlm) ==
    CASE wlm \in {"slurm", "eproxy"} -> slurm_startDaemon
      [] wlm = "pals"      -> pals_startDaemon
      [] wlm = "flux"      -> flux_startDaemon
      [] wlm = "alps"      -> alps_startDaemon
      [] wlm = "ssh"       -> ssh_startDaemon
      [] wlm = "localhost" -> localhost_startDaemon

startDaemonScripts(wlm, w) ==
    {(IF w.sent THEN << >> ELSE shipDaemon(wlm)) \o r : r \in runDaemon(wlm)}

(* The shipment of a session's archive. *)
shipScript(wlm) ==
    CASE wlm = "slurm"     -> slurm_shipPackage
      [] wlm = "eproxy"    -> eproxy_shipPackage
      [] wlm = "pals"      -> pals_shipPackage
      [] wlm = "flux"      -> flux_shipPackage
      [] wlm = "ssh"       -> ssh_shipPackage
      [] wlm \in {"alps", "localhost"} -> <<"ship">>

(* Signals that the WLM's own command delivers. *)
killScript(wlm) ==
    CASE wlm \in {"slurm", "eproxy"} -> slurm_kill
      [] wlm = "pals" -> pals_kill
      [] wlm = "alps" -> alps_kill
      [] OTHER        -> <<"signal">>

destroyApp(wlm, w) ==
    CASE wlm = "slurm"     -> slurm_destroy(w)
      [] wlm = "eproxy"    -> eproxy_destroy(w)
      [] wlm = "pals"      -> pals_destroy(w)
      [] wlm = "flux"      -> flux_destroy(w)
      [] wlm = "alps"      -> alps_destroy(w)
      [] wlm = "ssh"       -> ssh_destroy(w)
      [] wlm = "localhost" -> localhost_destroy(w)

(* What an exception after k effects of a launch or register script undoes: *)
(* a finished App is destroyed, an Eproxy's base and its remote daemon go,  *)
(* ALPS kills the launcher its guard still holds.                           *)
unwind(wlm, w, s, k) ==
    IF Past(s, k, "own") THEN destroyApp(wlm, w)
    ELSE CASE wlm = "eproxy" -> eproxy_unwind(w, Past(s, k, "base"))
           [] wlm = "alps" /\ w.owns /\ ~Past(s, k, "eject") -> [w EXCEPT !.job = "ended"]
           [] OTHER -> w

(* App::isRunning, as far as its query answers.  A remote daemon's answer   *)
(* counts as yes whatever it says; a local App never stops.                 *)
isRunning(wlm, w) ==
    CASE wlm \in {"slurm", "pals", "flux"} -> w.job # "ended"
      [] wlm \in {"ssh", "alps"} ->
            w.did \in Ids(w) /\ (w.pid[w.did] = "self" \/ w.job # "ended")
      [] wlm \in {"eproxy", "localhost"} -> TRUE
=============================================================================
