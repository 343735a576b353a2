----------------------------- MODULE WlmDetect -----------------------------
(***************************************************************************)
(* How Frontend::inst chooses a frontend: the system and workload manager  *)
(* heuristics, the verification of what they chose and the frontend that   *)
(* is then made, over an abstract machine.                                 *)
(*                                                                         *)
(* A machine m says which programs of it run and what they answer:         *)
(*   eproxy      "none", "check" (passes), "key" (passes, configured)      *)
(*   cminfo      "none", or the node type it reports                       *)
(*   cluster     the CS cluster file is there                              *)
(*   wlmDetect   the name libwlm_detect gives, "none" without the library  *)
(*   programs    the programs that answer --version, srun as Slurm's       *)
(*   pbs         "norpm" (no rpm to ask), "absent", "present"              *)
(*   launcher    what stands in PATH for the launcher: an MPIR status      *)
(*   multi       a Slurm node shared by several clusters, no allocation    *)
(*   links       the Slurm utilities that eproxy finds correct             *)
(*   flux        "socket" (FLUX_URI), "jobs" (flux jobs answers), "broken" *)
(*   built       the optional frontends of this build of the library       *)
(*                                                                         *)
(* lost is the set of helper programs whose exit status was taken away     *)
(* before CTI could wait for it.  Of eproxy's two runs the second, which   *)
(* looks at the links, is "links".  The overrides of the Slurm checks are  *)
(* not set.                                                                *)
(***************************************************************************)

Systems == {"Unknown", "Linux", "HPCM", "Shasta", "XC", "CS", "Eproxy"}
WLMs == {"Unknown", "PALS", "Slurm", "ALPS", "SSH", "Flux", "Localhost"}
MPIRSymbolStatus == {"Ok", "LauncherNotFound", "NotBinaryFile", "NoMPIRBreakpoint", "NoMPIRSymbols"}
Throw == "throws"

(***************************************************************************)
(* The heuristics.  Where the exit status of srun is lost, waiting for it  *)
(* throws, which counts as not installed; aprun's is not needed.           *)
(***************************************************************************)
detect_Eproxy(m) == m.eproxy = "key"
detect_HPCM(m) == m.cminfo \in {"admin", "service"}
detect_CS(m) == m.cluster

(* The exit status of rpm is 6 when no package is installed; without rpm it *)
(* is the 255 of a failed exec.                                             *)
rpmStatus(m) == CASE m.pbs = "absent" -> 6 [] m.pbs = "present" -> 5 [] m.pbs = "norpm" -> 255
detect_PALS(m) == rpmStatus(m) # 6

detect_Slurm(m, lost) == "srun" \in m.programs /\ "srun" \notin lost
detect_XC_ALPS(m) == "aprun" \in m.programs
detect_Flux(m) == "flux" \in m.programs

(* The settings of CTI_WLM_IMPL; "" is no setting. *)
systemSettings == [linux |-> "Linux", hpcm |-> "HPCM", shasta |-> "Shasta", xc |-> "XC",
                   cs |-> "CS", eproxy |-> "Eproxy"]
wlmSettings == [ssh |-> "SSH", generic |-> "SSH", alps |-> "ALPS", slurm |-> "Slurm",
                pals |-> "PALS", flux |-> "Flux", localhost |-> "Localhost"]

detect_System(m, setting) ==
    IF setting # "" THEN IF setting \in DOMAIN systemSettings THEN systemSettings[setting] ELSE Throw
    ELSE IF detect_Eproxy(m) THEN "Eproxy"
    ELSE IF detect_HPCM(m) THEN "HPCM"
    ELSE IF detect_CS(m) THEN "CS"
    ELSE "Unknown"

(* A mutant: PBS is asked for before srun. *)
heuristics_PalsFirst(m, system, lost) ==
    IF detect_PALS(m) THEN "PALS"
    ELSE IF detect_Slurm(m, lost) THEN "Slurm"
    ELSE IF detect_Flux(m) THEN "Flux"
    ELSE "SSH"

heuristics(m, system, lost) ==
    IF detect_Slurm(m, lost) THEN "Slurm"
    ELSE IF system = "XC" THEN IF detect_XC_ALPS(m) THEN "ALPS" ELSE "Unknown"
    ELSE IF detect_PALS(m) THEN "PALS"
    ELSE IF detect_Flux(m) THEN "Flux"
    ELSE "SSH"

detect_WLM(m, system, setting, lost) ==
    IF setting # "" THEN IF setting \in DOMAIN wlmSettings THEN wlmSettings[setting] ELSE Throw
    ELSE IF m.wlmDetect = "ALPS" THEN "ALPS"
    ELSE IF m.wlmDetect = "SLURM" THEN "Slurm"
    ELSE heuristics(m, system, lost)

(***************************************************************************)
(* The verification.                                                       *)
(***************************************************************************)
verify_MPIR_symbols(m, skip) ==
    IF m.launcher # "LauncherNotFound" /\ skip THEN "Ok" ELSE m.launcher

verify_PALS_configured(m, skip, lost) ==
    verify_MPIR_symbols(m, skip) = "Ok" /\ "palstat" \in m.programs \ lost

verify_XC_ALPS_configured(m, skip) == verify_MPIR_symbols(m, skip) = "Ok"

(* Without the exit status of sacctmgr there is one cluster. *)
detect_Slurm_shared_multicluster(m, lost) == m.multi /\ "sacctmgr" \notin lost

(* A launcher script is accepted: it becomes the wrapper of srun. *)
verify_Slurm_configured(m, skip, lost) ==
    /\ verify_MPIR_symbols(m, skip) \in {"Ok", "NotBinaryFile"}
    /\ ~detect_Slurm_shared_multicluster(m, lost)

verify_Eproxy_Slurm_configured(m, lost) ==
    {"srun", "squeue", "scancel", "sbcast"} \subseteq m.links /\ "links" \notin lost

verify_SSH_configured(m, skip) == verify_MPIR_symbols(m, skip) = "Ok"

(* A build without Flux verifies nothing: make_Frontend refuses later. *)
verify_Flux_configured(m) == "Flux" \in m.built => m.flux \in {"socket", "jobs"}

verify_System_WLM_configured(m, system, wlm, skip, lost) ==
    /\ system = "Eproxy" => wlm = "Slurm"
    /\ CASE wlm = "PALS" -> verify_PALS_configured(m, skip, lost)
         [] wlm = "Slurm" /\ system = "Eproxy" -> verify_Eproxy_Slurm_configured(m, lost)
         [] wlm = "Slurm" /\ system # "Eproxy" -> verify_Slurm_configured(m, skip, lost)
         [] wlm = "ALPS" -> system \in {"Unknown", "XC"} /\ verify_XC_ALPS_configured(m, skip)
         [] wlm = "SSH" -> verify_SSH_configured(m, skip)
         [] wlm = "Flux" -> verify_Flux_configured(m)
         [] wlm = "Localhost" -> TRUE
         [] OTHER -> FALSE

(***************************************************************************)
(* make_Frontend: the kind of frontend, Throw for one that this build does *)
(* not have, "assert" where the code asserts.                              *)
(***************************************************************************)
make_Frontend(m, system, wlm) ==
    CASE wlm = "Slurm" /\ system = "HPCM" -> "hpcm"
      [] wlm = "Slurm" /\ system = "Eproxy" -> "eproxy"
      [] wlm = "Slurm" /\ system \notin {"HPCM", "Eproxy"} -> "slurm"
      [] wlm \in {"ALPS", "PALS", "Flux"} ->
             IF wlm \in m.built
             THEN [ALPS |-> "alps", PALS |-> "pals", Flux |-> "flux"][wlm] ELSE Throw
      [] wlm = "SSH" -> "ssh"
      [] wlm = "Localhost" -> "localhost"
      [] OTHER -> "assert"

(***************************************************************************)
(* The helpers that a detection waits for: with runExitStatus, which tries *)
(* waitpid again for ever when the child is not there (waits), and with    *)
(* getExitStatus, which throws (asks).                                     *)
(***************************************************************************)
guesses(m, conf) ==
    /\ detect_System(m, conf.system) # Throw /\ conf.wlm = ""
    /\ m.wlmDetect \notin {"ALPS", "SLURM"}

looksAtLauncher(system, wlm) ==
    IF wlm = "ALPS" THEN system \in {"Unknown", "XC"}
    ELSE system # "Eproxy" /\ wlm \in {"PALS", "Slurm", "SSH"}

asks(m, conf, lost) ==
    LET system == detect_System(m, conf.system)
        wlm == detect_WLM(m, system, conf.wlm, lost)
        launcher == verify_MPIR_symbols(m, conf.skip)
    IN {p \in {"srun", "palstat", "sacctmgr", "links"} :
          CASE p = "srun" -> guesses(m, conf)
            [] p = "palstat" -> wlm = "PALS" /\ looksAtLauncher(system, wlm) /\ launcher = "Ok"
            [] p = "sacctmgr" -> /\ wlm = "Slurm" /\ looksAtLauncher(system, wlm)
                                 /\ launcher \in {"Ok", "NotBinaryFile"}
            [] p = "links" -> wlm = "Slurm" /\ system = "Eproxy"}

waits(m, conf, lost) ==
    LET system == detect_System(m, conf.system)
        wlm == detect_WLM(m, system, conf.wlm, lost)
    IN {p \in {"eproxy", "rpm", "flux", "sh"} :
          CASE p = "eproxy" -> conf.system = ""
            [] p = "rpm" -> guesses(m, conf) /\ system # "XC" /\ ~detect_Slurm(m, lost)
            [] p = "flux" -> \/ guesses(m, conf) /\ wlm \in {"Flux", "SSH"}
                             \/ wlm = "Flux" /\ "Flux" \in m.built /\ m.flux = "jobs"
            [] p = "sh" -> \/ looksAtLauncher(system, wlm) /\ m.launcher # "LauncherNotFound" /\ ~conf.skip
                           \/ /\ "sacctmgr" \in asks(m, conf, lost)
                              /\ detect_Slurm_shared_multicluster(m, lost)}
=============================================================================
