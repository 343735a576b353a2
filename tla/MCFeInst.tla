------------------------------ MODULE MCFeInst ------------------------------
(***************************************************************************)
(* A tool of two threads, a tool that forks, and a tool of one thread on   *)
(* machines whose heuristics compete.                                      *)
(***************************************************************************)
EXTENDS FeInst

CONSTANTS t1, t2, c
MCToolThreads == {t1, t2}

Cluster == [eproxy |-> "none", cminfo |-> "none", cluster |-> FALSE, wlmDetect |-> "none",
            programs |-> {"srun", "flux", "palstat"}, pbs |-> "present", launcher |-> "Ok",
            multi |-> FALSE, links |-> {}, flux |-> "socket", built |-> {"PALS", "Flux"}]
Node == [Cluster EXCEPT !.programs = {}, !.pbs = "absent"]
Login == [Cluster EXCEPT !.eproxy = "key", !.links = {"srun", "squeue", "scancel", "sbcast"}]

Unset == [system |-> "", wlm |-> "", skip |-> FALSE]

Case(m, conf, actors) == [machine |-> m, conf |-> conf, actors |-> actors, reaps |-> TRUE]

MCSetups ==
    {Case(Cluster, Unset, {t1, t2}),
     Case(Cluster, Unset, {t1, c}),
     Case(Login, Unset, {t1}),
     Case(Node, [Unset EXCEPT !.system = "xc"], {t1}),
     Case([Cluster EXCEPT !.multi = TRUE], Unset, {t1}),
     Case([Node EXCEPT !.launcher = "NotBinaryFile"], [Unset EXCEPT !.skip = TRUE], {t1})}
=============================================================================
