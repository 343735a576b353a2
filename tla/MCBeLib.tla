------------------------------ MODULE MCBeLib ------------------------------
(***************************************************************************)
(* Three nodes whose names begin alike (node1, node10, node2) and three    *)
(* tasks in every placement, for each workload manager.                    *)
(***************************************************************************)
EXTENDS BeLib

CONSTANTS n1, n10, n2

MCNameOf == [n \in {n1, n10, n2} |->
                CASE n = n1 -> <<"node", "1">>
                  [] n = n10 -> <<"node", "1", "0">>
                  [] n = n2 -> <<"node", "2">>]

(* The order of a step is that of its host list, the map goes by name. *)
MCListOrder == <<n10, n1, n2>>
MCMapOrder == <<n1, n10, n2>>

Placements == [0 .. 2 -> {n1, n10, n2}]

Plain(w) == [guard |-> TRUE, wlm |-> w, place |-> [r \in 0 .. 2 |-> n1], node |-> n1,
             long |-> FALSE, hlong |-> FALSE, het |-> 0, again |-> 0, named |-> "none",
             files |-> {"layout", "pids"}, inTool |-> FALSE, pmix |-> "off",
             lib |-> TRUE, apid |-> TRUE, writes |-> TRUE]

(* Every placement, seen from every node that has a task. *)
Placed(e) == {[e EXCEPT !.place = p, !.node = n] : <<p, n>> \in
                {pn \in Placements \X {n1, n10, n2} : pn[2] \in Range(pn[1])}}

Named(E) == {[e EXCEPT !.long = l[1], !.hlong = l[2]] : e \in E,
                l \in {<<FALSE, FALSE>>, <<TRUE, FALSE>>, <<FALSE, TRUE>>}}

SlurmEnvs ==
    LET split == {<<0, 0>>, <<1, 0>>, <<2, 0>>, <<0, 1>>, <<0, 2>>}
    IN {[e EXCEPT !.het = s[1], !.again = s[2], !.writes = FALSE] :
            e \in Placed(Plain("slurm")), s \in split}
       \cup {[e EXCEPT !.named = "query", !.writes = FALSE] : e \in Named(Placed(Plain("slurm")))}
       \cup {[e EXCEPT !.inTool = t] : e \in Placed(Plain("slurm")), t \in {TRUE}}
       \cup {[e EXCEPT !.files = {}, !.apid = a] : e \in Placed(Plain("slurm")), a \in BOOLEAN}
       \cup {[e EXCEPT !.named = "nodename", !.writes = FALSE] : e \in Named(Placed(Plain("slurm")))}

OtherEnvs ==
    {[e EXCEPT !.writes = FALSE] : e \in Named(Placed(Plain("ssh")))}
    \cup {[e EXCEPT !.files = {"layout"}] : e \in Placed(Plain("ssh"))}
    \cup {[e EXCEPT !.files = f, !.writes = FALSE] :
            e \in Named(Placed(Plain("flux"))), f \in {{}, {"layout"}, {"layout", "pids"}}}
    \cup {[e EXCEPT !.pmix = x, !.lib = l, !.files = f] :
            e \in Placed(Plain("pals")), x \in {"off", "ok", "nofile"}, l \in BOOLEAN,
            f \in {{}, {"layout"}, {"layout", "ranks"}}}
    \cup {[e EXCEPT !.lib = l, !.apid = a] :
            e \in Placed(Plain("alps")), l \in BOOLEAN, a \in BOOLEAN}
    \cup {[Plain("localhost") EXCEPT !.files = f] : f \in {{}, {"pids"}}}
    \cup {[Plain(w) EXCEPT !.guard = g] : w \in {"none", "ssh"}, g \in BOOLEAN}

MCEnvs == SlurmEnvs \cup OtherEnvs
=============================================================================
