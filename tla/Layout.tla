------------------------------- MODULE Layout -------------------------------
(***************************************************************************)
(* The files that carry the placement of an application from the frontend  *)
(* to the backend library, and how the library of one node finds its own   *)
(* part in them: fetchStepLayout, createNodeLayoutFile and                 *)
(* createPIDListFile of the frontends, getLayout, getPids and              *)
(* getRanksFromFile of the backends.                                       *)
(*                                                                         *)
(* A host name is a sequence of tokens (stem, digits, domain), as fine as  *)
(* the comparisons of the code tell names apart.  A placement is a         *)
(* function from the ranks 0 .. n-1 to nodes.                              *)
(***************************************************************************)
EXTENDS Integers, SequencesExt, FiniteSetsExt

CONSTANTS Nodes,        \* the compute nodes
          NameOf,       \* [Nodes -> Seq(tokens)], the short host names
          Domain,       \* the token that begins a domain, ".site"
          ListOrder,    \* the nodes in the order sattach lists them
          MapOrder,     \* the nodes in the order of std::map<std::string, _>
          None          \* a model value: NULL, -1, nothing found

ASSUME NamesDiffer == \A m, n \in Nodes : NameOf[m] = NameOf[n] => m = n
ASSUME OrdersCover == Range(ListOrder) = Nodes /\ Range(MapOrder) = Nodes

(* The process that runs rank r. *)
Pid(r) == 100 + r

TasksOn(place, n) == {r \in DOMAIN place : place[r] = n}

(* What a backend on node n should report. *)
RankPids(place, n) == {[rank |-> r, pid |-> Pid(r)] : r \in TasksOn(place, n)}

(* The name under which a list of nodes gives n: short, or with its domain. *)
Listed(n, long) == IF long THEN Append(NameOf[n], Domain) ELSE NameOf[n]

Truncated(name) == SelectSeq(name, LAMBDA t : t # Domain)

(* The proctable: one entry per rank, in rank order. *)
Proctable(place, long) ==
    [i \in 1 .. Cardinality(DOMAIN place) |->
        [host |-> Listed(place[i - 1], long), pid |-> Pid(i - 1)]]

Entry(host, here, first) == [host |-> host, PEsHere |-> here, firstPE |-> first]

(***************************************************************************)
(* SLURM.  sattach prints one line per node of a step: host, number of     *)
(* tasks, and the tasks' numbers, of which the first is read.  Numbers     *)
(* start at 0 in every component of a heterogeneous job; inside an         *)
(* allocation they start again at 0 with the second program of one step.   *)
(***************************************************************************)
sattach(place, comp, again, long) ==
    LET lowest(n) == Min(TasksOn(place, n) \cap comp)
        line(n) == [host |-> Listed(n, long),
                    num |-> Cardinality(TasksOn(place, n) \cap comp),
                    pe0 |-> lowest(n) - (IF again \in comp /\ lowest(n) >= again
                                         THEN again ELSE Min(comp))]
        used == SelectSeq(ListOrder, LAMBDA n : TasksOn(place, n) \cap comp # {})
    IN [i \in DOMAIN used |-> line(used[i])]

(* getStepLayout: entries of one component, shifted by the PEs before it.   *)
(* A later line that starts at 0 is taken to have been numbered anew.       *)
getStepLayout(lines, pe_offset) ==
    FoldLeft(LAMBDA acc, l :
                LET pe_0 == IF acc.total > 0 /\ l.pe0 = 0 THEN acc.total ELSE l.pe0
                IN [total |-> acc.total + l.num,
                    nodes |-> Append(acc.nodes, Entry(l.host, l.num, pe_0 + pe_offset))],
            [total |-> 0, nodes |-> << >>], lines)

(* fetchStepLayout and createNodeLayoutFile: one call per component, then    *)
(* the entries of all of them in one file.                                   *)
slurm_fetchStepLayout(steps) ==
    FoldLeft(LAMBDA acc, lines :
                LET step == getStepLayout(lines, acc.total)
                IN [total |-> acc.total + step.total, nodes |-> acc.nodes \o step.nodes],
            [total |-> 0, nodes |-> << >>], steps)

(* het splits the ranks into two components, again is where one step counts  *)
(* anew; 0 stands for neither.                                               *)
slurm_createNodeLayoutFile(place, het, again, long) ==
    LET ranks == DOMAIN place
        comps == IF het = 0 THEN <<ranks>>
                 ELSE <<{r \in ranks : r < het}, {r \in ranks : r >= het}>>
    IN slurm_fetchStepLayout([i \in DOMAIN comps |->
                                sattach(place, comps[i], again, long)]).nodes

(* The pids of the whole proctable, in its order. *)
createPIDListFile(table) == [i \in DOMAIN table |-> table[i].pid]

(***************************************************************************)
(* GenericSSH.  A node is entered at its first process, with the number of *)
(* processes seen so far as its first PE.                                  *)
(***************************************************************************)
ssh_fetchStepLayout(table) ==
    LET base(i) == Truncated(table[i].host)
        first(h) == Min({i \in DOMAIN table : base(i) = h})
        starts == SelectSeq([i \in DOMAIN table |-> i], LAMBDA i : first(base(i)) = i)
    IN [k \in DOMAIN starts |->
          Entry(base(starts[k]),
                Cardinality({i \in DOMAIN table : base(i) = base(starts[k])}),
                starts[k] - 1)]

(***************************************************************************)
(* Flux.  Tasks are counted per host in a std::map, then ranks and pids    *)
(* are dealt out in the order of that map.                                 *)
(***************************************************************************)
make_hostsPlacement(place, long) ==
    LET used == SelectSeq(MapOrder, LAMBDA n : TasksOn(place, n) # {})
        num(k) == Cardinality(TasksOn(place, used[k]))
        before(k) == MapThenSumSet(num, 1 .. k - 1)
    IN [k \in DOMAIN used |->
          [host |-> Listed(used[k], long), numPEs |-> num(k),
           pids |-> [i \in 1 .. num(k) |-> Pid(before(k) + i - 1)]]]

flux_createNodeLayoutFile(placement) ==
    LET num(k) == placement[k].numPEs
    IN [k \in DOMAIN placement |->
          Entry(placement[k].host, num(k), MapThenSumSet(num, 1 .. k - 1))]

flux_createPIDListFile(placement) ==
    FlattenSeq([k \in DOMAIN placement |-> placement[k].pids])

(***************************************************************************)
(* PALS.  The file holds the rank and pid of every task of a host; for     *)
(* PMIx before 4.2 a second file has the lowest rank and the count.        *)
(***************************************************************************)
pals_createNodeLayoutFile(place, long) ==
    LET used == SelectSeq(MapOrder, LAMBDA n : TasksOn(place, n) # {})
    IN [k \in DOMAIN used |->
          [host |-> Listed(used[k], long), pairs |-> RankPids(place, used[k])]]

create_pmix_first_rank_file(place, long) ==
    LET used == SelectSeq(MapOrder, LAMBDA n : TasksOn(place, n) # {})
    IN [k \in DOMAIN used |->
          Entry(Listed(used[k], long), Cardinality(TasksOn(place, used[k])),
                Min(TasksOn(place, used[k])))]

(***************************************************************************)
(* The backend's side.                                                     *)
(***************************************************************************)
isalnum(token) == token # Domain

(* A mutant: any entry that begins with the own name is taken. *)
isOwnEntry_AnyPrefix(entry, hostname) == IsPrefix(hostname, entry.host)

(* slurm_be, pals_be and flux_be: the own name is a prefix of the entry, and  *)
(* the entry ends there or goes on with something that is not alphanumeric.   *)
isOwnEntry(entry, hostname) ==
    /\ IsPrefix(hostname, entry.host)
    /\ \/ Len(entry.host) = Len(hostname)
       \/ ~isalnum(entry.host[Len(hostname) + 1])

(* generic_ssh_be: any entry that begins with the own name. *)
ssh_isOwnEntry(entry, hostname) == IsPrefix(hostname, entry.host)

(* pals_be, for the PMIx rank file: the shorter name begins the longer one. *)
hostnames_match_by_prefix(entry, hostname) ==
    IsPrefix(hostname, entry.host) \/ IsPrefix(entry.host, hostname)

(* The loop over the entries stops at the first of those that match. *)
FindEntry(hits) == IF hits = << >> THEN None ELSE hits[1]

OwnEntry(file, hostname) == FindEntry(SelectSeq(file, LAMBDA e : isOwnEntry(e, hostname)))

(* A mutant: the bounds check lets one PE too many through. *)
getPids_OffByOne(layout, pids) ==
    IF layout.firstPE + layout.PEsHere > Len(pids) + 1 THEN None
    ELSE {[rank |-> layout.firstPE + i, pid |-> pids[layout.firstPE + i]] :
             i \in 1 .. layout.PEsHere}

(* getPids and the loop of findAppPids: PEsHere pids from firstPE on, ranks  *)
(* counted up from firstPE; nothing when the file has too few.               *)
getPids(layout, pids) ==
    IF layout.firstPE + layout.PEsHere > Len(pids) THEN None
    ELSE {[rank |-> layout.firstPE + i, pid |-> pids[layout.firstPE + i + 1]] :
             i \in 0 .. layout.PEsHere - 1}

(* getNodeName: the node names scontrol shows for the job with their host    *)
(* names; the first whose host name is the own one, or begins it or is begun *)
(* by it and the longer one does not go on with a digit.                     *)
isSlurmNode(nodeHost, hostname, digits) ==
    LET goesOn(s, t) == IsPrefix(s, t) /\ (s = t \/ t[Len(s) + 1] \notin digits)
    IN goesOn(hostname, nodeHost) \/ goesOn(nodeHost, hostname)

(***************************************************************************)
(* Which placements the files can carry.                                   *)
(***************************************************************************)
(* The ranks of a node follow one another: block placement. *)
Contiguous(place) ==
    \A n \in Range(place) : LET T == TasksOn(place, n) IN T = Min(T) .. Max(T)

(* Nodes take ranks in the order of a list. *)
InOrder(place, order) ==
    \A i, j \in DOMAIN order : i < j =>
        \A r \in TasksOn(place, order[i]), s \in TasksOn(place, order[j]) : r < s
=============================================================================
