------------------------------- MODULE BeLib -------------------------------
(***************************************************************************)
(* The backend library in the process of a tool daemon on one node:        *)
(* constructor and destructor, the dispatch to a workload manager (WLM),   *)
(* and the queries of the six WLM libraries with what they cache.  The     *)
(* application writes its pmi_attribs file while the tool asks; a query    *)
(* that needs the file opens it again and again until a timeout.           *)
(*                                                                         *)
(* env is what the frontend and the node hand to the process: the WLM, the *)
(* placement, the shipped files, names and libraries.  It never changes.   *)
(***************************************************************************)
EXTENDS Layout

CONSTANTS Envs,          \* the environments to consider
          Digits,        \* the tokens of a host name that are digits
          MaxTries,      \* 4 * timeout: how often a missing file is awaited
          MaxCalls       \* a bound on the queries of one behaviour

ASSUME BoundsAssumption == MaxTries \in Nat /\ MaxCalls \in Nat

VARIABLES env,
          proto,         \* _cti_be_wlmProto
          isInit, isFini,
          layout,        \* _cti_layout, g_layout: own entry, or None
          pids,          \* _cti_slurm_pids and the like: own pairs, or None
          attrs,         \* _cti_attrs, _cti_pmi_attrs, or None
          tried,         \* PALS: the attributes, the rank file were tried
          fallback,      \* PALS: cached_first_rank, cached_num_ranks, or None
          pmi,           \* the pmi_attribs file: how much of it is written
          query, tcount, \* the query in progress, and its tries
          ans,           \* the last answer
          calls

lvars == <<env, proto, isInit, isFini, layout, pids, attrs, tried, fallback,
           pmi, query, tcount, ans, calls>>

caches == <<layout, pids, attrs, tried, fallback>>
lib == <<proto, isInit, isFini>>

Queries == {"findAppPids", "getNodeHostname", "getNodeFirstPE", "getNodePEs"}

Mine == TasksOn(env.place, env.node)

NoAnswer == [op |-> None, val |-> None, src |-> None]

(***************************************************************************)
(* What the environment holds.                                             *)
(***************************************************************************)
gethostname == Listed(env.node, env.hlong)

(* getNodeName: squeue gives the nodes of the job, scontrol their names. *)
slurm_getNodeName ==
    LET ofJob == SelectSeq(ListOrder, LAMBDA n : n \in Range(env.place))
        hits == SelectSeq(ofJob, LAMBDA n : isSlurmNode(NameOf[n], gethostname, Digits))
    IN IF hits = << >> THEN None ELSE Listed(hits[1], env.long)

slurm_getNodeHostname ==
    CASE env.named = "nodename" -> Listed(env.node, env.long)
      [] env.named = "query" /\ slurm_getNodeName # None -> slurm_getNodeName
      [] OTHER -> gethostname

(* The PALS library asks libpals, or the PMIx utility when PALS_PMIX_BE_PATH  *)
(* is set, whatever mode init ended in.                                       *)
pals_getNodeHostname ==
    IF env.pmix = "off" THEN Listed(env.node, env.long) ELSE gethostname

Hostname ==
    CASE proto = "none" -> None
      [] proto = "slurm" -> slurm_getNodeHostname
      [] proto = "pals" -> pals_getNodeHostname
      [] proto = "alps" -> NameOf[env.node]
      [] OTHER -> gethostname

(* The layout file of the WLM, as its frontend wrote it. *)
LayoutFile ==
    CASE env.wlm = "slurm" -> slurm_createNodeLayoutFile(env.place, env.het, env.again, env.long)
      [] env.wlm = "ssh" -> ssh_fetchStepLayout(Proctable(env.place, env.long))
      [] env.wlm = "flux" -> flux_createNodeLayoutFile(make_hostsPlacement(env.place, env.long))
      [] env.wlm = "pals" -> pals_createNodeLayoutFile(env.place, env.long)

PidFile ==
    IF env.wlm = "flux" THEN flux_createPIDListFile(make_hostsPlacement(env.place, env.long))
    ELSE createPIDListFile(Proctable(env.place, env.long))

(***************************************************************************)
(* The pmi_attribs file.  made: it exists; header: the counts are in; n    *)
(* pairs are in; cut: a last pair is in whose pid lacks its last digit.    *)
(***************************************************************************)
NoFile == [made |-> FALSE, header |-> FALSE, n |-> 0, cut |-> FALSE]

(* The pairs that the file will hold, written in the order of their ranks. *)
Pairs == RankPids(env.place, env.node)
NumPairs == Cardinality(Mine)

(* A mutant: the loop ends at the end of the file, with what it has. *)
ReadAttribs_Short ==
    IF ~pmi.header THEN None
    ELSE {p \in Pairs : Cardinality({r \in Mine : r < p.rank}) < pmi.n}

(* The body of _getPmiAttribsInfo: NULL when a number is missing. *)
ReadAttribs ==
    IF ~pmi.header THEN None
    ELSE CASE pmi.n = NumPairs -> Pairs
           [] pmi.n = NumPairs - 1 /\ pmi.cut ->
                {[p EXCEPT !.pid = IF p.rank = Max(Mine) THEN @ \div 10 ELSE @] : p \in Pairs}
           [] OTHER -> None

(* External: the application writes the file. *)
WriteAttribs ==
    /\ env.writes
    /\ \/ /\ ~pmi.made
          /\ pmi' = [pmi EXCEPT !.made = TRUE]
       \/ /\ pmi.made /\ ~pmi.header
          /\ pmi' = [pmi EXCEPT !.header = TRUE]
       \/ /\ pmi.header /\ pmi.n < NumPairs /\ ~pmi.cut
          /\ pmi' = [pmi EXCEPT !.cut = TRUE]
       \/ /\ pmi.header /\ pmi.n < NumPairs
          /\ pmi' = [pmi EXCEPT !.n = @ + 1, !.cut = FALSE]
    /\ UNCHANGED <<env, lib, caches, query, tcount, ans, calls>>

(***************************************************************************)
(* Constructor and destructor.                                             *)
(***************************************************************************)
LInit ==
    /\ env \in Envs
    /\ proto = "none" /\ isInit = FALSE /\ isFini = FALSE
    /\ layout = None /\ pids = None /\ attrs = None
    /\ tried = {} /\ fallback = None
    /\ pmi = NoFile
    /\ query = "idle" /\ tcount = 0
    /\ ans = NoAnswer /\ calls = 0

slurm_init == env.apid
alps_init == env.lib /\ env.apid

(* PMIx mode needs the info file; the utility's path is only put together.   *)
(* Failing that, PALS mode, for which libpals must load.                     *)
pals_init == env.pmix = "ok" \/ env.lib

flux_entry ==
    IF "layout" \notin env.files THEN None
    ELSE OwnEntry(LayoutFile, gethostname)

flux_init == flux_entry # None

wlm_init ==
    CASE env.wlm = "slurm" -> slurm_init
      [] env.wlm = "alps" -> alps_init
      [] env.wlm = "pals" -> pals_init
      [] env.wlm = "flux" -> flux_init
      [] env.wlm \in {"ssh", "localhost"} -> TRUE
      [] OTHER -> FALSE

(* _cti_be_init, for a process that has the guard and a supported WLM in its *)
(* environment; otherwise it returns at once.                                *)
cti_be_init ==
    /\ query = "idle" /\ ~isInit /\ env.guard /\ env.wlm # "none"
    /\ proto' = IF wlm_init THEN env.wlm ELSE "none"
    /\ isInit' = wlm_init
    /\ layout' = IF env.wlm = "flux" THEN flux_entry ELSE layout
    /\ UNCHANGED <<env, isFini, pids, attrs, tried, fallback, pmi, query, tcount, ans, calls>>

(* The constructor has run, with or without success, before the destructor. *)
Constructed == isInit \/ ~env.guard \/ ~wlm_init

(* A mutant: the function table is not reset. *)
cti_be_fini_Keeps ==
    /\ query = "idle" /\ ~isFini /\ Constructed
    /\ isFini' = TRUE
    /\ layout' = None /\ pids' = None /\ attrs' = None
    /\ UNCHANGED <<env, proto, isInit, tried, fallback, pmi, query, tcount, ans, calls>>

(* _cti_be_fini: the WLM's fini drops its caches, the function table is     *)
(* reset.  The statics inside the functions of pals_be.c stay.              *)
cti_be_fini ==
    /\ query = "idle" /\ ~isFini /\ Constructed
    /\ isFini' = TRUE
    /\ proto' = "none"
    /\ \/ /\ proto = "none"
          /\ UNCHANGED <<layout, pids, attrs>>
       \/ /\ proto # "none"
          /\ layout' = None /\ pids' = None /\ attrs' = None
    /\ UNCHANGED <<env, isInit, tried, fallback, pmi, query, tcount, ans, calls>>

(***************************************************************************)
(* Queries.                                                                *)
(***************************************************************************)
Answer(op, val, src) ==
    /\ ans' = [op |-> op, val |-> val, src |-> src]
    /\ calls' = calls + 1

Asking == query = "idle" /\ calls < MaxCalls

(* The own entry: the cached one, or the one found in the file. *)
slurm_getLayout ==
    IF layout # None THEN layout
    ELSE IF "layout" \notin env.files THEN None
    ELSE OwnEntry(LayoutFile, slurm_getNodeHostname)

ssh_getLayout ==
    IF layout # None THEN layout
    ELSE IF "layout" \notin env.files THEN None
    ELSE FindEntry(SelectSeq(LayoutFile, LAMBDA e : ssh_isOwnEntry(e, gethostname)))

GetLayout == IF proto = "slurm" THEN slurm_getLayout ELSE ssh_getLayout

GetPids ==
    IF pids # None THEN pids
    ELSE IF GetLayout = None \/ "pids" \notin env.files THEN None
    ELSE getPids(GetLayout, PidFile)

cti_be_getNodeHostname ==
    /\ Asking
    /\ Answer("getNodeHostname", Hostname, "names")
    /\ UNCHANGED <<env, lib, caches, pmi, query, tcount>>

FirstOf(entry) == IF entry = None THEN None ELSE entry.firstPE
CountOf(entry) == IF entry = None THEN None ELSE entry.PEsHere

(* slurm_be and generic_ssh_be: getNodeFirstPE, getNodePEs. *)
LayoutCounts ==
    /\ proto \in {"slurm", "ssh"}
    /\ layout' = GetLayout
    /\ \/ Answer("getNodeFirstPE", FirstOf(GetLayout), "layout")
       \/ Answer("getNodePEs", CountOf(GetLayout), "layout")
    /\ UNCHANGED <<pids, attrs, tried, fallback>>

flux_Counts ==
    /\ proto = "flux"
    /\ \/ Answer("getNodeFirstPE", FirstOf(layout), "layout")
       \/ Answer("getNodePEs", CountOf(layout), "layout")
    /\ UNCHANGED caches

(* _cti_be_alps_getPlacementInfo: what is cached, or what the external        *)
(* alps_get_placement_info gives, which may fail.                             *)
alps_getPlacementInfo ==
    IF layout # None THEN {layout}
    ELSE {None, Entry(NameOf[env.node], Cardinality(Mine), Min(Mine))}

alps_Counts ==
    /\ proto = "alps"
    /\ \E info \in alps_getPlacementInfo :
          /\ layout' = info
          /\ \/ Answer("getNodeFirstPE", FirstOf(info), "alps")
             \/ Answer("getNodePEs", CountOf(info), "alps")
    /\ UNCHANGED <<pids, attrs, tried, fallback>>

localhost_Counts ==
    /\ proto = "localhost"
    /\ \/ /\ Answer("getNodeFirstPE", 0, "localhost")
          /\ UNCHANGED pids
       \/ /\ pids' = IF "pids" \in env.files THEN RankPids(env.place, env.node) ELSE None
          /\ Answer("getNodePEs", IF pids' = None THEN None ELSE Cardinality(pids'), "localhost")
    /\ UNCHANGED <<layout, attrs, tried, fallback>>

(* _cti_pmix_try_get_nodeinfo_from_fallback: scanned at most once. *)
FromFallback ==
    IF fallback # None THEN fallback
    ELSE IF "ranks" \in tried \/ "ranks" \notin env.files THEN None
    ELSE FindEntry(SelectSeq(create_pmix_first_rank_file(env.place, env.long),
                             LAMBDA e : hostnames_match_by_prefix(e, gethostname)))

(* _cti_pmix_get_first_pe, _cti_pmix_get_num_pes: the rank file, else the   *)
(* utility (external), which needs the info file that init looked for.      *)
PmixEntry ==
    IF FromFallback # None THEN FromFallback
    ELSE IF env.pmix = "ok" THEN Entry(gethostname, Cardinality(Mine), Min(Mine))
    ELSE None

pals_Counts ==
    /\ proto = "pals"
    /\ \/ /\ env.pmix = "off"
          /\ \/ Answer("getNodeFirstPE", Min(Mine), "libpals")
             \/ Answer("getNodePEs", Cardinality(Mine), "libpals")
          /\ UNCHANGED <<tried, fallback>>
       \/ /\ env.pmix # "off"
          /\ \/ Answer("getNodeFirstPE", FirstOf(PmixEntry), "pmix")
             \/ Answer("getNodePEs", CountOf(PmixEntry), "pmix")
          /\ tried' = tried \cup {"ranks"}
          /\ fallback' = FromFallback
    /\ UNCHANGED <<layout, pids, attrs>>

none_Counts ==
    /\ proto = "none"
    /\ \E q \in {"getNodeFirstPE", "getNodePEs"} : Answer(q, None, "none")
    /\ UNCHANGED caches

cti_be_getNodeCounts ==
    /\ Asking
    /\ \/ LayoutCounts \/ flux_Counts \/ alps_Counts
       \/ localhost_Counts \/ pals_Counts \/ none_Counts
    /\ UNCHANGED <<env, lib, pmi, query, tcount>>

(* The list that comes from the files, at once. *)
FromFiles ==
    /\ layout' = IF pids = None THEN GetLayout ELSE layout
    /\ pids' = GetPids
    /\ Answer("findAppPids", GetPids, "files")
    /\ UNCHANGED <<attrs, tried, fallback, query, tcount>>

(* The list that comes from the pmi_attribs file: read before, or to be     *)
(* opened, with a timeout.                                                  *)
FromAttribs ==
    \/ /\ attrs # None
       /\ Answer("findAppPids", attrs, "attribs")
       /\ UNCHANGED <<caches, query, tcount>>
    \/ /\ attrs = None
       /\ query' = "open" /\ tcount' = 0
       /\ UNCHANGED <<caches, ans, calls>>

(* The pmi_attribs file is looked for in the tool directory, where it only is *)
(* when that is also the attributes directory (env.inTool); the pid file is   *)
(* preferred to waiting for it.                                               *)
slurm_findAppPids ==
    /\ proto = "slurm"
    /\ IF ~(env.inTool /\ pmi.made) /\ "pids" \in env.files THEN FromFiles ELSE FromAttribs

(* A failed getPids has kept the layout it found. *)
ssh_findAppPids ==
    /\ proto = "ssh"
    /\ \/ GetPids # None /\ FromFiles
       \/ /\ GetPids = None
          /\ layout' = GetLayout
          /\ \/ attrs # None /\ Answer("findAppPids", attrs, "attribs") /\ UNCHANGED <<query, tcount>>
             \/ attrs = None /\ query' = "open" /\ tcount' = 0 /\ UNCHANGED <<ans, calls>>
          /\ UNCHANGED <<pids, attrs, tried, fallback>>

(* A pid file that cannot be opened is reported, and read all the same: the   *)
(* process dies in fread.                                                     *)
flux_findAppPids ==
    /\ proto = "flux"
    /\ \/ /\ layout = None \/ "pids" \in env.files
          /\ Answer("findAppPids", IF layout = None THEN None ELSE getPids(layout, PidFile), "files")
          /\ UNCHANGED query
       \/ /\ layout # None /\ "pids" \notin env.files
          /\ query' = "crashed"
          /\ UNCHANGED <<ans, calls>>
    /\ UNCHANGED <<caches, tcount>>

alps_findAppPids == proto = "alps" /\ FromAttribs

localhost_findAppPids ==
    /\ proto = "localhost"
    /\ pids' = IF "pids" \in env.files THEN RankPids(env.place, env.node) ELSE None
    /\ Answer("findAppPids", pids', "localhost")
    /\ UNCHANGED <<layout, attrs, tried, fallback, query, tcount>>

getRanksFromFile ==
    LET entry == OwnEntry(LayoutFile, pals_getNodeHostname)
    IN IF "layout" \notin env.files \/ entry = None THEN None ELSE entry.pairs

(* _cti_get_pmi_attrs_no_retry tries the attributes once in the life of the  *)
(* process; without them the layout file answers.                            *)
pals_findAppPids ==
    /\ proto = "pals"
    /\ LET now == IF "attribs" \in tried THEN attrs
                  ELSE IF pmi.made THEN ReadAttribs ELSE None
       IN /\ attrs' = now
          /\ tried' = tried \cup {"attribs"}
          /\ Answer("findAppPids", IF now # None THEN now ELSE getRanksFromFile,
                    IF now # None THEN "attribs" ELSE "files")
    /\ UNCHANGED <<layout, pids, fallback, query, tcount>>

none_findAppPids ==
    /\ proto = "none"
    /\ Answer("findAppPids", None, "none")
    /\ UNCHANGED <<caches, query, tcount>>

cti_be_findAppPids ==
    /\ Asking
    /\ \/ slurm_findAppPids \/ ssh_findAppPids \/ flux_findAppPids \/ alps_findAppPids
       \/ localhost_findAppPids \/ pals_findAppPids \/ none_findAppPids
    /\ UNCHANGED <<env, lib, pmi>>

(* A mutant: the count of tries is not kept. *)
OpenAttribs_NoCount ==
    /\ query = "open"
    /\ IF pmi.made THEN query' = "read" ELSE query' = query
    /\ UNCHANGED <<env, lib, caches, pmi, tcount, ans, calls>>

(* One try to open the file, and the sleep after it. *)
OpenAttribs ==
    /\ query = "open"
    /\ \/ /\ pmi.made
          /\ query' = "read"
          /\ UNCHANGED <<tcount, ans, calls>>
       \/ /\ ~pmi.made /\ tcount < MaxTries
          /\ tcount' = tcount + 1
          /\ UNCHANGED <<query, ans, calls>>
       \/ /\ ~pmi.made /\ tcount = MaxTries
          /\ query' = "idle" /\ tcount' = 0
          /\ Answer("findAppPids", None, "attribs")
    /\ UNCHANGED <<env, lib, caches, pmi>>

(* After the extra sleep the file is read, however much of it is there. *)
ParseAttribs ==
    /\ query = "read"
    /\ attrs' = ReadAttribs
    /\ query' = "idle" /\ tcount' = 0
    /\ Answer("findAppPids", ReadAttribs, "attribs")
    /\ UNCHANGED <<env, lib, layout, pids, tried, fallback, pmi>>

Done ==
    /\ (query = "idle" /\ calls = MaxCalls) \/ query = "crashed"
    /\ UNCHANGED lvars

Library == cti_be_findAppPids \/ OpenAttribs \/ ParseAttribs
           \/ cti_be_getNodeHostname \/ cti_be_getNodeCounts

LNext == cti_be_init \/ cti_be_fini \/ Library \/ WriteAttribs \/ Done

LSpec == LInit /\ [][LNext]_lvars

(* A query in progress goes on: it is a loop in the tool's own thread. *)
LiveLSpec == LSpec /\ WF_lvars(OpenAttribs \/ ParseAttribs)

(***************************************************************************)
(* Properties.                                                             *)
(***************************************************************************)
(* The condition under which first PE and count of every node say where the  *)
(* tasks are: block placement in the order in which the frontend lists the   *)
(* nodes, components of a job that share no node, a second program of a step *)
(* on one node, and for the two libraries that compare beginnings of names   *)
(* only, no listed name that begins like the own one.                        *)
Carried ==
    LET before(order, n) == {order[i] : i \in {j \in DOMAIN order :
                                \E k \in DOMAIN order : order[k] = n /\ j < k}}
        used == Range(env.place)
    IN CASE env.wlm = "slurm" ->
              /\ Contiguous(env.place) /\ InOrder(env.place, ListOrder)
              /\ env.het = 0 \/ env.place[env.het - 1] # env.place[env.het]
              /\ env.again = 0 \/ \A n \in used :
                    LET low == Min(TasksOn(env.place, n)) IN low >= env.again => low = env.again
         [] env.wlm = "ssh" ->
              /\ Contiguous(env.place)
              /\ \A n \in used : IsStrictPrefix(NameOf[env.node], NameOf[n]) =>
                    Min(TasksOn(env.place, n)) > Min(Mine)
         [] env.wlm = "flux" -> Contiguous(env.place) /\ InOrder(env.place, MapOrder)
         [] env.wlm = "pals" ->
              "ranks" \in env.files /\ env.pmix # "off" =>
                \A n \in before(MapOrder, env.node) \cap used : ~IsPrefix(NameOf[n], NameOf[env.node])
         [] OTHER -> TRUE

(* findAppPids reports the tasks of this node and no others, by rank and pid, *)
(* from whichever source it takes them; after a read in the middle of the     *)
(* write the last pid may be cut.  PALS ships the pairs themselves and needs  *)
(* no condition.                                                              *)
ReportsOwnTasks ==
    (ans.op = "findAppPids" /\ ans.val # None /\ (ans.src = "files" => Carried \/ env.wlm = "pals")) =>
        /\ {p.rank : p \in ans.val} = Mine
        /\ ans.src # "attribs" => ans.val = RankPids(env.place, env.node)

(* A list from the pmi_attribs file has every rank of the node, however the  *)
(* read falls into the write of the file; only the last pid can be wrong.    *)
AttribsWhole ==
    attrs # None =>
        /\ {p.rank : p \in attrs} = Mine
        /\ \A p, q \in attrs \ RankPids(env.place, env.node) : p = q /\ p.rank = Max(Mine)

(* getNodeFirstPE and getNodePEs give the lowest rank and the number of tasks *)
(* of this node when they answer.                                             *)
CountsRight ==
    Carried /\ ans.val # None =>
        /\ ans.op = "getNodeFirstPE" => ans.val = Min(Mine)
        /\ ans.op = "getNodePEs" => ans.val = Cardinality(Mine)

(* Nothing is answered from the libraries of a WLM that has not started, or  *)
(* after the destructor: neither a second constructor nor a late query brings *)
(* back functions whose state was freed.                                     *)
OnlyStartedAnswers ==
    [][calls' # calls /\ ans'.val # None => isInit /\ ~isFini]_lvars

(* A call of findAppPids that waits for the pmi_attribs file returns, whether  *)
(* or not the file ever appears.                                              *)
FindReturns == query \in {"open", "read"} ~> query = "idle"
=============================================================================
