------------------------------ MODULE Transfer ------------------------------
(***************************************************************************)
(* What a session ships: frontend/transfer/Session.cpp and Manifest.cpp.   *)
(* A tool fills manifests with binaries, libraries and files; shipping one *)
(* merges it into the session's record of shipped files, leaves out what   *)
(* the record has already, and sends the rest to the compute nodes.        *)
(*                                                                         *)
(* A source file is a member of Files.  Its place in the stage directory,  *)
(* a slot, is <<folder, base name>>.  Folders and names are numbers, in    *)
(* the order in which std::map iterates over them.  Every call holds the   *)
(* library's lock, so a call is one step, also when it throws half way.    *)
(* m_folders of the session is written and never read, and left out.       *)
(***************************************************************************)
EXTENDS Naturals, Sequences, FiniteSets

CONSTANTS
    Files,          \* source files, by canonical path
    None,           \* no source
    Binaries, Libraries, LibDirs, Plain, \* what tools pass to the add calls
    NameOf,         \* the base name of a file
    Deps,           \* the libraries that a file needs
    Extra,          \* what the application adds to a session: <<folder, file>>
    MaxManifests,   \* bound on the manifests of the session
    MaxEntries      \* bound on the entries of a manifest to which more are added

\* The loader resolves a library name once, so the libraries of one file differ
\* in their names; so do the files of the application and their libraries.
ASSUME TransferAssumption ==
    /\ None \notin Files
    /\ Binaries \cup Libraries \cup LibDirs \cup Plain \subseteq Files
    /\ NameOf \in [Files -> Nat]
    /\ Deps \in [Files -> SUBSET Files]
    /\ Extra \subseteq {0, 1, 2} \X Files
    /\ MaxManifests \in Nat /\ MaxEntries \in Nat
    /\ \A f \in Files : \A d, e \in Deps[f] : NameOf[d] = NameOf[e] => d = e
    /\ \A d, e \in {x[2] : x \in Extra} \cup UNION {Deps[x[2]] : x \in Extra} :
           NameOf[d] = NameOf[e] => d = e

Manifests == 1 .. MaxManifests
Names == {NameOf[f] : f \in Files}

\* The stage directory itself, bin, lib, and lib.<m> for the libraries of
\* manifest m that have no place in lib.
top == 0
bin == 1
lib == 2
override(m) == 2 + m

Slots == (0 .. 2 + MaxManifests) \X Names
Slot(folder, f) == <<folder, NameOf[f]>>
Precedes(s, t) == s[1] < t[1] \/ (s[1] = t[1] /\ s[2] < t[2])

VARIABLES
    manifestCnt,      \* m_manifestCnt
    open,             \* m_manifests: the manifests that can still be changed
    mani,             \* what they hold
    addRequirements,  \* m_add_requirements
    sourcePaths,      \* the session's m_sourcePaths: which source a slot has
    ldLibraryPath,    \* the manifests whose override folder is on it
    remote,           \* the stage directory of the nodes: slot to source
    failed            \* history: a manifest was merged and not shipped in full

session == <<addRequirements, sourcePaths, ldLibraryPath, remote, failed>>
vars == <<manifestCnt, open, mani, session>>

\* m_folders and m_sourcePaths of a manifest; the latter goes by base name.
Empty == [folders |-> {}, sources |-> [x \in Names |-> None]]

Init ==
    /\ manifestCnt = 0 /\ open = {}
    /\ mani = [m \in Manifests |-> Empty]
    /\ addRequirements = TRUE
    /\ sourcePaths = [s \in Slots |-> None] /\ ldLibraryPath = <<>>
    /\ remote = [s \in Slots |-> None] /\ failed = FALSE

-----------------------------------------------------------------------------
(***************************************************************************)
(* Filling a manifest.  A call that throws at once changes nothing.        *)
(***************************************************************************)

\* getSourcePath: the session shipped another file to this slot.
Conflict(folder, f) == sourcePaths[Slot(folder, f)] \notin {None, f}

\* The end of checkAndAdd, for files F with different names.
Placed(r, slots, F) ==
    [folders |-> r.folders \cup slots,
     sources |-> [x \in Names |->
                     IF \E f \in F : NameOf[f] = x THEN CHOOSE f \in F : NameOf[f] = x
                                               ELSE r.sources[x]]]

\* addLibrary for a library found as a dependency: to lib, or where that
\* conflicts to the override folder.
addLibDeps(m, r, D) ==
    Placed(r, {Slot(IF Conflict(lib, d) THEN override(m) ELSE lib, d) : d \in D}, D)

\* checkAndAdd, where it does not conflict.
checkAndAdd(r, folder, f) == Placed(r, {Slot(folder, f)}, {f})

\* enforceValid, and the bound.
Modifiable(m) == m \in open /\ Cardinality(mani[m].folders) <= MaxEntries

createManifest ==
    /\ manifestCnt < MaxManifests
    /\ manifestCnt' = manifestCnt + 1
    /\ open' = open \cup {manifestCnt'}
    /\ UNCHANGED <<mani, session>>

\* Dependencies are added one by one, until one cannot be found.
addBinary(m, f) ==
    /\ Modifiable(m) /\ ~Conflict(bin, f)
    /\ \E D \in SUBSET Deps[f] :
           mani' = [mani EXCEPT ![m] = addLibDeps(m, checkAndAdd(@, bin, f), D)]
    /\ UNCHANGED <<manifestCnt, open, session>>

addLibrary(m, f) ==
    /\ Modifiable(m) /\ ~Conflict(lib, f)
    /\ \E D \in SUBSET Deps[f] :
           mani' = [mani EXCEPT ![m] = addLibDeps(m, checkAndAdd(@, lib, f), D)]
    /\ UNCHANGED <<manifestCnt, open, session>>

addLibDir(m, f) ==
    /\ Modifiable(m) /\ ~Conflict(lib, f)
    /\ mani' = [mani EXCEPT ![m] = checkAndAdd(@, lib, f)]
    /\ UNCHANGED <<manifestCnt, open, session>>

addFile(m, f) ==
    /\ Modifiable(m) /\ ~Conflict(top, f)
    /\ mani' = [mani EXCEPT ![m] = checkAndAdd(@, top, f)]
    /\ UNCHANGED <<manifestCnt, open, session>>

-----------------------------------------------------------------------------
(***************************************************************************)
(* Shipping manifest m, whose contents are r.                              *)
(***************************************************************************)

\* The first manifest takes along what the application needs: E of Extra and
\* the libraries D.
Requirements(m, r, E, D) ==
    addLibDeps(m, Placed(r, {Slot(e[1], e[2]) : e \in E}, {e[2] : e \in E}), D)

\* The libraries of its binaries and libraries; addFile looks for none.
LibsOf(E) == UNION {Deps[e[2]] : e \in {x \in E : x[1] # top}}

\* Mutant of RequirementsThrow: the requirements are not tried again.
RequirementsThrow_Once(m, r) ==
    /\ addRequirements /\ addRequirements' = FALSE
    /\ mani' = [mani EXCEPT ![m] = r]
    /\ UNCHANGED <<manifestCnt, open, sourcePaths, ldLibraryPath, remote, failed>>

\* One of them cannot be added: the manifest stays open, with some.
RequirementsThrow(m, r) ==
    /\ addRequirements
    /\ \E E \in SUBSET Extra, D \in SUBSET LibsOf(Extra) :
           mani' = [mani EXCEPT ![m] = Requirements(m, r, E, D)]
    /\ UNCHANGED <<manifestCnt, open, session>>

\* mergeTransfered: slots that are new to the session, that it has from the
\* same source, and that it has from another one.
New(r)     == {s \in r.folders : sourcePaths[s] = None}
ToRemove(r) == {s \in r.folders : sourcePaths[s] = r.sources[s[2]]}

\* Mutant of Clashes: a slot that is in the session is never in conflict.
Clashes_None(r) == {}

Clashes(r) == {s \in r.folders : sourcePaths[s] \notin {None, r.sources[s[2]]}}

\* Put the sources of r for the slots S over what p has.
Over(p, r, S) == [s \in Slots |-> IF s \in S THEN r.sources[s[2]] ELSE p[s]]

\* Mutant of Archived: files of the stage directory itself are forgotten.
Archived_NoTop(r) ==
    {s \in r.folders \ ToRemove(r) : s[1] # top /\ \A t \in ToRemove(r) : t[2] # s[2]}

\* What goes into the archive.  A duplicate takes its name out of sources, and
\* a slot whose name is not in sources is skipped, whatever its folder.
Archived(r) ==
    {s \in r.folders \ ToRemove(r) : \A t \in ToRemove(r) : t[2] # s[2]}

\* Mutant of Searched: the override folder is not searched.
Searched_Same(m, r) == ldLibraryPath

\* The library path, with the override folder of m in front.
Searched(m, r) ==
    IF \E s \in r.folders : s[1] = override(m)
    THEN <<m>> \o ldLibraryPath ELSE ldLibraryPath

removeManifest(m) ==
    /\ open' = open \ {m}
    /\ mani' = [mani EXCEPT ![m] = Empty]

\* The first conflict ends the merge, and so does a new file that is no longer
\* there (realpath); what came before it stays recorded.
MergeThrows(m, r) ==
    \E c \in Clashes(r) \cup New(r) :
        LET Before == {s \in New(r) : Precedes(s, c)} IN
        /\ \A d \in Clashes(r) : ~Precedes(d, c)
        /\ removeManifest(m)
        /\ addRequirements' = FALSE
        /\ sourcePaths' = Over(sourcePaths, r, Before)
        /\ failed' = (failed \/ Before # {} \/ c \in New(r))
        /\ UNCHANGED <<manifestCnt, ldLibraryPath, remote>>

\* The archive is made, sent and unpacked; when one of these steps fails, some
\* or none of it is on the nodes.
MergeAndSend(m, r) ==
    /\ Clashes(r) = {}
    /\ removeManifest(m)
    /\ addRequirements' = FALSE
    /\ sourcePaths' = Over(sourcePaths, r, New(r))
    /\ ldLibraryPath' = Searched(m, r)
    /\ \E U \in SUBSET Archived(r) :
           /\ remote' = Over(remote, r, U)
           /\ failed' = (failed \/ U # Archived(r))
    /\ UNCHANGED manifestCnt

shipManifest(m, r) ==
    LET full == IF addRequirements THEN Requirements(m, r, Extra, LibsOf(Extra)) ELSE r
    IN  \/ RequirementsThrow(m, r)
        \/ MergeThrows(m, full)
        \/ MergeAndSend(m, full)

sendManifest(m) ==
    /\ m \in open
    /\ IF mani[m].folders = {}
       THEN removeManifest(m) /\ UNCHANGED <<manifestCnt, session>>
       ELSE shipManifest(m, mani[m])

\* The tool f goes into the manifest first.
execManifest(m, f) ==
    /\ m \in open /\ ~Conflict(bin, f)
    /\ shipManifest(m, addLibDeps(m, checkAndAdd(mani[m], bin, f), Deps[f]))

Next ==
    \/ createManifest
    \/ \E m \in Manifests :
           \/ sendManifest(m)
           \/ \E f \in Binaries : addBinary(m, f) \/ execManifest(m, f)
           \/ \E f \in Libraries : addLibrary(m, f)
           \/ \E f \in LibDirs : addLibDir(m, f)
           \/ \E f \in Plain : addFile(m, f)

Spec == Init /\ [][Next]_vars

-----------------------------------------------------------------------------
(***************************************************************************)
(* Properties                                                              *)
(***************************************************************************)

\* Every variable has its type, only manifests created and not shipped are
\* open, and every slot of a manifest has a source and is in its own folders.
TypeOK ==
    /\ manifestCnt \in 0 .. MaxManifests
    /\ open \subseteq 1 .. manifestCnt
    /\ mani \in [Manifests -> [folders : SUBSET Slots,
                               sources : [Names -> Files \cup {None}]]]
    /\ \A m \in Manifests : \A s \in mani[m].folders :
           mani[m].sources[s[2]] # None /\ s[1] \in {top, bin, lib, override(m)}
    /\ addRequirements \in BOOLEAN
    /\ sourcePaths \in [Slots -> Files \cup {None}]
    /\ ldLibraryPath \in Seq(Manifests)
    /\ remote \in [Slots -> Files \cup {None}]
    /\ failed \in BOOLEAN

\* The session's record never lies about what is on the nodes: a file in the
\* stage directory comes from the source that the conflict test compares with.
RemoteAsRecorded ==
    \A s \in Slots : remote[s] # None => remote[s] = sourcePaths[s]

\* A file that tools on the nodes may be using is never replaced.
NeverReplaced ==
    [][\A s \in Slots : remote[s] # None => remote'[s] = remote[s]]_vars

\* A recorded file that never reached the nodes (and never will: later
\* manifests leave it out) has one of two causes: a manifest that failed after
\* it was recorded, or a file of the same name in another folder.
MissingExplained ==
    failed \/ \A s \in Slots : sourcePaths[s] # None /\ remote[s] = None =>
        \E t \in Slots : t # s /\ t[2] = s[2] /\ remote[t] # None

\* Every override folder on the nodes is on the library path that the session
\* gives to all its later tool daemons.
OverrideSearched ==
    \A m \in Manifests : \A s \in Slots : s[1] = override(m) /\ remote[s] # None =>
        \E n \in 1 .. Len(ldLibraryPath) : ldLibraryPath[n] = m

\* What the application needs is with the first files on the nodes, whichever
\* calls failed before the merge of their manifest.
RequirementsShipped ==
    ~failed /\ (\E s \in Slots : remote[s] # None) =>
        \A e \in Extra : remote[Slot(e[1], e[2])] = e[2]

=============================================================================
