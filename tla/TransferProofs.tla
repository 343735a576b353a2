--------------------------- MODULE TransferProofs ---------------------------
(***************************************************************************)
(* Proofs about module Transfer, for any files, any number of manifests    *)
(* and any contents: the session's record of shipped files agrees with the *)
(* nodes, and what is missing there has a known cause.                     *)
(*                                                                         *)
(* What a manifest holds matters in one respect only, Good: each of its    *)
(* slots has a source and is in a folder of the manifest.  That is kept by *)
(* everything that fills a manifest, so the proof about shipping speaks of *)
(* any good contents r.                                                    *)
(***************************************************************************)
EXTENDS Transfer, TLAPS

Contents == [folders : SUBSET Slots, sources : [Names -> Files \cup {None}]]

Good(m, r) ==
    /\ r \in Contents
    /\ \A s \in r.folders :
           r.sources[s[2]] # None /\ s[1] \in {top, bin, lib, override(m)}

\* Until the requirements went with a manifest, nothing is recorded; from then
\* on they are on the nodes, unless something failed.
Recorded ==
    /\ addRequirements => \A s \in Slots : sourcePaths[s] = None
    /\ ~addRequirements /\ ~failed =>
           \A e \in Extra : remote[Slot(e[1], e[2])] = e[2]

Inv ==
    /\ TypeOK /\ RemoteAsRecorded /\ MissingExplained /\ OverrideSearched
    /\ Recorded

-----------------------------------------------------------------------------
\* Slots of files are slots.
LEMMA SlotType ==
    ASSUME NEW f \in Files, NEW m \in Manifests
    PROVE  /\ Slot(top, f) \in Slots /\ Slot(bin, f) \in Slots
           /\ Slot(lib, f) \in Slots /\ Slot(override(m), f) \in Slots
<1>1. /\ NameOf[f] \in Names /\ MaxManifests \in Nat
      /\ {0, 1, 2, 2 + m} \subseteq 0 .. 2 + MaxManifests
  BY TransferAssumption DEF Names, Manifests
<1> QED BY <1>1 DEF Slot, Slots, top, bin, lib, override

\* checkAndAdd keeps contents good, for slots that files of F name.
LEMMA PlacedGood ==
    ASSUME NEW m \in Manifests, NEW r, Good(m, r), NEW S \in SUBSET Slots,
           NEW F \in SUBSET Files,
           \A s \in S : \E f \in F : NameOf[f] = s[2],
           \A s \in S : s[1] \in {top, bin, lib, override(m)}
    PROVE  Good(m, Placed(r, S, F))
<1> DEFINE src == [x \in Names |-> IF \E f \in F : NameOf[f] = x
                                   THEN CHOOSE f \in F : NameOf[f] = x
                                   ELSE r.sources[x]]
<1>1. /\ Placed(r, S, F) = [folders |-> r.folders \cup S, sources |-> src]
      /\ Placed(r, S, F).folders = r.folders \cup S
      /\ Placed(r, S, F).sources = src
  BY DEF Placed
<1>2. r.folders \subseteq Slots /\ r.sources \in [Names -> Files \cup {None}]
  BY DEF Good, Contents
<1>3. \A x \in Names : (\E f \in F : NameOf[f] = x) => src[x] \in F
  OBVIOUS
<1>4. \A x \in Names : ~(\E f \in F : NameOf[f] = x) => src[x] = r.sources[x]
  OBVIOUS
<1>5. src \in [Names -> Files \cup {None}]
  <2>1. \A x \in Names : src[x] \in Files \cup {None}
    BY <1>2, <1>3, <1>4
  <2> QED BY <2>1
<1>6. \A s \in r.folders \cup S : src[s[2]] # None
  <2> SUFFICES ASSUME NEW s \in r.folders \cup S PROVE src[s[2]] # None
    OBVIOUS
  <2>1. s[2] \in Names
    BY <1>2 DEF Slots
  <2>2. CASE \E f \in F : NameOf[f] = s[2]
    BY <1>3, <2>1, <2>2, TransferAssumption
  <2>3. CASE ~\E f \in F : NameOf[f] = s[2]
    <3>1. s \in r.folders BY <2>3
    <3> QED BY <1>4, <2>1, <2>3, <3>1 DEF Good
  <2> QED BY <2>2, <2>3
<1> HIDE DEF src
<1> QED BY <1>1, <1>2, <1>5, <1>6 DEF Good, Contents

\* Adding one file keeps contents good.
LEMMA CheckGood ==
    ASSUME NEW m \in Manifests, NEW r, Good(m, r), NEW f \in Files,
           NEW folder \in {top, bin, lib}
    PROVE  Good(m, checkAndAdd(r, folder, f))
<1>1. {Slot(folder, f)} \in SUBSET Slots
  BY SlotType
<1>2. \A s \in {Slot(folder, f)} : \E g \in {f} : NameOf[g] = s[2]
  BY DEF Slot
<1>3. \A s \in {Slot(folder, f)} : s[1] \in {top, bin, lib, override(m)}
  BY DEF Slot
<1> QED BY <1>1, <1>2, <1>3, PlacedGood DEF checkAndAdd

\* Adding libraries found as dependencies keeps contents good.
LEMMA DepsGood ==
    ASSUME NEW m \in Manifests, NEW r, Good(m, r), NEW D \in SUBSET Files
    PROVE  Good(m, addLibDeps(m, r, D))
<1> DEFINE S == {Slot(IF Conflict(lib, d) THEN override(m) ELSE lib, d) : d \in D}
<1>1. S \in SUBSET Slots
  BY SlotType
<1>2. \A s \in S : \E d \in D : NameOf[d] = s[2]
  BY DEF Slot
<1>3. \A s \in S : s[1] \in {top, bin, lib, override(m)}
  BY DEF Slot
<1> QED BY <1>1, <1>2, <1>3, PlacedGood DEF addLibDeps

\* A member of Extra is a folder and a file, and names a slot.
LEMMA ExtraType ==
    ASSUME NEW e \in Extra
    PROVE  /\ e[1] \in {top, bin, lib} /\ e[2] \in Files /\ e[2] # None
           /\ NameOf[e[2]] \in Names
           /\ Slot(e[1], e[2]) \in Slots
           /\ Slot(e[1], e[2])[1] = e[1] /\ Slot(e[1], e[2])[2] = NameOf[e[2]]
<1>1. e[1] \in {0, 1, 2} /\ e[2] \in Files /\ None \notin Files
  BY TransferAssumption
<1>2. NameOf[e[2]] \in Names
  BY <1>1 DEF Names
<1>3. e[1] \in 0 .. 2 + MaxManifests
  BY <1>1, TransferAssumption
<1> QED BY <1>1, <1>2, <1>3 DEF top, bin, lib, Slot, Slots

\* The libraries of the requirements are files.
LEMMA LibsOfType == LibsOf(Extra) \in SUBSET Files
<1>1. \A e \in Extra : Deps[e[2]] \in SUBSET Files
  BY ExtraType, TransferAssumption
<1> QED BY <1>1 DEF LibsOf

\* Adding the requirements keeps contents good.
LEMMA RequirementsGood ==
    ASSUME NEW m \in Manifests, NEW r, Good(m, r), NEW E \in SUBSET Extra,
           NEW D \in SUBSET LibsOf(Extra)
    PROVE  Good(m, Requirements(m, r, E, D))
<1> DEFINE S == {Slot(e[1], e[2]) : e \in E}
           F == {e[2] : e \in E}
<1>1. F \in SUBSET Files /\ D \in SUBSET Files
  BY ExtraType, LibsOfType
<1>2. S \in SUBSET Slots
  BY ExtraType
<1>3. \A s \in S : \E f \in F : NameOf[f] = s[2]
  BY ExtraType
<1>4. \A s \in S : s[1] \in {top, bin, lib, override(m)}
  BY ExtraType
<1>5. Good(m, Placed(r, S, F))
  BY <1>1, <1>2, <1>3, <1>4, PlacedGood, Zenon
<1> QED BY <1>1, <1>5, DepsGood DEF Requirements

\* The requirements are in the contents that ship first, each with its source.
LEMMA RequirementsHeld ==
    ASSUME NEW m \in Manifests, NEW r, Good(m, r), NEW x \in Extra
    PROVE  LET q == Requirements(m, r, Extra, LibsOf(Extra))
           IN  Slot(x[1], x[2]) \in q.folders /\ q.sources[NameOf[x[2]]] = x[2]
<1> DEFINE D == LibsOf(Extra)
           F == {e[2] : e \in Extra}
           S == {Slot(e[1], e[2]) : e \in Extra}
           p == Placed(r, S, F)
           q == addLibDeps(m, p, D)
           f == x[2]
<1>1. f \in Files /\ NameOf[f] \in Names /\ f \in F
  BY ExtraType
<1>2. \A d, e \in F \cup D : NameOf[d] = NameOf[e] => d = e
  <2>1. D \subseteq UNION {Deps[e[2]] : e \in Extra}
    BY DEF LibsOf
  <2> QED BY <2>1, TransferAssumption
<1> HIDE DEF D, F
<1>3. p.folders = r.folders \cup S /\ p.sources[NameOf[f]] = f
  <2>1. \A g \in F : NameOf[g] = NameOf[f] => g = f
    BY <1>1, <1>2
  <2>2. (CHOOSE g \in F : NameOf[g] = NameOf[f]) = f
    BY <1>1, <2>1
  <2> QED BY <1>1, <2>2, Zenon DEF Placed
<1>4. q.folders = p.folders \cup
          {Slot(IF Conflict(lib, d) THEN override(m) ELSE lib, d) : d \in D}
  BY DEF addLibDeps, Placed
<1>5. q.sources[NameOf[f]] = IF \E d \in D : NameOf[d] = NameOf[f]
                             THEN CHOOSE d \in D : NameOf[d] = NameOf[f]
                             ELSE p.sources[NameOf[f]]
  BY <1>1, Zenon DEF addLibDeps, Placed
<1>6. q.sources[NameOf[f]] = f
  <2>1. CASE \E d \in D : NameOf[d] = NameOf[f]
    <3>1. \A d \in D : NameOf[d] = NameOf[f] => d = f
      BY <1>1, <1>2
    <3>2. (CHOOSE d \in D : NameOf[d] = NameOf[f]) = f
      BY <2>1, <3>1
    <3> QED BY <1>5, <2>1, <3>2, Zenon
  <2>2. CASE ~\E d \in D : NameOf[d] = NameOf[f]
    BY <1>3, <1>5, <2>2
  <2> QED BY <2>1, <2>2
<1>7. Slot(x[1], x[2]) \in q.folders
  BY <1>3, <1>4
<1>8. Requirements(m, r, Extra, LibsOf(Extra)) = q
  BY DEF Requirements, D, F
<1> HIDE DEF q
<1> QED BY <1>6, <1>7, <1>8

-----------------------------------------------------------------------------
\* The initial state has no manifest and no file.
LEMMA InvInit == Init => Inv
<1> SUFFICES ASSUME Init PROVE Inv
  OBVIOUS
<1>1. TypeOK
  <2>1. Empty \in Contents /\ Empty.folders = {}
    BY DEF Empty, Contents
  <2>2. manifestCnt \in 0 .. MaxManifests
    BY TransferAssumption DEF Init
  <2>3. mani \in [Manifests -> Contents] /\ \A m \in Manifests : mani[m].folders = {}
    BY <2>1 DEF Init
  <2>4. ldLibraryPath \in Seq(Manifests)
    BY DEF Init
  <2>5. /\ sourcePaths \in [Slots -> Files \cup {None}]
        /\ remote \in [Slots -> Files \cup {None}]
    BY DEF Init
  <2>6. addRequirements \in BOOLEAN /\ failed \in BOOLEAN /\ open \subseteq 1 .. manifestCnt
    BY Zenon DEF Init
  <2> QED BY <2>2, <2>3, <2>4, <2>5, <2>6 DEF TypeOK, Contents
<1>2. RemoteAsRecorded /\ MissingExplained /\ OverrideSearched /\ Recorded
  BY DEF Init, RemoteAsRecorded, MissingExplained, OverrideSearched, Recorded
<1> QED BY <1>1, <1>2 DEF Inv

\* Contents of a manifest are good.
LEMMA ManiGood ==
    ASSUME TypeOK, NEW m \in Manifests
    PROVE  Good(m, mani[m])
BY DEF TypeOK, Good, Contents

\* A step that gives one manifest new good contents and leaves the session
\* alone keeps the invariant.
LEMMA InvFill ==
    ASSUME Inv, NEW m \in Manifests, NEW r, Good(m, r), mani' = [mani EXCEPT ![m] = r],
           UNCHANGED <<manifestCnt, open, session>>
    PROVE  Inv'
<1>1. TypeOK'
  BY DEF Inv, TypeOK, Good, Contents, session
<1>2. UNCHANGED <<addRequirements, sourcePaths, ldLibraryPath, remote, failed>>
  BY DEF session
<1> QED BY <1>1, <1>2 DEF Inv, RemoteAsRecorded, MissingExplained, OverrideSearched,
        Recorded

\* What Over records.
LEMMA OverType ==
    ASSUME NEW p \in [Slots -> Files \cup {None}], NEW m \in Manifests, NEW r, Good(m, r),
           NEW S \in SUBSET r.folders
    PROVE  /\ Over(p, r, S) \in [Slots -> Files \cup {None}]
           /\ \A s \in S : Over(p, r, S)[s] = r.sources[s[2]] /\ Over(p, r, S)[s] # None
           /\ \A s \in Slots \ S : Over(p, r, S)[s] = p[s]
<1>1. /\ r.folders \subseteq Slots /\ r.sources \in [Names -> Files \cup {None}]
      /\ \A s \in Slots : s[2] \in Names
  BY DEF Good, Contents, Slots
<1> QED BY <1>1 DEF Over, Good

\* A manifest that is dropped is empty and no longer open.
LEMMA RemoveType ==
    ASSUME TypeOK, NEW m \in Manifests, removeManifest(m), UNCHANGED manifestCnt,
           addRequirements' \in BOOLEAN, failed' \in BOOLEAN,
           sourcePaths' \in [Slots -> Files \cup {None}],
           remote' \in [Slots -> Files \cup {None}],
           ldLibraryPath' \in Seq(Manifests)
    PROVE  TypeOK'
<1>1. Empty \in Contents /\ Empty.folders = {}
  BY DEF Empty, Contents
<1>2. /\ mani' \in [Manifests -> Contents]
      /\ \A e \in Manifests : mani'[e] = mani[e] \/ mani'[e].folders = {}
  BY <1>1 DEF removeManifest, TypeOK, Contents
<1>3. \A e \in Manifests : \A s \in mani'[e].folders :
          mani'[e].sources[s[2]] # None /\ s[1] \in {top, bin, lib, override(e)}
  BY <1>2 DEF TypeOK
<1>4. open' \subseteq 1 .. manifestCnt' /\ manifestCnt' \in 0 .. MaxManifests
  BY Zenon DEF TypeOK, removeManifest
<1> QED BY <1>2, <1>3, <1>4 DEF TypeOK, Contents

\* A merge that throws records some new slots and ships nothing.
LEMMA InvMergeThrows ==
    ASSUME Inv, NEW m \in Manifests, NEW r, Good(m, r), MergeThrows(m, r)
    PROVE  Inv' /\ remote' = remote
<1>1. PICK c \in Clashes(r) \cup New(r) :
          LET Before == {s \in New(r) : Precedes(s, c)} IN
          /\ removeManifest(m)
          /\ addRequirements' = FALSE
          /\ sourcePaths' = Over(sourcePaths, r, Before)
          /\ failed' = (failed \/ Before # {} \/ c \in New(r))
          /\ UNCHANGED <<manifestCnt, ldLibraryPath, remote>>
  BY Zenon DEF MergeThrows
<1> DEFINE B == {s \in New(r) : Precedes(s, c)}
<1>2. /\ sourcePaths' = Over(sourcePaths, r, B)
      /\ failed' = (failed \/ B # {} \/ c \in New(r))
      /\ UNCHANGED <<manifestCnt, ldLibraryPath, remote>>
  BY <1>1
<1>3. B \in SUBSET r.folders /\ \A s \in B : sourcePaths[s] = None
  BY DEF New
<1> HIDE DEF B
<1>4. /\ sourcePaths \in [Slots -> Files \cup {None}]
      /\ remote \in [Slots -> Files \cup {None}]
      /\ ldLibraryPath \in Seq(Manifests) /\ failed \in BOOLEAN
  BY DEF Inv, TypeOK
<1>5. /\ sourcePaths' \in [Slots -> Files \cup {None}]
      /\ \A s \in Slots \ B : sourcePaths'[s] = sourcePaths[s]
  BY <1>2, <1>3, <1>4, OverType
<1>6. TypeOK'
  <2>1. failed' \in BOOLEAN
    BY <1>2
  <2> QED BY <1>1, <1>2, <1>4, <1>5, <2>1, RemoveType, Zenon DEF Inv
<1>7. RemoteAsRecorded'
  BY <1>2, <1>3, <1>5 DEF Inv, RemoteAsRecorded
<1>8. MissingExplained'
  <2>1. CASE B # {}
    BY <1>2, <2>1, Zenon DEF MissingExplained
  <2>2. CASE B = {}
    <3>1. \A s \in Slots : sourcePaths'[s] = sourcePaths[s]
      BY <1>5, <2>2
    <3>2. failed => failed'
      BY <1>2, Zenon
    <3>3. UNCHANGED remote
      BY <1>2
    <3> QED BY <3>1, <3>2, <3>3 DEF Inv, MissingExplained
  <2> QED BY <2>1, <2>2
<1>9. OverrideSearched'
  BY <1>2 DEF Inv, OverrideSearched
<1>10. Recorded'
  <2> SUFFICES ASSUME ~failed', NEW e \in Extra PROVE remote'[Slot(e[1], e[2])] = e[2]
    BY <1>1 DEF Recorded
  <2>1. ~failed /\ c \in Clashes(r)
    BY <1>2, Zenon
  <2>2. c \in Slots /\ sourcePaths[c] # None
    BY <2>1 DEF Clashes, Good, Contents
  <2>3. ~addRequirements
    BY <2>2 DEF Inv, Recorded
  <2> QED BY <1>2, <2>1, <2>3 DEF Inv, Recorded
<1> QED BY <1>2, <1>6, <1>7, <1>8, <1>9, <1>10 DEF Inv

\* A manifest without conflict: the archive holds new slots only, and a new slot
\* that it leaves out shares its name with a duplicate.
LEMMA InvMergeAndSend ==
    ASSUME Inv, NEW m \in Manifests, NEW r, Good(m, r), MergeAndSend(m, r),
           addRequirements => \A e \in Extra : /\ Slot(e[1], e[2]) \in r.folders
                                              /\ r.sources[NameOf[e[2]]] = e[2]
    PROVE  /\ Inv'
           /\ \A s \in Slots : remote[s] # None => remote'[s] = remote[s]
<1> DEFINE N == New(r)
           A == Archived(r)
           R == ToRemove(r)
<1>1. /\ Clashes(r) = {} /\ removeManifest(m) /\ addRequirements' = FALSE
      /\ sourcePaths' = Over(sourcePaths, r, N)
      /\ ldLibraryPath' = Searched(m, r) /\ UNCHANGED manifestCnt
  BY DEF MergeAndSend
<1>2. PICK U \in SUBSET A : /\ remote' = Over(remote, r, U)
                           /\ failed' = (failed \/ U # A)
  BY DEF MergeAndSend
<1>3. /\ N \in SUBSET r.folders /\ R \in SUBSET r.folders /\ A \in SUBSET r.folders
      /\ r.folders \subseteq Slots
  BY DEF New, ToRemove, Archived, Good, Contents
<1>4. /\ \A s \in N : sourcePaths[s] = None
      /\ \A s \in R : sourcePaths[s] # None
      /\ A \subseteq N
      /\ \A s \in N \ A : \E t \in R : t[2] = s[2]
  BY <1>1, Zenon DEF New, ToRemove, Archived, Clashes, Good
<1>5. /\ sourcePaths \in [Slots -> Files \cup {None}]
      /\ remote \in [Slots -> Files \cup {None}]
      /\ ldLibraryPath \in Seq(Manifests) /\ failed \in BOOLEAN
  BY DEF Inv, TypeOK
<1>6. /\ sourcePaths' \in [Slots -> Files \cup {None}]
      /\ \A s \in N : sourcePaths'[s] = r.sources[s[2]] /\ sourcePaths'[s] # None
      /\ \A s \in Slots \ N : sourcePaths'[s] = sourcePaths[s]
  BY <1>1, <1>3, <1>5, OverType
<1>7. /\ remote' \in [Slots -> Files \cup {None}]
      /\ \A s \in U : remote'[s] = r.sources[s[2]] /\ remote'[s] # None
      /\ \A s \in Slots \ U : remote'[s] = remote[s]
  BY <1>2, <1>3, <1>5, OverType
<1> HIDE DEF N, A, R
<1>8. \A s \in Slots : remote[s] # None => s \notin N /\ sourcePaths[s] = remote[s]
  BY <1>4, Zenon DEF Inv, RemoteAsRecorded
<1>9. \A s \in Slots : remote[s] # None => remote'[s] = remote[s]
  BY <1>2, <1>4, <1>7, <1>8
<1>10. TypeOK'
  <2>1. Searched(m, r) \in Seq(Manifests)
    BY <1>5 DEF Searched
  <2>2. failed' \in BOOLEAN /\ remote' \in [Slots -> Files \cup {None}]
    BY <1>2, <1>5, <1>7, Zenon
  <2> QED BY <1>1, <1>6, <2>1, <2>2, RemoveType, Zenon DEF Inv
<1>11. RemoteAsRecorded'
  <2> SUFFICES ASSUME NEW s \in Slots, remote'[s] # None
               PROVE  remote'[s] = sourcePaths'[s]
    BY DEF RemoteAsRecorded
  <2>1. CASE remote'[s] = remote[s]
    BY <1>6, <1>8, <2>1
  <2>2. CASE remote'[s] # remote[s]
    BY <1>2, <1>4, <1>6, <1>7, <2>2
  <2> QED BY <2>1, <2>2
<1>12. MissingExplained'
  <2> SUFFICES ASSUME ~failed', NEW s \in Slots, sourcePaths'[s] # None, remote'[s] = None
               PROVE  \E t \in Slots : t # s /\ t[2] = s[2] /\ remote'[t] # None
    BY Zenon DEF MissingExplained
  <2>1. U = A /\ ~failed
    BY <1>2, Zenon
  <2>2. s \notin A /\ remote[s] = None
    BY <1>7, <1>9, <2>1
  <2>3. ASSUME NEW t \in Slots, sourcePaths[t] # None
        PROVE  \E u \in Slots : u[2] = t[2] /\ remote[u] # None
    BY <2>1, <2>3 DEF Inv, MissingExplained
  <2>4. CASE s \in N
    <3>1. PICK t \in R : t[2] = s[2]
      BY <1>4, <2>2, <2>4
    <3>2. PICK u \in Slots : u[2] = t[2] /\ remote[u] # None
      BY <1>3, <1>4, <2>3
    <3> QED BY <1>9, <2>2, <3>1, <3>2
  <2>5. CASE s \notin N
    <3>1. sourcePaths[s] # None
      BY <1>6, <2>5
    <3>2. PICK u \in Slots : u[2] = s[2] /\ remote[u] # None
      BY <2>3, <3>1
    <3> QED BY <1>9, <2>2, <3>2
  <2> QED BY <2>4, <2>5
<1>13. OverrideSearched'
  <2> SUFFICES ASSUME NEW e \in Manifests, NEW s \in Slots, s[1] = override(e),
                      remote'[s] # None
               PROVE  \E n \in 1 .. Len(ldLibraryPath') : ldLibraryPath'[n] = e
    BY DEF OverrideSearched
  <2>1. CASE remote[s] # None
    <3>1. PICK n \in 1 .. Len(ldLibraryPath) : ldLibraryPath[n] = e
      BY <2>1 DEF Inv, OverrideSearched
    <3>2. CASE ldLibraryPath' = ldLibraryPath
      BY <3>1, <3>2
    <3>3. CASE ldLibraryPath' = <<m>> \o ldLibraryPath
      <4>1. n + 1 \in 1 .. Len(ldLibraryPath') /\ ldLibraryPath'[n + 1] = ldLibraryPath[n]
        BY <1>5, <3>1, <3>3
      <4> QED BY <3>1, <4>1
    <3> QED BY <1>1, <3>2, <3>3 DEF Searched
  <2>2. CASE remote[s] = None
    <3>1. s \in r.folders
      BY <1>2, <1>3, <1>7, <2>2
    <3>2. e = m
      <4>1. s[1] \in {0, 1, 2, 2 + m}
        BY <3>1, Zenon DEF Good, top, bin, lib, override
      <4>2. e \in Nat /\ e > 0 /\ m \in Nat /\ s[1] = 2 + e
        BY DEF Manifests, override
      <4> QED BY <4>1, <4>2
    <3>3. ldLibraryPath' = <<m>> \o ldLibraryPath
      BY <1>1, <3>1, <3>2 DEF Searched
    <3>4. 1 \in 1 .. Len(ldLibraryPath') /\ ldLibraryPath'[1] = m
      BY <1>5, <3>3
    <3> QED BY <3>2, <3>4
  <2> QED BY <2>1, <2>2
<1>14. Recorded'
  <2> SUFFICES ASSUME ~failed', NEW e \in Extra PROVE remote'[Slot(e[1], e[2])] = e[2]
    BY <1>1 DEF Recorded
  <2> DEFINE s == Slot(e[1], e[2])
  <2>1. s \in Slots /\ s[2] = NameOf[e[2]] /\ e[2] # None
    BY ExtraType
  <2>2. U = A /\ ~failed
    BY <1>2, Zenon
  <2> HIDE DEF s
  <2>3. CASE addRequirements
    <3>1. s \in r.folders /\ r.sources[NameOf[e[2]]] = e[2]
      BY <2>3 DEF s
    <3>2. \A t \in Slots : sourcePaths[t] = None
      BY <2>3 DEF Inv, Recorded
    <3>3. R = {} /\ s \in N
      BY <1>3, <1>4, <3>1, <3>2, Zenon DEF N, New
    <3>4. s \in A
      BY <1>4, <3>3, Zenon
    <3> QED BY <1>7, <2>1, <2>2, <3>1, <3>4, Zenon DEF s
  <2>4. CASE ~addRequirements
    <3>1. remote[s] = e[2]
      BY <2>2, <2>4 DEF Inv, Recorded, s
    <3> QED BY <1>9, <2>1, <3>1 DEF s
  <2> QED BY <2>3, <2>4, Zenon
<1> QED BY <1>9, <1>10, <1>11, <1>12, <1>13, <1>14, Zenon DEF Inv

\* Shipping keeps the invariant, and no file on the nodes is replaced.
LEMMA InvShip ==
    ASSUME Inv, NEW m \in Manifests, NEW r, Good(m, r), shipManifest(m, r)
    PROVE  /\ Inv'
           /\ \A s \in Slots : remote[s] # None => remote'[s] = remote[s]
<1> DEFINE full == IF addRequirements THEN Requirements(m, r, Extra, LibsOf(Extra)) ELSE r
<1>1. Good(m, full)
  BY RequirementsGood
<1>2. addRequirements => \A e \in Extra : /\ Slot(e[1], e[2]) \in full.folders
                                          /\ full.sources[NameOf[e[2]]] = e[2]
  BY RequirementsHeld, Zenon
<1>3. RequirementsThrow(m, r) \/ MergeThrows(m, full) \/ MergeAndSend(m, full)
  BY DEF shipManifest
<1> HIDE DEF full
<1>4. CASE RequirementsThrow(m, r)
  <2>1. PICK E \in SUBSET Extra, D \in SUBSET LibsOf(Extra) :
            mani' = [mani EXCEPT ![m] = Requirements(m, r, E, D)]
    BY <1>4, Zenon DEF RequirementsThrow
  <2>2. Good(m, Requirements(m, r, E, D))
    BY RequirementsGood
  <2>3. UNCHANGED <<manifestCnt, open, session>>
    BY <1>4 DEF RequirementsThrow
  <2> QED BY <2>1, <2>2, <2>3, InvFill, Zenon DEF session
<1>5. CASE MergeThrows(m, full)
  BY <1>1, <1>5, InvMergeThrows
<1>6. CASE MergeAndSend(m, full)
  BY <1>1, <1>2, <1>6, InvMergeAndSend
<1> QED BY <1>3, <1>4, <1>5, <1>6

\* One step of the session.
LEMMA InvNext ==
    ASSUME Inv, [Next]_vars
    PROVE  /\ Inv'
           /\ \A s \in Slots : remote[s] # None => remote'[s] = remote[s]
<1> USE DEF Inv
<1>1. CASE UNCHANGED vars
  BY <1>1, Zenon DEF vars, session, TypeOK, RemoteAsRecorded, MissingExplained,
     OverrideSearched, Recorded
<1>2. CASE createManifest
  <2>1. manifestCnt' \in 0 .. MaxManifests /\ open' \subseteq 1 .. manifestCnt'
    BY <1>2, TransferAssumption DEF createManifest, TypeOK
  <2>2. UNCHANGED <<mani, addRequirements, sourcePaths, ldLibraryPath, remote, failed>>
    BY <1>2 DEF createManifest, session
  <2>3. TypeOK'
    BY <2>1, <2>2, Zenon DEF TypeOK
  <2> QED BY <2>2, <2>3, Zenon DEF RemoteAsRecorded, MissingExplained, OverrideSearched,
          Recorded
<1>3. ASSUME NEW m \in Manifests, sendManifest(m)
      PROVE  /\ Inv'
             /\ \A s \in Slots : remote[s] # None => remote'[s] = remote[s]
  <2>1. CASE removeManifest(m) /\ UNCHANGED <<manifestCnt, session>>
    <3>1. UNCHANGED <<manifestCnt, addRequirements, sourcePaths, ldLibraryPath,
                      remote, failed>>
      BY <2>1 DEF session
    <3>2. TypeOK'
      BY <2>1, <3>1, RemoveType, Zenon DEF TypeOK
    <3> QED BY <3>1, <3>2, Zenon DEF RemoteAsRecorded, MissingExplained, OverrideSearched,
            Recorded
  <2>2. CASE shipManifest(m, mani[m])
    BY <2>2, ManiGood, InvShip, Zenon
  <2> QED BY <1>3, <2>1, <2>2 DEF sendManifest
<1>4. ASSUME NEW m \in Manifests, NEW f \in Files,
             \/ addBinary(m, f) \/ addLibrary(m, f)
             \/ addLibDir(m, f) \/ addFile(m, f)
      PROVE  /\ Inv'
             /\ \A s \in Slots : remote[s] # None => remote'[s] = remote[s]
  <2>1. Good(m, mani[m]) /\ mani \in [Manifests -> Contents]
    BY ManiGood, Zenon DEF TypeOK, Contents
  <2>2. UNCHANGED <<manifestCnt, open, session>>
    BY <1>4, Zenon DEF addBinary, addLibrary, addLibDir, addFile
  <2>3. ASSUME NEW folder \in {top, bin, lib}
        PROVE  Good(m, checkAndAdd(mani[m], folder, f))
    BY <2>1, CheckGood
  <2>4. ASSUME NEW folder \in {top, bin, lib}, NEW D \in SUBSET Deps[f]
        PROVE  Good(m, addLibDeps(m, checkAndAdd(mani[m], folder, f), D))
    <3>1. D \in SUBSET Files BY TransferAssumption
    <3> QED BY <2>3, <3>1, DepsGood
  <2>5. PICK r : Good(m, r) /\ mani' = [mani EXCEPT ![m] = r]
    <3>1. CASE addBinary(m, f)
      BY <2>1, <2>4, <3>1, Zenon DEF addBinary
    <3>2. CASE addLibrary(m, f)
      BY <2>1, <2>4, <3>2, Zenon DEF addLibrary
    <3>3. CASE addLibDir(m, f)
      BY <2>1, <2>3, <3>3, Zenon DEF addLibDir
    <3>4. CASE addFile(m, f)
      BY <2>1, <2>3, <3>4, Zenon DEF addFile
    <3> QED BY <1>4, <3>1, <3>2, <3>3, <3>4
  <2> QED BY <2>2, <2>5, InvFill, Zenon DEF session
<1>5. ASSUME NEW m \in Manifests, NEW f \in Files, execManifest(m, f)
      PROVE  /\ Inv'
             /\ \A s \in Slots : remote[s] # None => remote'[s] = remote[s]
  <2>1. Good(m, checkAndAdd(mani[m], bin, f))
    BY ManiGood, CheckGood
  <2>2. Good(m, addLibDeps(m, checkAndAdd(mani[m], bin, f), Deps[f]))
    BY <2>1, DepsGood, TransferAssumption
  <2> QED BY <1>5, <2>2, InvShip, Zenon DEF execManifest
<1>6. Binaries \cup Libraries \cup LibDirs \cup Plain \subseteq Files
  BY TransferAssumption
<1> QED BY <1>1, <1>2, <1>3, <1>4, <1>5, <1>6, Zenon DEF Next

-----------------------------------------------------------------------------
\* Inv holds in every reachable state.
THEOREM InvCorrect == Spec => []Inv
<1>1. Init => Inv
  BY InvInit
<1>2. Inv /\ [Next]_vars => Inv'
  BY InvNext
<1> QED BY <1>1, <1>2, PTL DEF Spec

\* The record of a session is well typed, and so are its open manifests.
THEOREM TypeCorrect == Spec => []TypeOK
<1>1. Inv => TypeOK BY DEF Inv
<1> QED BY <1>1, InvCorrect, PTL

\* What is on the nodes is what the conflict test compares with.
THEOREM RemoteAsRecordedCorrect == Spec => []RemoteAsRecorded
<1>1. Inv => RemoteAsRecorded BY DEF Inv
<1> QED BY <1>1, InvCorrect, PTL

\* A recorded file misses on the nodes for one of two causes only.
THEOREM MissingExplainedCorrect == Spec => []MissingExplained
<1>1. Inv => MissingExplained BY DEF Inv
<1> QED BY <1>1, InvCorrect, PTL

\* Every override folder on the nodes is on the library path.
THEOREM OverrideSearchedCorrect == Spec => []OverrideSearched
<1>1. Inv => OverrideSearched BY DEF Inv
<1> QED BY <1>1, InvCorrect, PTL

\* As long as nothing failed, what the application needs is on the nodes as
\* soon as anything is.
THEOREM RequirementsShippedCorrect == Spec => []RequirementsShipped
<1>1. Inv => RequirementsShipped
  BY DEF Inv, Recorded, RequirementsShipped, RemoteAsRecorded
<1> QED BY <1>1, InvCorrect, PTL

\* No step replaces a file that is on the nodes.
THEOREM NeverReplacedCorrect == Spec => NeverReplaced
<1>1. Inv /\ [Next]_vars =>
          [\A s \in Slots : remote[s] # None => remote'[s] = remote[s]]_vars
  BY InvNext
<1> QED BY <1>1, InvCorrect, PTL DEF Spec, NeverReplaced

=============================================================================
