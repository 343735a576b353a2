---------------------------- MODULE FeIfaceParts ----------------------------
(***************************************************************************)
(* Proofs about what the calls of the C interface are made of.  The        *)
(* registries implement the table of ids for any number of applications,   *)
(* sessions and manifests, and so does the interface.  Then what           *)
(* App::finalize and Frontend::destroy do, in whatever order and wherever  *)
(* an exception stops them, and the ties they keep between Apps, jobs and  *)
(* the FE daemon.  Last what every call keeps, and that the making of an   *)
(* App does.                                                               *)
(***************************************************************************)
EXTENDS FeIface, WlmAppProofs, TLAPS

\* The ids that calls accept.
OpenApps == {a \in AppIds : validApp(a)}
OpenSess == {s \in SessIds : validSession(s)}
OpenMans == {m \in ManIds : validManifest(m)}

\* The ids in use have been issued, and owners are older than what they own.
HType ==
    /\ lastApp \in Nat /\ appOf \in Seq(Nat) /\ sessOf \in Seq(Nat)
    /\ \A s \in SessIds : appOf[s] \in AppIds
    /\ \A m \in ManIds : sessOf[m] \in SessIds
    /\ appList \subseteq AppIds /\ mApps \subseteq AppIds
    /\ sessList \subseteq SessIds /\ mSess \subseteq SessIds
    /\ manList \subseteq ManIds /\ mMans \subseteq ManIds

\* An object that lives is on its registry: only a session that is still there
\* by its id is taken along when its application closes.
AliveListed ==
    /\ \A s \in SessIds : SessAlive(s) => s \in sessList
    /\ \A m \in ManIds : ManAlive(m) => m \in manList

\* The invariant of the registries.
HInv == HType /\ AliveListed

\* A natural number is in the interval that ends with it.
LEMMA UpToSelf == \A n \in Nat : n \in 0 .. n
OBVIOUS

\* What is above a natural number is positive.
LEMMA AboveNat == \A m, n \in Nat : m < n => 0 < n
OBVIOUS

\* A number up to a bound is none above it.
LEMMA NotAbove == \A k, m, n \in Nat : k <= m /\ m < n => k # n
OBVIOUS

\* A positive number up to a bound is neither 0 nor above it.
LEMMA NotNext == \A k, m, n \in Nat : 0 < k /\ k <= m /\ (n = 0 \/ m < n) => k # n
OBVIOUS

\* The registries start empty.
LEMMA HInvInit == HInit => HInv
BY DEF HInit, HInv, HType, AliveListed, AppIds, SessIds, ManIds, SessAlive, ManAlive

\* What appending an owner does to the sequence of owners.
LEMMA AppendOwner ==
    ASSUME NEW q \in Seq(Nat), NEW x \in Nat
    PROVE  /\ Append(q, x) \in Seq(Nat)
           /\ Len(Append(q, x)) = Len(q) + 1 /\ Len(q) \in Nat
           /\ \A i \in 1 .. Len(q) : Append(q, x)[i] = q[i]
           /\ Append(q, x)[Len(q) + 1] = x
OBVIOUS

\* Taking ids off the registry of applications or objects out of m_apps,
\* m_sessions and m_manifests keeps the invariant.
LEMMA ShrinkKeeps ==
    ASSUME HInv, appList' \subseteq appList, mApps' \subseteq mApps,
           mSess' \subseteq mSess, mMans' \subseteq mMans,
           sessList' \subseteq sessList, manList' \subseteq manList,
           \A s \in SessIds : SessAlive(s)' => s \in sessList',
           \A m \in ManIds : ManAlive(m)' => m \in manList',
           UNCHANGED <<lastApp, appOf, sessOf>>
    PROVE  HInv'
BY Zenon DEF HInv, HType, AliveListed, AppIds, SessIds, ManIds

\* Every step of the registries keeps the invariant.
LEMMA HInvNext == HInv /\ [HNext]_hvars => HInv'
<1> SUFFICES ASSUME HInv, [HNext]_hvars PROVE HInv'
  OBVIOUS
<1>1. ASSUME NEW kept \in BOOLEAN, addApp(kept) PROVE HInv'
  <2>1. /\ lastApp \in Nat /\ lastApp' = lastApp + 1
        /\ SessIds' = SessIds /\ ManIds' = ManIds
    BY <1>1, Zenon DEF HInv, HType, addApp, SessIds, ManIds
  <2>2. AppIds' = AppIds \cup {lastApp + 1} /\ lastApp + 1 \notin AppIds
    BY <2>1 DEF AppIds
  <2>3. HType'
    BY <1>1, <2>1, <2>2 DEF HInv, HType, addApp
  <2>4. \A s \in SessIds : SessAlive(s)' => SessAlive(s)
    BY <1>1, <2>2, Zenon DEF HInv, HType, addApp, SessAlive
  <2>5. \A m \in ManIds : ManAlive(m)' => ManAlive(m)
    BY <1>1, <2>4, Zenon DEF HInv, HType, addApp, ManAlive
  <2>6. AliveListed'
    BY <1>1, <2>1, <2>4, <2>5, Zenon DEF HInv, AliveListed, addApp
  <2> QED BY <2>3, <2>6, Zenon DEF HInv
<1>2. CASE destroyAll
  BY <1>2, ShrinkKeeps, Zenon DEF destroyAll, HInv, AliveListed, SessAlive, ManAlive
<1>3. ASSUME NEW a \in AppIds, sweepApp(a) \/ eraseApp(a) PROVE HInv'
  BY <1>3, ShrinkKeeps, Zenon DEF sweepApp, eraseApp, HInv, AliveListed, SessAlive, ManAlive
<1>4. ASSUME NEW a \in AppIds, removeApp(a) PROVE HInv'
  BY <1>4, ShrinkKeeps, Zenon DEF removeApp, HInv, AliveListed, SessAlive, ManAlive
<1>5. ASSUME NEW a \in AppIds, createSession(a) PROVE HInv'
  <2>1. /\ a \in Nat /\ appOf \in Seq(Nat) /\ Len(appOf) \in Nat
    BY DEF HInv, HType, AppIds
  <2>2. /\ appOf' \in Seq(Nat) /\ Len(appOf') = Len(appOf) + 1
        /\ \A s \in SessIds : appOf'[s] = appOf[s]
        /\ appOf'[Len(appOf) + 1] = a
    BY <1>5, <2>1, AppendOwner, Zenon DEF createSession, SessIds
  <2>3. SessIds' = SessIds \cup {Len(appOf) + 1}
    BY <2>1, <2>2 DEF SessIds
  <2>4. HType'
    BY <1>5, <2>2, <2>3, Zenon DEF createSession, HInv, HType, AppIds, ManIds
  <2>5. \A s \in SessIds : SessAlive(s)' <=> SessAlive(s)
    BY <1>5, <2>1, <2>2 DEF createSession, SessAlive, HInv, HType, SessIds
  <2>6. AliveListed'
    BY <1>5, <2>3, <2>5, Zenon DEF createSession, AliveListed, HInv, HType, ManAlive, ManIds
  <2> QED BY <2>4, <2>6, Zenon DEF HInv
<1>6. ASSUME NEW s \in SessIds, sweepSession(s) PROVE HInv'
  BY <1>6, ShrinkKeeps, Zenon DEF sweepSession, validSession, HInv, AliveListed, SessAlive, ManAlive
<1>7. ASSUME NEW s \in SessIds, removeSession(s) PROVE HInv'
  BY <1>7, ShrinkKeeps, Zenon DEF removeSession, HInv, AliveListed, SessAlive, ManAlive
<1>8. ASSUME NEW s \in SessIds, createManifest(s) PROVE HInv'
  <2>1. /\ s \in Nat /\ sessOf \in Seq(Nat) /\ Len(sessOf) \in Nat
    BY DEF HInv, HType, SessIds
  <2>2. /\ sessOf' \in Seq(Nat) /\ Len(sessOf') = Len(sessOf) + 1
        /\ \A m \in ManIds : sessOf'[m] = sessOf[m]
        /\ sessOf'[Len(sessOf) + 1] = s
    BY <1>8, <2>1, AppendOwner, Zenon DEF createManifest, ManIds
  <2>3. ManIds' = ManIds \cup {Len(sessOf) + 1}
    BY <2>1, <2>2 DEF ManIds
  <2>4. HType'
    BY <1>8, <2>2, <2>3, Zenon DEF createManifest, HInv, HType, AppIds, SessIds
  <2>5. \A x \in SessIds : SessAlive(x)' <=> SessAlive(x)
    BY <1>8, Zenon DEF createManifest, SessAlive
  <2>6. AliveListed'
    BY <1>8, <2>2, <2>3, <2>5, Zenon DEF createManifest, AliveListed, HInv, HType, ManAlive, SessAlive,
       SessIds
  <2> QED BY <2>4, <2>6, Zenon DEF HInv
<1>9. ASSUME NEW m \in ManIds, sweepManifest(m) PROVE HInv'
  BY <1>9, ShrinkKeeps, Zenon DEF sweepManifest, validManifest, HInv, AliveListed, SessAlive, ManAlive
<1>10. ASSUME NEW m \in ManIds, NEW erased \in BOOLEAN, removeManifest(m, erased) PROVE HInv'
  BY <1>10, ShrinkKeeps, Zenon DEF removeManifest, HInv, AliveListed, SessAlive, ManAlive
<1>11. CASE UNCHANGED hvars
  BY <1>11, ShrinkKeeps, Zenon DEF hvars, HInv, AliveListed, SessAlive, ManAlive
<1> QED
  BY <1>1, <1>2, <1>3, <1>4, <1>5, <1>6, <1>7, <1>8, <1>9, <1>10, <1>11, Zenon DEF HNext

\* The ids that are valid when the registries are empty.
LEMMA MapInit == HInit => Table!TInit
BY Zenon DEF HInit, Table!TInit, AppIds, SessIds, ManIds, validApp, validSession, validManifest

\* A lookup that finds nothing changes no valid id: it is a stutter of the table.
LEMMA MapSweep ==
    ASSUME HInv, NEW i, sweepApp(i) \/ sweepSession(i) \/ sweepManifest(i)
    PROVE  UNCHANGED Table!tableVars
<1>1. OpenApps' = OpenApps /\ OpenSess' = OpenSess /\ OpenMans' = OpenMans
  <2>1. CASE sweepApp(i)
    BY <2>1 DEF OpenApps, OpenSess, OpenMans, sweepApp, AppIds, SessIds, ManIds,
             validApp, validSession, validManifest, SessAlive, ManAlive
  <2>2. CASE sweepSession(i)
    BY <2>2 DEF OpenApps, OpenSess, OpenMans, sweepSession, AppIds, SessIds, ManIds,
             validApp, validSession, validManifest, SessAlive, ManAlive
  <2>3. CASE sweepManifest(i)
    BY <2>3 DEF OpenApps, OpenSess, OpenMans, sweepManifest, AppIds, SessIds, ManIds,
             validApp, validSession, validManifest, SessAlive, ManAlive
  <2> QED BY <2>1, <2>2, <2>3, Zenon
<1> QED
  BY <1>1, Zenon DEF Table!tableVars, OpenApps, OpenSess, OpenMans, sweepApp, sweepSession, sweepManifest

\* Registry::add issues the next id, which is valid when the App is in m_apps.
LEMMA MapAdd ==
    ASSUME HInv, addApp(TRUE)
    PROVE  Table!OpenApp
<1>1. lastApp \in Nat /\ AppIds' = AppIds \cup {lastApp + 1}
  BY DEF HInv, HType, addApp, AppIds
<1>2. OpenApps' = OpenApps \cup {lastApp + 1}
  BY <1>1, Zenon DEF OpenApps, addApp, validApp, HInv, HType, AppIds
<1>3. OpenSess' = OpenSess
  BY DEF OpenSess, addApp, validSession, SessAlive, HInv, HType, AppIds, SessIds
<1>4. OpenMans' = OpenMans
  BY DEF OpenMans, addApp, validManifest, ManAlive, SessAlive, HInv, HType, AppIds, SessIds, ManIds
<1> QED BY <1>2, <1>3, <1>4, Zenon DEF Table!OpenApp, addApp, OpenApps, OpenSess, OpenMans

\* Frontend::removeApp closes the application with everything it owns.
LEMMA MapRemoveApp ==
    ASSUME HInv, NEW a \in AppIds, removeApp(a)
    PROVE  Table!CloseApp(a)
<1>1. a \in OpenApps /\ OpenApps' = OpenApps \ {a}
  BY Zenon DEF OpenApps, removeApp, validApp, AppIds
<1>2. OpenSess' = OpenSess \ {s \in OpenSess : appOf[s] = a}
  BY Zenon DEF OpenSess, removeApp, validSession, SessAlive, SessIds
<1>3. OpenMans' = OpenMans \ {m \in OpenMans : sessOf[m] \in {s \in OpenSess : appOf[s] = a}}
  BY DEF OpenMans, OpenSess, removeApp, validManifest, validSession, ManAlive, SessAlive,
         SessIds, ManIds, HInv, HType, AliveListed
<1> QED
  BY <1>1, <1>2, <1>3 DEF Table!CloseApp, Table!SessionsOf, Table!ManifestsOf, removeApp,
     OpenApps, OpenSess, OpenMans

\* Releasing an application that has no session closes its id; an id that is not
\* valid stays so.
LEMMA MapErase ==
    ASSUME HInv, NEW a \in AppIds, eraseApp(a),
           ~\E s \in SessIds : validSession(s) /\ appOf[s] = a
    PROVE  Table!CloseApp(a) \/ UNCHANGED Table!tableVars
<1>1. OpenApps' = OpenApps \ {a} /\ OpenSess' = OpenSess /\ OpenMans' = OpenMans
  BY DEF OpenApps, OpenSess, OpenMans, eraseApp, validApp, validSession, validManifest, ManAlive,
         SessAlive, AppIds, SessIds, ManIds
<1>2. CASE a \in OpenApps
  <2>1. {s \in OpenSess : appOf[s] = a} = {}
    BY Zenon DEF OpenSess
  <2>2. OpenSess' = OpenSess \ {s \in OpenSess : appOf[s] = a}
    BY <1>1, <2>1
  <2>3. OpenMans' = OpenMans \ {m \in OpenMans : sessOf[m] \in {s \in OpenSess : appOf[s] = a}}
    BY <1>1, <2>1
  <2> QED
    BY <1>1, <1>2, <2>2, <2>3 DEF Table!CloseApp, Table!SessionsOf, Table!ManifestsOf,
       eraseApp, OpenApps, OpenSess, OpenMans
<1>3. CASE a \notin OpenApps
  <2>1. OpenApps' = OpenApps
    BY <1>1, <1>3, Zenon
  <2> QED BY <1>1, <2>1, Zenon DEF Table!tableVars, eraseApp, OpenApps, OpenSess, OpenMans
<1> QED BY <1>2, <1>3, Zenon

\* App::createSession issues the next session id, owned by a valid application.
LEMMA MapCreateSession ==
    ASSUME HInv, NEW a \in AppIds, createSession(a)
    PROVE  a \in OpenApps /\ Table!OpenSession(a)
<1> DEFINE n == Len(appOf) + 1
<1>1. /\ a \in Nat /\ appOf \in Seq(Nat) /\ Len(appOf) \in Nat
  BY DEF HInv, HType, AppIds
<1>2. /\ Len(appOf') = n
      /\ \A s \in SessIds : appOf'[s] = appOf[s]
      /\ appOf'[n] = a
  BY <1>1, AppendOwner, Zenon DEF createSession, SessIds
<1>3. SessIds' = SessIds \cup {n} /\ n \notin SessIds
  BY <1>1, <1>2 DEF SessIds
<1> HIDE DEF n
<1>4. a \in OpenApps /\ OpenApps' = OpenApps
  BY Zenon DEF OpenApps, createSession, validApp, AppIds
<1>5. OpenSess' = OpenSess \cup {n}
  BY <1>2, <1>3, Zenon DEF OpenSess, createSession, validSession, validApp, SessAlive, n
<1>6. \A s \in SessIds : SessAlive(s)' <=> SessAlive(s)
  BY <1>2, <1>3, Zenon DEF createSession, SessAlive, n
<1>7. OpenMans' = OpenMans
  BY <1>6, Zenon DEF OpenMans, createSession, validManifest, ManAlive, ManIds, HInv, HType
<1> QED
  BY <1>4, <1>5, <1>7, Zenon DEF Table!OpenSession, createSession, OpenApps, OpenSess, OpenMans, n

\* App::removeSession closes the session with its manifests.
LEMMA MapRemoveSession ==
    ASSUME HInv, NEW s \in SessIds, removeSession(s)
    PROVE  s \in OpenSess /\ Table!CloseSession(s)
<1>1. OpenApps' = OpenApps
  BY Zenon DEF OpenApps, removeSession, validApp, AppIds
<1>2. s \in OpenSess /\ OpenSess' = OpenSess \ {s}
  BY Zenon DEF OpenSess, removeSession, validSession, SessAlive, SessIds
<1>3. OpenMans' = OpenMans \ {m \in OpenMans : sessOf[m] \in {s}}
  BY Zenon DEF OpenMans, removeSession, validManifest, ManAlive, SessAlive, ManIds
<1> QED
  BY <1>1, <1>2, <1>3 DEF Table!CloseSession, Table!ManifestsOf, removeSession, OpenApps, OpenSess,
     OpenMans

\* Session::createManifest issues the next manifest id, owned by a valid session.
LEMMA MapCreateManifest ==
    ASSUME HInv, NEW s \in SessIds, createManifest(s)
    PROVE  s \in OpenSess /\ Table!OpenManifest(s)
<1> DEFINE n == Len(sessOf) + 1
<1>1. /\ s \in Nat /\ sessOf \in Seq(Nat) /\ Len(sessOf) \in Nat
  BY DEF HInv, HType, SessIds
<1>2. /\ Len(sessOf') = n
      /\ \A m \in ManIds : sessOf'[m] = sessOf[m]
      /\ sessOf'[n] = s
  BY <1>1, AppendOwner, Zenon DEF createManifest, ManIds
<1>3. ManIds' = ManIds \cup {n} /\ n \notin ManIds
  BY <1>1, <1>2 DEF ManIds
<1> HIDE DEF n
<1>4. OpenApps' = OpenApps
  BY Zenon DEF OpenApps, createManifest, validApp, AppIds
<1>5. s \in OpenSess /\ OpenSess' = OpenSess /\ (\A x : SessAlive(x)' <=> SessAlive(x))
  BY Zenon DEF OpenSess, createManifest, validSession, SessAlive, SessIds
<1>6. OpenMans' = OpenMans \cup {n}
  BY <1>2, <1>3, <1>5, Zenon DEF OpenMans, createManifest, validManifest, validSession, ManAlive, n
<1> QED
  BY <1>4, <1>5, <1>6, Zenon DEF Table!OpenManifest, createManifest, OpenApps, OpenSess, OpenMans, n

\* Session::removeManifest closes the manifest, erased from its registry or not.
LEMMA MapRemoveManifest ==
    ASSUME HInv, NEW m \in ManIds, NEW erased \in BOOLEAN, removeManifest(m, erased)
    PROVE  m \in OpenMans /\ Table!CloseManifest(m)
<1>1. OpenApps' = OpenApps /\ OpenSess' = OpenSess
  BY Zenon DEF OpenApps, OpenSess, removeManifest, validApp, validSession, SessAlive, AppIds, SessIds
<1>2. m \in OpenMans /\ OpenMans' = OpenMans \ {m}
  BY Zenon DEF OpenMans, removeManifest, validManifest, ManAlive, SessAlive, ManIds
<1> QED
  BY <1>1, <1>2, Zenon DEF Table!CloseManifest, removeManifest, OpenApps, OpenSess, OpenMans

\* Frontend::destroy closes every id.
LEMMA MapDestroy ==
    ASSUME HInv, destroyAll
    PROVE  Table!CloseAll
<1>1. OpenApps' = {} /\ OpenSess' = {} /\ OpenMans' = {}
  BY DEF OpenApps, OpenSess, OpenMans, destroyAll, validApp, validSession, validManifest, ManAlive,
         SessAlive
<1> QED BY <1>1, Zenon DEF Table!CloseAll, destroyAll, OpenApps, OpenSess, OpenMans

\* Every step of the registries is a step of the table, leaves it alone, or is one
\* of those that depart from it.
LEMMA MapNext ==
    HInv /\ [HNext]_hvars => Departs \/ Table!TNext \/ UNCHANGED Table!tableVars
<1> SUFFICES ASSUME HInv, [HNext]_hvars, ~Departs
             PROVE  Table!TNext \/ UNCHANGED Table!tableVars
  OBVIOUS
<1>1. ASSUME NEW kept \in BOOLEAN, addApp(kept) PROVE Table!TNext
  <2>1. addApp(TRUE)
    <3>1. kept = TRUE \/ kept = FALSE
      BY Zenon
    <3> QED BY <1>1, <3>1, Zenon DEF Departs
  <2> QED BY <2>1, MapAdd, Zenon DEF Table!TNext
<1>2. CASE destroyAll
  BY <1>2, MapDestroy, Zenon DEF Table!TNext
<1>3. ASSUME NEW a \in AppIds, removeApp(a) PROVE Table!TNext
  BY <1>3, MapRemoveApp, Zenon DEF Table!TNext, removeApp
<1>4. ASSUME NEW a \in AppIds, eraseApp(a) PROVE Table!TNext \/ UNCHANGED Table!tableVars
  <2>1. Table!CloseApp(a) \/ UNCHANGED Table!tableVars
    BY <1>4, MapErase, Zenon DEF Departs
  <2> QED BY <2>1, Zenon DEF Table!TNext, Table!CloseApp
<1>5. ASSUME NEW a \in AppIds, createSession(a) PROVE Table!TNext
  BY <1>5, MapCreateSession, Zenon DEF Table!TNext, OpenApps
<1>6. ASSUME NEW s \in SessIds, removeSession(s) PROVE Table!TNext
  BY <1>6, MapRemoveSession, Zenon DEF Table!TNext, OpenSess
<1>7. ASSUME NEW s \in SessIds, createManifest(s) PROVE Table!TNext
  BY <1>7, MapCreateManifest, Zenon DEF Table!TNext, OpenSess
<1>8. ASSUME NEW m \in ManIds, NEW erased \in BOOLEAN, removeManifest(m, erased) PROVE Table!TNext
  BY <1>8, MapRemoveManifest, Zenon DEF Table!TNext, OpenMans
<1>9. ASSUME NEW i, sweepApp(i) \/ sweepSession(i) \/ sweepManifest(i)
      PROVE UNCHANGED Table!tableVars
  BY <1>9, MapSweep, Zenon
<1>10. CASE UNCHANGED hvars
  BY <1>10 DEF hvars, Table!tableVars, AppIds, SessIds, ManIds, validApp, validSession,
     validManifest, ManAlive, SessAlive
<1> QED
  BY <1>1, <1>2, <1>3, <1>4, <1>5, <1>6, <1>7, <1>8, <1>9, <1>10, Zenon DEF HNext

\* The registries and the owning sets, under any sequence of calls, implement the
\* documented table of ids but for the two departures.
THEOREM HandlesImplementTable == HSpec => ImplementsTable
<1>1. HInit => HInv
  BY HInvInit, Zenon
<1>2. HInv /\ [HNext]_hvars => HInv'
  BY HInvNext, Zenon
<1>3. HInit => Table!TInit
  BY MapInit, Zenon
<1>4. HInv /\ [HNext]_hvars => [Departs \/ Table!TNext \/ UNCHANGED Table!tableVars]_hvars
  BY MapNext, Zenon
<1> QED
  BY <1>1, <1>2, <1>3, <1>4, PTL DEF HSpec, ImplementsTable

-----------------------------------------------------------------------------
(* The calls of the interface.                                             *)

\* Every call is one step of the registries or leaves them alone.
LEMMA CallSteps == [Next]_vars => [HNext]_hvars
<1> SUFFICES ASSUME [Next]_vars PROVE [HNext]_hvars
  OBVIOUS
<1>1. ASSUME NEW s, NEW kept \in BOOLEAN, tryApp(s, kept) PROVE [HNext]_hvars
  BY <1>1, Zenon DEF tryApp, makeApp, failApp, HNext
<1>2. CASE cti_launchApp \/ cti_launchAppBarrier \/ cti_registerApp
  <2>1. \A b \in BOOLEAN : keepsApp(wlm, b) \in BOOLEAN
    BY Zenon DEF keepsApp
  <2> QED BY <1>1, <1>2, <2>1, Zenon DEF cti_launchApp, cti_launchAppBarrier, cti_registerApp
<1>3. CASE cti_getJobInfo
  BY <1>3, Zenon DEF cti_getJobInfo
<1>4. ASSUME NEW a \in AppIds, \/ missApp(a) \/ cti_appIsValid(a) \/ cti_deregisterApp(a)
                               \/ cti_releaseApp(a) \/ cti_createSession(a)
      PROVE  HNext
  <2>1. sweepApp(a) \/ removeApp(a) \/ eraseApp(a) \/ createSession(a)
    BY <1>4, Zenon DEF missApp, cti_appIsValid, cti_deregisterApp, cti_releaseApp,
       cti_createSession,
       dropApp
  <2> QED BY <2>1, Zenon DEF HNext
<1>5. ASSUME NEW a \in AppIds, cti_releaseAppBarrier(a) \/ cti_killApp(a) \/ jobEnds(a)
      PROVE  UNCHANGED hvars
  BY <1>5, Zenon DEF cti_releaseAppBarrier, cti_killApp, jobEnds
<1>6. ASSUME NEW s \in SessIds, missSession(s) \/ cti_destroySession(s) \/ cti_createManifest(s)
      PROVE  [HNext]_hvars
  <2>1. sweepSession(s) \/ removeSession(s) \/ createManifest(s) \/ UNCHANGED hvars
    BY <1>6, Zenon DEF missSession, cti_destroySession, cti_createManifest
  <2> QED BY <2>1, Zenon DEF HNext
<1>7. ASSUME NEW m \in ManIds,
             missManifest(m) \/ sendEmpty(m) \/ sendFails(m) \/ cti_sendManifest(m)
      PROVE  HNext
  <2>1. sweepManifest(m) \/ \E erased \in BOOLEAN : removeManifest(m, erased)
    BY <1>7, Zenon DEF missManifest, sendEmpty, sendFails, cti_sendManifest
  <2> QED BY <2>1, Zenon DEF HNext
<1>8. CASE destroy
  BY <1>8, Zenon DEF destroy, HNext
<1>9. CASE UNCHANGED vars
  BY <1>9, Zenon DEF vars
<1> QED BY <1>2, <1>3, <1>4, <1>5, <1>6, <1>7, <1>8, <1>9, Zenon DEF Next

\* The ids of the C interface follow the documented table, but for the release of
\* an application with sessions and an id that is dead on arrival, whatever the
\* frontends, the daemon and the jobs do meanwhile.
THEOREM InterfaceImplementsTable == Spec => ImplementsTable
<1>1. Init => HInit
  BY Zenon DEF Init
<1>2. Spec => HSpec
  BY <1>1, CallSteps, PTL DEF Spec, HSpec
<1> QED BY <1>2, HandlesImplementTable, Zenon

-----------------------------------------------------------------------------
(* The types of the frontends' state.                                      *)

\* The sequences with one App for every application id.
AppSeqs == {q \in Seq(Apps) : Len(q) = lastApp}

\* The types of what the calls change.
FType ==
    /\ wlm \in Wlms
    /\ dmn \in Daemons
    /\ rec \in AppSeqs
    /\ seqNum \in Seq(Nat) /\ Len(seqNum) = Len(appOf)
    /\ files \subseteq SessIds
    /\ strays \subseteq [job : Jobs, id : Nat]

\* A function on an initial segment of the numbers is a sequence.
LEMMA FunctionSeq ==
    ASSUME NEW n \in Nat, NEW S, NEW f \in [1 .. n -> S]
    PROVE  f \in Seq(S) /\ Len(f) = n
OBVIOUS

\* A sequence with an element more.
LEMMA AppendIs ==
    ASSUME NEW S, NEW q \in Seq(S), NEW x \in S
    PROVE  /\ Append(q, x) \in Seq(S) /\ Len(Append(q, x)) = Len(q) + 1 /\ Len(q) \in Nat
           /\ \A i \in 1 .. Len(q) : Append(q, x)[i] = q[i]
           /\ Append(q, x)[Len(q) + 1] = x
OBVIOUS

\* A sequence with one element replaced.
LEMMA ExceptIs ==
    ASSUME NEW S, NEW q \in Seq(S), NEW k \in 1 .. Len(q), NEW x \in S
    PROVE  /\ [q EXCEPT ![k] = x] \in Seq(S) /\ Len([q EXCEPT ![k] = x]) = Len(q)
           /\ [q EXCEPT ![k] = x][k] = x
           /\ \A i \in 1 .. Len(q) : i # k => [q EXCEPT ![k] = x][i] = q[i]
OBVIOUS

\* An order of a set goes through all of it and nothing else.
LEMMA OrdersIs ==
    ASSUME NEW S, NEW N \in Nat, NEW o \in Orders(S, N)
    PROVE  /\ Len(o) \in Nat
           /\ \A i \in 1 .. Len(o) : o[i] \in S
           /\ \A x \in S : \E i \in 1 .. Len(o) : o[i] = x
<1>1. PICK n \in 0 .. N : o \in [1 .. n -> S]
  BY DEF Orders
<1>2. \A x \in S : \E i \in DOMAIN o : o[i] = x
  BY Zenon DEF Orders
<1>3. n \in Nat
  OBVIOUS
<1>4. Len(o) = n
  BY <1>1, <1>3, FunctionSeq, Zenon
<1> QED BY <1>1, <1>2, <1>3, <1>4, Zenon

-----------------------------------------------------------------------------
(* App::finalize.                                                          *)

\* What finalizing some sessions of an App comes to.
Outcomes == [w : Worlds, cleaned : SUBSET Nat, thrown : BOOLEAN]

\* The start of a daemon, finished or not, leaves the App and the older ids.
LEMMA StartedKept ==
    ASSUME wlm \in Wlms, NEW w \in Worlds, NEW x \in started(w) \cup notStarted(w)
    PROVE  Kept(w, x)
<1>1. PICK s \in startDaemonScripts(wlm, w) : \E k : x = After(w, s, k)
      /\ (k = Len(s) \/ k \in Throws(w, s))
  <2>1. CASE x \in started(w)
    BY <2>1, Zenon DEF started
  <2>2. CASE x \in notStarted(w)
    BY <2>2, Zenon DEF notStarted
  <2> QED BY <2>1, <2>2, Zenon
<1>2. PICK k : x = After(w, s, k) /\ (k = Len(s) \/ k \in Throws(w, s))
  BY <1>1, Zenon
<1>3. Starting(s)
  BY StartScripts, Zenon
<1>4. Len(s) \in Nat
  BY <1>3, Zenon DEF Starting, Tidy
<1>5. k \in 0 .. Len(s)
  BY <1>2, <1>4 DEF Throws
<1> QED BY <1>2, <1>3, <1>5, StartRun, Zenon

\* What becomes of an outcome p when the session s is finalized after it.
SessionDone(p, o, s) ==
    /\ o \in Outcomes /\ Kept(p.w, o.w)
    /\ \/ o = p /\ (p.thrown \/ seqNum[s] = 0)
       \/ ~p.thrown /\ o.cleaned = p.cleaned \cup {s}
       \/ ~p.thrown /\ o.cleaned = p.cleaned /\ o.thrown

\* A world keeps what it has.
LEMMA KeptSelf == ASSUME NEW w \in Worlds PROVE Kept(w, w)
<1>1. w.n \in Nat
  BY WorldFields, Zenon
<1> QED BY <1>1 DEF Kept, Fresh

\* Every outcome of finalizing a session comes from an earlier one.
LEMMA FinalizeSessionIs ==
    ASSUME wlm \in Wlms, NEW acc \in SUBSET Outcomes, NEW s \in Nat,
           NEW o \in finalizeSession(acc, s)
    PROVE  \E p \in acc : SessionDone(p, o, s)
<1>1. PICK p \in acc :
         o \in IF p.thrown \/ seqNum[s] = 0 THEN {p}
               ELSE {[p EXCEPT !.w = w, !.cleaned = @ \cup {s}] : w \in started(p.w)}
                    \cup {[p EXCEPT !.w = w, !.thrown = TRUE] : w \in notStarted(p.w)}
  BY Zenon DEF finalizeSession
<1>2. p \in Outcomes /\ p.w \in Worlds /\ p.cleaned \in SUBSET Nat /\ p.thrown \in BOOLEAN
  BY Zenon DEF Outcomes
<1>3. CASE p.thrown \/ seqNum[s] = 0
  BY <1>1, <1>2, <1>3, KeptSelf, Zenon DEF SessionDone
<1>4. CASE ~(p.thrown \/ seqNum[s] = 0)
  <2>1. CASE o \in {[p EXCEPT !.w = w, !.cleaned = @ \cup {s}] : w \in started(p.w)}
    <3>1. PICK w \in started(p.w) : o = [p EXCEPT !.w = w, !.cleaned = @ \cup {s}]
      BY <2>1, Zenon
    <3>2. Kept(p.w, w)
      BY <1>2, StartedKept, Zenon
    <3>3. w \in Worlds
      BY <3>2, Zenon DEF Kept
    <3>4. o \in Outcomes /\ o.w = w /\ o.cleaned = p.cleaned \cup {s}
      BY <1>2, <3>1, <3>3, Zenon DEF Outcomes
    <3> QED BY <1>4, <3>2, <3>4, Zenon DEF SessionDone
  <2>2. CASE o \in {[p EXCEPT !.w = w, !.thrown = TRUE] : w \in notStarted(p.w)}
    <3>1. PICK w \in notStarted(p.w) : o = [p EXCEPT !.w = w, !.thrown = TRUE]
      BY <2>2, Zenon
    <3>2. Kept(p.w, w)
      BY <1>2, StartedKept, Zenon
    <3>3. w \in Worlds
      BY <3>2, Zenon DEF Kept
    <3>4. o \in Outcomes /\ o.w = w /\ o.cleaned = p.cleaned /\ o.thrown
      BY <1>2, <3>1, <3>3, Zenon DEF Outcomes
    <3> QED BY <1>4, <3>2, <3>4, Zenon DEF SessionDone
  <2> QED BY <1>1, <1>4, <2>1, <2>2, Zenon
<1> QED BY <1>3, <1>4, Zenon

\* Finalizing a session leaves outcomes.
LEMMA FinalizeSessionType ==
    ASSUME wlm \in Wlms, NEW acc \in SUBSET Outcomes, NEW s \in Nat
    PROVE  finalizeSession(acc, s) \in SUBSET Outcomes
BY FinalizeSessionIs, Zenon DEF SessionDone

\* The sessions of an order are finalized one after the other.
LEMMA FinalizeSessionsIs ==
    ASSUME wlm \in Wlms, NEW order, Len(order) \in Nat, \A i \in 1 .. Len(order) : order[i] \in Nat,
           NEW w \in Worlds
    PROVE  LET acc == finalizeSessions(order, w)
           IN /\ acc[0] = {[w |-> w, cleaned |-> {}, thrown |-> FALSE]}
              /\ \A i \in 0 .. Len(order) : acc[i] \in SUBSET Outcomes
              /\ \A i \in 1 .. Len(order) : acc[i] = finalizeSession(acc[i - 1], order[i])
<1> DEFINE n == Len(order)
           X == SUBSET Outcomes
           first == {[w |-> w, cleaned |-> {}, thrown |-> FALSE]}
           step == [i \in 1 .. n |-> [a \in X |-> finalizeSession(a, order[i])]]
           Is(f) == f = [i \in 0 .. n |-> IF i = 0 THEN first
                               ELSE finalizeSession(f[i - 1], order[i])]
           acc == finalizeSessions(order, w)
<1>1. first \in X
  BY DEF Outcomes
<1>2. \A i \in 1 .. n : \A a \in X : finalizeSession(a, order[i]) \in X
  BY FinalizeSessionType, Zenon
<1> HIDE DEF X, first
<1>3. step \in [1 .. n -> [X -> X]]
  BY <1>2, Zenon
<1>4. PICK f : Course(f, step, n, X, first)
  <2> HIDE DEF step, n
  <2>1. n \in Nat /\ Steps(step, n, X)
    BY <1>3, Zenon DEF Steps, n
  <2> QED BY <1>1, <2>1, Recursion, Zenon
<1>5. \A i \in 1 .. n : i - 1 \in 0 .. n /\ i \in 0 .. n /\ i # 0
  OBVIOUS
<1>6. f \in [0 .. n -> X] /\ f[0] = first
      /\ \A i \in 1 .. n : f[i] = finalizeSession(f[i - 1], order[i])
  <2>1. f \in [0 .. n -> X] /\ f[0] = first /\ \A i \in 1 .. n : f[i] = step[i][f[i - 1]]
    <3> HIDE DEF step, n
    <3> QED BY <1>4, Zenon DEF Course
  <2>2. ASSUME NEW i \in 1 .. n PROVE f[i] = finalizeSession(f[i - 1], order[i])
    <3>1. f[i - 1] \in X
      BY <1>5, <2>1, Zenon
    <3>2. step[i] = [a \in X |-> finalizeSession(a, order[i])]
      BY Zenon
    <3>3. f[i] = step[i][f[i - 1]]
      BY <2>1, Zenon
    <3> HIDE DEF step, n
    <3> QED BY <3>1, <3>2, <3>3, Zenon
  <2> QED BY <2>1, <2>2, Zenon
<1>7. Is(f)
  <2>1. \A i \in 0 .. n : i = 0 \/ i \in 1 .. n
    OBVIOUS
  <2>2. \A i \in 0 .. n : f[i] = IF i = 0 THEN first ELSE finalizeSession(f[i - 1], order[i])
    BY <1>6, <2>1, Zenon
  <2> HIDE DEF n, step
  <2> QED BY <1>6, <2>2, Zenon
<1>8. Is(acc)
  <2> HIDE DEF step
  <2> QED BY <1>7, Zenon DEF finalizeSessions, first
<1>9. acc[0] = first /\ \A i \in 1 .. n : acc[i] = finalizeSession(acc[i - 1], order[i])
  <2> HIDE DEF acc, step
  <2> QED BY <1>5, <1>8
<1>10. \A i \in 0 .. n : acc[i] \in X
  <2> DEFINE S == {i \in 0 .. n : acc[i] \in X}
  <2>1. 0 \in S
    BY <1>1, <1>9
  <2>2. ASSUME NEW i \in 0 .. n - 1, i \in S PROVE i + 1 \in S
    <3>1. i + 1 \in 1 .. n /\ (i + 1) - 1 = i /\ i + 1 \in 0 .. n
      OBVIOUS
    <3>2. acc[i + 1] = finalizeSession(acc[i], order[i + 1])
      BY <1>9, <3>1, Zenon
    <3> HIDE DEF acc
    <3> QED BY <1>2, <2>2, <3>1, <3>2, Zenon
  <2>3. 0 .. n \subseteq S
    <3> HIDE DEF S
    <3> QED BY <2>1, <2>2, Induction, Zenon
  <2> QED BY <2>3, Zenon
<1> QED BY <1>9, <1>10, Zenon DEF first, X

\* What App::finalize leaves: every session that was sent to the nodes is cleaned
\* or missed because of a throw.
Finalized(a, w, o) ==
    /\ o \in Outcomes /\ Kept(w, o.w)
    /\ \A s \in sessionsOf(a) : seqNum[s] = 0 \/ s \in o.cleaned \cup missed(a, o)
    /\ missed(a, o) \subseteq Nat

\* App::finalize keeps the App, and accounts for each of its sessions: cleaned,
\* missed because of a throw, or never sent to.
LEMMA FinalizeAppIs ==
    ASSUME wlm \in Wlms, HType, NEW a, NEW w \in Worlds, NEW o \in finalizeApp(a, w)
    PROVE  Finalized(a, w, o)
<1>1. sessionsOf(a) \subseteq 1 .. Len(appOf) /\ Len(appOf) \in Nat
  <2>1. mSess \subseteq 1 .. Len(appOf) /\ appOf \in Seq(Nat)
    BY Zenon DEF HType, SessIds
  <2>2. sessionsOf(a) \subseteq mSess
    BY Zenon DEF sessionsOf
  <2>3. Len(appOf) \in Nat
    BY <2>1
  <2> QED BY <2>1, <2>2, <2>3, Zenon
<1>2. sessionsOf(a) \subseteq Nat
  BY <1>1
<1>3. PICK order \in Orders(sessionsOf(a), Len(appOf)) : o \in finalizeSessions(order, w)[Len(order)]
  BY Zenon DEF finalizeApp
<1>4. /\ Len(order) \in Nat
      /\ \A i \in 1 .. Len(order) : order[i] \in sessionsOf(a)
      /\ \A s \in sessionsOf(a) : \E i \in 1 .. Len(order) : order[i] = s
  BY <1>1, <1>3, OrdersIs
<1> DEFINE acc == finalizeSessions(order, w)
           n == Len(order)
           Good(p, i) == /\ Kept(w, p.w)
                         /\ ~p.thrown => \A j \in 1 .. i : seqNum[order[j]] = 0 \/ order[j] \in p.cleaned
           S == {i \in 0 .. n : \A p \in acc[i] : Good(p, i)}
<1>5. /\ acc[0] = {[w |-> w, cleaned |-> {}, thrown |-> FALSE]}
      /\ \A i \in 0 .. n : acc[i] \in SUBSET Outcomes
      /\ \A i \in 1 .. n : acc[i] = finalizeSession(acc[i - 1], order[i])
  <2>1. \A i \in 1 .. Len(order) : order[i] \in Nat
    BY <1>2, <1>4, Zenon
  <2> QED BY <1>4, <2>1, FinalizeSessionsIs, Zenon
<1> HIDE DEF acc
<1>6. 0 \in S
  BY <1>4, <1>5, KeptSelf
<1>7. ASSUME NEW i \in 0 .. n - 1, i \in S PROVE i + 1 \in S
  <2>1. i + 1 \in 1 .. n /\ (i + 1) - 1 = i /\ i + 1 \in 0 .. n /\ i \in 0 .. n
    BY <1>4
  <2>2. acc[i + 1] = finalizeSession(acc[i], order[i + 1])
    BY <1>5, <2>1, Zenon
  <2>3. ASSUME NEW p \in acc[i + 1] PROVE Good(p, i + 1)
    <3>1. PICK q \in acc[i] : SessionDone(q, p, order[i + 1])
      BY <1>2, <1>4, <1>5, <2>1, <2>2, FinalizeSessionIs, Zenon
    <3>2. Good(q, i)
      BY <1>7, Zenon
    <3>3. Kept(w, p.w)
      BY <3>1, <3>2, KeptTransitive, Zenon DEF SessionDone
    <3>4. \A j \in 1 .. i + 1 : j \in 1 .. i \/ j = i + 1
      BY <2>1
    <3>5. ASSUME ~p.thrown, NEW j \in 1 .. i + 1
          PROVE  seqNum[order[j]] = 0 \/ order[j] \in p.cleaned
      BY <3>1, <3>2, <3>4, <3>5, Zenon DEF SessionDone
    <3> QED BY <3>3, <3>5, Zenon
  <2> QED BY <2>1, <2>3, Zenon
<1>8. 0 .. n \subseteq S
  <2> HIDE DEF S
  <2> QED BY <1>4, <1>6, <1>7, Induction, Zenon
<1>9. o \in Outcomes /\ Good(o, n)
  BY <1>3, <1>4, <1>5, <1>8 DEF acc
<1>10. missed(a, o) \subseteq Nat
  BY <1>2, Zenon DEF missed
<1>11. ASSUME NEW s \in sessionsOf(a) PROVE seqNum[s] = 0 \/ s \in o.cleaned \cup missed(a, o)
  BY <1>4, <1>9, Zenon DEF missed
<1> QED BY <1>9, <1>10, <1>11, Zenon DEF Finalized

-----------------------------------------------------------------------------
(* Frontend::destroy goes through all Apps, twice.                         *)

\* The daemon, the Apps and the sessions while the tool exits.
Exits == [d : Daemons, r : AppSeqs, cleaned : SUBSET Nat, missed : SUBSET Nat]

\* The fields of the world of an App are those of the daemon and of the App.
LEMMA JoinFields ==
    ASSUME NEW d, NEW r, NEW w, w = join(d, r)
    PROVE  /\ w.n = d.n /\ w.pid = d.pid /\ w.mpir = d.mpir /\ w.listed = d.listed
           /\ w.did = r.did /\ w.at = r.at /\ w.job = r.job /\ w.owns = r.owns
           /\ Ids(w) = DOMAIN d.pid
BY Zenon DEF join, Ids

\* The parts of a world have its fields.
LEMMA PartFields ==
    ASSUME NEW w
    PROVE  /\ dmnOf(w).n = w.n /\ dmnOf(w).pid = w.pid /\ dmnOf(w).mpir = w.mpir
           /\ dmnOf(w).listed = w.listed /\ DOMAIN dmnOf(w).pid = Ids(w)
           /\ appRec(w).did = w.did /\ appRec(w).at = w.at /\ appRec(w).job = w.job
           /\ appRec(w).owns = w.owns
           /\ gone(w).did = w.did /\ gone(w).job = w.job /\ gone(w).owns = w.owns
BY Zenon DEF dmnOf, appRec, Ids, gone, NoApp

\* What is left of an App that is gone is of an App's type.
LEMMA GoneType == ASSUME NEW w \in Worlds PROVE gone(w) \in Apps /\ NoApp \in Apps
BY Zenon DEF Worlds, Apps, gone, NoApp, Jobs

\* The Apps of a sequence and their fields.
LEMMA AppSeqFields ==
    ASSUME NEW r \in AppSeqs
    PROVE  /\ r \in Seq(Apps) /\ Len(r) = lastApp /\ AppIds = 1 .. Len(r)
           /\ \A a \in AppIds : /\ r[a] \in Apps /\ r[a].did \in Nat /\ r[a].at \in BOOLEAN
                                /\ r[a].job \in Jobs /\ r[a].owns \in BOOLEAN
<1>1. r \in Seq(Apps) /\ Len(r) = lastApp /\ AppIds = 1 .. Len(r)
  BY Zenon DEF AppSeqs, AppIds
<1>2. \A a \in AppIds : r[a] \in Apps
  BY <1>1
<1> QED BY <1>1, <1>2, Zenon DEF Apps

\* An App that is left as it was, except for what shipping notes.
SameApp(r, q) == q.did = r.did /\ q.at = r.at /\ q.job = r.job /\ q.owns = r.owns

\* The App a and the daemon d after a world that keeps them.
LEMMA KeptParts ==
    ASSUME NEW d \in Daemons, NEW r \in AppSeqs, NEW a \in AppIds, NEW x, lastApp \in Nat,
           Kept(join(d, r[a]), x)
    PROVE  LET q == [r EXCEPT ![a] = appRec(x)]
           IN /\ dmnOf(x) \in Daemons /\ q \in AppSeqs /\ Fresh(d, dmnOf(x))
              /\ \A b \in AppIds : SameApp(r[b], q[b])
<1> DEFINE q == [r EXCEPT ![a] = appRec(x)]
           w == join(d, r[a])
<1>1. x \in Worlds /\ Fresh(w, x) /\ x.did = w.did /\ x.at = w.at /\ x.job = w.job
      /\ x.owns = w.owns
  BY Zenon DEF Kept
<1>2. dmnOf(x) \in Daemons /\ appRec(x) \in Apps
  BY <1>1, PartsType, Zenon
<1>3. r \in Seq(Apps) /\ Len(r) = lastApp /\ a \in 1 .. Len(r)
  BY Zenon DEF AppSeqs, AppIds
<1>4. /\ q \in Seq(Apps) /\ Len(q) = Len(r) /\ q[a] = appRec(x)
      /\ \A i \in 1 .. Len(r) : i # a => q[i] = r[i]
  BY <1>2, <1>3, ExceptIs
<1>5. Fresh(d, dmnOf(x))
  <2> HIDE DEF w
  <2>1. /\ w.n = d.n /\ w.pid = d.pid /\ w.mpir = d.mpir /\ w.listed = d.listed
        /\ Ids(w) = DOMAIN d.pid
    BY JoinFields DEF w
  <2>2. /\ dmnOf(x).n = x.n /\ dmnOf(x).pid = x.pid /\ dmnOf(x).mpir = x.mpir
        /\ dmnOf(x).listed = x.listed
    BY PartFields, Zenon
  <2> QED BY <1>1, <2>1, <2>2, Zenon DEF Fresh, Ids
<1>6. SameApp(r[a], appRec(x))
  <2>1. w.did = r[a].did /\ w.at = r[a].at /\ w.job = r[a].job /\ w.owns = r[a].owns
    BY JoinFields
  <2> HIDE DEF w
  <2> QED BY <1>1, <2>1, PartFields, Zenon DEF SameApp
<1>7. ASSUME NEW b \in AppIds PROVE SameApp(r[b], q[b])
  <2>1. CASE b = a
    BY <1>4, <1>6, <2>1, Zenon
  <2>2. CASE b # a
    <3>1. q[b] = r[b]
      BY <1>3, <1>4, <2>2, Zenon DEF AppIds
    <3> QED BY <3>1, Zenon DEF SameApp
  <2> QED BY <2>1, <2>2, Zenon
<1>8. q \in AppSeqs
  BY <1>3, <1>4, Zenon DEF AppSeqs
<1> QED BY <1>2, <1>5, <1>7, <1>8, Zenon

\* New ids on top of new ids.
LEMMA FreshTransitive ==
    ASSUME NEW d \in Daemons, NEW e \in Daemons, NEW f \in Daemons, Fresh(d, e), Fresh(e, f)
    PROVE  Fresh(d, f)
<1>1. d.n \in Nat /\ e.n \in Nat /\ f.n \in Nat /\ f.pid \in PidMaps
  BY Zenon DEF Daemons
<1>2. Ids(f) \subseteq Nat
  BY <1>1, Zenon DEF PidMaps, Ids
<1>3. d.n <= f.n /\ Ids(d) \subseteq Ids(f) /\ d.listed \subseteq f.listed
  BY <1>1 DEF Fresh
<1>4. \A i \in Ids(f) : i \in Ids(d) \/ d.n < i
  BY <1>1, <1>2 DEF Fresh
<1>5. \A i \in Nat : i <= d.n => (i \in f.mpir <=> i \in d.mpir)
  BY <1>1 DEF Fresh
<1> QED BY <1>3, <1>4, <1>5, Zenon DEF Fresh

\* No new id at all.
LEMMA FreshSelf == ASSUME NEW d \in Daemons PROVE Fresh(d, d)
<1>1. d.n \in Nat
  BY Zenon DEF Daemons
<1> QED BY <1>1 DEF Fresh

\* What exitApp makes of an outcome x when it has finalized the App a.
ExitDone(x, y, a) ==
    /\ y \in Exits /\ Fresh(x.d, y.d)
    /\ \A b \in AppIds : SameApp(x.r[b], y.r[b])
    /\ x.cleaned \subseteq y.cleaned /\ x.missed \subseteq y.missed
    /\ \A s \in sessionsOf(a) : seqNum[s] = 0 \/ s \in y.cleaned \cup y.missed

\* Every result of finalizing the App a comes from an earlier one.
LEMMA ExitAppIs ==
    ASSUME wlm \in Wlms, HType, NEW acc \in SUBSET Exits, NEW a \in AppIds,
           NEW y \in exitApp(acc, a)
    PROVE  \E x \in acc : ExitDone(x, y, a)
<1>1. PICK x \in acc :
         y \in {[d |-> dmnOf(o.w), r |-> [x.r EXCEPT ![a] = appRec(o.w)],
                 cleaned |-> x.cleaned \cup o.cleaned, missed |-> x.missed \cup missed(a, o)]
                : o \in finalizeApp(a, join(x.d, x.r[a]))}
  BY Zenon DEF exitApp
<1>2. PICK o \in finalizeApp(a, join(x.d, x.r[a])) :
         y = [d |-> dmnOf(o.w), r |-> [x.r EXCEPT ![a] = appRec(o.w)],
              cleaned |-> x.cleaned \cup o.cleaned, missed |-> x.missed \cup missed(a, o)]
  BY <1>1, Zenon
<1>3. x \in Exits /\ x.d \in Daemons /\ x.r \in AppSeqs
      /\ x.cleaned \in SUBSET Nat /\ x.missed \in SUBSET Nat
  BY Zenon DEF Exits
<1>4. x.r[a] \in Apps /\ lastApp \in Nat
  BY <1>3 DEF AppSeqs, AppIds, HType
<1>5. Finalized(a, join(x.d, x.r[a]), o)
  BY <1>3, <1>4, JoinType, FinalizeAppIs, Zenon
<1>6. /\ dmnOf(o.w) \in Daemons /\ [x.r EXCEPT ![a] = appRec(o.w)] \in AppSeqs
      /\ Fresh(x.d, dmnOf(o.w))
      /\ \A b \in AppIds : SameApp(x.r[b], [x.r EXCEPT ![a] = appRec(o.w)][b])
  BY <1>3, <1>4, <1>5, KeptParts, Zenon DEF Finalized
<1>7. o.cleaned \in SUBSET Nat /\ missed(a, o) \in SUBSET Nat
  BY <1>5, Zenon DEF Finalized, Outcomes
<1>8. y \in Exits
  BY <1>2, <1>3, <1>6, <1>7, Zenon DEF Exits
<1>9. /\ y.d = dmnOf(o.w) /\ y.r = [x.r EXCEPT ![a] = appRec(o.w)]
      /\ y.cleaned = x.cleaned \cup o.cleaned /\ y.missed = x.missed \cup missed(a, o)
  BY <1>2, Zenon
<1>10. \A s \in sessionsOf(a) : seqNum[s] = 0 \/ s \in y.cleaned \cup y.missed
  BY <1>5, <1>9, Zenon DEF Finalized
<1>11. ExitDone(x, y, a)
  BY <1>6, <1>8, <1>9, <1>10, Zenon DEF ExitDone
<1> QED BY <1>11, Zenon

\* Finalizing an App leaves results of the exit.
LEMMA ExitAppType ==
    ASSUME wlm \in Wlms, HType, NEW acc \in SUBSET Exits, NEW a \in AppIds
    PROVE  exitApp(acc, a) \in SUBSET Exits
BY ExitAppIs, Zenon DEF ExitDone

\* The Apps of an order are finalized one after the other.
LEMMA ExitAppsAre ==
    ASSUME wlm \in Wlms, HType, dmn \in Daemons, rec \in AppSeqs,
           NEW order, Len(order) \in Nat, \A i \in 1 .. Len(order) : order[i] \in AppIds
    PROVE  LET acc == exitApps(order)
           IN /\ acc[0] = {[d |-> dmn, r |-> rec, cleaned |-> {}, missed |-> {}]}
              /\ \A i \in 0 .. Len(order) : acc[i] \in SUBSET Exits
              /\ \A i \in 1 .. Len(order) : acc[i] = exitApp(acc[i - 1], order[i])
<1> DEFINE n == Len(order)
           X == SUBSET Exits
           first == {[d |-> dmn, r |-> rec, cleaned |-> {}, missed |-> {}]}
           step == [i \in 1 .. n |-> [a \in X |-> exitApp(a, order[i])]]
           Is(f) == f = [i \in 0 .. n |-> IF i = 0 THEN first ELSE exitApp(f[i - 1], order[i])]
           acc == exitApps(order)
<1>1. first \in X
  BY DEF Exits
<1>2. \A i \in 1 .. n : \A a \in X : exitApp(a, order[i]) \in X
  BY ExitAppType, Zenon
<1> HIDE DEF X, first
<1>3. step \in [1 .. n -> [X -> X]]
  BY <1>2, Zenon
<1>4. PICK f : Course(f, step, n, X, first)
  <2> HIDE DEF step, n
  <2>1. n \in Nat /\ Steps(step, n, X)
    BY <1>3, Zenon DEF Steps, n
  <2> QED BY <1>1, <2>1, Recursion, Zenon
<1>5. \A i \in 1 .. n : i - 1 \in 0 .. n /\ i \in 0 .. n /\ i # 0
  OBVIOUS
<1>6. f \in [0 .. n -> X] /\ f[0] = first
      /\ \A i \in 1 .. n : f[i] = exitApp(f[i - 1], order[i])
  <2>1. f \in [0 .. n -> X] /\ f[0] = first /\ \A i \in 1 .. n : f[i] = step[i][f[i - 1]]
    <3> HIDE DEF step, n
    <3> QED BY <1>4, Zenon DEF Course
  <2>2. ASSUME NEW i \in 1 .. n PROVE f[i] = exitApp(f[i - 1], order[i])
    <3>1. f[i - 1] \in X
      BY <1>5, <2>1, Zenon
    <3>2. step[i] = [a \in X |-> exitApp(a, order[i])]
      BY Zenon
    <3>3. f[i] = step[i][f[i - 1]]
      BY <2>1, Zenon
    <3> HIDE DEF step, n
    <3> QED BY <3>1, <3>2, <3>3, Zenon
  <2> QED BY <2>1, <2>2, Zenon
<1>7. Is(f)
  <2>1. \A i \in 0 .. n : i = 0 \/ i \in 1 .. n
    OBVIOUS
  <2>2. \A i \in 0 .. n : f[i] = IF i = 0 THEN first ELSE exitApp(f[i - 1], order[i])
    BY <1>6, <2>1, Zenon
  <2> HIDE DEF n, step
  <2> QED BY <1>6, <2>2, Zenon
<1>8. Is(acc)
  <2> HIDE DEF step
  <2> QED BY <1>7, Zenon DEF exitApps, first
<1>9. acc[0] = first /\ \A i \in 1 .. n : acc[i] = exitApp(acc[i - 1], order[i])
  <2> HIDE DEF acc, step
  <2> QED BY <1>5, <1>8
<1>10. \A i \in 0 .. n : acc[i] \in X
  <2> DEFINE S == {i \in 0 .. n : acc[i] \in X}
  <2>1. 0 \in S
    BY <1>1, <1>9
  <2>2. ASSUME NEW i \in 0 .. n - 1, i \in S PROVE i + 1 \in S
    <3>1. i + 1 \in 1 .. n /\ (i + 1) - 1 = i /\ i + 1 \in 0 .. n
      OBVIOUS
    <3>2. acc[i + 1] = exitApp(acc[i], order[i + 1])
      BY <1>9, <3>1, Zenon
    <3> HIDE DEF acc
    <3> QED BY <1>2, <2>2, <3>1, <3>2
  <2>3. 0 .. n \subseteq S
    <3> HIDE DEF S
    <3> QED BY <2>1, <2>2, Induction, Zenon
  <2> QED BY <2>3, Zenon
<1> QED BY <1>9, <1>10, Zenon DEF first, X

\* When all Apps have been finalized, every session that was sent to the nodes and
\* that an App owns is cleaned or missed; ids and jobs are as before.
LEMMA ExitAppsIs ==
    ASSUME wlm \in Wlms, HType, dmn \in Daemons, rec \in AppSeqs,
           NEW order \in Orders(mApps, lastApp), NEW y \in exitApps(order)[Len(order)]
    PROVE  /\ y \in Exits /\ Fresh(dmn, y.d)
           /\ \A b \in AppIds : SameApp(rec[b], y.r[b])
           /\ \A a \in mApps : \A s \in sessionsOf(a) : seqNum[s] = 0 \/ s \in y.cleaned \cup y.missed
<1>1. mApps \subseteq AppIds /\ lastApp \in Nat
  BY Zenon DEF HType
<1>2. /\ Len(order) \in Nat
      /\ \A i \in 1 .. Len(order) : order[i] \in AppIds
      /\ \A a \in mApps : \E i \in 1 .. Len(order) : order[i] = a
  BY <1>1, OrdersIs
<1> DEFINE acc == exitApps(order)
           n == Len(order)
           Good(x, i) == /\ Fresh(dmn, x.d)
                         /\ \A b \in AppIds : SameApp(rec[b], x.r[b])
                         /\ \A j \in 1 .. i : \A s \in sessionsOf(order[j]) :
                               seqNum[s] = 0 \/ s \in x.cleaned \cup x.missed
           S == {i \in 0 .. n : \A x \in acc[i] : Good(x, i)}
<1>3. /\ acc[0] = {[d |-> dmn, r |-> rec, cleaned |-> {}, missed |-> {}]}
      /\ \A i \in 0 .. n : acc[i] \in SUBSET Exits
      /\ \A i \in 1 .. n : acc[i] = exitApp(acc[i - 1], order[i])
  BY <1>2, ExitAppsAre, Zenon
<1> HIDE DEF acc
<1>4. 0 \in S
  BY <1>2, <1>3, FreshSelf DEF SameApp
<1>5. ASSUME NEW i \in 0 .. n - 1, i \in S PROVE i + 1 \in S
  <2>1. i + 1 \in 1 .. n /\ (i + 1) - 1 = i /\ i + 1 \in 0 .. n /\ i \in 0 .. n
    BY <1>2
  <2>2. acc[i + 1] = exitApp(acc[i], order[i + 1])
    BY <1>3, <2>1, Zenon
  <2>3. ASSUME NEW y1 \in acc[i + 1] PROVE Good(y1, i + 1)
    <3>1. PICK x \in acc[i] : ExitDone(x, y1, order[i + 1])
      BY <1>2, <1>3, <2>1, <2>2, ExitAppIs, Zenon
    <3>2. Good(x, i)
      BY <1>5, Zenon
    <3>3. x.d \in Daemons /\ y1.d \in Daemons
      BY <1>3, <2>1, Zenon DEF Exits
    <3>4. Fresh(dmn, y1.d)
      BY <3>1, <3>2, <3>3, FreshTransitive, Zenon DEF ExitDone
    <3>5. \A b \in AppIds : SameApp(rec[b], y1.r[b])
      BY <3>1, <3>2, Zenon DEF ExitDone, SameApp
    <3>6. \A j \in 1 .. i + 1 : j \in 1 .. i \/ j = i + 1
      BY <2>1
    <3>7. ASSUME NEW j \in 1 .. i + 1, NEW s \in sessionsOf(order[j])
          PROVE  seqNum[s] = 0 \/ s \in y1.cleaned \cup y1.missed
      BY <3>1, <3>2, <3>6, Zenon DEF ExitDone
    <3> QED BY <3>4, <3>5, <3>7, Zenon
  <2> QED BY <2>1, <2>3, Zenon
<1>6. 0 .. n \subseteq S
  <2> HIDE DEF S
  <2> QED BY <1>2, <1>4, <1>5, Induction, Zenon
<1>7. y \in Exits /\ Good(y, n)
  <2>1. n \in 0 .. n
    BY <1>2, UpToSelf, Zenon
  <2>2. y \in acc[n]
    BY Zenon DEF acc
  <2> HIDE DEF n
  <2>3. acc[n] \in SUBSET Exits /\ \A z \in acc[n] : Good(z, n)
    BY <1>3, <1>6, <2>1, Zenon
  <2> HIDE DEF Good
  <2> QED BY <2>2, <2>3, Zenon
<1> QED BY <1>2, <1>7, Zenon

-----------------------------------------------------------------------------
(* The ties between jobs, Apps and the FE daemon.                          *)

\* The frontends whose Apps each have an id of the FE daemon of their own.
Tying == {"slurm", "pals", "ssh"}

\* Apps and strayed jobs have daemon ids of their own, a job that runs is on the
\* cleanup list under that id unless it was released, and a job that is held has
\* an MPIR session.
Tie(d, r, st, fr) ==
    /\ \A a \in AppIds : 0 < r[a].did /\ r[a].did <= d.n
    /\ \A a, b \in AppIds : a # b => r[a].did # r[b].did
    /\ \A j \in st : 0 < j.id /\ j.id <= d.n /\ \A a \in AppIds : r[a].did # j.id
    /\ \A a \in AppIds : r[a].owns => /\ r[a].job # "none"
                                      /\ r[a].job = "ended" \/ r[a].did \in d.listed \cup fr
    /\ \A j \in st : j.id \in d.listed \cup fr
    /\ \A a \in AppIds : r[a].job = "held" => r[a].did \in d.mpir

\* The job of an App may only be let go or end.
Onward(r, q, d, e) ==
    /\ q.did = r.did /\ q.owns = r.owns
    /\ q.job = "none" => r.job = "none"
    /\ r.job = "ended" => q.job = "ended"
    /\ q.job = "held" => r.job = "held" /\ (r.did \in d.mpir => r.did \in e.mpir)

\* The ties hold as long as ids only leave the cleanup list when they are released
\* or their job has ended.
LEMMA TieMoves ==
    ASSUME NEW d, NEW r, NEW st, NEW fr, NEW e, NEW q, NEW fr2, Tie(d, r, st, fr),
           d.n \in Nat, e.n \in Nat, d.n <= e.n, \A a \in AppIds : r[a].did \in Nat,
           \A j \in st : j.id \in Nat,
           \A a \in AppIds : Onward(r[a], q[a], d, e),
           fr \subseteq fr2,
           \A a \in AppIds : r[a].owns /\ r[a].did \in d.listed =>
                                r[a].did \in e.listed \cup fr2 \/ q[a].job = "ended",
           \A j \in st : j.id \in d.listed => j.id \in e.listed \cup fr2
    PROVE  Tie(e, q, st, fr2)
<1>1. \A a \in AppIds : 0 < q[a].did /\ q[a].did <= e.n
  <2>1. \A a \in AppIds : q[a].did = r[a].did
    BY Zenon DEF Onward
  <2>2. \A a \in AppIds : 0 < r[a].did /\ r[a].did <= d.n
    BY Zenon DEF Tie
  <2> QED BY <2>1, <2>2
<1>2. \A a, b \in AppIds : a # b => q[a].did # q[b].did
  <2>1. \A a \in AppIds : q[a].did = r[a].did
    BY Zenon DEF Onward
  <2> QED BY <2>1, Zenon DEF Tie
<1>3. \A j \in st : 0 < j.id /\ j.id <= e.n /\ \A a \in AppIds : q[a].did # j.id
  <2>1. \A j \in st : 0 < j.id /\ j.id <= d.n /\ \A a \in AppIds : q[a].did # j.id
    <3>1. \A a \in AppIds : q[a].did = r[a].did
      BY Zenon DEF Onward
    <3> QED BY <3>1, Zenon DEF Tie
  <2> QED BY <2>1
<1>4. ASSUME NEW a \in AppIds, q[a].owns
      PROVE  q[a].job # "none" /\ (q[a].job = "ended" \/ q[a].did \in e.listed \cup fr2)
  <2>1. Onward(r[a], q[a], d, e) /\ q[a].did = r[a].did /\ r[a].owns
    BY <1>4, Zenon DEF Onward
  <2>2. r[a].job # "none" /\ (r[a].job = "ended" \/ r[a].did \in d.listed \cup fr)
    BY <2>1, Zenon DEF Tie
  <2> QED BY <2>1, <2>2, Zenon DEF Onward
<1>5. \A j \in st : j.id \in e.listed \cup fr2
  BY Zenon DEF Tie
<1>6. \A a \in AppIds : q[a].job = "held" => q[a].did \in e.mpir
  BY Zenon DEF Onward, Tie
<1> QED BY <1>1, <1>2, <1>3, <1>4, <1>5, <1>6, Zenon DEF Tie

\* The destructor of the App a leaves the ties of all.
LEMMA TieDestroyed ==
    ASSUME NEW v \in Tying, NEW d \in Daemons, NEW r \in AppSeqs, NEW st, NEW fr, NEW a \in AppIds,
           NEW x, NEW q, Tie(d, r, st, fr), Destroyed(v, join(d, r[a]), x),
           \A b \in AppIds \ {a} : q[b] = r[b],
           q[a].did = x.did, q[a].job = x.job, q[a].owns = x.owns,
           \A j \in st : j.id \in Nat
    PROVE  Tie(dmnOf(x), q, st, fr)
<1> DEFINE w == join(d, r[a])
           e == dmnOf(x)
<1>1. /\ w.n = d.n /\ w.mpir = d.mpir /\ w.listed = d.listed /\ w.did = r[a].did
      /\ w.job = r[a].job /\ w.owns = r[a].owns /\ Ids(w) = DOMAIN d.pid
  BY JoinFields
<1>2. e.n = x.n /\ e.mpir = x.mpir /\ e.listed = x.listed
  BY PartFields, Zenon
<1>3. d.n \in Nat /\ \A b \in AppIds : r[b] \in Apps /\ r[b].did \in Nat
  BY AppSeqFields, Zenon DEF Daemons
<1> HIDE DEF w, e
<1>4. /\ x.n = w.n /\ x.mpir = w.mpir /\ x.did = w.did /\ x.owns = w.owns
      /\ x.listed = IF v \in GivesBack /\ w.did \in Ids(w) THEN w.listed \ {w.did} ELSE w.listed
      /\ x.job = IF Ended(v, w) THEN "ended" ELSE w.job
  <2>1. Destroyed(v, w, x)
    BY Zenon DEF w
  <2> QED BY <2>1, Zenon DEF Destroyed
<1>5. e.n = d.n /\ e.mpir = d.mpir
  BY <1>1, <1>2, <1>4, Zenon
<1>6. q[a].did = r[a].did /\ q[a].owns = r[a].owns
      /\ (q[a].job = "ended" \/ q[a].job = r[a].job)
  BY <1>1, <1>4, Zenon
<1>7. \A b \in AppIds : Onward(r[b], q[b], d, e)
  <2>1. ASSUME NEW b \in AppIds PROVE Onward(r[b], q[b], d, e)
    <3>1. CASE b = a
      BY <1>5, <1>6, <3>1, Zenon DEF Onward
    <3>2. CASE b # a
      BY <1>5, <3>2, Zenon DEF Onward
    <3> QED BY <3>1, <3>2, Zenon
  <2> QED BY <2>1, Zenon
<1>8. e.listed = d.listed \/ (e.listed = d.listed \ {r[a].did} /\ v \in GivesBack
      /\ w.did \in Ids(w))
  BY <1>1, <1>2, <1>4, Zenon
<1>9. ASSUME NEW b \in AppIds, r[b].owns, r[b].did \in d.listed
      PROVE  r[b].did \in e.listed \cup fr \/ q[b].job = "ended"
  <2>1. CASE b = a
    <3>1. r[a].job # "none"
      BY <1>9, <2>1, Zenon DEF Tie
    <3>2. CASE e.listed = d.listed
      BY <1>9, <3>2, Zenon
    <3>3. CASE v \in GivesBack /\ w.did \in Ids(w)
      <4>1. Ended(v, w)
        BY <1>1, <1>9, <2>1, <3>1, <3>3, Zenon DEF Ended
      <4> QED BY <1>4, <2>1, <4>1, Zenon
    <3> QED BY <1>8, <3>2, <3>3
  <2>2. CASE b # a
    <3>1. r[b].did # r[a].did
      BY <2>2, Zenon DEF Tie
    <3> QED BY <1>8, <1>9, <3>1, Zenon
  <2> QED BY <2>1, <2>2, Zenon
<1>10. \A j \in st : j.id \in d.listed => j.id \in e.listed \cup fr
  <2>1. \A j \in st : j.id # r[a].did
    BY Zenon DEF Tie
  <2> QED BY <1>8, <2>1, Zenon
<1>11. e.n \in Nat /\ d.n <= e.n
  BY <1>3, <1>5
<1>12. Tie(e, q, st, fr)
  BY <1>3, <1>7, <1>9, <1>10, <1>11, TieMoves, Zenon
<1> QED BY <1>12, Zenon DEF e

-----------------------------------------------------------------------------
(* ~Frontend deletes the Apps.                                             *)

\* What endApp makes of x when it destroys the App a.
EndDone(x, y, a) ==
    /\ y \in Exits /\ y.cleaned = x.cleaned /\ y.missed = x.missed
    /\ DOMAIN y.d.pid \subseteq DOMAIN x.d.pid
    /\ wlm \in GivesBack => x.r[a].did \notin DOMAIN y.d.pid
    /\ \A b \in AppIds : /\ y.r[b].did = x.r[b].did /\ y.r[b].owns = x.r[b].owns
                         /\ x.r[b].job = "ended" => y.r[b].job = "ended"
    /\ wlm = "eproxy" /\ y.r[a].owns => y.r[a].job = "ended"
    /\ wlm \in Tying /\ Tie(x.d, x.r, strays, freed) => Tie(y.d, y.r, strays, freed)

\* The destructor of one App.
LEMMA EndAppIs ==
    ASSUME wlm \in Wlms, lastApp \in Nat, \A j \in strays : j.id \in Nat,
           NEW x \in Exits, NEW a \in AppIds
    PROVE  EndDone(x, endApp(x, a), a)
<1> DEFINE w == join(x.d, x.r[a])
           z == destroyApp(wlm, w)
           q == [x.r EXCEPT ![a] = appRec(z)]
           y == endApp(x, a)
<1>1. x.d \in Daemons /\ x.r \in AppSeqs /\ x.cleaned \in SUBSET Nat /\ x.missed \in SUBSET Nat
  BY Zenon DEF Exits
<1>2. x.r \in Seq(Apps) /\ Len(x.r) = lastApp /\ a \in 1 .. Len(x.r) /\ x.r[a] \in Apps
  BY <1>1, AppSeqFields, Zenon
<1>3. w \in Worlds
  BY <1>1, <1>2, JoinType, Zenon
<1>4. Destroyed(wlm, w, z)
  BY <1>3, DestroyIs, Zenon
<1>5. dmnOf(z) \in Daemons /\ appRec(z) \in Apps
  BY <1>4, PartsType, Zenon DEF Destroyed
<1>6. /\ q \in Seq(Apps) /\ Len(q) = Len(x.r) /\ q[a] = appRec(z)
      /\ \A i \in 1 .. Len(x.r) : i # a => q[i] = x.r[i]
  BY <1>2, <1>5, ExceptIs
<1>7. y = [x EXCEPT !.d = dmnOf(z), !.r = q]
  BY Zenon DEF endApp
<1>8. q \in AppSeqs
  BY <1>2, <1>6, Zenon DEF AppSeqs
<1>9. w.did = x.r[a].did /\ w.job = x.r[a].job /\ w.owns = x.r[a].owns /\ Ids(w) = DOMAIN x.d.pid
  BY JoinFields
<1> HIDE DEF z, q, w, y
<1>10. y \in Exits /\ y.d = dmnOf(z) /\ y.r = q /\ y.cleaned = x.cleaned /\ y.missed = x.missed
  BY <1>1, <1>5, <1>7, <1>8, Zenon DEF Exits
<1>11. /\ DOMAIN y.d.pid = Ids(z) /\ q[a].did = z.did /\ q[a].job = z.job /\ q[a].owns = z.owns
  BY <1>6, <1>10, PartFields
<1>12. /\ Ids(z) = IF wlm \in GivesBack THEN Ids(w) \ {w.did} ELSE Ids(w)
       /\ z.did = w.did /\ z.owns = w.owns
       /\ z.job = IF Ended(wlm, w) THEN "ended" ELSE w.job
  BY <1>4, Zenon DEF Destroyed
<1>13. DOMAIN y.d.pid \subseteq DOMAIN x.d.pid
       /\ (wlm \in GivesBack => x.r[a].did \notin DOMAIN y.d.pid)
  BY <1>9, <1>11, <1>12, Zenon
<1>14. ASSUME NEW b \in AppIds
       PROVE  /\ y.r[b].did = x.r[b].did /\ y.r[b].owns = x.r[b].owns
              /\ x.r[b].job = "ended" => y.r[b].job = "ended"
  <2>1. CASE b = a
    BY <1>9, <1>10, <1>11, <1>12, <2>1, Zenon
  <2>2. CASE b # a
    <3>1. q[b] = x.r[b]
      BY <1>2, <1>6, <2>2, Zenon DEF AppIds
    <3> QED BY <1>10, <3>1, Zenon
  <2> QED BY <2>1, <2>2, Zenon
<1>15. wlm = "eproxy" /\ y.r[a].owns => y.r[a].job = "ended"
  BY <1>10, <1>11, <1>12, Zenon DEF Ended
<1>16. ASSUME wlm \in Tying, Tie(x.d, x.r, strays, freed)
       PROVE  Tie(y.d, y.r, strays, freed)
  <2>1. Destroyed(wlm, join(x.d, x.r[a]), z)
    BY <1>4, Zenon DEF w
  <2>2. \A b \in AppIds \ {a} : q[b] = x.r[b]
    BY <1>2, <1>6, Zenon DEF AppIds
  <2>3. q[a].did = z.did /\ q[a].job = z.job /\ q[a].owns = z.owns
    BY <1>11, Zenon
  <2>4. x.d \in Daemons /\ x.r \in AppSeqs
    BY <1>1, Zenon
  <2>5. \A d \in Daemons, r \in AppSeqs :
           /\ Tie(d, r, strays, freed) /\ Destroyed(wlm, join(d, r[a]), z)
           /\ \A b \in AppIds \ {a} : q[b] = r[b]
           => Tie(dmnOf(z), q, strays, freed)
    BY <1>16, <2>3, TieDestroyed, Zenon
  <2>6. Tie(dmnOf(z), q, strays, freed)
    BY <1>16, <2>1, <2>2, <2>4, <2>5, Zenon
  <2> QED BY <1>10, <2>6, Zenon
<1>17. EndDone(x, y, a)
  BY <1>10, <1>13, <1>14, <1>15, <1>16, Zenon DEF EndDone
<1> QED BY <1>17, Zenon DEF y

\* The Apps of an order are destroyed one after the other.
LEMMA EndAppsAre ==
    ASSUME wlm \in Wlms, lastApp \in Nat, \A j \in strays : j.id \in Nat, NEW x \in Exits,
           NEW order, Len(order) \in Nat, \A i \in 1 .. Len(order) : order[i] \in AppIds
    PROVE  LET end == endApps(order, x)
           IN /\ end[0] = x
              /\ \A i \in 0 .. Len(order) : end[i] \in Exits
              /\ \A i \in 1 .. Len(order) : end[i] = endApp(end[i - 1], order[i])
<1> DEFINE n == Len(order)
           step == [i \in 1 .. n |-> [y \in Exits |-> endApp(y, order[i])]]
           Is(f) == f = [i \in 0 .. n |-> IF i = 0 THEN x ELSE endApp(f[i - 1], order[i])]
           end == endApps(order, x)
<1>1. \A i \in 1 .. n : \A y \in Exits : endApp(y, order[i]) \in Exits
  BY EndAppIs, Zenon DEF EndDone
<1>2. step \in [1 .. n -> [Exits -> Exits]]
  BY <1>1, Zenon
<1>3. PICK f : Course(f, step, n, Exits, x)
  <2> HIDE DEF step, n
  <2>1. n \in Nat /\ Steps(step, n, Exits)
    BY <1>2, Zenon DEF Steps, n
  <2> QED BY <2>1, Recursion, Zenon
<1>4. \A i \in 1 .. n : i - 1 \in 0 .. n /\ i \in 0 .. n /\ i # 0
  OBVIOUS
<1>5. f \in [0 .. n -> Exits] /\ f[0] = x
      /\ \A i \in 1 .. n : f[i] = endApp(f[i - 1], order[i])
  <2>1. f \in [0 .. n -> Exits] /\ f[0] = x /\ \A i \in 1 .. n : f[i] = step[i][f[i - 1]]
    <3> HIDE DEF step, n
    <3> QED BY <1>3, Zenon DEF Course
  <2>2. ASSUME NEW i \in 1 .. n PROVE f[i] = endApp(f[i - 1], order[i])
    <3>1. f[i - 1] \in Exits
      BY <1>4, <2>1, Zenon
    <3>2. step[i] = [y \in Exits |-> endApp(y, order[i])]
      BY Zenon
    <3>3. f[i] = step[i][f[i - 1]]
      BY <2>1, Zenon
    <3> HIDE DEF step, n
    <3> QED BY <3>1, <3>2, <3>3, Zenon
  <2> QED BY <2>1, <2>2, Zenon
<1>6. Is(f)
  <2>1. \A i \in 0 .. n : i = 0 \/ i \in 1 .. n
    OBVIOUS
  <2>2. \A i \in 0 .. n : f[i] = IF i = 0 THEN x ELSE endApp(f[i - 1], order[i])
    BY <1>5, <2>1, Zenon
  <2> HIDE DEF n, step
  <2> QED BY <1>5, <2>2, Zenon
<1>7. Is(end)
  <2> HIDE DEF step
  <2> QED BY <1>6, Zenon DEF endApps
<1>8. end[0] = x /\ \A i \in 1 .. n : end[i] = endApp(end[i - 1], order[i])
  <2> HIDE DEF end, step
  <2> QED BY <1>4, <1>7
<1>9. \A i \in 0 .. n : end[i] \in Exits
  <2> DEFINE S == {i \in 0 .. n : end[i] \in Exits}
  <2>1. 0 \in S
    BY <1>8
  <2>2. ASSUME NEW i \in 0 .. n - 1, i \in S PROVE i + 1 \in S
    <3>1. i + 1 \in 1 .. n /\ (i + 1) - 1 = i /\ i + 1 \in 0 .. n
      OBVIOUS
    <3>2. end[i + 1] = endApp(end[i], order[i + 1])
      BY <1>8, <3>1, Zenon
    <3> HIDE DEF end
    <3> QED BY <1>1, <2>2, <3>1, <3>2, Zenon
  <2>3. 0 .. n \subseteq S
    <3> HIDE DEF S
    <3> QED BY <2>1, <2>2, Induction, Zenon
  <2> QED BY <2>3, Zenon
<1> QED BY <1>8, <1>9, Zenon

\* What the destructors of all Apps make of x: the ids are given back and an
\* Eproxy's jobs have ended; the ties of the others hold.
AllEnded(x, y) ==
    /\ y \in Exits /\ y.cleaned = x.cleaned /\ y.missed = x.missed
    /\ DOMAIN y.d.pid \subseteq DOMAIN x.d.pid
    /\ wlm \in GivesBack => \A a \in mApps : x.r[a].did \notin DOMAIN y.d.pid
    /\ \A b \in AppIds : /\ y.r[b].did = x.r[b].did /\ y.r[b].owns = x.r[b].owns
                         /\ x.r[b].job = "ended" => y.r[b].job = "ended"
    /\ wlm = "eproxy" => \A a \in mApps : x.r[a].owns => y.r[a].job = "ended"
    /\ wlm \in Tying /\ Tie(x.d, x.r, strays, freed) => Tie(y.d, y.r, strays, freed)

\* ~Frontend destroys all Apps, whatever the order.
LEMMA EndAppsIs ==
    ASSUME wlm \in Wlms, HType, \A j \in strays : j.id \in Nat, NEW x \in Exits,
           NEW order \in Orders(mApps, lastApp)
    PROVE  AllEnded(x, endApps(order, x)[Len(order)])
<1>1. mApps \subseteq AppIds /\ lastApp \in Nat
  BY Zenon DEF HType
<1>2. /\ Len(order) \in Nat
      /\ \A i \in 1 .. Len(order) : order[i] \in AppIds
      /\ \A a \in mApps : \E i \in 1 .. Len(order) : order[i] = a
  BY <1>1, OrdersIs
<1> DEFINE end == endApps(order, x)
           n == Len(order)
           y == end[n]
           Good(z, i) ==
             /\ z.cleaned = x.cleaned /\ z.missed = x.missed
             /\ DOMAIN z.d.pid \subseteq DOMAIN x.d.pid
             /\ wlm \in GivesBack => \A j \in 1 .. i : x.r[order[j]].did \notin DOMAIN z.d.pid
             /\ \A b \in AppIds : /\ z.r[b].did = x.r[b].did /\ z.r[b].owns = x.r[b].owns
                                  /\ x.r[b].job = "ended" => z.r[b].job = "ended"
             /\ wlm = "eproxy" => \A j \in 1 .. i : x.r[order[j]].owns => z.r[order[j]].job = "ended"
             /\ wlm \in Tying /\ Tie(x.d, x.r, strays, freed) => Tie(z.d, z.r, strays, freed)
           S == {i \in 0 .. n : Good(end[i], i)}
<1>3. /\ end[0] = x
      /\ \A i \in 0 .. n : end[i] \in Exits
      /\ \A i \in 1 .. n : end[i] = endApp(end[i - 1], order[i])
  BY <1>1, <1>2, EndAppsAre
<1> HIDE DEF end
<1>4. 0 \in S
  <2>1. 0 \in 0 .. n /\ ~\E j : j \in 1 .. 0
    BY <1>2
  <2> HIDE DEF n
  <2> QED BY <1>3, <2>1, Zenon
<1>5. ASSUME NEW i \in 0 .. n - 1, i \in S PROVE i + 1 \in S
  <2>1. i + 1 \in 1 .. n /\ (i + 1) - 1 = i /\ i + 1 \in 0 .. n /\ i \in 0 .. n
    BY <1>2
  <2> DEFINE p == end[i]
             z == end[i + 1]
             a == order[i + 1]
  <2>2. z = endApp(p, a) /\ p \in Exits /\ a \in AppIds
    BY <1>2, <1>3, <2>1, Zenon
  <2>3. Good(p, i)
    BY <1>5, Zenon
  <2> HIDE DEF p, z
  <2>4. EndDone(p, z, a)
    BY <1>1, <2>2, EndAppIs, Zenon
  <2>5. \A j \in 1 .. i + 1 : j \in 1 .. i \/ j = i + 1
    BY <2>1
  <2>6. \A j \in 1 .. i : order[j] \in AppIds
    BY <1>2, <2>1
  <2> HIDE DEF n
  <2>7. z.cleaned = x.cleaned /\ z.missed = x.missed /\ DOMAIN z.d.pid \subseteq DOMAIN x.d.pid
    BY <2>3, <2>4, Zenon DEF EndDone
  <2>8. ASSUME wlm \in GivesBack, NEW j \in 1 .. i + 1
        PROVE  x.r[order[j]].did \notin DOMAIN z.d.pid
    <3>1. CASE j \in 1 .. i
      BY <2>3, <2>4, <2>8, <3>1, Zenon DEF EndDone
    <3>2. CASE j = i + 1
      <4>1. p.r[a].did = x.r[a].did
        BY <2>2, <2>3, Zenon
      <4> QED BY <2>4, <2>8, <3>2, <4>1, Zenon DEF EndDone
    <3> QED BY <2>5, <3>1, <3>2, Zenon
  <2>9. \A b \in AppIds : /\ z.r[b].did = x.r[b].did /\ z.r[b].owns = x.r[b].owns
                          /\ x.r[b].job = "ended" => z.r[b].job = "ended"
    BY <2>3, <2>4, Zenon DEF EndDone
  <2>10. ASSUME wlm = "eproxy", NEW j \in 1 .. i + 1, x.r[order[j]].owns
         PROVE  z.r[order[j]].job = "ended"
    <3>1. CASE j \in 1 .. i
      <4>1. p.r[order[j]].job = "ended"
        BY <2>3, <2>10, <3>1, Zenon
      <4> QED BY <2>4, <2>6, <3>1, <4>1, Zenon DEF EndDone
    <3>2. CASE j = i + 1
      <4>1. z.r[a].owns
        BY <2>2, <2>9, <2>10, <3>2, Zenon
      <4> QED BY <2>4, <2>10, <3>2, <4>1, Zenon DEF EndDone
    <3> QED BY <2>5, <3>1, <3>2, Zenon
  <2>11. wlm \in Tying /\ Tie(x.d, x.r, strays, freed) => Tie(z.d, z.r, strays, freed)
    BY <2>3, <2>4, Zenon DEF EndDone
  <2>12. Good(z, i + 1)
    BY <2>7, <2>8, <2>9, <2>10, <2>11, Zenon
  <2> QED BY <2>1, <2>12, Zenon DEF z
<1>6. 0 .. n \subseteq S
  <2> HIDE DEF S
  <2> QED BY <1>2, <1>4, <1>5, Induction, Zenon
<1>7. y = end[n] /\ n \in 0 .. n
  BY <1>2, UpToSelf, Zenon
<1> HIDE DEF y
<1>8. Good(y, n)
  <2> HIDE DEF Good, n
  <2> QED BY <1>6, <1>7, Zenon
<1>9. y \in Exits
  BY <1>3, <1>7, Zenon
<1>10. AllEnded(x, y)
  BY <1>2, <1>8, <1>9, Zenon DEF AllEnded
<1> QED BY <1>10, Zenon DEF y, end

-----------------------------------------------------------------------------
(* What the calls keep, and the calls that make an App.                    *)

\* The ties of the frontends that go through the FE daemon; an Eproxy, whose jobs
\* are at another host's daemon, ends them with their Apps.
Ties ==
    /\ wlm \in Tying => Tie(dmn, rec, strays, freed)
    /\ wlm = "eproxy" => /\ strays = {}
                         /\ \A a \in AppIds : rec[a].owns => a \in mApps \/ rec[a].job = "ended"

\* After the exit of the tool nothing is left of the frontend.
Down == up = "down" => dmn.listed = {} /\ mApps = {}

\* An App of PALS or ALPS knows that its job is held.
Barriers ==
    wlm \in {"pals", "alps"} => \A a \in mApps : rec[a].job = "held" => rec[a].at

\* The ids of the daemon; with Localhost no App has one.
OwnedIds ==
    wlm \notin {"pals", "alps"} =>
        \A i \in daemonIds : i \in dropped \/ (wlm # "localhost" /\ \E a \in mApps : rec[a].did = i)

\* What the calls keep, besides the types.
Calls == Ties /\ Down /\ Barriers /\ OwnedIds

\* The frontend starts with no App, no id and no file.
LEMMA CallsInit == Init => FType /\ Calls
<1> SUFFICES ASSUME Init PROVE FType /\ Calls
  OBVIOUS
<1>1. AppIds = {} /\ SessIds = {} /\ lastApp = 0 /\ mApps = {} /\ Len(appOf) = 0
  BY DEF Init, HInit, AppIds, SessIds
<1>2. << >> \in PidMaps /\ DOMAIN << >> = {}
  <2>1. << >> \in [{} -> Pids]
    OBVIOUS
  <2> QED BY <2>1, Zenon DEF PidMaps
<1>3. dmn \in Daemons /\ daemonIds = {}
  BY <1>2, Zenon DEF Init, Daemons, daemonIds
<1>4. FType
  BY <1>1, <1>3 DEF Init, FType, AppSeqs
<1>5. Calls
  BY <1>1, <1>3, Zenon DEF Init, Calls, Ties, Tie, Down, Barriers, OwnedIds
<1> QED BY <1>4, <1>5, Zenon

\* The ties hold when the daemon has only got new ids and the Apps are the same.
LEMMA TieKept ==
    ASSUME NEW d \in Daemons, NEW e \in Daemons, NEW r \in AppSeqs, NEW q, NEW st, NEW fr,
           \A j \in st : j.id \in Nat,
           Fresh(d, e), \A b \in AppIds : SameApp(r[b], q[b]), Tie(d, r, st, fr)
    PROVE  Tie(e, q, st, fr)
<1>1. d.n \in Nat /\ e.n \in Nat /\ \A b \in AppIds : r[b].did \in Nat
  BY AppSeqFields, Zenon DEF Daemons
<1>2. d.n <= e.n /\ d.listed \subseteq e.listed
      /\ \A i \in Nat : i <= d.n => (i \in e.mpir <=> i \in d.mpir)
  BY Zenon DEF Fresh
<1>3. \A b \in AppIds : r[b].did <= d.n
  BY Zenon DEF Tie
<1>4. \A b \in AppIds : Onward(r[b], q[b], d, e)
  BY <1>1, <1>2, <1>3, Zenon DEF Onward, SameApp
<1> QED BY <1>1, <1>2, <1>4, TieMoves, Zenon

\* Jobs left behind have numbers as ids.
LEMMA StraysIds == ASSUME FType PROVE \A j \in strays : j.id \in Nat
BY Zenon DEF FType

\* A call that starts from no App.
LEMMA BlankIs ==
    ASSUME FType
    PROVE  /\ blank \in Worlds /\ blank.n = dmn.n /\ blank.mpir = dmn.mpir
           /\ blank.listed = dmn.listed /\ Ids(blank) = daemonIds
           /\ blank.did = 0 /\ ~blank.owns /\ blank.job = "none"
<1>1. NoApp \in Apps /\ NoApp.did = 0 /\ ~NoApp.owns /\ NoApp.job = "none"
  BY Zenon DEF NoApp, Apps, Jobs
<1>2. blank \in Worlds
  BY <1>1, JoinType, Zenon DEF blank, FType
<1>3. /\ blank.n = dmn.n /\ blank.mpir = dmn.mpir
      /\ blank.listed = dmn.listed /\ Ids(blank) = daemonIds
      /\ blank.did = NoApp.did /\ blank.owns = NoApp.owns /\ blank.job = NoApp.job
  BY JoinFields DEF blank, daemonIds
<1> QED BY <1>1, <1>2, <1>3, Zenon

\* An App more.
LEMMA AppMore ==
    ASSUME FType, lastApp \in Nat, NEW x \in Apps, rec' = Append(rec, x), lastApp' = lastApp + 1
    PROVE  /\ rec' \in AppSeqs' /\ AppIds' = AppIds \cup {lastApp + 1} /\ lastApp + 1 \notin AppIds
           /\ rec'[lastApp + 1] = x /\ \A a \in AppIds : rec'[a] = rec[a]
<1>1. rec \in Seq(Apps) /\ Len(rec) = lastApp
  BY Zenon DEF FType, AppSeqs
<1>2. /\ Append(rec, x) \in Seq(Apps) /\ Len(Append(rec, x)) = Len(rec) + 1
      /\ \A i \in 1 .. Len(rec) : Append(rec, x)[i] = rec[i]
      /\ Append(rec, x)[Len(rec) + 1] = x
  BY <1>1, AppendIs
<1>3. AppIds' = AppIds \cup {lastApp + 1} /\ lastApp + 1 \notin AppIds
  BY DEF AppIds
<1> QED BY <1>1, <1>2, <1>3, Zenon DEF AppSeqs, AppIds

\* Without a registration the daemon has the ids it had.
LEMMA NoRegisterRun ==
    ASSUME NEW w \in Worlds, NEW s, Len(s) \in Nat, \A k \in 1 .. Len(s) : s[k] \notin Registers
    PROVE  \A k \in 0 .. Len(s) : Ids(After(w, s, k)) = Ids(w)
<1> DEFINE S == {k \in 0 .. Len(s) : Ids(After(w, s, k)) = Ids(w)}
<1>1. /\ After(w, s, 0) = w
      /\ \A k \in 0 .. Len(s) : After(w, s, k) \in Worlds
      /\ \A k \in 1 .. Len(s) : After(w, s, k) = Apply(After(w, s, k - 1), s[k])
  BY RunIs, Zenon
<1>2. 0 \in S
  BY <1>1
<1>3. ASSUME NEW k \in 0 .. Len(s) - 1, k \in S PROVE k + 1 \in S
  <2>1. k + 1 \in 1 .. Len(s) /\ k + 1 \in 0 .. Len(s) /\ k \in 0 .. Len(s) /\ (k + 1) - 1 = k
    OBVIOUS
  <2>2. After(w, s, k + 1) = Apply(After(w, s, k), s[k + 1]) /\ After(w, s, k) \in Worlds
    BY <1>1, <2>1, Zenon
  <2>3. Changes(After(w, s, k), s[k + 1], After(w, s, k + 1))
    BY <2>2, ApplyIs, Zenon
  <2>4. s[k + 1] \notin Registers
    BY <2>1, Zenon
  <2>5. Ids(After(w, s, k + 1)) = Ids(After(w, s, k))
    BY <2>3, <2>4, Zenon DEF Changes
  <2> QED BY <1>3, <2>1, <2>5, Zenon
<1>4. 0 .. Len(s) \subseteq S
  <2> HIDE DEF S
  <2> QED BY <1>2, <1>3, Induction, Zenon
<1> QED BY <1>4, Zenon

\* A script that makes an App of a frontend that ties its jobs to the daemon.
LEMMA MakingTied ==
    ASSUME FType, wlm \in Tying, NEW s, Making(wlm, s), NEW k \in 0 .. Len(s)
    PROVE  LET w == After(blank, s, k)
           IN /\ w \in Worlds /\ Fresh(dmn, w)
              /\ w.did = 0 \/ (dmn.n < w.did /\ w.did <= w.n)
              /\ k = Len(s) => w.did # 0
              /\ w.owns => w.did # 0 /\ w.did \in w.listed /\ w.job # "none"
              /\ w.job = "held" => w.did \in w.mpir
<1> DEFINE w == After(blank, s, k)
<1>1. Launching(s) /\ Did(s, Len(s), Setters) /\ Tidy(s) /\ Len(s) \in Nat
  BY Zenon DEF Making, Tying, Launching
<1>2. /\ blank \in Worlds /\ blank.n = dmn.n /\ blank.mpir = dmn.mpir
      /\ blank.listed = dmn.listed /\ Ids(blank) = daemonIds
      /\ blank.did = 0 /\ ~blank.owns /\ blank.job = "none"
  BY BlankIs, Zenon
<1>3. w \in Worlds
  BY <1>1, <1>2, RunIs, Zenon
<1>4. /\ Fresh(blank, w)
      /\ Did(s, k, Setters) => blank.n < w.did /\ w.did <= w.n
      /\ ~Did(s, k, Setters) => w.did = blank.did
  BY <1>1, <1>2, FreshRun, Zenon
<1>5. /\ w.owns => Did(s, k, {"launchMPIR"}) /\ w.did \in w.listed /\ w.job # "none"
      /\ w.job = "held" => w.owns /\ w.did \in w.mpir
  BY <1>1, <1>2, LaunchRun, Zenon
<1> HIDE DEF w
<1>6. Fresh(dmn, w)
  BY <1>2, <1>4, Zenon DEF Fresh, Ids, daemonIds
<1>7. w.owns => Did(s, k, Setters)
  BY <1>5, Zenon DEF Did, Setters, Registers
<1>8. dmn.n \in Nat /\ w.did \in Nat
  BY <1>3, WorldFields, Zenon DEF FType, Daemons
<1>9. /\ w.did = 0 \/ (dmn.n < w.did /\ w.did <= w.n)
      /\ k = Len(s) => w.did # 0
      /\ w.owns => w.did # 0
  BY <1>1, <1>2, <1>4, <1>7, <1>8
<1> QED BY <1>3, <1>5, <1>6, <1>9, Zenon DEF w

\* The ties with an App more.
LEMMA TieAdd ==
    ASSUME FType, lastApp \in Nat, NEW w \in Worlds, NEW x \in Apps, lastApp' = lastApp + 1,
           rec' = Append(rec, x), Fresh(dmn, w), Tie(dmn, rec, strays, freed),
           x.did = w.did, x.owns = w.owns, x.job = w.job, dmn.n < w.did, w.did <= w.n,
           w.owns => w.did \in w.listed /\ w.job # "none",
           w.job = "held" => w.did \in w.mpir,
           dmn' = dmnOf(w), UNCHANGED <<strays, freed>>
    PROVE  Tie(dmn, rec, strays, freed)'
<1>1. /\ AppIds' = AppIds \cup {lastApp + 1} /\ lastApp + 1 \notin AppIds
      /\ rec'[lastApp + 1] = x /\ \A a \in AppIds : rec'[a] = rec[a]
  BY AppMore, Zenon
<1>2. dmn \in Daemons /\ rec \in AppSeqs /\ \A j \in strays : j.id \in Nat
  BY StraysIds, Zenon DEF FType
<1>3. dmn' \in Daemons /\ dmn'.n = w.n /\ dmn'.listed = w.listed /\ dmn'.mpir = w.mpir
      /\ dmn'.pid = w.pid
  BY PartsType, PartFields, Zenon
<1>4. Fresh(dmn, dmn')
  BY <1>3, Zenon DEF Fresh, Ids
<1>5. Tie(dmn', rec', strays, freed)
  <2>1. \A b \in AppIds : SameApp(rec[b], rec'[b])
    BY <1>1, Zenon DEF SameApp
  <2> QED BY <1>2, <1>3, <1>4, <2>1, TieKept, Zenon
<1>6. dmn.n \in Nat /\ w.did \in Nat /\ \A a \in AppIds : rec[a].did \in Nat /\ rec[a].did <= dmn.n
  <2>1. \A a \in AppIds : rec[a].did <= dmn.n
    BY Zenon DEF Tie
  <2> QED BY <1>2, <2>1, WorldFields, AppSeqFields, Zenon DEF Daemons
<1>7. \A j \in strays : j.id <= dmn.n
  BY Zenon DEF Tie
<1>8. 0 < w.did
  BY <1>6, AboveNat, Zenon
<1>9. ASSUME NEW a \in AppIds PROVE rec'[a].did # w.did
  <2>1. rec'[a] = rec[a] /\ rec[a].did \in Nat /\ rec[a].did <= dmn.n
    BY <1>1, <1>6, Zenon
  <2> QED BY <1>6, <2>1, NotAbove, Zenon
<1>10. ASSUME NEW j \in strays PROVE j.id # w.did
  <2>1. j.id \in Nat /\ j.id <= dmn.n
    BY <1>2, <1>7, Zenon
  <2> QED BY <1>6, <2>1, NotAbove, Zenon
<1> DEFINE n == lastApp + 1
<1>11. n \notin AppIds /\ rec'[n].did = w.did /\ rec'[n].owns = w.owns /\ rec'[n].job = w.job
       /\ \A a \in AppIds' : a \in AppIds \/ a = n
  BY <1>1, Zenon
<1> HIDE DEF n
<1>12. ASSUME NEW a \in AppIds'
       PROVE  /\ 0 < rec'[a].did /\ rec'[a].did <= dmn'.n
              /\ rec'[a].owns => /\ rec'[a].job # "none"
                                 /\ rec'[a].job = "ended" \/ rec'[a].did \in dmn'.listed \cup freed
              /\ rec'[a].job = "held" => rec'[a].did \in dmn'.mpir
  <2>1. CASE a \in AppIds
    BY <1>5, <2>1, Zenon DEF Tie
  <2>2. CASE a = n
    BY <1>3, <1>8, <1>11, <2>2, Zenon
  <2> QED BY <1>11, <2>1, <2>2, Zenon
<1>13. ASSUME NEW a \in AppIds', NEW b \in AppIds', a # b PROVE rec'[a].did # rec'[b].did
  <2>1. CASE a \in AppIds /\ b \in AppIds
    BY <1>5, <1>13, <2>1, Zenon DEF Tie
  <2>2. CASE a = n \/ b = n
    BY <1>9, <1>11, <1>13, <2>2, Zenon
  <2> QED BY <1>11, <2>1, <2>2, Zenon
<1>14. ASSUME NEW j \in strays
       PROVE  /\ 0 < j.id /\ j.id <= dmn'.n /\ j.id \in dmn'.listed \cup freed
              /\ \A a \in AppIds' : rec'[a].did # j.id
  <2>1. /\ 0 < j.id /\ j.id <= dmn'.n /\ j.id \in dmn'.listed \cup freed
        /\ \A a \in AppIds : rec'[a].did # j.id
    BY <1>5, Zenon DEF Tie
  <2>2. rec'[n].did # j.id
    BY <1>10, <1>11, Zenon
  <2> QED BY <1>11, <2>1, <2>2, Zenon
<1>15. strays' = strays /\ freed' = freed
  OBVIOUS
<1> QED BY <1>12, <1>13, <1>14, <1>15, Zenon DEF Tie

\* The inductive invariant of the interface.
FInv == HInv /\ FType /\ Calls

\* The call that makes an App.
LEMMA MakeKeeps ==
    ASSUME FInv, up = "up", NEW s, Making(wlm, s), NEW kept \in BOOLEAN, kept \/ wlm = "eproxy",
           makeApp(s, kept), UNCHANGED <<wlm, seqNum, files, up, freed>>
    PROVE  FType' /\ Calls'
<1> DEFINE w == After(blank, s, Len(s))
           d == IF kept THEN w ELSE destroyApp(wlm, w)
           x == IF kept THEN appRec(d) ELSE gone(d)
<1>1. FType /\ Calls /\ HType /\ lastApp \in Nat /\ wlm \in Wlms /\ Len(s) \in Nat
  BY Zenon DEF FInv, HInv, HType, FType, Making
<1>2. /\ blank \in Worlds /\ blank.n = dmn.n /\ blank.mpir = dmn.mpir
      /\ blank.listed = dmn.listed /\ Ids(blank) = daemonIds
      /\ blank.did = 0 /\ ~blank.owns /\ blank.job = "none"
  BY <1>1, BlankIs, Zenon
<1>3. w \in Worlds
  BY <1>1, <1>2, RunIs
<1>4. \/ kept /\ d = w /\ x = appRec(w)
      \/ ~kept /\ wlm = "eproxy" /\ Destroyed(wlm, w, d) /\ x = gone(d)
  <2>1. CASE kept
    BY <2>1, Zenon
  <2>2. CASE ~kept
    <3>1. d = destroyApp(wlm, w) /\ x = gone(d)
      BY <2>2, Zenon
    <3> HIDE DEF d, x, w
    <3> QED BY <1>1, <1>3, <2>2, <3>1, DestroyIs, Zenon
  <2> QED BY <2>1, <2>2, Zenon
<1>5. d \in Worlds
  BY <1>3, <1>4, Zenon DEF Destroyed
<1>6. x \in Apps /\ x.did = d.did /\ x.job = d.job /\ x.owns = d.owns
  BY <1>4, <1>5, PartsType, GoneType, PartFields, Zenon
<1>7. /\ rec' = Append(rec, x) /\ dmn' = dmnOf(d)
      /\ dropped' = dropped \cup (Ids(d) \ (daemonIds \cup {w.did})) /\ strays' = strays
      /\ lastApp' = lastApp + 1 /\ mApps' = (IF kept THEN mApps \cup {lastApp + 1} ELSE mApps)
      /\ UNCHANGED <<mSess, appOf, sessOf>>
  BY Zenon DEF makeApp, addApp
<1> HIDE DEF x, d, w
<1>8. /\ rec' \in AppSeqs' /\ AppIds' = AppIds \cup {lastApp + 1} /\ lastApp + 1 \notin AppIds
      /\ rec'[lastApp + 1] = x /\ \A a \in AppIds : rec'[a] = rec[a]
  BY <1>1, <1>6, <1>7, AppMore, Zenon
<1>9. dmn' \in Daemons /\ daemonIds' = Ids(d)
  BY <1>5, <1>7, PartsType, PartFields, Zenon DEF daemonIds
<1>10. FType'
  BY <1>1, <1>7, <1>8, <1>9, Zenon DEF FType, SessIds
<1>11. ASSUME wlm \in Tying PROVE Tie(dmn, rec, strays, freed)'
  <2>1. kept /\ d = w
    BY <1>4, <1>11, Zenon DEF Tying
  <2>2. /\ Fresh(dmn, w) /\ dmn.n < w.did /\ w.did <= w.n
        /\ w.owns => w.did \in w.listed /\ w.job # "none"
        /\ w.job = "held" => w.did \in w.mpir
    <3>1. Len(s) \in 0 .. Len(s)
      BY <1>1, UpToSelf, Zenon
    <3> QED BY <1>1, <1>11, <3>1, MakingTied, Zenon DEF w
  <2>3. Tie(dmn, rec, strays, freed)
    BY <1>1, <1>11, Zenon DEF Calls, Ties
  <2> QED BY <1>1, <1>3, <1>6, <1>7, <2>1, <2>2, <2>3, TieAdd, Zenon
<1>12. ASSUME wlm = "eproxy"
       PROVE  /\ strays' = {}
              /\ \A a \in AppIds' : rec'[a].owns => a \in mApps' \/ rec'[a].job = "ended"
  <2>1. strays = {} /\ \A a \in AppIds : rec[a].owns => a \in mApps \/ rec[a].job = "ended"
    BY <1>1, <1>12, Zenon DEF Calls, Ties
  <2>2. ~kept /\ x.owns => x.job = "ended"
    BY <1>4, <1>6, <1>12, Zenon DEF Destroyed, Ended
  <2> QED BY <1>7, <1>8, <2>1, <2>2, Zenon
<1>13. Ties'
  <2>1. wlm' \in Tying => Tie(dmn, rec, strays, freed)'
    BY <1>11, Zenon
  <2>2. wlm' = "eproxy" => /\ strays' = {}
                           /\ \A a \in AppIds' : rec'[a].owns => a \in mApps' \/ rec'[a].job = "ended"
    BY <1>12, Zenon
  <2> QED BY <2>1, <2>2, Zenon DEF Ties
<1>14. Down'
  BY Zenon DEF Down
<1>15. Barriers'
  <2> SUFFICES ASSUME wlm \in {"pals", "alps"}, NEW a \in mApps', rec'[a].job = "held"
               PROVE  rec'[a].at
    BY Zenon DEF Barriers
  <2>1. kept /\ x = appRec(w)
    BY <1>4, Zenon
  <2>2. CASE a = lastApp + 1
    <3>1. Stopping(s) /\ (Did(s, Len(s), Held) => Did(s, Len(s), {"atBarrier"}))
      BY Zenon DEF Making
    <3>2. Len(s) \in 0 .. Len(s) /\ blank \in Worlds /\ blank.job # "held"
      BY <1>1, <1>2, UpToSelf, Zenon
    <3>3. /\ w.job = "held" => Did(s, Len(s), Held)
          /\ w.job = "held" /\ Did(s, Len(s), {"atBarrier"}) => w.at
      BY <3>1, <3>2, StoppingRun, Zenon DEF w
    <3>4. x.job = w.job /\ x.at = w.at
      BY <2>1, PartFields, Zenon
    <3> QED BY <1>8, <2>2, <3>1, <3>3, <3>4, Zenon
  <2>3. CASE a \in mApps
    <3>1. a \in AppIds
      BY <1>1, <2>3, Zenon DEF HType
    <3> QED BY <1>1, <1>8, <2>3, <3>1, Zenon DEF Calls, Barriers
  <2> QED BY <1>7, <2>2, <2>3, Zenon
<1>16. OwnedIds'
  <2> SUFFICES ASSUME wlm \notin {"pals", "alps"}, NEW i \in daemonIds'
               PROVE  i \in dropped' \/ (wlm # "localhost" /\ \E a \in mApps' : rec'[a].did = i)
    BY Zenon DEF OwnedIds
  <2>1. CASE i \in daemonIds
    <3>1. i \in dropped \/ (wlm # "localhost" /\ \E a \in mApps : rec[a].did = i)
      BY <1>1, <2>1, Zenon DEF Calls, OwnedIds
    <3>2. \A a \in mApps : a \in mApps' /\ rec'[a] = rec[a]
      BY <1>1, <1>7, <1>8, Zenon DEF HType
    <3> QED BY <1>7, <3>1, <3>2, Zenon
  <2>2. CASE i \notin daemonIds /\ i # w.did
    BY <1>7, <1>9, <2>2, Zenon
  <2>3. CASE i \notin daemonIds /\ i = w.did
    <3>1. kept
      BY <1>4, <1>9, <2>3, Zenon DEF Destroyed, GivesBack
    <3>2. d = w /\ rec'[lastApp + 1].did = i /\ lastApp + 1 \in mApps'
      BY <1>4, <1>6, <1>7, <1>8, <2>3, <3>1
    <3>3. wlm # "localhost"
      <4>1. ASSUME wlm = "localhost" PROVE FALSE
        <5>1. \A k \in 1 .. Len(s) : s[k] \notin Registers
          BY <4>1, Zenon DEF Making
        <5>2. Ids(w) = Ids(blank)
          BY <1>1, <1>2, <5>1, NoRegisterRun DEF w
        <5> QED BY <1>2, <1>9, <2>3, <3>2, <5>2, Zenon
      <4> QED BY <4>1, Zenon
    <3> QED BY <3>2, <3>3, Zenon
  <2> QED BY <2>1, <2>2, <2>3, Zenon
<1> QED BY <1>10, <1>13, <1>14, <1>15, <1>16, Zenon DEF Calls

\* The call in which the making of an App throws.
LEMMA FailKeeps ==
    ASSUME FInv, up = "up", NEW s, Making(wlm, s), NEW k \in Throws(blank, s), failApp(s, k),
           UNCHANGED <<wlm, seqNum, files, up, freed>>
    PROVE  FType' /\ Calls'
<1> DEFINE w == After(blank, s, k)
           u == unwind(wlm, w, s, k)
<1>1. FType /\ Calls /\ HType /\ wlm \in Wlms /\ Len(s) \in Nat /\ k \in 0 .. Len(s)
  BY DEF FInv, HInv, FType, Making, Throws
<1>2. w \in Worlds /\ blank \in Worlds
  BY <1>1, BlankIs, RunIs, Zenon
<1>3. Unwound(wlm, w, u)
  BY <1>1, <1>2, UnwindIs, Zenon
<1>4. /\ dmn' = dmnOf(u) /\ dropped' = dropped \cup (Ids(u) \ daemonIds)
      /\ strays' = (IF u.owns /\ u.job \in {"held", "running"}
                    THEN strays \cup {[job |-> u.job, id |-> u.did]} ELSE strays)
      /\ UNCHANGED <<lastApp, mApps, appOf, rec>>
  BY Zenon DEF failApp, hvars
<1> HIDE DEF u, w
<1>5. u \in Worlds /\ u.did \in Nat /\ u.job \in Jobs
  BY <1>3, WorldFields, Zenon DEF Unwound
<1>6. /\ dmn' \in Daemons /\ daemonIds' = Ids(u)
      /\ dmn'.n = u.n /\ dmn'.listed = u.listed /\ dmn'.mpir = u.mpir
  BY <1>4, <1>5, PartsType, PartFields, Zenon DEF daemonIds
<1>7. strays' \subseteq [job : Jobs, id : Nat]
  <2>1. strays \subseteq [job : Jobs, id : Nat]
    BY <1>1, Zenon DEF FType
  <2>2. [job |-> u.job, id |-> u.did] \in [job : Jobs, id : Nat]
    BY <1>5, Zenon
  <2>3. strays' \subseteq strays \cup {[job |-> u.job, id |-> u.did]}
    BY <1>4, Zenon
  <2> QED BY <2>1, <2>2, <2>3, Zenon
<1>8. AppIds' = AppIds /\ AppSeqs' = AppSeqs /\ SessIds' = SessIds
  BY <1>4, Zenon DEF AppIds, AppSeqs, SessIds
<1>9. FType'
  BY <1>1, <1>4, <1>6, <1>7, <1>8, Zenon DEF FType
<1>10. ASSUME wlm \in Tying PROVE Tie(dmn', rec, strays', freed)
  <2>1. /\ Fresh(dmn, w)
        /\ w.did = 0 \/ (dmn.n < w.did /\ w.did <= w.n)
        /\ w.owns => w.did # 0 /\ w.did \in w.listed /\ w.job # "none"
    BY <1>1, <1>10, MakingTied, Zenon DEF w
  <2>2. Tie(dmn, rec, strays, freed)
    BY <1>1, <1>10, Zenon DEF Calls, Ties
  <2>3. u.n = w.n /\ u.mpir = w.mpir /\ (u = w \/ Destroyed(wlm, w, u))
    BY <1>3, <1>10, Zenon DEF Unwound, Tying
  <2>4. u.did = w.did /\ u.owns = w.owns
        /\ (u.listed = w.listed \/
              (u.listed = w.listed \ {w.did} /\ wlm \in GivesBack /\ w.did \in Ids(w)
               /\ u.job = IF Ended(wlm, w) THEN "ended" ELSE w.job))
    BY <2>3, Zenon DEF Destroyed
  <2>5. dmn.n \in Nat /\ w.n \in Nat /\ w.did \in Nat /\ dmn.n <= w.n
    BY <1>1, <1>2, <2>1, WorldFields, Zenon DEF FType, Daemons, Fresh
  <2>6. ASSUME NEW i \in Nat, 0 < i, i <= dmn.n, i \in dmn.listed PROVE i \in dmn'.listed
    <3>1. i \in w.listed
      BY <2>1, <2>6, Zenon DEF Fresh
    <3>2. i # w.did
      BY <2>1, <2>5, <2>6, NotNext, Zenon
    <3> QED BY <1>6, <2>4, <3>1, <3>2, Zenon
  <2>7. \A a \in AppIds : rec[a].did \in Nat /\ 0 < rec[a].did /\ rec[a].did <= dmn.n
    BY <1>1, <2>2, AppSeqFields, Zenon DEF Tie, FType
  <2>8. \A j \in strays : j.id \in Nat /\ 0 < j.id /\ j.id <= dmn.n
    BY <1>1, <2>2, StraysIds, Zenon DEF Tie
  <2>9. \A i \in Nat : i <= dmn.n => (i \in dmn'.mpir <=> i \in dmn.mpir)
    BY <1>6, <2>1, <2>3, Zenon DEF Fresh
  <2>10. \A a \in AppIds : Onward(rec[a], rec[a], dmn, dmn')
    BY <2>7, <2>9, Zenon DEF Onward
  <2>11. Tie(dmn', rec, strays, freed)
    <3>1. \A a \in AppIds : rec[a].owns /\ rec[a].did \in dmn.listed =>
                                rec[a].did \in dmn'.listed \cup freed \/ rec[a].job = "ended"
      BY <2>6, <2>7, Zenon
    <3>2. \A j \in strays : j.id \in dmn.listed => j.id \in dmn'.listed \cup freed
      BY <2>6, <2>8, Zenon
    <3>3. dmn'.n \in Nat /\ dmn.n <= dmn'.n
      BY <1>6, <2>3, <2>5, Zenon
    <3>4. (\A a \in AppIds : rec[a].did \in Nat) /\ \A j \in strays : j.id \in Nat
      BY <2>7, <2>8, Zenon
    <3> QED BY <2>2, <2>5, <2>10, <3>1, <3>2, <3>3, <3>4, TieMoves, Zenon
  <2>12. CASE ~(u.owns /\ u.job \in {"held", "running"})
    BY <1>4, <2>11, <2>12, Zenon
  <2>13. CASE u.owns /\ u.job \in {"held", "running"}
    <3>1. dmn.n < u.did /\ u.did <= dmn'.n /\ 0 < u.did
      <4>1. dmn.n < w.did /\ w.did <= w.n
        BY <2>1, <2>4, <2>13, Zenon
      <4>2. 0 < w.did
        BY <2>5, <4>1, AboveNat, Zenon
      <4> QED BY <1>6, <2>3, <2>4, <4>1, <4>2, Zenon
    <3>2. u.did \in dmn'.listed
      <4>1. CASE u.listed = w.listed
        BY <1>6, <2>1, <2>4, <2>13, <4>1, Zenon
      <4>2. CASE wlm \in GivesBack /\ w.did \in Ids(w)
            /\ u.job = IF Ended(wlm, w) THEN "ended" ELSE w.job
        BY <2>1, <2>4, <2>13, <4>2, Zenon DEF Ended
      <4> QED BY <2>4, <4>1, <4>2, Zenon
    <3>3. ASSUME NEW a \in AppIds PROVE rec[a].did # u.did
      <4>1. rec[a].did \in Nat /\ rec[a].did <= dmn.n
        BY <2>7, Zenon
      <4> QED BY <1>5, <2>5, <3>1, <4>1, NotAbove, Zenon
    <3>4. ASSUME NEW j \in strays'
          PROVE  /\ 0 < j.id /\ j.id <= dmn'.n /\ j.id \in dmn'.listed \cup freed
                 /\ \A a \in AppIds : rec[a].did # j.id
      <4>1. CASE j \in strays
        BY <2>11, <4>1, Zenon DEF Tie
      <4>2. CASE j = [job |-> u.job, id |-> u.did]
        <5>1. j.id = u.did
          BY <4>2, Zenon
        <5> QED BY <3>1, <3>2, <3>3, <5>1, Zenon
      <4> QED BY <1>4, <2>13, <4>1, <4>2, Zenon
    <3> QED BY <2>11, <3>4, Zenon DEF Tie
  <2> QED BY <2>12, <2>13, Zenon
<1>11. Ties'
  <2>1. wlm' \in Tying => Tie(dmn, rec, strays, freed)'
    <3>1. ASSUME wlm \in Tying PROVE Tie(dmn, rec, strays, freed)'
      BY <1>4, <1>8, <1>10, <3>1, Zenon DEF Tie
    <3> QED BY <3>1, Zenon
  <2>2. ASSUME wlm = "eproxy" PROVE strays' = strays
    BY <1>3, <1>4, <2>2, Zenon DEF Unwound
  <2> QED BY <1>1, <1>4, <1>8, <2>1, <2>2, Zenon DEF Ties, Calls
<1>12. Down' /\ Barriers'
  BY <1>1, <1>4, Zenon DEF Down, Barriers, Calls
<1>13. OwnedIds'
  BY <1>1, <1>4, <1>6, Zenon DEF OwnedIds, Calls
<1> QED BY <1>9, <1>11, <1>12, <1>13, Zenon DEF Calls
=============================================================================
