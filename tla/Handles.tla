------------------------------ MODULE Handles ------------------------------
(***************************************************************************)
(* The object graph of the frontend and the registries of the C interface. *)
(* Frontend::m_apps owns the applications, App::m_sessions the sessions,   *)
(* Session::m_manifests the manifests, all by shared_ptr.  A registry maps *)
(* ids to weak pointers; an id whose object is gone stays in the map until *)
(* it is looked up.  Objects carry the number of the id they were          *)
(* registered under.                                                       *)
(***************************************************************************)
EXTENDS Naturals, Sequences

VARIABLES appList, sessList, manList,   \* the ids in the three registries
          lastApp,                      \* m_id of the application registry
          mApps,                        \* Frontend::m_apps
          mSess,                        \* the sessions in their App's m_sessions
          mMans,                        \* the manifests in their Session's set
          appOf, sessOf                 \* the owners, in order of creation

hvars == <<appList, sessList, manList, lastApp, mApps, mSess, mMans, appOf, sessOf>>

(* An object lives while the chain of owners holds it. *)
SessAlive(s) == s \in mSess /\ appOf[s] \in mApps
ManAlive(m) == m \in mMans /\ SessAlive(sessOf[m])

validApp(id) == id \in appList /\ id \in mApps
(* A mutant: an id is valid for as long as it is on the map. *)
validSession_Listed(id) == id \in sessList

validSession(id) == id \in sessList /\ SessAlive(id)
validManifest(id) == id \in manList /\ ManAlive(id)

AppIds == 1 .. lastApp
SessIds == 1 .. Len(appOf)
ManIds == 1 .. Len(sessOf)

HInit ==
    /\ appList = {} /\ sessList = {} /\ manList = {}
    /\ lastApp = 0 /\ mApps = {} /\ mSess = {} /\ mMans = {}
    /\ appOf = << >> /\ sessOf = << >>

(* Registry::add of a new application; kept says whether the object is in   *)
(* m_apps by then.                                                          *)
addApp(kept) ==
    /\ lastApp' = lastApp + 1
    /\ appList' = appList \cup {lastApp + 1}
    /\ mApps' = IF kept THEN mApps \cup {lastApp + 1} ELSE mApps
    /\ UNCHANGED <<sessList, manList, mSess, mMans, appOf, sessOf>>

(* A lookup that fails takes an expired id off its registry. *)
sweepApp(id) ==
    /\ ~validApp(id)
    /\ appList' = appList \ {id}
    /\ UNCHANGED <<sessList, manList, lastApp, mApps, mSess, mMans, appOf, sessOf>>

sweepSession(id) ==
    /\ ~validSession(id)
    /\ sessList' = sessList \ {id}
    /\ UNCHANGED <<appList, manList, lastApp, mApps, mSess, mMans, appOf, sessOf>>

sweepManifest(id) ==
    /\ ~validManifest(id)
    /\ manList' = manList \ {id}
    /\ UNCHANGED <<appList, sessList, lastApp, mApps, mSess, mMans, appOf, sessOf>>

(* Frontend::removeApp and Registry::erase: the last shared_ptr goes, and    *)
(* with the App everything it owns.                                          *)
removeApp(a) ==
    /\ validApp(a)
    /\ mApps' = mApps \ {a}
    /\ appList' = appList \ {a}
    /\ UNCHANGED <<sessList, manList, lastApp, mSess, mMans, appOf, sessOf>>

(* cti_releaseApp only erases the id. *)
eraseApp(id) ==
    /\ appList' = appList \ {id}
    /\ UNCHANGED <<sessList, manList, lastApp, mApps, mSess, mMans, appOf, sessOf>>

createSession(a) ==
    /\ validApp(a)
    /\ appOf' = Append(appOf, a)
    /\ mSess' = mSess \cup {Len(appOf) + 1}
    /\ sessList' = sessList \cup {Len(appOf) + 1}
    /\ UNCHANGED <<appList, manList, lastApp, mApps, mMans, sessOf>>

(* App::removeSession and Registry::erase. *)
removeSession(s) ==
    /\ validSession(s)
    /\ mSess' = mSess \ {s}
    /\ sessList' = sessList \ {s}
    /\ UNCHANGED <<appList, manList, lastApp, mApps, mMans, appOf, sessOf>>

createManifest(s) ==
    /\ validSession(s)
    /\ sessOf' = Append(sessOf, s)
    /\ mMans' = mMans \cup {Len(sessOf) + 1}
    /\ manList' = manList \cup {Len(sessOf) + 1}
    /\ UNCHANGED <<appList, sessList, lastApp, mApps, mSess, appOf>>

(* Session::removeManifest; the id goes when the call succeeds. *)
removeManifest(m, erased) ==
    /\ validManifest(m)
    /\ mMans' = mMans \ {m}
    /\ manList' = IF erased THEN manList \ {m} ELSE manList
    /\ UNCHANGED <<appList, sessList, lastApp, mApps, mSess, appOf, sessOf>>

(* Frontend::destroy deletes the instance. *)
destroyAll ==
    /\ mApps' = {}
    /\ UNCHANGED <<appList, sessList, manList, lastApp, mSess, mMans, appOf, sessOf>>

HNext ==
    \/ \E kept \in BOOLEAN : addApp(kept)
    \/ destroyAll
    \/ \E a \in AppIds : sweepApp(a) \/ removeApp(a) \/ eraseApp(a) \/ createSession(a)
    \/ \E s \in SessIds : sweepSession(s) \/ removeSession(s) \/ createManifest(s)
    \/ \E m \in ManIds : sweepManifest(m) \/ \E erased \in BOOLEAN : removeManifest(m, erased)

HSpec == HInit /\ [][HNext]_hvars

(***************************************************************************)
(* The promise: the valid ids behave as the abstract table.                *)
(***************************************************************************)
Table == INSTANCE HandleTable WITH
    openApps <- {a \in AppIds : validApp(a)},
    openSess <- {s \in SessIds : validSession(s)},
    openMans <- {m \in ManIds : validManifest(m)}

(* Two operations depart from the table: an application whose object is gone *)
(* when its id is issued, and the release of one that has sessions.          *)
Departs ==
    \/ addApp(FALSE)
    \/ \E a \in AppIds : eraseApp(a) /\ \E s \in SessIds : validSession(s) /\ appOf[s] = a

(* Every other operation on the registries and the owning sets is a step of  *)
(* the documented table: no id becomes valid twice, and what a valid id owns *)
(* goes when it goes, also where only the object was dropped.                *)
ImplementsTable ==
    /\ Table!TInit
    /\ [][Departs \/ Table!TNext \/ UNCHANGED Table!tableVars]_hvars

(* "A session is automatically invalidated if the associated cti_app_id_t    *)
(* becomes invalid": a session id is valid only while its application is.    *)
SessionsFollowApp == \A s \in SessIds : validSession(s) => validApp(appOf[s])
=============================================================================
