---------------------------- MODULE HandleTable ----------------------------
(***************************************************************************)
(* What the documentation of the C interface promises about the ids it     *)
(* hands out for applications, sessions and manifests.  An id is issued    *)
(* once, in increasing order, and is valid then; once closed it is never   *)
(* valid again; an application id that becomes invalid, in whatever way,   *)
(* takes its sessions with it, a session its manifests.                    *)
(***************************************************************************)
EXTENDS Naturals, Sequences

VARIABLES openApps, openSess, openMans,    \* the valid ids of each kind
          lastApp,                         \* how many application ids were issued
          appOf, sessOf                    \* the owner of every session, manifest

tableVars == <<openApps, openSess, openMans, lastApp, appOf, sessOf>>

SessionsOf(a) == {s \in openSess : appOf[s] = a}
ManifestsOf(S) == {m \in openMans : sessOf[m] \in S}

TInit ==
    /\ openApps = {} /\ openSess = {} /\ openMans = {}
    /\ lastApp = 0 /\ appOf = << >> /\ sessOf = << >>

OpenApp ==
    /\ lastApp' = lastApp + 1
    /\ openApps' = openApps \cup {lastApp + 1}
    /\ UNCHANGED <<openSess, openMans, appOf, sessOf>>

OpenSession(a) ==
    /\ a \in openApps
    /\ appOf' = Append(appOf, a)
    /\ openSess' = openSess \cup {Len(appOf) + 1}
    /\ UNCHANGED <<openApps, openMans, lastApp, sessOf>>

OpenManifest(s) ==
    /\ s \in openSess
    /\ sessOf' = Append(sessOf, s)
    /\ openMans' = openMans \cup {Len(sessOf) + 1}
    /\ UNCHANGED <<openApps, openSess, lastApp, appOf>>

CloseApp(a) ==
    /\ a \in openApps
    /\ openApps' = openApps \ {a}
    /\ openSess' = openSess \ SessionsOf(a)
    /\ openMans' = openMans \ ManifestsOf(SessionsOf(a))
    /\ UNCHANGED <<lastApp, appOf, sessOf>>

CloseSession(s) ==
    /\ s \in openSess
    /\ openSess' = openSess \ {s}
    /\ openMans' = openMans \ ManifestsOf({s})
    /\ UNCHANGED <<openApps, lastApp, appOf, sessOf>>

CloseManifest(m) ==
    /\ m \in openMans
    /\ openMans' = openMans \ {m}
    /\ UNCHANGED <<openApps, openSess, lastApp, appOf, sessOf>>

CloseAll ==
    /\ openApps' = {} /\ openSess' = {} /\ openMans' = {}
    /\ UNCHANGED <<lastApp, appOf, sessOf>>

TNext ==
    \/ OpenApp \/ CloseAll
    \/ \E a \in openApps : OpenSession(a) \/ CloseApp(a)
    \/ \E s \in openSess : OpenManifest(s) \/ CloseSession(s)
    \/ \E m \in openMans : CloseManifest(m)

TSpec == TInit /\ [][TNext]_tableVars
=============================================================================
