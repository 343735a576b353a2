------------------------------ MODULE FeIface ------------------------------
(***************************************************************************)
(* The C interface of the frontend, under its lock, over the registries of *)
(* Handles and the workload manager frontends of WlmApp.  Every call is    *)
(* one step: it either does all of its work or stops where an exception    *)
(* stops it, and then returns its error value.                             *)
(***************************************************************************)
EXTENDS Handles, WlmApp

CONSTANT Limits          \* bounds on the calls of a tool: records of how many
                         \* launches, attaches and queries (tries), sessions,
                         \* manifests and daemon starts it may ask for

VARIABLES lim,           \* the bounds of this run
          wlm,           \* the frontend that inst() has made
          dmn,           \* the FE daemon: n, pid, mpir, listed
          rec,           \* the App behind every application id
          seqNum,        \* m_seqNum of every session
          files,         \* the sessions with files on the nodes
          up,            \* "up", and "down" after Frontend::destroy
          tries, starts,
          dropped,       \* ids left behind by a throw, a query or a tool daemon
          strays,        \* jobs a failed launch left behind
          freed,         \* ids passed to cti_releaseApp, and by it to the daemon
          notCleaned     \* sessions whose cleanup threw, or was skipped by a throw

fvars == <<lim, wlm, dmn, rec, seqNum, files, up, tries, starts, dropped, strays, freed, notCleaned>>
vars == <<hvars, fvars>>

gone(w) == [NoApp EXCEPT !.did = w.did, !.job = w.job, !.owns = w.owns]
world(a) == join(dmn, rec[a])
blank == join(dmn, NoApp)
daemonIds == DOMAIN dmn.pid

Init ==
    /\ HInit
    /\ lim \in Limits
    /\ wlm \in Wlms
    /\ dmn = [n |-> 0, pid |-> << >>, mpir |-> {}, listed |-> {}]
    /\ rec = << >> /\ seqNum = << >> /\ files = {}
    /\ up = "up" /\ tries = 0 /\ starts = 0
    /\ dropped = {} /\ strays = {} /\ freed = {} /\ notCleaned = {}

(***************************************************************************)
(* Launch and attach.                                                      *)
(***************************************************************************)
(* The App is made and its id registered. *)
makeApp(s, kept) ==
    LET w == After(blank, s, Len(s))
        d == IF kept THEN w ELSE destroyApp(wlm, w)
    IN /\ Completes(blank, s)
       /\ addApp(kept)
       /\ rec' = Append(rec, IF kept THEN appRec(d) ELSE gone(d))
       /\ dmn' = dmnOf(d)
       /\ dropped' = dropped \cup (Ids(d) \ (daemonIds \cup {w.did}))
       /\ UNCHANGED strays

(* A throw: no id, and the effects that nobody undoes stay. *)
failApp(s, k) ==
    LET w == unwind(wlm, After(blank, s, k), s, k)
    IN /\ dmn' = dmnOf(w)
       /\ dropped' = dropped \cup (Ids(w) \ daemonIds)
       /\ strays' = IF w.owns /\ w.job \in {"held", "running"}
                    THEN strays \cup {[job |-> w.job, id |-> w.did]} ELSE strays
       /\ UNCHANGED <<hvars, rec>>

tryApp(s, kept) ==
    /\ up = "up" /\ tries < lim.tries
    /\ tries' = tries + 1
    /\ \/ makeApp(s, kept)
       \/ \E k \in Throws(blank, s) : failApp(s, k)
    /\ UNCHANGED <<lim, wlm, seqNum, files, up, starts, freed, notCleaned>>

cti_launchApp == \E s \in launchScripts(wlm, FALSE) : tryApp(s, keepsApp(wlm, FALSE))
cti_launchAppBarrier == \E s \in launchScripts(wlm, TRUE) : tryApp(s, keepsApp(wlm, TRUE))
cti_registerApp == \E s \in registerScripts(wlm) : tryApp(s, TRUE)

(* The job id of a launcher process: the attach leaves its id registered. *)
cti_getJobInfo ==
    /\ up = "up" /\ tries < lim.tries
    /\ tries' = tries + 1
    /\ \E s \in queryScripts(wlm) : \E k \in Ends(blank, s) :
          LET w == After(blank, s, k)
          IN dmn' = dmnOf(w) /\ dropped' = dropped \cup (Ids(w) \ daemonIds)
    /\ UNCHANGED <<hvars, lim, wlm, rec, seqNum, files, up, starts, strays, freed, notCleaned>>

(***************************************************************************)
(* startDaemon, from Session::sendManifest, execManifest and finalize.     *)
(***************************************************************************)
started(w) ==
    {After(w, s, Len(s)) : s \in {t \in startDaemonScripts(wlm, w) : Completes(w, t)}}

notStarted(w) ==
    UNION {{After(w, s, k) : k \in Throws(w, s)} : s \in startDaemonScripts(wlm, w)}

(* A mutant: a session is left alone unless it was sent at least twice. *)
finalizeSession_Late(acc, s) ==
    UNION {IF o.thrown \/ seqNum[s] <= 1 THEN {o}
           ELSE {[o EXCEPT !.w = w, !.cleaned = @ \cup {s}] : w \in started(o.w)}
                \cup {[o EXCEPT !.w = w, !.thrown = TRUE] : w \in notStarted(o.w)}
           : o \in acc}

(* App::finalize: the sessions in some order, up to the first that throws.  *)
finalizeSession(acc, s) ==
    UNION {IF o.thrown \/ seqNum[s] = 0 THEN {o}
           ELSE {[o EXCEPT !.w = w, !.cleaned = @ \cup {s}] : w \in started(o.w)}
                \cup {[o EXCEPT !.w = w, !.thrown = TRUE] : w \in notStarted(o.w)}
           : o \in acc}

sessionsOf(a) == {s \in mSess : appOf[s] = a}

(* The orders in which a set of at most N ids can be gone through. *)
Orders(S, N) ==
    {o \in UNION {[1 .. n -> S] : n \in 0 .. N} :
        /\ \A x \in S : \E i \in DOMAIN o : o[i] = x
        /\ \A i, j \in DOMAIN o : o[i] = o[j] => i = j}

(* The outcomes once the first i sessions have been finalized. *)
finalizeSessions(order, w) ==
    LET acc[i \in 0 .. Len(order)] ==
            IF i = 0 THEN {[w |-> w, cleaned |-> {}, thrown |-> FALSE]}
            ELSE finalizeSession(acc[i - 1], order[i])
    IN acc

finalizeApp(a, w) ==
    UNION {finalizeSessions(order, w)[Len(order)]
           : order \in Orders(sessionsOf(a), Len(appOf))}

(* What remains to be cleaned after an outcome, because of a throw. *)
missed(a, o) == IF o.thrown THEN sessionsOf(a) \ o.cleaned ELSE {}

(***************************************************************************)
(* Applications.                                                           *)
(***************************************************************************)
(* Frontend::removeApp swallows what finalize throws; then the App goes. *)
dropApp(a, o) ==
    LET d == destroyApp(wlm, o.w)
    IN /\ removeApp(a)
       /\ dmn' = dmnOf(d)
       /\ rec' = [rec EXCEPT ![a] = gone(d)]
       /\ files' = files \ o.cleaned
       /\ notCleaned' = notCleaned \cup missed(a, o)
       /\ dropped' = dropped \cup (Ids(o.w) \ daemonIds)

(* A call that looks up an application id that is not valid. *)
missApp(a) ==
    /\ up = "up"
    /\ sweepApp(a)
    /\ UNCHANGED fvars

(* The App may be asked while it runs; only a stopped one changes the state. *)
cti_appIsValid(a) ==
    /\ up = "up" /\ validApp(a) /\ ~isRunning(wlm, world(a))
    /\ \E o \in finalizeApp(a, world(a)) : dropApp(a, o)
    /\ UNCHANGED <<lim, wlm, seqNum, up, tries, starts, strays, freed>>

cti_deregisterApp(a) ==
    /\ up = "up" /\ validApp(a)
    /\ \E o \in finalizeApp(a, world(a)) : dropApp(a, o)
    /\ UNCHANGED <<lim, wlm, seqNum, up, tries, starts, strays, freed>>

(* The id of the interface goes to the daemon as if it were the daemon's,   *)
(* valid here or not.                                                       *)
cti_releaseApp(id) ==
    /\ up = "up" /\ id \in daemonIds
    /\ dmn' = releaseAppID(dmn, id)
    /\ eraseApp(id)
    /\ freed' = freed \cup {id}
    /\ UNCHANGED <<lim, wlm, rec, seqNum, files, up, tries, starts, dropped, strays, notCleaned>>

cti_releaseAppBarrier(a) ==
    /\ up = "up" /\ validApp(a)
    /\ \E s \in releaseScripts(wlm) :
          \E k \in Ends(world(a), s) :
             LET w == After(world(a), s, k)
             IN dmn' = dmnOf(w) /\ rec' = [rec EXCEPT ![a] = appRec(w)]
    /\ UNCHANGED <<hvars, lim, wlm, seqNum, files, up, tries, starts, dropped, strays, freed, notCleaned>>

(* A signal that ends the job. *)
cti_killApp(a) ==
    /\ up = "up" /\ validApp(a) /\ rec[a].job # "ended"
    /\ Completes(world(a), killScript(wlm))
    /\ rec' = [rec EXCEPT ![a].job = "ended"]
    /\ UNCHANGED <<hvars, lim, wlm, dmn, seqNum, files, up, tries, starts, dropped, strays, freed, notCleaned>>

(* Environment: a job that runs comes to its end. *)
jobEnds(a) ==
    /\ up = "up" /\ rec[a].job = "running"
    /\ rec' = [rec EXCEPT ![a].job = "ended"]
    /\ UNCHANGED <<hvars, lim, wlm, dmn, seqNum, files, up, tries, starts, dropped, strays, freed, notCleaned>>

(***************************************************************************)
(* Sessions and manifests.                                                 *)
(***************************************************************************)
cti_createSession(a) ==
    /\ up = "up" /\ Len(appOf) < lim.sessions
    /\ createSession(a)
    /\ seqNum' = Append(seqNum, 0)
    /\ UNCHANGED <<lim, wlm, dmn, rec, files, up, tries, starts, dropped, strays, freed,
                   notCleaned>>

(* A session whose cleanup throws stays, and its id stays valid. *)
cti_destroySession(s) ==
    LET a == appOf[s]
        one == finalizeSession({[w |-> world(a), cleaned |-> {}, thrown |-> FALSE]}, s)
    IN /\ up = "up" /\ validSession(s)
       /\ seqNum[s] > 0 => starts < lim.starts
       /\ \E o \in one :
             /\ dmn' = dmnOf(o.w)
             /\ rec' = [rec EXCEPT ![a] = appRec(o.w)]
             /\ files' = files \ o.cleaned
             /\ dropped' = dropped \cup (Ids(o.w) \ daemonIds)
             /\ IF o.thrown THEN UNCHANGED hvars ELSE removeSession(s)
       /\ starts' = IF seqNum[s] > 0 THEN starts + 1 ELSE starts
       /\ UNCHANGED <<lim, wlm, seqNum, up, tries, strays, freed, notCleaned>>

missSession(s) ==
    /\ up = "up"
    /\ sweepSession(s)
    /\ UNCHANGED fvars

cti_createManifest(s) ==
    /\ up = "up" /\ Len(sessOf) < lim.manifests
    /\ createManifest(s)
    /\ UNCHANGED fvars

missManifest(m) ==
    /\ up = "up"
    /\ sweepManifest(m)
    /\ UNCHANGED fvars

(* An empty manifest is dropped without anything being sent. *)
sendEmpty(m) ==
    /\ up = "up"
    /\ removeManifest(m, TRUE)
    /\ UNCHANGED fvars

(* The throw of shipManifest after it has removed the manifest. *)
sendFails(m) ==
    /\ up = "up"
    /\ removeManifest(m, FALSE)
    /\ UNCHANGED fvars

(* sendManifest and execManifest once there is something to ship: the        *)
(* archive reaches the nodes, then a daemon is started; only then is the     *)
(* manifest counted and its id taken away.                                   *)
cti_sendManifest(m) ==
    LET s == sessOf[m]
        a == appOf[s]
        to(w) == /\ dmn' = dmnOf(w)
                 /\ rec' = [rec EXCEPT ![a] = appRec(w)]
                 /\ dropped' = dropped \cup (Ids(w) \ daemonIds)
    IN /\ up = "up" /\ validManifest(m) /\ starts < lim.starts
       /\ Completes(world(a), shipScript(wlm))
       /\ starts' = starts + 1
       /\ files' = files \cup {s}
       /\ \/ \E w \in started(world(a)) : to(w)
             /\ removeManifest(m, TRUE) /\ seqNum' = [seqNum EXCEPT ![s] = @ + 1]
          \/ \E w \in notStarted(world(a)) : to(w)
             /\ removeManifest(m, FALSE) /\ UNCHANGED seqNum
       /\ UNCHANGED <<lim, wlm, up, tries, strays, freed, notCleaned>>

(***************************************************************************)
(* Frontend::destroy, at the exit of the tool: every App is finalized,     *)
(* then the instance is deleted with all of them, and the daemon, shut     *)
(* down, kills the launchers on its list.                                  *)
(***************************************************************************)
exitApp(acc, a) ==
    UNION {{[d |-> dmnOf(o.w), r |-> [x.r EXCEPT ![a] = appRec(o.w)],
             cleaned |-> x.cleaned \cup o.cleaned, missed |-> x.missed \cup missed(a, o)]
            : o \in finalizeApp(a, join(x.d, x.r[a]))} : x \in acc}

exitApps(order) ==
    LET acc[i \in 0 .. Len(order)] ==
            IF i = 0 THEN {[d |-> dmn, r |-> rec, cleaned |-> {}, missed |-> {}]}
            ELSE exitApp(acc[i - 1], order[i])
    IN acc

endApp(x, a) ==
    LET w == destroyApp(wlm, join(x.d, x.r[a]))
    IN [x EXCEPT !.d = dmnOf(w), !.r = [@ EXCEPT ![a] = appRec(w)]]

endApps(order, x) ==
    LET end[i \in 0 .. Len(order)] == IF i = 0 THEN x ELSE endApp(end[i - 1], order[i])
    IN end

destroy ==
    /\ up = "up"
    /\ up' = "down"
    /\ \E order \in Orders(mApps, lastApp) :
       \E x \in exitApps(order)[Len(order)] :
          LET y == endApps(order, x)[Len(order)]
              killed == y.d.listed
          IN /\ dmn' = [y.d EXCEPT !.listed = {}]
             /\ rec' = [a \in AppIds |->
                          IF y.r[a].did \in killed /\ y.r[a].owns
                          THEN [y.r[a] EXCEPT !.job = "ended"] ELSE y.r[a]]
             /\ strays' = {j \in strays : j.id \notin killed}
             /\ files' = files \ y.cleaned
             /\ notCleaned' = notCleaned \cup y.missed
             /\ dropped' = dropped \cup (DOMAIN y.d.pid \ daemonIds)
    /\ destroyAll
    /\ UNCHANGED <<lim, wlm, seqNum, tries, starts, freed>>

Next ==
    \/ cti_launchApp \/ cti_launchAppBarrier \/ cti_registerApp \/ cti_getJobInfo
    \/ \E a \in AppIds : \/ missApp(a) \/ cti_appIsValid(a) \/ cti_deregisterApp(a)
                         \/ cti_releaseApp(a) \/ cti_releaseAppBarrier(a)
                         \/ cti_killApp(a) \/ jobEnds(a) \/ cti_createSession(a)
    \/ \E s \in SessIds : missSession(s) \/ cti_destroySession(s) \/ cti_createManifest(s)
    \/ \E m \in ManIds : missManifest(m) \/ sendEmpty(m) \/ sendFails(m) \/ cti_sendManifest(m)
    \/ destroy

Spec == Init /\ [][Next]_vars

(***************************************************************************)
(* Properties.                                                             *)
(***************************************************************************)
(* An id that stays registered at the FE daemon belongs to a living App, or  *)
(* was left by a throwing constructor, a job id query or a tool daemon's     *)
(* launch.  Only the destructors of PALS and ALPS leave the id of their App. *)
IdsOwned ==
    wlm \notin {"pals", "alps"} =>
        \A i \in daemonIds : i \in dropped \/ \E a \in mApps : rec[a].did = i

(* A job stopped at its startup barrier can be let go as long as its id is   *)
(* valid, whatever calls have failed before.  A Flux App that has lost its   *)
(* signal believes the barrier is behind it.                                 *)
HeldCanBeReleased ==
    wlm # "flux" =>
        \A a \in AppIds : validApp(a) /\ rec[a].job = "held"
                          => \E s \in releaseScripts(wlm) : Completes(world(a), s)

(* No files stay on the nodes when a session's object is gone, unless its    *)
(* cleanup threw, an earlier session's throw ended App::finalize, or no      *)
(* daemon of this session ever started after its archive was shipped.        *)
FilesCleaned ==
    \A s \in files : SessAlive(s) \/ s \in notCleaned \/ seqNum[s] = 0

(* When a tool that never called cti_releaseApp has exited, no job it        *)
(* launched runs on, neither one with an App nor one left by a failed launch. *)
(* Flux, ALPS and local jobs are not tied to the daemon.                     *)
LaunchedDieWithTool ==
    up = "down" /\ freed = {} /\ wlm \in {"slurm", "eproxy", "pals", "ssh"} =>
        strays = {} /\ \A a \in AppIds : rec[a].owns => rec[a].job = "ended"

(* cti_releaseApp: "Failing to do so will cause the application process to be *)
(* force killed with SIGKILL": a launched job that runs on after the tool is  *)
(* one whose id the tool released.                                            *)
ReleaseDecides ==
    up = "down" /\ wlm \in {"slurm", "eproxy", "pals", "ssh"} =>
        \A a \in AppIds : rec[a].owns /\ rec[a].job # "ended" => a \in freed

=============================================================================
