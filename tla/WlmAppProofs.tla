---------------------------- MODULE WlmAppProofs ----------------------------
(***************************************************************************)
(* The workload manager frontends' scripts, for every script and world:    *)
(* what an effect changes, what a script that makes an App, starts a tool  *)
(* daemon or lets a job go may have done wherever an exception stops it,   *)
(* and what the destructors leave.  FeIfaceParts builds on these facts.    *)
(* A script is run by a recursive function; Recursion and Induction below  *)
(* give the values of such a function and reason along them.               *)
(***************************************************************************)
EXTENDS WlmApp, WellFoundedInduction, TLAPS

\* A set of numbers has a least one.
LEMMA LeastNat == ASSUME NEW T \in SUBSET Nat, T # {} PROVE \E x \in T : \A y \in T : x <= y
<1> DEFINE R == {ss \in Nat \X Nat : ss[1] < ss[2]}
<1>1. IsWellFoundedOn(R, Nat)
  BY NatLessThanWellFounded DEF OpToRel
<1>2. \E x \in T : \A y \in T : ~ (<<y, x>> \in R)
  <2> HIDE DEF R
  <2> QED BY <1>1, WFMin, Zenon
<1>3. ASSUME NEW x \in T, NEW y \in T, <<y, x>> \notin R PROVE x <= y
  BY <1>3
<1> QED BY <1>2, <1>3, Zenon

\* Induction up to n, for a set.
LEMMA Induction ==
    ASSUME NEW n \in Nat, NEW S, 0 \in S, \A k \in 0 .. n - 1 : k \in S => k + 1 \in S
    PROVE  0 .. n \subseteq S
<1> SUFFICES ASSUME 0 .. n \ S # {} PROVE FALSE
  OBVIOUS
<1> DEFINE T == (0 .. n) \ S
<1>1. PICK x \in T : \A y \in T : x <= y
  <2>1. T \in SUBSET Nat /\ T # {}
    OBVIOUS
  <2> HIDE DEF T
  <2> QED BY <2>1, LeastNat
<1>2. x \in Nat /\ x # 0 /\ x - 1 \in 0 .. n - 1 /\ x - 1 \notin T /\ x \notin S /\ x \in 0 .. n
  BY <1>1
<1>3. x - 1 \in S
  BY <1>2
<1>4. (x - 1) + 1 \in S
  BY <1>2, <1>3
<1> QED BY <1>2, <1>4

(* step[k] says what the k-th of n steps makes of a value; f is a course of  *)
(* values that goes by it.                                                   *)
Steps(step, n, X) == step \in [1 .. n -> [X -> X]]

\* A course of values through n steps.
Course(f, step, n, X, x0) ==
    f \in [0 .. n -> X] /\ f[0] = x0 /\ \A k \in 1 .. n : f[k] = step[k][f[k - 1]]

\* There is a course of values for any steps.
LEMMA Recursion ==
    ASSUME NEW n \in Nat, NEW X, NEW x0 \in X, NEW step, Steps(step, n, X)
    PROVE  \E f : Course(f, step, n, X, x0)
<1> USE DEF Steps
<1> DEFINE Upto(m) == \E f \in [0 .. m -> X] :
                         f[0] = x0 /\ \A k \in 1 .. m : f[k] = step[k][f[k - 1]]
           S == {m \in 0 .. n : Upto(m)}
<1>1. 0 \in S
  <2> DEFINE f == [k \in 0 .. 0 |-> x0]
  <2>1. f \in [0 .. 0 -> X] /\ f[0] = x0 /\ \A k \in 1 .. 0 : f[k] = step[k][f[k - 1]]
    OBVIOUS
  <2> HIDE DEF f
  <2>2. Upto(0) /\ 0 \in 0 .. n
    BY <2>1
  <2> QED BY <2>2
<1>2. ASSUME NEW m \in 0 .. n - 1, m \in S PROVE m + 1 \in S
  <2>1. PICK f \in [0 .. m -> X] : f[0] = x0 /\ \A k \in 1 .. m : f[k] = step[k][f[k - 1]]
    BY <1>2
  <2> DEFINE g == [k \in 0 .. m + 1 |-> IF k = m + 1 THEN step[m + 1][f[m]] ELSE f[k]]
  <2>2. m \in Nat /\ m + 1 \in 1 .. n /\ m + 1 \in 0 .. n /\ f[m] \in X
    BY <1>2
  <2>3. step[m + 1][f[m]] \in X
    BY <2>2
  <2>4. g \in [0 .. m + 1 -> X]
    BY <2>2, <2>3
  <2>5. g[0] = x0
    BY <2>1, <2>2
  <2>6. ASSUME NEW k \in 1 .. m + 1 PROVE g[k] = step[k][g[k - 1]]
    <3>1. CASE k = m + 1
      <4>1. g[k - 1] = f[m]
        BY <2>2, <3>1
      <4> QED BY <2>2, <3>1, <4>1
    <3>2. CASE k # m + 1
      <4>1. k \in 1 .. m /\ k - 1 \in 0 .. m
        BY <2>2, <3>2
      <4> QED BY <2>1, <2>2, <4>1
    <3> QED BY <3>1, <3>2
  <2> HIDE DEF g
  <2> QED BY <2>2, <2>4, <2>5, <2>6
<1> HIDE DEF S
<1>3. 0 .. n \subseteq S
  BY <1>1, <1>2, Induction, Zenon
<1>4. n \in S
  BY <1>3
<1> QED BY <1>4 DEF S, Course

\* The maps of the daemon from ids to processes.
PidMaps == UNION {[S -> Pids] : S \in SUBSET Nat}

\* The states of the FE daemon.
Daemons == [n : Nat, pid : PidMaps, mpir : SUBSET Nat, listed : SUBSET Nat]

\* The states of an App.
Apps == [did : Nat, at : BOOLEAN, sent : BOOLEAN, link : BOOLEAN, stage : BOOLEAN,
         job : Jobs, rmpir : BOOLEAN, owns : BOOLEAN]

\* Both together.
Worlds == [n : Nat, pid : PidMaps, mpir : SUBSET Nat, listed : SUBSET Nat,
           did : Nat, at : BOOLEAN, sent : BOOLEAN, link : BOOLEAN, stage : BOOLEAN,
           job : Jobs, rmpir : BOOLEAN, owns : BOOLEAN]

\* The map with an id more.
LEMMA PidMapsAdd ==
    ASSUME NEW f \in PidMaps, NEW i \in Nat, NEW p \in Pids
    PROVE  [j \in DOMAIN f \cup {i} |-> IF j = i THEN p ELSE f[j]] \in PidMaps
<1>1. PICK S \in SUBSET Nat : f \in [S -> Pids]
  BY DEF PidMaps
<1>2. [j \in DOMAIN f \cup {i} |-> IF j = i THEN p ELSE f[j]] \in [S \cup {i} -> Pids]
  BY <1>1
<1>3. S \cup {i} \in SUBSET Nat
  OBVIOUS
<1> QED BY <1>2, <1>3, Zenon DEF PidMaps

\* The map with an id less.
LEMMA PidMapsDrop ==
    ASSUME NEW f \in PidMaps, NEW i
    PROVE  [j \in DOMAIN f \ {i} |-> f[j]] \in PidMaps
<1>1. PICK S \in SUBSET Nat : f \in [S -> Pids]
  BY DEF PidMaps
<1>2. [j \in DOMAIN f \ {i} |-> f[j]] \in [S \ {i} -> Pids]
  BY <1>1, Zenon
<1>3. S \ {i} \in SUBSET Nat
  BY Zenon
<1> QED BY <1>2, <1>3, Zenon DEF PidMaps

\* A daemon and an App make a world.
LEMMA JoinType ==
    ASSUME NEW d \in Daemons, NEW r \in Apps
    PROVE  join(d, r) \in Worlds
BY DEF Daemons, Apps, Worlds, join

\* A world has a daemon and an App in it.
LEMMA PartsType ==
    ASSUME NEW w \in Worlds
    PROVE  dmnOf(w) \in Daemons /\ appRec(w) \in Apps
BY DEF Daemons, Apps, Worlds, dmnOf, appRec

\* The fields of a world.
LEMMA WorldFields ==
    ASSUME NEW w \in Worlds
    PROVE  /\ w.n \in Nat /\ w.pid \in PidMaps /\ w.mpir \in SUBSET Nat /\ w.listed \in SUBSET Nat
           /\ w.did \in Nat /\ w.at \in BOOLEAN /\ w.sent \in BOOLEAN /\ w.link \in BOOLEAN
           /\ w.stage \in BOOLEAN /\ w.job \in Jobs /\ w.rmpir \in BOOLEAN /\ w.owns \in BOOLEAN
BY DEF Worlds

\* The world r is w with one more id at the daemon, and the same App.
Grown(w, r) ==
    /\ r \in Worlds /\ r.n = w.n + 1 /\ Ids(r) = Ids(w) \cup {w.n + 1}
    /\ r.did = w.did /\ r.at = w.at /\ r.sent = w.sent /\ r.link = w.link /\ r.stage = w.stage
    /\ r.job = w.job /\ r.rmpir = w.rmpir /\ r.owns = w.owns

\* registerAppPID.
LEMMA RegisterIs ==
    ASSUME NEW w \in Worlds, NEW p \in Pids
    PROVE  LET r == registerAppPID(w, p)
           IN Grown(w, r) /\ r.mpir = w.mpir /\ r.listed = w.listed
<1> DEFINE q == [i \in Ids(w) \cup {w.n + 1} |-> IF i = w.n + 1 THEN p ELSE w.pid[i]]
           r == registerAppPID(w, p)
<1>1. w.pid \in PidMaps /\ w.n + 1 \in Nat
  BY WorldFields
<1>2. q \in PidMaps /\ DOMAIN q = Ids(w) \cup {w.n + 1}
  BY <1>1, PidMapsAdd DEF Ids
<1>3. r = [w EXCEPT !.n = w.n + 1, !.pid = q]
  BY DEF registerAppPID
<1> HIDE DEF q, r
<1>4. r \in Worlds /\ r.pid = q
  BY <1>1, <1>2, <1>3, Zenon DEF Worlds
<1> QED BY <1>2, <1>3, <1>4 DEF Grown, Ids, Worlds, r

\* launchMPIR: the new id is on both of the daemon's lists.
LEMMA LaunchIs ==
    ASSUME NEW w \in Worlds
    PROVE  LET r == launchMPIR(w)
           IN Grown(w, r) /\ r.mpir = w.mpir \cup {w.n + 1} /\ r.listed = w.listed \cup {w.n + 1}
<1> DEFINE q == registerAppPID(w, "child")
           r == launchMPIR(w)
<1>1. Grown(w, q) /\ q.mpir = w.mpir /\ q.listed = w.listed
  BY RegisterIs DEF Pids
<1>2. r = [q EXCEPT !.mpir = q.mpir \cup {w.n + 1}, !.listed = q.listed \cup {w.n + 1}]
  BY DEF launchMPIR
<1>3. w.n + 1 \in Nat
  BY WorldFields
<1> HIDE DEF q, r
<1>4. r \in Worlds
  BY <1>1, <1>2, <1>3, Zenon DEF Worlds, Grown
<1> QED BY <1>1, <1>2, <1>4 DEF Grown, Ids, Worlds, r

\* attachMPIR: the new id has an MPIR session and is not on the cleanup list.
LEMMA AttachIs ==
    ASSUME NEW w \in Worlds
    PROVE  LET r == attachMPIR(w)
           IN Grown(w, r) /\ r.mpir = w.mpir \cup {w.n + 1} /\ r.listed = w.listed
<1> DEFINE q == registerAppPID(w, "target")
           r == attachMPIR(w)
<1>1. Grown(w, q) /\ q.mpir = w.mpir /\ q.listed = w.listed
  BY RegisterIs DEF Pids
<1>2. r = [q EXCEPT !.mpir = q.mpir \cup {w.n + 1}]
  BY DEF attachMPIR
<1>3. w.n + 1 \in Nat
  BY WorldFields
<1> HIDE DEF q, r
<1>4. r \in Worlds
  BY <1>1, <1>2, <1>3 DEF Worlds, Grown
<1> QED BY <1>1, <1>2, <1>4 DEF Grown, Ids, Worlds, r

\* The effects that change something.
Registers == {"launchMPIR", "sattachMPIR", "attachMPIR", "launchTool", "register",
              "registerAprun", "registerTarget", "registerSelf"}
\* The effects by what they do to the daemon and to the job.
Traced == {"launchMPIR", "sattachMPIR", "attachMPIR", "launchTool"}
Listed == {"launchMPIR", "sattachMPIR", "launchTool"}
Owned == {"launchMPIR", "startHeld", "startFree", "launchRemote"}
Held == {"launchMPIR", "startHeld", "launchRemote"}
Runs == {"sattachMPIR", "attachMPIR", "found", "startFree", "attachRemote"}
Frees == {"continueJob", "writeBarrier", "removeLock"}

\* What the effect e makes of the world w.
Changes(w, e, r) ==
    /\ r.n = IF e \in Registers THEN w.n + 1 ELSE w.n
    /\ Ids(r) = IF e \in Registers THEN Ids(w) \cup {w.n + 1} ELSE Ids(w)
    /\ r.did = IF e \in Registers \ {"launchTool"} THEN w.n + 1 ELSE w.did
    /\ r.mpir = IF e \in Traced THEN w.mpir \cup {w.n + 1}
                ELSE IF e = "endTool" THEN w.mpir \ {w.n}
                ELSE IF e = "releaseMPIR" THEN w.mpir \ {w.did} ELSE w.mpir
    /\ r.listed = IF e \in Listed THEN w.listed \cup {w.n + 1} ELSE w.listed
    /\ r.owns = IF e \in Owned THEN TRUE ELSE w.owns
    /\ r.job = IF e \in Held THEN "held" ELSE IF e \in Runs THEN "running"
               ELSE IF e \in Frees \cup {"releaseMPIR"} \/ (e = "releaseRemote" /\ w.rmpir)
                    THEN letGo(w.job) ELSE w.job
    /\ r.at = IF e = "atBarrier" THEN TRUE
              ELSE IF e \in Frees \cup {"leaveBarrier", "loseSignal"} THEN FALSE ELSE w.at

\* An effect changes what its kind says and nothing else.
LEMMA ApplyIs ==
    ASSUME NEW w \in Worlds, NEW e
    PROVE  Apply(w, e) \in Worlds /\ Changes(w, e, Apply(w, e))
<1> DEFINE r == Apply(w, e)
<1>0. /\ w.n \in Nat /\ w.n + 1 \in Nat /\ w.did \in Nat /\ w.pid \in PidMaps
      /\ w.mpir \in SUBSET Nat /\ w.job \in Jobs /\ letGo(w.job) \in Jobs
  BY WorldFields DEF letGo, Jobs
<1>1. CASE e = "launchMPIR"
  <2> DEFINE q == launchMPIR(w)
  <2>1. Grown(w, q) /\ q.mpir = w.mpir \cup {w.n + 1} /\ q.listed = w.listed \cup {w.n + 1}
    BY LaunchIs
  <2>2. r = [q EXCEPT !.did = w.n + 1, !.job = "held", !.owns = TRUE]
    BY <1>1 DEF Apply
  <2> HIDE DEF r, q
  <2>3. r \in Worlds
    BY <1>0, <2>1, <2>2, Zenon DEF Worlds, Jobs, Grown
  <2> QED BY <1>0, <1>1, <2>1, <2>2, <2>3, Zenon
         DEF Changes, Registers, Traced, Listed, Owned, Held, Runs,
             Frees, Worlds, Ids, Grown, r
<1>2. CASE e = "sattachMPIR"
  <2> DEFINE q == launchMPIR(w)
  <2>1. Grown(w, q) /\ q.mpir = w.mpir \cup {w.n + 1} /\ q.listed = w.listed \cup {w.n + 1}
    BY LaunchIs
  <2>2. r = [q EXCEPT !.did = w.n + 1, !.job = "running"]
    BY <1>2 DEF Apply
  <2> HIDE DEF r, q
  <2>3. r \in Worlds
    BY <1>0, <2>1, <2>2, Zenon DEF Worlds, Jobs, Grown
  <2> QED BY <1>0, <1>2, <2>1, <2>2, <2>3, Zenon
         DEF Changes, Registers, Traced, Listed, Owned, Held, Runs,
             Frees, Worlds, Ids, Grown, r
<1>3. CASE e = "attachMPIR"
  <2> DEFINE q == attachMPIR(w)
  <2>1. Grown(w, q) /\ q.mpir = w.mpir \cup {w.n + 1} /\ q.listed = w.listed
    BY AttachIs
  <2>2. r = [q EXCEPT !.did = w.n + 1, !.job = "running"]
    BY <1>3 DEF Apply
  <2> HIDE DEF r, q
  <2>3. r \in Worlds
    BY <1>0, <2>1, <2>2, Zenon DEF Worlds, Jobs, Grown
  <2> QED BY <1>0, <1>3, <2>1, <2>2, <2>3, Zenon
         DEF Changes, Registers, Traced, Listed, Owned, Held, Runs,
             Frees, Worlds, Ids, Grown, r
<1>4. CASE e = "launchTool"
  <2> DEFINE q == launchMPIR(w)
  <2>1. Grown(w, q) /\ q.mpir = w.mpir \cup {w.n + 1} /\ q.listed = w.listed \cup {w.n + 1}
    BY LaunchIs
  <2>2. r = q
    BY <1>4 DEF Apply
  <2> HIDE DEF r, q
  <2>3. r \in Worlds
    BY <1>0, <2>1, <2>2 DEF Worlds, Jobs, Grown
  <2> QED BY <1>0, <1>4, <2>1, <2>2, <2>3 DEF Changes, Registers, Traced, Listed, Owned, Held, Runs,
             Frees, Worlds, Ids, Grown, r
<1>5. CASE e = "endTool"
  <2>1. r = [w EXCEPT !.mpir = w.mpir \ {w.n}]
    BY <1>5 DEF Apply
  <2> HIDE DEF r
  <2>2. r \in Worlds
    BY <1>0, <2>1 DEF Worlds, Jobs
  <2> QED BY <1>0, <1>5, <2>1, <2>2 DEF Changes, Registers, Traced, Listed, Owned, Held, Runs,
             Frees, Worlds, Ids, r
<1>6. CASE e = "register"
  <2> DEFINE q == registerAppPID(w, "zero")
  <2>1. Grown(w, q) /\ q.mpir = w.mpir /\ q.listed = w.listed
    BY RegisterIs DEF Pids
  <2>2. r = [q EXCEPT !.did = w.n + 1]
    BY <1>6 DEF Apply
  <2> HIDE DEF r, q
  <2>3. r \in Worlds
    BY <1>0, <2>1, <2>2 DEF Worlds, Jobs, Grown
  <2> QED BY <1>0, <1>6, <2>1, <2>2, <2>3 DEF Changes, Registers, Traced, Listed, Owned, Held, Runs,
             Frees, Worlds, Ids, Grown, r
<1>7. CASE e = "registerAprun"
  <2> DEFINE q == registerAppPID(w, "child")
  <2>1. Grown(w, q) /\ q.mpir = w.mpir /\ q.listed = w.listed
    BY RegisterIs DEF Pids
  <2>2. r = [q EXCEPT !.did = w.n + 1]
    BY <1>7 DEF Apply
  <2> HIDE DEF r, q
  <2>3. r \in Worlds
    BY <1>0, <2>1, <2>2 DEF Worlds, Jobs, Grown
  <2> QED BY <1>0, <1>7, <2>1, <2>2, <2>3 DEF Changes, Registers, Traced, Listed, Owned, Held, Runs,
             Frees, Worlds, Ids, Grown, r
<1>8. CASE e = "registerTarget"
  <2> DEFINE q == registerAppPID(w, "target")
  <2>1. Grown(w, q) /\ q.mpir = w.mpir /\ q.listed = w.listed
    BY RegisterIs DEF Pids
  <2>2. r = [q EXCEPT !.did = w.n + 1]
    BY <1>8 DEF Apply
  <2> HIDE DEF r, q
  <2>3. r \in Worlds
    BY <1>0, <2>1, <2>2 DEF Worlds, Jobs, Grown
  <2> QED BY <1>0, <1>8, <2>1, <2>2, <2>3 DEF Changes, Registers, Traced, Listed, Owned, Held, Runs,
             Frees, Worlds, Ids, Grown, r
<1>9. CASE e = "registerSelf"
  <2> DEFINE q == registerAppPID(w, "self")
  <2>1. Grown(w, q) /\ q.mpir = w.mpir /\ q.listed = w.listed
    BY RegisterIs DEF Pids
  <2>2. r = [q EXCEPT !.did = w.n + 1]
    BY <1>9 DEF Apply
  <2> HIDE DEF r, q
  <2>3. r \in Worlds
    BY <1>0, <2>1, <2>2 DEF Worlds, Jobs, Grown
  <2> QED BY <1>0, <1>9, <2>1, <2>2, <2>3 DEF Changes, Registers, Traced, Listed, Owned, Held, Runs,
             Frees, Worlds, Ids, Grown, r
<1>10. CASE e = "found"
  <2>1. r = [w EXCEPT !.job = "running"]
    BY <1>10 DEF Apply
  <2> HIDE DEF r
  <2>2. r \in Worlds
    BY <1>0, <2>1 DEF Worlds, Jobs
  <2> QED BY <1>0, <1>10, <2>1, <2>2 DEF Changes, Registers, Traced, Listed, Owned, Held, Runs,
             Frees, Worlds, Ids, r
<1>11. CASE e = "startHeld"
  <2>1. r = [w EXCEPT !.job = "held", !.owns = TRUE]
    BY <1>11 DEF Apply
  <2> HIDE DEF r
  <2>2. r \in Worlds
    BY <1>0, <2>1, Zenon DEF Worlds, Jobs
  <2> QED BY <1>0, <1>11, <2>1, <2>2, Zenon
         DEF Changes, Registers, Traced, Listed, Owned, Held, Runs,
             Frees, Worlds, Ids, r
<1>12. CASE e = "startFree"
  <2>1. r = [w EXCEPT !.job = "running", !.owns = TRUE]
    BY <1>12 DEF Apply
  <2> HIDE DEF r
  <2>2. r \in Worlds
    BY <1>0, <2>1, Zenon DEF Worlds, Jobs
  <2> QED BY <1>0, <1>12, <2>1, <2>2, Zenon
         DEF Changes, Registers, Traced, Listed, Owned, Held, Runs,
             Frees, Worlds, Ids, r
<1>13. CASE e = "launchRemote"
  <2>1. r = [w EXCEPT !.rmpir = TRUE, !.job = "held", !.owns = TRUE]
    BY <1>13 DEF Apply
  <2> HIDE DEF r
  <2>2. r \in Worlds
    BY <1>0, <2>1, Zenon DEF Worlds, Jobs
  <2> QED BY <1>0, <1>13, <2>1, <2>2, Zenon
         DEF Changes, Registers, Traced, Listed, Owned, Held, Runs,
             Frees, Worlds, Ids, r
<1>14. CASE e = "attachRemote"
  <2>1. r = [w EXCEPT !.rmpir = TRUE, !.job = "running"]
    BY <1>14 DEF Apply
  <2> HIDE DEF r
  <2>2. r \in Worlds
    BY <1>0, <2>1, Zenon DEF Worlds, Jobs
  <2> QED BY <1>0, <1>14, <2>1, <2>2, Zenon
         DEF Changes, Registers, Traced, Listed, Owned, Held, Runs,
             Frees, Worlds, Ids, r
<1>15. CASE e = "releaseRemote"
  <2>1. r = [w EXCEPT !.rmpir = FALSE, !.job = IF w.rmpir THEN letGo(w.job) ELSE w.job]
    BY <1>15 DEF Apply
  <2> HIDE DEF r
  <2>2. r \in Worlds
    BY <1>0, <2>1, Zenon DEF Worlds, Jobs
  <2> QED BY <1>0, <1>15, <2>1, <2>2, Zenon
         DEF Changes, Registers, Traced, Listed, Owned, Held, Runs,
             Frees, Worlds, Ids, r
<1>16. CASE e = "releaseMPIR"
  <2>1. r = [w EXCEPT !.mpir = w.mpir \ {w.did}, !.job = letGo(w.job)]
    BY <1>16 DEF Apply
  <2> HIDE DEF r
  <2>2. r \in Worlds
    BY <1>0, <2>1, Zenon DEF Worlds, Jobs
  <2> QED BY <1>0, <1>16, <2>1, <2>2, Zenon
         DEF Changes, Registers, Traced, Listed, Owned, Held, Runs,
             Frees, Worlds, Ids, r
<1>17. CASE e \in {"leaveBarrier", "loseSignal"}
  <2>1. r = [w EXCEPT !.at = FALSE]
    BY <1>17 DEF Apply
  <2> HIDE DEF r
  <2>2. r \in Worlds
    BY <1>0, <2>1, Zenon DEF Worlds, Jobs
  <2> QED BY <1>0, <1>17, <2>1, <2>2, Zenon
         DEF Changes, Registers, Traced, Listed, Owned, Held, Runs,
             Frees, Worlds, Ids, r
<1>18. CASE e \in {"continueJob", "writeBarrier", "removeLock"}
  <2>1. r = [w EXCEPT !.at = FALSE, !.job = letGo(w.job)]
    BY <1>18 DEF Apply
  <2> HIDE DEF r
  <2>2. r \in Worlds
    BY <1>0, <2>1, Zenon DEF Worlds, Jobs
  <2> QED BY <1>0, <1>18, <2>1, <2>2, Zenon
         DEF Changes, Registers, Traced, Listed, Owned, Held, Runs,
             Frees, Worlds, Ids, r
<1>19. CASE e = "atBarrier"
  <2>1. r = [w EXCEPT !.at = TRUE]
    BY <1>19 DEF Apply
  <2> HIDE DEF r
  <2>2. r \in Worlds
    BY <1>0, <2>1, Zenon DEF Worlds, Jobs
  <2> QED BY <1>0, <1>19, <2>1, <2>2, Zenon
         DEF Changes, Registers, Traced, Listed, Owned, Held, Runs,
             Frees, Worlds, Ids, r
<1>20. CASE e = "stage"
  <2>1. r = [w EXCEPT !.stage = TRUE]
    BY <1>20 DEF Apply
  <2> HIDE DEF r
  <2>2. r \in Worlds
    BY <1>0, <2>1, Zenon DEF Worlds, Jobs
  <2> QED BY <1>0, <1>20, <2>1, <2>2 DEF Changes, Registers, Traced, Listed, Owned, Held, Runs,
             Frees, Worlds, Ids, r
<1>21. CASE e = "link"
  <2>1. r = [w EXCEPT !.link = TRUE]
    BY <1>21 DEF Apply
  <2> HIDE DEF r
  <2>2. r \in Worlds
    BY <1>0, <2>1, Zenon DEF Worlds, Jobs
  <2> QED BY <1>0, <1>21, <2>1, <2>2 DEF Changes, Registers, Traced, Listed, Owned, Held, Runs,
             Frees, Worlds, Ids, r
<1>22. CASE e = "unlink"
  <2>1. r = [w EXCEPT !.link = FALSE]
    BY <1>22 DEF Apply
  <2> HIDE DEF r
  <2>2. r \in Worlds
    BY <1>0, <2>1, Zenon DEF Worlds, Jobs
  <2> QED BY <1>0, <1>22, <2>1, <2>2 DEF Changes, Registers, Traced, Listed, Owned, Held, Runs,
             Frees, Worlds, Ids, r
<1>23. CASE e = "sent"
  <2>1. r = [w EXCEPT !.sent = TRUE]
    BY <1>23 DEF Apply
  <2> HIDE DEF r
  <2>2. r \in Worlds
    BY <1>0, <2>1, Zenon DEF Worlds, Jobs
  <2> QED BY <1>0, <1>23, <2>1, <2>2 DEF Changes, Registers, Traced, Listed, Owned, Held, Runs,
             Frees, Worlds, Ids, r
<1>24. CASE e \notin {"launchMPIR", "sattachMPIR", "attachMPIR", "launchTool", "endTool",
               "register", "registerAprun", "registerTarget", "registerSelf", "found",
                      "startHeld", "startFree", "launchRemote", "attachRemote", "releaseRemote",
                      "releaseMPIR", "leaveBarrier", "loseSignal", "continueJob", "writeBarrier",
                      "removeLock", "atBarrier", "stage", "link", "unlink", "sent"}
  <2>1. r = w
    BY <1>24 DEF Apply
  <2> HIDE DEF r
  <2> QED BY <1>24, <2>1, Zenon
         DEF Changes, Registers, Traced, Listed, Owned, Held, Runs, Frees, r
<1> QED BY <1>1, <1>2, <1>3, <1>4, <1>5, <1>6, <1>7, <1>8, <1>9, <1>10, <1>11, <1>12, <1>13,
           <1>14, <1>15, <1>16, <1>17, <1>18, <1>19, <1>20, <1>21, <1>22, <1>23, <1>24

-----------------------------------------------------------------------------
(* Scripts.                                                                *)

\* The worlds that a script goes through.
LEMMA RunIs ==
    ASSUME NEW w \in Worlds, NEW s, Len(s) \in Nat
    PROVE  /\ After(w, s, 0) = w
           /\ \A k \in 0 .. Len(s) : After(w, s, k) \in Worlds
           /\ \A k \in 1 .. Len(s) : After(w, s, k) = Apply(After(w, s, k - 1), s[k])
<1> DEFINE n == Len(s)
           step == [k \in 1 .. n |-> [x \in Worlds |-> Apply(x, s[k])]]
           Is(f) == f = [k \in 0 .. n |-> IF k = 0 THEN w ELSE Apply(f[k - 1], s[k])]
<1>1. \A k \in 1 .. n : \A x \in Worlds : Apply(x, s[k]) \in Worlds
  BY ApplyIs
<1>2. step \in [1 .. n -> [Worlds -> Worlds]]
  BY <1>1
<1>3. PICK f : Course(f, step, n, Worlds, w)
  <2> HIDE DEF step, n
  <2>1. n \in Nat /\ Steps(step, n, Worlds)
    BY <1>2 DEF Steps, n
  <2> QED BY <2>1, Recursion, Zenon
<1>4. \A k \in 1 .. n : k - 1 \in 0 .. n /\ k \in 0 .. n /\ k # 0
  OBVIOUS
<1>5. f \in [0 .. n -> Worlds] /\ f[0] = w /\ \A k \in 1 .. n : f[k] = Apply(f[k - 1], s[k])
  <2>1. f \in [0 .. n -> Worlds] /\ f[0] = w /\ \A k \in 1 .. n : f[k] = step[k][f[k - 1]]
    <3> HIDE DEF step, n
    <3> QED BY <1>3 DEF Course
  <2>2. ASSUME NEW k \in 1 .. n PROVE f[k] = Apply(f[k - 1], s[k])
    <3>1. f[k - 1] \in Worlds
      BY <1>4, <2>1
    <3>2. step[k] = [x \in Worlds |-> Apply(x, s[k])]
      BY Zenon
    <3>3. f[k] = step[k][f[k - 1]]
      BY <2>1
    <3> HIDE DEF step, n
    <3> QED BY <3>1, <3>2, <3>3
  <2> QED BY <2>1, <2>2
<1>6. Is(f)
  <2>1. \A k \in 0 .. n : k = 0 \/ k \in 1 .. n
    OBVIOUS
  <2>2. \A k \in 0 .. n : f[k] = IF k = 0 THEN w ELSE Apply(f[k - 1], s[k])
    BY <1>5, <2>1
  <2>3. f \in [0 .. n -> Worlds]
    BY <1>5
  <2> HIDE DEF n, step
  <2> QED BY <2>2, <2>3
<1>7. Is(Run(w, s))
  <2> HIDE DEF step
  <2> QED BY <1>6, Zenon DEF Run
<1> DEFINE g == Run(w, s)
<1>8. g[0] = w /\ \A k \in 1 .. n : g[k] = Apply(g[k - 1], s[k])
  <2> HIDE DEF g, step
  <2>1. Is(g)
    BY <1>7 DEF g
  <2> QED BY <1>4, <2>1
<1>9. \A k \in 0 .. n : g[k] \in Worlds
  <2> DEFINE S == {k \in 0 .. n : g[k] \in Worlds}
  <2>1. 0 \in S
    BY <1>8
  <2>2. ASSUME NEW k \in 0 .. n - 1, k \in S PROVE k + 1 \in S
    <3>1. k + 1 \in 1 .. n /\ (k + 1) - 1 = k
      OBVIOUS
    <3>2. g[k + 1] = Apply(g[k], s[k + 1])
      BY <1>8, <3>1
    <3> HIDE DEF g
    <3> QED BY <1>1, <2>2, <3>1, <3>2
  <2>3. 0 .. n \subseteq S
    <3> HIDE DEF S
    <3> QED BY <2>1, <2>2, Induction
  <2> QED BY <2>3
<1> QED BY <1>8, <1>9 DEF After

\* The effects that give the App at hand its id.
Setters == Registers \ {"launchTool"}

\* One of the first k effects of s is in E.
Did(s, k, E) == \E j \in 1 .. k : s[j] \in E

\* A script ends or releases only what it has itself launched or attached to.
Tidy(s) ==
    /\ Len(s) \in Nat
    /\ \A k \in 1 .. Len(s) : s[k] = "endTool" => Did(s, k - 1, Registers)
    /\ \A k \in 1 .. Len(s) : s[k] = "releaseMPIR" => Did(s, k - 1, Setters)

\* The daemon has only got new ids, and keeps what it knew of the older ones.
Fresh(w, x) ==
    /\ w.n <= x.n
    /\ Ids(w) \subseteq Ids(x) /\ \A i \in Ids(x) : i \in Ids(w) \/ w.n < i
    /\ w.listed \subseteq x.listed
    /\ \A i \in Nat : i <= w.n => (i \in x.mpir <=> i \in w.mpir)

\* One effect more.
LEMMA DidNext ==
    ASSUME NEW s, NEW k \in Nat, NEW E
    PROVE  Did(s, k + 1, E) <=> Did(s, k, E) \/ s[k + 1] \in E
BY DEF Did

\* A tidy script leaves the daemon's older ids alone, and the App it makes has
\* an id that is new.
LEMMA FreshRun ==
    ASSUME NEW w \in Worlds, NEW s, Tidy(s)
    PROVE  \A k \in 0 .. Len(s) :
              LET x == After(w, s, k)
              IN /\ Fresh(w, x)
                 /\ Did(s, k, Registers) => w.n < x.n
                 /\ Did(s, k, Setters) => w.n < x.did /\ x.did <= x.n
                 /\ ~Did(s, k, Setters) => x.did = w.did
<1> DEFINE P(k) == LET x == After(w, s, k)
                   IN /\ Fresh(w, x)
                      /\ Did(s, k, Registers) => w.n < x.n
                      /\ Did(s, k, Setters) => w.n < x.did /\ x.did <= x.n
                      /\ ~Did(s, k, Setters) => x.did = w.did
           S == {k \in 0 .. Len(s) : P(k)}
<1>0. Len(s) \in Nat /\ w.n \in Nat
  BY WorldFields DEF Tidy
<1>1. 0 \in S
  <2>1. After(w, s, 0) = w /\ ~Did(s, 0, Registers) /\ ~Did(s, 0, Setters)
    BY <1>0, RunIs DEF Did
  <2>2. Fresh(w, w)
    BY <1>0 DEF Fresh
  <2>3. P(0) /\ 0 \in 0 .. Len(s)
    BY <1>0, <2>1, <2>2
  <2> QED BY <2>3
<1>2. ASSUME NEW k \in 0 .. Len(s) - 1, k \in S PROVE k + 1 \in S
  <2> DEFINE x == After(w, s, k)
             e == s[k + 1]
             y == After(w, s, k + 1)
  <2>1. k \in Nat /\ k \in 0 .. Len(s) /\ k + 1 \in 1 .. Len(s) /\ k + 1 \in 0 .. Len(s)
        /\ (k + 1) - 1 = k
    BY <1>0
  <2>2. x \in Worlds /\ y = Apply(x, e)
    BY <1>0, <2>1, RunIs
  <2>3. Changes(x, e, y)
    BY <2>2, ApplyIs
  <2>4. P(k)
    BY <1>2
  <2>5. e = "endTool" => Did(s, k, Registers)
    BY <2>1 DEF Tidy
  <2>6. e = "releaseMPIR" => Did(s, k, Setters)
    BY <2>1 DEF Tidy
  <2>7. (Did(s, k + 1, Registers) <=> Did(s, k, Registers) \/ e \in Registers)
        /\ (Did(s, k + 1, Setters) <=> Did(s, k, Setters) \/ e \in Setters)
    BY <2>1, DidNext
  <2>8. x.n \in Nat /\ x.did \in Nat
    BY <2>2, WorldFields
  <2> HIDE DEF x, y, e
  <2>9. y.n = IF e \in Registers THEN x.n + 1 ELSE x.n
    BY <2>3 DEF Changes
  <2>10. Ids(y) = IF e \in Registers THEN Ids(x) \cup {x.n + 1} ELSE Ids(x)
    BY <2>3 DEF Changes
  <2>11. y.did = IF e \in Setters THEN x.n + 1 ELSE x.did
    BY <2>3 DEF Changes, Setters
  <2>12. x.listed \subseteq y.listed
    BY <2>3 DEF Changes
  <2>13. /\ Fresh(w, x)
         /\ Did(s, k, Registers) => w.n < x.n
         /\ Did(s, k, Setters) => w.n < x.did /\ x.did <= x.n
         /\ ~Did(s, k, Setters) => x.did = w.did
    BY <2>4 DEF x
  <2>14. w.n <= y.n
    BY <1>0, <2>8, <2>9, <2>13 DEF Fresh
  <2>15. Ids(w) \subseteq Ids(y) /\ \A i \in Ids(y) : i \in Ids(w) \/ w.n < i
    BY <1>0, <2>8, <2>10, <2>13 DEF Fresh
  <2>16. \A i \in Nat : i <= w.n => (i \in y.mpir <=> i \in x.mpir)
    <3>1. CASE e \in Traced
      BY <1>0, <2>3, <2>8, <2>13, <3>1 DEF Changes, Fresh
    <3>2. CASE e = "endTool"
      <4>1. w.n < x.n
        BY <2>5, <2>13, <3>2
      <4>2. y.mpir = x.mpir \ {x.n}
        BY <2>3, <3>2 DEF Changes, Traced
      <4> QED BY <1>0, <2>8, <4>1, <4>2
    <3>3. CASE e = "releaseMPIR"
      <4>1. w.n < x.did
        BY <2>6, <2>13, <3>3
      <4>2. y.mpir = x.mpir \ {x.did}
        BY <2>3, <3>3 DEF Changes, Traced
      <4> QED BY <1>0, <2>8, <4>1, <4>2
    <3>4. CASE e \notin Traced /\ e # "endTool" /\ e # "releaseMPIR"
      BY <2>3, <3>4 DEF Changes
    <3> QED BY <3>1, <3>2, <3>3, <3>4
  <2>17. Fresh(w, y)
    BY <2>12, <2>13, <2>14, <2>15, <2>16 DEF Fresh
  <2>18. e \in Setters => e \in Registers
    BY DEF Setters
  <2>19. w.n <= x.n
    BY <2>13 DEF Fresh
  <2>20. /\ Did(s, k + 1, Registers) => w.n < y.n
         /\ Did(s, k + 1, Setters) => w.n < y.did /\ y.did <= y.n
         /\ ~Did(s, k + 1, Setters) => y.did = w.did
    BY <1>0, <2>7, <2>8, <2>9, <2>11, <2>13, <2>18, <2>19
  <2>21. P(k + 1)
    BY <2>17, <2>20 DEF y
  <2> QED BY <2>1, <2>21
<1>3. 0 .. Len(s) \subseteq S
  <2> HIDE DEF S
  <2> QED BY <1>0, <1>1, <1>2, Induction, Zenon
<1> QED BY <1>3

\* The effects of the scripts that start a tool daemon.
Starts == {"copy", "util", "ship", "scp", "sent", "launchTool", "checkProctable", "endTool",
           "ssh", "submit", "wait", "link", "toolHelper", "rename", "unlink", "fork"}

\* The scripts that start a tool daemon.
Starting(s) == Tidy(s) /\ \A k \in 1 .. Len(s) : s[k] \in Starts

\* What the start of a daemon leaves of the App and of the FE daemon.
Kept(w, x) ==
    /\ x \in Worlds /\ Fresh(w, x)
    /\ x.did = w.did /\ x.at = w.at /\ x.job = w.job /\ x.owns = w.owns

\* Starting a daemon, finished or not, leaves the App's id, job and barrier.
LEMMA StartSame ==
    ASSUME NEW w \in Worlds, NEW s, Starting(s)
    PROVE  \A k \in 0 .. Len(s) :
              LET x == After(w, s, k)
              IN /\ x.did = w.did /\ x.at = w.at /\ x.job = w.job /\ x.owns = w.owns
<1> DEFINE P(k) == LET x == After(w, s, k)
                   IN /\ x.did = w.did /\ x.at = w.at /\ x.job = w.job /\ x.owns = w.owns
           S == {k \in 0 .. Len(s) : P(k)}
<1>0. Len(s) \in Nat /\ Tidy(s)
  BY DEF Starting, Tidy
<1>1. 0 \in S
  <2>1. After(w, s, 0) = w /\ \A E : ~Did(s, 0, E)
    BY <1>0, RunIs DEF Did
  <2>2. P(0) /\ 0 \in 0 .. Len(s)
    BY <1>0, <2>1
  <2> QED BY <2>2
<1>2. ASSUME NEW k \in 0 .. Len(s) - 1, k \in S PROVE k + 1 \in S
  <2> DEFINE x == After(w, s, k)
             e == s[k + 1]
             y == After(w, s, k + 1)
  <2>1. k \in Nat /\ k \in 0 .. Len(s) /\ k + 1 \in 1 .. Len(s) /\ k + 1 \in 0 .. Len(s)
        /\ (k + 1) - 1 = k
    BY <1>0
  <2>2. x \in Worlds /\ y = Apply(x, e)
    BY <1>0, <2>1, RunIs
  <2>3. Changes(x, e, y)
    BY <2>2, ApplyIs
  <2>4. /\ x.did = w.did /\ x.at = w.at /\ x.job = w.job /\ x.owns = w.owns
    BY <1>2
  <2>5. e \in Starts
    BY <2>1 DEF Starting
  <2> HIDE DEF x, y, e
  <2>6. y.did = x.did /\ y.at = x.at /\ y.job = x.job /\ y.owns = x.owns
    BY <2>3, <2>5, Zenon DEF Changes, Starts, Registers, Owned, Held, Runs, Frees
  <2>100. P(k + 1)
    BY <2>4, <2>6 DEF x, y
  <2> QED BY <2>1, <2>100
<1>3. 0 .. Len(s) \subseteq S
  <2> HIDE DEF S
  <2> QED BY <1>0, <1>1, <1>2, Induction
<1> QED BY <1>3

\* Starting a daemon, finished or not, keeps the App and the older ids.
LEMMA StartRun ==
    ASSUME NEW w \in Worlds, NEW s, Starting(s), NEW k \in 0 .. Len(s)
    PROVE  Kept(w, After(w, s, k))
<1>1. Tidy(s) /\ Len(s) \in Nat
  BY DEF Starting, Tidy
<1>2. After(w, s, k) \in Worlds
  BY <1>1, RunIs
<1>3. Fresh(w, After(w, s, k))
  BY <1>1, FreshRun
<1> QED BY <1>2, <1>3, StartSame DEF Kept

\* What is kept twice is kept.
LEMMA KeptTransitive ==
    ASSUME NEW w \in Worlds, NEW x, NEW y, Kept(w, x), Kept(x, y)
    PROVE  Kept(w, y)
<1>1. w.n \in Nat /\ x.n \in Nat /\ y.n \in Nat
  BY WorldFields DEF Kept
<1>2. w.n <= y.n
  BY <1>1 DEF Kept, Fresh
<1>3. Ids(w) \subseteq Ids(y) /\ w.listed \subseteq y.listed
  BY DEF Kept, Fresh
<1>4. Ids(y) \subseteq Nat
  <2>1. y.pid \in PidMaps
    BY WorldFields DEF Kept
  <2> QED BY <2>1, Zenon DEF PidMaps, Ids
<1>5. \A i \in Ids(y) : i \in Ids(w) \/ w.n < i
  BY <1>1, <1>4 DEF Kept, Fresh
<1>6. \A i \in Nat : i <= w.n => (i \in y.mpir <=> i \in w.mpir)
  BY <1>1 DEF Kept, Fresh
<1> QED BY <1>2, <1>3, <1>5, <1>6 DEF Kept, Fresh

\* A job launched under the daemon's control: no other id takes its place, and
\* no tool is ended in the same script.
Launching(s) ==
    /\ Tidy(s)
    /\ \A k \in 1 .. Len(s) : s[k] \notin {"startHeld", "startFree", "launchRemote"}
    /\ Did(s, Len(s), {"launchMPIR"}) =>
          \A k \in 1 .. Len(s) : s[k] \notin (Setters \ {"launchMPIR"}) \cup {"endTool"}

\* A job launched under the daemon's control is on its list, and can be released
\* while it is held.
LEMMA LaunchRun ==
    ASSUME NEW w \in Worlds, NEW s, Launching(s), ~w.owns, w.job = "none"
    PROVE  \A k \in 0 .. Len(s) :
              LET x == After(w, s, k)
              IN /\ x.owns => Did(s, k, {"launchMPIR"}) /\ x.did \in x.listed /\ x.job # "none"
                 /\ x.job = "held" => x.owns /\ x.did \in x.mpir
                 /\ x.job # "ended"
<1> DEFINE P(k) == LET x == After(w, s, k)
                   IN /\ x.owns => Did(s, k, {"launchMPIR"}) /\ x.did \in x.listed /\ x.job # "none"
                      /\ x.job = "held" => x.owns /\ x.did \in x.mpir
                      /\ x.job # "ended"
           S == {k \in 0 .. Len(s) : P(k)}
<1>0. Len(s) \in Nat
  BY DEF Launching, Tidy
<1>1. 0 \in S
  <2>1. After(w, s, 0) = w /\ \A E : ~Did(s, 0, E)
    BY <1>0, RunIs DEF Did
  <2>2. P(0) /\ 0 \in 0 .. Len(s)
    BY <1>0, <2>1
  <2> QED BY <2>2
<1>2. ASSUME NEW k \in 0 .. Len(s) - 1, k \in S PROVE k + 1 \in S
  <2> DEFINE x == After(w, s, k)
             e == s[k + 1]
             y == After(w, s, k + 1)
  <2>1. k \in Nat /\ k \in 0 .. Len(s) /\ k + 1 \in 1 .. Len(s) /\ k + 1 \in 0 .. Len(s)
        /\ (k + 1) - 1 = k
    BY <1>0
  <2>2. x \in Worlds /\ y = Apply(x, e)
    BY <1>0, <2>1, RunIs
  <2>3. Changes(x, e, y)
    BY <2>2, ApplyIs
  <2>4. /\ x.owns => Did(s, k, {"launchMPIR"}) /\ x.did \in x.listed /\ x.job # "none"
        /\ x.job = "held" => x.owns /\ x.did \in x.mpir
        /\ x.job # "ended"
    BY <1>2
  <2>5. e \notin {"startHeld", "startFree", "launchRemote"}
    BY <2>1 DEF Launching
  <2>6. Did(s, k, {"launchMPIR"}) => e \notin (Setters \ {"launchMPIR"}) \cup {"endTool"}
    <3>1. Did(s, k, {"launchMPIR"}) => Did(s, Len(s), {"launchMPIR"})
      BY <2>1 DEF Did
    <3> QED BY <2>1, <3>1 DEF Launching
  <2>7. Did(s, k + 1, {"launchMPIR"}) <=> Did(s, k, {"launchMPIR"}) \/ e = "launchMPIR"
    BY <2>1, DidNext, Zenon
  <2> HIDE DEF x, y, e
  <2>8. y.owns <=> x.owns \/ e = "launchMPIR"
    <3>1. x.owns \in BOOLEAN
      BY <2>2, WorldFields
    <3> QED BY <2>3, <2>5, <3>1 DEF Changes, Owned
  <2>9. y.job # "ended" /\ (y.job = "held" => x.job = "held" \/ e = "launchMPIR")
        /\ (x.job # "none" => y.job # "none")
    BY <2>3, <2>4, <2>5 DEF Changes, Held, Runs, Frees, letGo, x
  <2>10. ASSUME e = "launchMPIR" PROVE P(k + 1)
    <3>1. y.did = x.n + 1 /\ y.did \in y.listed /\ y.did \in y.mpir /\ y.job = "held"
      BY <2>3, <2>10 DEF Changes, Setters, Registers, Listed, Traced, Held
    <3> QED BY <2>7, <2>8, <2>9, <2>10, <3>1 DEF y
  <2>11. ASSUME e # "launchMPIR" PROVE P(k + 1)
    <3>1. x.owns => e \notin Setters /\ e # "endTool"
      BY <2>4, <2>6, <2>11 DEF x
    <3>2. x.owns => y.did = x.did /\ y.did \in y.listed
      BY <2>3, <2>4, <3>1 DEF Changes, Setters, x
    <3>3. y.job = "held" => x.job = "held" /\ x.owns /\ x.did \in x.mpir
      BY <2>4, <2>9, <2>11 DEF x
    <3>4. y.job = "held" => e # "releaseMPIR"
      BY <2>3 DEF Changes, Held, Runs, letGo
    <3>5. y.job = "held" => y.did \in y.mpir
      BY <2>3, <3>1, <3>2, <3>3, <3>4 DEF Changes
    <3> QED BY <2>4, <2>7, <2>8, <2>9, <2>11, <3>2, <3>3, <3>5 DEF x, y
  <2>100. P(k + 1)
    BY <2>10, <2>11 DEF y
  <2> QED BY <2>1, <2>100
<1>3. 0 .. Len(s) \subseteq S
  <2> HIDE DEF S
  <2> QED BY <1>0, <1>1, <1>2, Induction
<1> QED BY <1>3

\* The barrier of a job that is started held is noted, and only forgotten
\* right after the release.
Stopping(s) ==
    /\ Len(s) \in Nat
    /\ \A k \in 1 .. Len(s) : s[k] \in Held => ~Did(s, k - 1, {"atBarrier"})
    /\ \A k \in 1 .. Len(s) : s[k] \in Frees \cup {"leaveBarrier", "loseSignal"} =>
                                 k > 1 /\ s[k - 1] = "releaseMPIR"

\* While the job is held the App knows of the barrier, from when it was noted.
LEMMA StoppingRun ==
    ASSUME NEW w \in Worlds, NEW s, Stopping(s), w.job # "held"
    PROVE  \A k \in 0 .. Len(s) :
              LET x == After(w, s, k)
              IN /\ x.job = "held" => Did(s, k, Held)
                 /\ x.job = "held" /\ Did(s, k, {"atBarrier"}) => x.at
                 /\ k > 0 /\ s[k] = "releaseMPIR" => x.job # "held"
<1> DEFINE P(k) == LET x == After(w, s, k)
                   IN /\ x.job = "held" => Did(s, k, Held)
                      /\ x.job = "held" /\ Did(s, k, {"atBarrier"}) => x.at
                      /\ k > 0 /\ s[k] = "releaseMPIR" => x.job # "held"
           S == {k \in 0 .. Len(s) : P(k)}
<1>0. Len(s) \in Nat
  BY DEF Stopping
<1>1. 0 \in S
  <2>1. After(w, s, 0) = w /\ \A E : ~Did(s, 0, E)
    BY <1>0, RunIs DEF Did
  <2>2. P(0) /\ 0 \in 0 .. Len(s)
    BY <1>0, <2>1
  <2> QED BY <2>2
<1>2. ASSUME NEW k \in 0 .. Len(s) - 1, k \in S PROVE k + 1 \in S
  <2> DEFINE x == After(w, s, k)
             e == s[k + 1]
             y == After(w, s, k + 1)
  <2>1. k \in Nat /\ k \in 0 .. Len(s) /\ k + 1 \in 1 .. Len(s) /\ k + 1 \in 0 .. Len(s)
        /\ (k + 1) - 1 = k
    BY <1>0
  <2>2. x \in Worlds /\ y = Apply(x, e)
    BY <1>0, <2>1, RunIs
  <2>3. Changes(x, e, y)
    BY <2>2, ApplyIs
  <2>4. /\ x.job = "held" => Did(s, k, Held)
        /\ x.job = "held" /\ Did(s, k, {"atBarrier"}) => x.at
        /\ k > 0 /\ s[k] = "releaseMPIR" => x.job # "held"
    BY <1>2
  <2>5. e \in Held => ~Did(s, k, {"atBarrier"})
    BY <2>1 DEF Stopping
  <2>6. e \in Frees \cup {"leaveBarrier", "loseSignal"} => k > 0 /\ s[k] = "releaseMPIR"
    BY <2>1 DEF Stopping
  <2>7. (Did(s, k + 1, {"atBarrier"}) <=> Did(s, k, {"atBarrier"}) \/ e = "atBarrier")
        /\ (Did(s, k + 1, Held) <=> Did(s, k, Held) \/ e \in Held)
    BY <2>1, DidNext
  <2> HIDE DEF x, y, e
  <2>8. y.job = "held" => x.job = "held" \/ e \in Held
    BY <2>3 DEF Changes, letGo
  <2>9. e = "releaseMPIR" => y.job # "held"
    BY <2>3 DEF Changes, Held, Runs, letGo
  <2>10. y.job = "held" => Did(s, k + 1, Held)
    BY <2>4, <2>7, <2>8 DEF x
  <2>11. ASSUME y.job = "held", Did(s, k + 1, {"atBarrier"}) PROVE y.at
    <3>1. CASE e = "atBarrier"
      BY <2>3, <3>1 DEF Changes
    <3>2. CASE e # "atBarrier"
      <4>1. x.job = "held" /\ Did(s, k, {"atBarrier"})
        BY <2>5, <2>7, <2>8, <2>11, <3>2
      <4>2. x.at /\ e \notin Frees \cup {"leaveBarrier", "loseSignal"}
        BY <2>4, <2>6, <4>1 DEF x
      <4> QED BY <2>3, <3>2, <4>2 DEF Changes
    <3> QED BY <3>1, <3>2
  <2>12. k + 1 > 0 /\ s[k + 1] = "releaseMPIR" => y.job # "held"
    BY <2>9 DEF e
  <2>100. P(k + 1)
    BY <2>10, <2>11, <2>12 DEF y
  <2> QED BY <2>1, <2>100
<1>3. 0 .. Len(s) \subseteq S
  <2> HIDE DEF S
  <2> QED BY <1>0, <1>1, <1>2, Induction, Zenon
<1> QED BY <1>3

\* The effects of the scripts that let a job go.
Releasing(s) ==
    /\ Len(s) \in Nat
    /\ \A k \in 1 .. Len(s) : s[k] \in Frees \cup {"releaseMPIR", "releaseRemote", "checkBarrier",
                                                   "leaveBarrier", "loseSignal"}
    /\ \A k \in 1 .. Len(s) : s[k] = "leaveBarrier" => k > 1 /\ s[k - 1] = "releaseMPIR"

\* Letting a job go takes it alone out of the daemon's MPIR sessions; while it is
\* still held nothing has changed, unless a signal was lost.
LEMMA ReleaseRun ==
    ASSUME NEW w \in Worlds, NEW s, Releasing(s)
    PROVE  \A k \in 0 .. Len(s) :
              LET x == After(w, s, k)
              IN /\ x.n = w.n /\ Ids(x) = Ids(w) /\ x.listed = w.listed /\ x.did = w.did /\ x.owns = w.owns
                 /\ x.job = w.job \/ x.job = letGo(w.job)
                 /\ \A i \in Nat : i # w.did => (i \in x.mpir <=> i \in w.mpir)
                 /\ x.job = "held" /\ ~Did(s, k, {"loseSignal"}) => x.mpir = w.mpir /\ x.at = w.at
                 /\ k > 0 /\ s[k] = "releaseMPIR" => x.job # "held"
<1> DEFINE P(k) == LET x == After(w, s, k)
                   IN /\ x.n = w.n /\ Ids(x) = Ids(w) /\ x.listed = w.listed /\ x.did = w.did /\ x.owns = w.owns
                      /\ x.job = w.job \/ x.job = letGo(w.job)
                      /\ \A i \in Nat : i # w.did => (i \in x.mpir <=> i \in w.mpir)
                      /\ x.job = "held" /\ ~Did(s, k, {"loseSignal"}) => x.mpir = w.mpir /\ x.at = w.at
                      /\ k > 0 /\ s[k] = "releaseMPIR" => x.job # "held"
           S == {k \in 0 .. Len(s) : P(k)}
<1>0. Len(s) \in Nat
  BY DEF Releasing
<1>1. 0 \in S
  <2>1. After(w, s, 0) = w /\ \A E : ~Did(s, 0, E)
    BY <1>0, RunIs DEF Did
  <2>2. P(0) /\ 0 \in 0 .. Len(s)
    BY <1>0, <2>1
  <2> QED BY <2>2
<1>2. ASSUME NEW k \in 0 .. Len(s) - 1, k \in S PROVE k + 1 \in S
  <2> DEFINE x == After(w, s, k)
             e == s[k + 1]
             y == After(w, s, k + 1)
  <2>1. k \in Nat /\ k \in 0 .. Len(s) /\ k + 1 \in 1 .. Len(s) /\ k + 1 \in 0 .. Len(s)
        /\ (k + 1) - 1 = k
    BY <1>0
  <2>2. x \in Worlds /\ y = Apply(x, e)
    BY <1>0, <2>1, RunIs
  <2>3. Changes(x, e, y)
    BY <2>2, ApplyIs
  <2>4. /\ x.n = w.n /\ Ids(x) = Ids(w) /\ x.listed = w.listed /\ x.did = w.did /\ x.owns = w.owns
        /\ x.job = w.job \/ x.job = letGo(w.job)
        /\ \A i \in Nat : i # w.did => (i \in x.mpir <=> i \in w.mpir)
        /\ x.job = "held" /\ ~Did(s, k, {"loseSignal"}) => x.mpir = w.mpir /\ x.at = w.at
        /\ k > 0 /\ s[k] = "releaseMPIR" => x.job # "held"
    BY <1>2
  <2>5. e \in Frees \cup {"releaseMPIR", "releaseRemote", "checkBarrier", "leaveBarrier", "loseSignal"}
    BY <2>1 DEF Releasing
  <2>6. e = "leaveBarrier" => k > 0 /\ s[k] = "releaseMPIR"
    BY <2>1 DEF Releasing
  <2>7. Did(s, k + 1, {"loseSignal"}) <=> Did(s, k, {"loseSignal"}) \/ e = "loseSignal"
    BY <2>1, DidNext
  <2> HIDE DEF x, y, e
  <2>8. /\ y.n = x.n /\ Ids(y) = Ids(x) /\ y.listed = x.listed /\ y.did = x.did /\ y.owns = x.owns
    BY <2>3, <2>5, Zenon DEF Changes, Frees, Registers, Listed, Owned
  <2>9. /\ y.job = x.job \/ y.job = letGo(x.job)
        /\ e \in Frees \cup {"releaseMPIR"} => y.job = letGo(x.job)
    BY <2>3, <2>5 DEF Changes, Frees, Held, Runs
  <2>10. y.mpir = IF e = "releaseMPIR" THEN x.mpir \ {x.did} ELSE x.mpir
    BY <2>3, <2>5 DEF Changes, Frees, Traced
  <2>11. e \notin Frees \cup {"leaveBarrier", "loseSignal"} => y.at = x.at
    BY <2>3, <2>5, Zenon DEF Changes, Frees
  <2>12. letGo(letGo(w.job)) = letGo(w.job) /\ \A j : letGo(j) # "held"
    BY DEF letGo
  <2>13. y.job = "held" => x.job = "held" /\ e \notin Frees \cup {"releaseMPIR", "leaveBarrier"}
    BY <2>4, <2>6, <2>9, <2>12 DEF x
  <2>14. y.job = w.job \/ y.job = letGo(w.job)
    BY <2>4, <2>9, <2>12 DEF x
  <2>15. \A i \in Nat : i # w.did => (i \in y.mpir <=> i \in w.mpir)
    BY <2>4, <2>10 DEF x
  <2>16. y.job = "held" /\ ~Did(s, k + 1, {"loseSignal"}) => y.mpir = w.mpir /\ y.at = w.at
    BY <2>4, <2>7, <2>10, <2>11, <2>13 DEF x
  <2>17. k + 1 > 0 /\ s[k + 1] = "releaseMPIR" => y.job # "held"
    BY <2>13 DEF e
  <2>18. /\ y.n = w.n /\ Ids(y) = Ids(w) /\ y.listed = w.listed /\ y.did = w.did /\ y.owns = w.owns
    BY <2>4, <2>8 DEF x
  <2>100. P(k + 1)
    BY <2>14, <2>15, <2>16, <2>17, <2>18 DEF y
  <2> QED BY <2>1, <2>100
<1>3. 0 .. Len(s) \subseteq S
  <2> HIDE DEF S
  <2> QED BY <1>0, <1>1, <1>2, Induction
<1> QED BY <1>3

-----------------------------------------------------------------------------
(* The scripts of the frontends.                                           *)

\* Every startDaemon is made of such effects.
LEMMA StartScripts ==
    ASSUME NEW v \in Wlms, NEW w, NEW s \in startDaemonScripts(v, w)
    PROVE  Starting(s)
<1> USE DEF Starting, Starts, Tidy, Did, Registers, Setters
<1>1. PICK r \in runDaemon(v) : s = (IF w.sent THEN << >> ELSE shipDaemon(v)) \o r
  BY DEF startDaemonScripts
<1>2. CASE v \in {"slurm", "eproxy"}
  <2>1. r = srunMPIR("launchTool") \o <<"endTool">> \/ r = <<"launchTool", "ssh">>
    BY <1>1, <1>2 DEF runDaemon, slurm_startDaemon
  <2>2. shipDaemon(v) = slurm_shipDaemon(slurm_shipPackage)
        \/ shipDaemon(v) = slurm_shipDaemon(eproxy_shipPackage)
    BY <1>2 DEF shipDaemon
  <2>3. ASSUME r = <<"launchTool", "ssh">> PROVE Starting(s)
    <3>1. CASE w.sent
      BY <1>1, <2>3, <3>1
    <3>2. CASE ~w.sent /\ shipDaemon(v) = slurm_shipDaemon(slurm_shipPackage)
      BY <1>1, <2>3, <3>2 DEF slurm_shipDaemon, slurm_shipPackage
    <3>3. CASE ~w.sent /\ shipDaemon(v) = slurm_shipDaemon(eproxy_shipPackage)
      BY <1>1, <2>3, <3>3 DEF slurm_shipDaemon, eproxy_shipPackage, slurm_shipPackage
    <3> QED BY <2>2, <3>1, <3>2, <3>3
  <2>4. ASSUME r = srunMPIR("launchTool") \o <<"endTool">> PROVE Starting(s)
    <3>1. CASE w.sent
      BY <1>1, <2>4, <3>1 DEF srunMPIR
    <3>2. CASE ~w.sent /\ shipDaemon(v) = slurm_shipDaemon(slurm_shipPackage)
      BY <1>1, <2>4, <3>2 DEF slurm_shipDaemon, slurm_shipPackage, srunMPIR
    <3>3. CASE ~w.sent /\ shipDaemon(v) = slurm_shipDaemon(eproxy_shipPackage)
      BY <1>1, <2>4, <3>3 DEF slurm_shipDaemon, eproxy_shipPackage, slurm_shipPackage, srunMPIR
    <3> QED BY <2>2, <3>1, <3>2, <3>3
  <2> QED BY <2>1, <2>3, <2>4
<1>3. CASE v = "pals"
  <2>1. r = <<"util">> /\ shipDaemon(v) = pals_shipDaemon
    BY <1>1, <1>3 DEF runDaemon, shipDaemon, pals_startDaemon
  <2>2. CASE w.sent
    BY <1>1, <2>1, <2>2
  <2>3. CASE ~w.sent
    BY <1>1, <2>1, <2>3 DEF pals_shipDaemon, pals_shipPackage
  <2> QED BY <2>2, <2>3
<1>4. CASE v = "flux"
  <2>1. r = <<"submit", "wait">> /\ shipDaemon(v) = flux_shipDaemon
    BY <1>1, <1>4 DEF runDaemon, shipDaemon, flux_startDaemon
  <2>2. CASE w.sent
    BY <1>1, <2>1, <2>2
  <2>3. CASE ~w.sent
    BY <1>1, <2>1, <2>3 DEF flux_shipDaemon, flux_shipPackage
  <2> QED BY <2>2, <2>3
<1>5. CASE v = "alps"
  <2>1. r = <<"toolHelper", "sent">> /\ shipDaemon(v) = alps_linkDaemon
    BY <1>1, <1>5 DEF runDaemon, shipDaemon, alps_startDaemon
  <2>2. CASE w.sent
    BY <1>1, <2>1, <2>2
  <2>3. CASE ~w.sent
    BY <1>1, <2>1, <2>3 DEF alps_linkDaemon
  <2> QED BY <2>2, <2>3
<1>6. CASE v = "ssh"
  <2>1. r = <<"ssh">> /\ shipDaemon(v) = ssh_shipDaemon
    BY <1>1, <1>6 DEF runDaemon, shipDaemon, ssh_startDaemon
  <2>2. CASE w.sent
    BY <1>1, <2>1, <2>2
  <2>3. CASE ~w.sent
    BY <1>1, <2>1, <2>3 DEF ssh_shipDaemon, ssh_shipPackage
  <2> QED BY <2>2, <2>3
<1>7. CASE v = "localhost"
  <2>1. r = <<"fork">> /\ shipDaemon(v) = localhost_shipDaemon
    BY <1>1, <1>7 DEF runDaemon, shipDaemon, localhost_startDaemon
  <2>2. CASE w.sent
    BY <1>1, <2>1, <2>2
  <2>3. CASE ~w.sent
    BY <1>1, <2>1, <2>3 DEF localhost_shipDaemon
  <2> QED BY <2>2, <2>3
<1> QED BY <1>2, <1>3, <1>4, <1>5, <1>6, <1>7, Zenon DEF Wlms

\* Every releaseBarrier lets go; only Flux loses a signal.
LEMMA ReleaseScripts ==
    ASSUME NEW v \in Wlms, NEW s \in releaseScripts(v)
    PROVE  Releasing(s) /\ (v # "flux" => \A k \in 1 .. Len(s) : s[k] # "loseSignal")
<1> USE DEF Releasing, Frees
<1>1. CASE v = "slurm"
  <2>1. s = slurm_releaseBarrier
    BY <1>1 DEF releaseScripts
  <2> QED BY <2>1 DEF slurm_releaseBarrier
<1>2. CASE v = "eproxy"
  <2>1. s = eproxy_releaseBarrier
    BY <1>2 DEF releaseScripts
  <2> QED BY <2>1 DEF eproxy_releaseBarrier
<1>3. CASE v = "pals"
  <2>1. s = pals_releaseBarrier
    BY <1>3 DEF releaseScripts
  <2> QED BY <2>1 DEF pals_releaseBarrier
<1>4. CASE v = "flux"
  BY <1>4 DEF releaseScripts, flux_releaseBarrier
<1>5. CASE v = "alps"
  <2>1. s = alps_releaseBarrier
    BY <1>5 DEF releaseScripts
  <2> QED BY <2>1 DEF alps_releaseBarrier
<1>6. CASE v = "ssh"
  <2>1. s = ssh_releaseBarrier
    BY <1>6 DEF releaseScripts
  <2> QED BY <2>1 DEF ssh_releaseBarrier
<1>7. CASE v = "localhost"
  <2>1. s = localhost_releaseBarrier
    BY <1>7 DEF releaseScripts
  <2> QED BY <2>1 DEF localhost_releaseBarrier
<1> QED BY <1>1, <1>2, <1>3, <1>4, <1>5, <1>6, <1>7, Zenon DEF Wlms

\* A query of a job id releases the session it has attached.
LEMMA QueryScripts ==
    ASSUME NEW v \in Wlms, NEW s \in queryScripts(v)
    PROVE  Tidy(s) /\ v # "localhost"
BY DEF queryScripts, getSrunInfo, pals_getApid, flux_getJobid, Tidy, Did, Registers, Setters

\* What an App's script sees to: the id of its own and, with PALS and ALPS, the
\* note of the barrier.
Making(v, s) ==
    /\ Len(s) \in Nat
    /\ v \in {"slurm", "pals", "ssh"} => Launching(s) /\ Did(s, Len(s), Setters)
    /\ v \in {"pals", "alps"} =>
          Stopping(s) /\ (Did(s, Len(s), Held) => Did(s, Len(s), {"atBarrier"}))
    /\ v = "localhost" => \A k \in 1 .. Len(s) : s[k] \notin Registers

\* SLURM's scripts.
LEMMA MakeSlurm ==
    ASSUME NEW s, s \in {slurm_launch, slurm_launchBarrier} \cup slurm_registerJob
    PROVE  Making("slurm", s)
<1> USE DEF Making, Launching, Tidy, Did, Registers, Setters
<1>1. CASE s = slurm_launch
  BY <1>1 DEF slurm_launch, slurm_launchApp, srunMPIR, SLURMApp, slurm_releaseBarrier
<1>2. CASE s = slurm_launchBarrier
  BY <1>2 DEF slurm_launchBarrier, slurm_launchApp, srunMPIR, SLURMApp
<1>3. CASE s \in slurm_registerJob
  <2>1. PICK t \in sattachMPIR : s = t \o <<"stage", "own">>
    BY <1>3 DEF slurm_registerJob, SLURMApp
  <2>2. CASE t = <<"sattachMPIR">>
    BY <2>1, <2>2
  <2>3. CASE t = <<"sattachMPIR", "launchTool", "endTool">>
    BY <2>1, <2>3
  <2> QED BY <2>1, <2>2, <2>3 DEF sattachMPIR
<1> QED BY <1>1, <1>2, <1>3

\* GenericSSH's scripts.
LEMMA MakeSSH ==
    ASSUME NEW s, s \in {ssh_launch, ssh_launchBarrier, ssh_registerJob, registerRemoteJob}
    PROVE  Making("ssh", s)
<1> USE DEF Making, Launching, Tidy, Did, Registers, Setters
<1>1. CASE s = ssh_launch
  BY <1>1 DEF ssh_launch, ssh_launchApp, GenericSSHApp, ssh_releaseBarrier
<1>2. CASE s = ssh_launchBarrier
  BY <1>2 DEF ssh_launchBarrier, ssh_launchApp, GenericSSHApp
<1>3. CASE s = ssh_registerJob
  BY <1>3 DEF ssh_registerJob, GenericSSHApp
<1>4. CASE s = registerRemoteJob
  BY <1>4 DEF registerRemoteJob, GenericSSHApp
<1> QED BY <1>1, <1>2, <1>3, <1>4

\* PALS's scripts.
LEMMA MakePALS ==
    ASSUME NEW s, s \in {pals_launch, pals_launchBarrier, pals_registerJob}
    PROVE  Making("pals", s)
<1> USE DEF Making, Launching, Tidy, Did, Registers, Setters, Stopping, Held, Frees
<1>1. CASE s = pals_launch
  BY <1>1 DEF pals_launch, pals_launchApp, PALSApp, pals_releaseBarrier
<1>2. CASE s = pals_launchBarrier
  BY <1>2 DEF pals_launchBarrier, pals_launchApp, PALSApp
<1>3. CASE s = pals_registerJob
  BY <1>3 DEF pals_registerJob, pals_attachApp, PALSApp
<1> QED BY <1>1, <1>2, <1>3

\* ALPS's scripts.
LEMMA MakeALPS ==
    ASSUME NEW s, s \in alps_launch \cup alps_launchBarrier \cup {alps_registerJob}
    PROVE  Making("alps", s)
<1> USE DEF Making, Did, Stopping, Held, Frees
<1>1. CASE s \in alps_launch
  <2>1. PICK t \in alps_letGo : s = (<<"startFree">> \o <<"registerAprun">> \o t) \o <<"own">>
    BY <1>1, Zenon DEF alps_launch, alps_launchApp, ALPSApp, getAprunLaunchInfo
  <2>2. CASE t = <<"eject">>
    BY <2>1, <2>2
  <2>3. CASE t = <<"eject", "util">>
    BY <2>1, <2>3
  <2> QED BY <2>1, <2>2, <2>3 DEF alps_letGo
<1>2. CASE s \in alps_launchBarrier
  <2>1. PICK t \in alps_letGo :
           s = (<<"startHeld">> \o <<"registerAprun">> \o <<"atBarrier">> \o t) \o <<"own">>
    BY <1>2, Zenon DEF alps_launchBarrier, alps_launchAppBarrier, ALPSApp, getAprunLaunchInfo
  <2>2. CASE t = <<"eject">>
    BY <2>1, <2>2
  <2>3. CASE t = <<"eject", "util">>
    BY <2>1, <2>3
  <2> QED BY <2>1, <2>2, <2>3 DEF alps_letGo
<1>3. CASE s = alps_registerJob
  BY <1>3 DEF alps_registerJob, getAprunLaunchInfo, ALPSApp
<1> QED BY <1>1, <1>2, <1>3

\* Localhost's scripts.
LEMMA MakeLocalhost ==
    ASSUME NEW s, s \in {LocalhostApp(FALSE), LocalhostApp(TRUE), localhost_registerJob}
    PROVE  Making("localhost", s)
<1> USE DEF Making, Registers
<1>1. CASE s = LocalhostApp(FALSE)
  BY <1>1 DEF LocalhostApp
<1>2. CASE s = LocalhostApp(TRUE)
  BY <1>2 DEF LocalhostApp
<1>3. CASE s = localhost_registerJob
  BY <1>3 DEF localhost_registerJob
<1> QED BY <1>1, <1>2, <1>3, Zenon

\* Eproxy's scripts.
LEMMA MakeEproxy ==
    ASSUME NEW s, s \in {eproxy_launch, eproxy_launchBarrier, eproxy_registerJob}
    PROVE  Making("eproxy", s)
BY DEF Making, eproxy_launch, eproxy_launchBarrier, eproxy_registerJob, eproxy_launchApp,
       EproxySLURMApp, eproxy_releaseBarrier

\* Flux's scripts.
LEMMA MakeFlux ==
    ASSUME NEW s, s \in {flux_launch, flux_launchBarrier, flux_registerJob}
    PROVE  Making("flux", s)
<1> USE DEF Making
<1>1. CASE s = flux_launch
  BY <1>1 DEF flux_launch, flux_launchApp, FluxApp
<1>2. CASE s = flux_launchBarrier
  BY <1>2 DEF flux_launchBarrier, flux_launchApp, FluxApp
<1>3. CASE s = flux_registerJob
  BY <1>3 DEF flux_registerJob, FluxApp
<1> QED BY <1>1, <1>2, <1>3

\* The scripts of every frontend see to what they have to.
LEMMA MakeScripts ==
    ASSUME NEW v \in Wlms, NEW b \in BOOLEAN, NEW s,
           s \in launchScripts(v, b) \cup registerScripts(v)
    PROVE  Making(v, s)
<1>1. CASE v = "slurm"
  BY <1>1, MakeSlurm DEF launchScripts, registerScripts
<1>2. CASE v = "eproxy"
  BY <1>2, MakeEproxy DEF launchScripts, registerScripts
<1>3. CASE v = "pals"
  BY <1>3, MakePALS DEF launchScripts, registerScripts
<1>4. CASE v = "flux"
  BY <1>4, MakeFlux DEF launchScripts, registerScripts
<1>5. CASE v = "alps"
  BY <1>5, MakeALPS DEF launchScripts, registerScripts
<1>6. CASE v = "ssh"
  BY <1>6, MakeSSH DEF launchScripts, registerScripts
<1>7. CASE v = "localhost"
  BY <1>7, MakeLocalhost, Zenon DEF launchScripts, registerScripts, localhost_launch,
     localhost_launchBarrier
<1> QED BY <1>1, <1>2, <1>3, <1>4, <1>5, <1>6, <1>7, Zenon DEF Wlms

-----------------------------------------------------------------------------
(* Destructors.                                                            *)

\* deregisterAppID forgets one id, and ends the job if it is on the list.
LEMMA DeregisterIs ==
    ASSUME NEW w \in Worlds, NEW i
    PROVE  LET r == deregisterAppID(w, i)
           IN /\ r \in Worlds /\ r.n = w.n /\ r.mpir = w.mpir /\ r.did = w.did /\ r.owns = w.owns
              /\ Ids(r) = Ids(w) \ {i}
              /\ r.listed = IF i \in Ids(w) THEN w.listed \ {i} ELSE w.listed
              /\ r.job = IF i \in Ids(w) /\ i \in w.listed /\ i = w.did /\ w.owns /\ w.job # "none"
                         THEN "ended" ELSE w.job
<1>1. CASE i \notin Ids(w)
  BY <1>1 DEF deregisterAppID
<1>2. CASE i \in Ids(w)
  <2> DEFINE f == [j \in Ids(w) \ {i} |-> w.pid[j]]
             g == IF i \in w.listed /\ i = w.did /\ w.owns /\ w.job # "none"
                  THEN "ended" ELSE w.job
             r == deregisterAppID(w, i)
  <2>1. f \in PidMaps /\ DOMAIN f = Ids(w) \ {i} /\ g \in Jobs
    BY WorldFields, PidMapsDrop DEF Ids, Jobs
  <2>2. r = [w EXCEPT !.pid = f, !.listed = @ \ {i}, !.job = g]
    BY <1>2 DEF deregisterAppID
  <2> HIDE DEF f, g
  <2>3. r \in Worlds
    BY <2>1, <2>2, WorldFields, Zenon DEF Worlds
  <2>4. /\ r.n = w.n /\ r.mpir = w.mpir /\ r.did = w.did /\ r.owns = w.owns
        /\ r.pid = f /\ r.listed = w.listed \ {i} /\ r.job = g
    <3> HIDE DEF r
    <3> QED BY <2>2 DEF Worlds
  <2> HIDE DEF r
  <2>5. Ids(r) = Ids(w) \ {i}
    BY <2>1, <2>4 DEF Ids
  <2> QED BY <1>2, <2>3, <2>4, <2>5 DEF g, r
<1> QED BY <1>1, <1>2

\* The frontends whose destructor gives the App's id back.
GivesBack == {"slurm", "eproxy", "flux", "ssh"}

\* The destructor of the App in w ends its job.
Ended(v, w) ==
    \/ v = "eproxy" /\ w.owns
    \/ v \in GivesBack /\ w.did \in Ids(w) /\ w.did \in w.listed /\ w.owns /\ w.job # "none"

\* What is left when an App of the frontend v goes.
Destroyed(v, w, r) ==
    /\ r \in Worlds /\ r.n = w.n /\ r.mpir = w.mpir /\ r.did = w.did /\ r.owns = w.owns
    /\ Ids(r) = IF v \in GivesBack THEN Ids(w) \ {w.did} ELSE Ids(w)
    /\ r.listed = IF v \in GivesBack /\ w.did \in Ids(w) THEN w.listed \ {w.did} ELSE w.listed
    /\ r.job = IF Ended(v, w) THEN "ended" ELSE w.job

\* Removing the staging directory changes nothing else.
LEMMA StageGone ==
    ASSUME NEW x \in Worlds, NEW r, r = [x EXCEPT !.stage = FALSE]
    PROVE  /\ r \in Worlds /\ r.n = x.n /\ r.mpir = x.mpir /\ r.did = x.did /\ r.owns = x.owns
           /\ Ids(r) = Ids(x) /\ r.listed = x.listed /\ r.job = x.job
BY Zenon DEF Worlds, Ids

\* The destructors of all frontends.
LEMMA DestroyIs ==
    ASSUME NEW v \in Wlms, NEW w \in Worlds
    PROVE  Destroyed(v, w, destroyApp(v, w))
<1> DEFINE x == deregisterAppID(w, w.did)
           y == [x EXCEPT !.stage = FALSE]
<1>1. /\ x \in Worlds /\ x.n = w.n /\ x.mpir = w.mpir /\ x.did = w.did /\ x.owns = w.owns
      /\ Ids(x) = Ids(w) \ {w.did}
      /\ x.listed = IF w.did \in Ids(w) THEN w.listed \ {w.did} ELSE w.listed
      /\ x.job = IF w.did \in Ids(w) /\ w.did \in w.listed /\ w.owns /\ w.job # "none"
                 THEN "ended" ELSE w.job
  BY DeregisterIs, Zenon
<1> HIDE DEF x
<1>2. /\ y \in Worlds /\ y.n = x.n /\ y.mpir = x.mpir /\ y.did = x.did /\ y.owns = x.owns
      /\ Ids(y) = Ids(x) /\ y.listed = x.listed /\ y.job = x.job
  BY <1>1, StageGone
<1> HIDE DEF y
<1>3. CASE v \in {"slurm", "flux", "ssh"}
  <2>1. destroyApp(v, w) = y
    BY <1>3 DEF destroyApp, slurm_destroy, flux_destroy, ssh_destroy, x, y
  <2> QED BY <1>1, <1>2, <1>3, <2>1 DEF Destroyed, Ended, GivesBack
<1>4. CASE v = "eproxy"
  <2> DEFINE z == [y EXCEPT !.rmpir = FALSE, !.job = IF w.owns THEN "ended" ELSE @]
  <2>1. destroyApp(v, w) = z
    BY <1>4 DEF destroyApp, eproxy_destroy, slurm_destroy, x, y
  <2>2. w.owns \in BOOLEAN /\ y.job \in Jobs
    BY <1>2, WorldFields
  <2>3. /\ z \in Worlds /\ z.n = y.n /\ z.mpir = y.mpir /\ z.did = y.did /\ z.owns = y.owns
        /\ z.pid = y.pid /\ z.listed = y.listed /\ z.job = IF w.owns THEN "ended" ELSE y.job
    BY <1>2, <2>2, Zenon DEF Worlds, Jobs
  <2> HIDE DEF z
  <2> QED BY <1>1, <1>2, <1>4, <2>1, <2>2, <2>3 DEF Destroyed, Ended, GivesBack, Ids
<1>5. CASE v \in {"pals", "alps"}
  BY <1>5 DEF destroyApp, pals_destroy, alps_destroy, Destroyed, Ended, GivesBack
<1>6. CASE v = "localhost"
  <2>1. destroyApp(v, w) = [w EXCEPT !.stage = FALSE, !.link = FALSE]
    BY <1>6 DEF destroyApp, localhost_destroy
  <2> QED BY <1>6, <2>1, Zenon DEF Destroyed, Ended, GivesBack, Worlds, Ids
<1> QED BY <1>3, <1>4, <1>5, <1>6 DEF Wlms

\* What is left when an exception ends the making of an App.
Unwound(v, w, r) ==
    /\ r \in Worlds /\ r.n = w.n /\ r.mpir = w.mpir
    /\ Ids(r) \subseteq Ids(w)
    /\ v = "eproxy" /\ r.owns => r.job = "ended"
    /\ v \in {"slurm", "pals", "ssh"} => r = w \/ Destroyed(v, w, r)

\* A throw while an App is made runs its destructor or only the guards.
LEMMA UnwindIs ==
    ASSUME NEW v \in Wlms, NEW w \in Worlds, NEW s, NEW k
    PROVE  Unwound(v, w, unwind(v, w, s, k))
<1> DEFINE r == unwind(v, w, s, k)
<1>1. CASE Past(s, k, "own")
  <2>1. r = destroyApp(v, w)
    BY <1>1 DEF unwind
  <2>2. Destroyed(v, w, r)
    BY <2>1, DestroyIs
  <2> HIDE DEF r
  <2>3. Unwound(v, w, r)
    BY <2>2 DEF Unwound, Destroyed, Ended
  <2> QED BY <2>3 DEF r
<1>2. CASE ~Past(s, k, "own") /\ v = "eproxy"
  <2> DEFINE x == deregisterAppID(w, RemoteId)
             y == IF Past(s, k, "base") THEN [x EXCEPT !.stage = FALSE] ELSE w
  <2>1. r = [y EXCEPT !.rmpir = FALSE, !.job = IF w.owns THEN "ended" ELSE @]
    BY <1>2 DEF unwind, eproxy_unwind
  <2>2. x \in Worlds /\ x.n = w.n /\ x.mpir = w.mpir /\ Ids(x) \subseteq Ids(w) /\ x.owns = w.owns
    <3>1. x \in Worlds /\ x.n = w.n /\ x.mpir = w.mpir /\ x.owns = w.owns
      BY DeregisterIs, Zenon
    <3>2. Ids(x) = Ids(w) \ {RemoteId}
      BY DeregisterIs, Zenon
    <3> QED BY <3>1, <3>2
  <2>3. y \in Worlds /\ y.n = w.n /\ y.mpir = w.mpir /\ Ids(y) \subseteq Ids(w) /\ y.owns = w.owns
    <3> HIDE DEF x
    <3> QED BY <2>2, StageGone
  <2> HIDE DEF x, y, r
  <2>4. w.owns \in BOOLEAN /\ y.job \in Jobs
    BY <2>3, WorldFields
  <2>5. /\ r \in Worlds /\ r.n = y.n /\ r.mpir = y.mpir /\ r.pid = y.pid /\ r.owns = y.owns
        /\ r.job = IF w.owns THEN "ended" ELSE y.job
    BY <2>1, <2>3, <2>4, Zenon DEF Worlds, Jobs
  <2>6. Unwound(v, w, r)
    BY <1>2, <2>3, <2>4, <2>5 DEF Unwound, Ids
  <2> QED BY <2>6 DEF r
<1>3. CASE ~Past(s, k, "own") /\ v = "alps" /\ w.owns /\ ~Past(s, k, "eject")
  <2>1. r = [w EXCEPT !.job = "ended"]
    BY <1>3 DEF unwind
  <2> HIDE DEF r
  <2>2. Unwound(v, w, r)
    BY <1>3, <2>1 DEF Unwound, Worlds, Jobs, Ids
  <2> QED BY <2>2 DEF r
<1>4. CASE ~Past(s, k, "own") /\ v # "eproxy" /\ ~(v = "alps" /\ w.owns /\ ~Past(s, k, "eject"))
  <2>1. r = w
    BY <1>4 DEF unwind
  <2> HIDE DEF r
  <2>2. Unwound(v, w, r)
    BY <1>4, <2>1 DEF Unwound
  <2> QED BY <2>2 DEF r
<1> QED BY <1>1, <1>2, <1>3, <1>4
=============================================================================
