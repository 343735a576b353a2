--------------------------- MODULE FeIfaceProofs ----------------------------
(***************************************************************************)
(* Proofs about the C interface: the safety invariants of FeIface hold for *)
(* every frontend and every sequence of calls, wherever exceptions stop    *)
(* them.  The inductive invariant FInv ties the Apps, their jobs and the   *)
(* FE daemon's lists to one another.                                       *)
(***************************************************************************)
EXTENDS FeIfaceParts

-----------------------------------------------------------------------------
(* The other calls of the interface.                                       *)

\* A query of a job id.
LEMMA QueryKeeps == ASSUME FInv, cti_getJobInfo PROVE FType' /\ Calls'
<1>1. FType /\ Calls /\ HType /\ wlm \in Wlms /\ dmn \in Daemons /\ rec \in AppSeqs
  BY Zenon DEF FInv, HInv, FType
<1>2. PICK s \in queryScripts(wlm) : \E k \in Ends(blank, s) :
         dmn' = dmnOf(After(blank, s, k))
         /\ dropped' = dropped \cup (Ids(After(blank, s, k)) \ daemonIds)
  BY Zenon DEF cti_getJobInfo
<1>3. PICK k \in Ends(blank, s) :
         dmn' = dmnOf(After(blank, s, k))
         /\ dropped' = dropped \cup (Ids(After(blank, s, k)) \ daemonIds)
  BY <1>2, Zenon
<1>4. Tidy(s) /\ Len(s) \in Nat
  BY <1>1, QueryScripts, Zenon DEF Tidy
<1>5. k \in 0 .. Len(s)
  BY <1>4 DEF Ends, Throws
<1>6. /\ blank \in Worlds /\ blank.n = dmn.n /\ blank.mpir = dmn.mpir
      /\ blank.listed = dmn.listed /\ Ids(blank) = daemonIds
  BY <1>1, BlankIs, Zenon
<1> DEFINE w == After(blank, s, k)
<1>7. w \in Worlds /\ Fresh(blank, w)
  BY <1>4, <1>5, <1>6, RunIs, FreshRun, Zenon
<1>8. dmn' = dmnOf(w) /\ dropped' = dropped \cup (Ids(w) \ daemonIds)
      /\ UNCHANGED <<hvars, wlm, rec, seqNum, files, up, strays, freed>> /\ up = "up"
  BY <1>3, Zenon DEF cti_getJobInfo
<1> HIDE DEF w
<1>9. dmn' \in Daemons /\ daemonIds' = Ids(w)
      /\ dmn'.n = w.n /\ dmn'.listed = w.listed /\ dmn'.mpir = w.mpir /\ dmn'.pid = w.pid
  BY <1>7, <1>8, PartsType, PartFields, Zenon DEF daemonIds
<1>10. Fresh(dmn, dmn')
  BY <1>6, <1>7, <1>9, Zenon DEF Fresh, Ids, daemonIds
<1>11. AppIds' = AppIds /\ AppSeqs' = AppSeqs /\ SessIds' = SessIds /\ mApps' = mApps
       /\ appOf' = appOf
  BY <1>8, Zenon DEF AppIds, AppSeqs, SessIds, hvars
<1>12. FType'
  BY <1>1, <1>8, <1>9, <1>11, Zenon DEF FType
<1>13. Ties'
  <2>1. ASSUME wlm \in Tying PROVE Tie(dmn', rec, strays, freed)
    BY <1>1, <1>9, <1>10, <2>1, TieKept, StraysIds, Zenon DEF Calls, Ties, SameApp
  <2> QED BY <1>1, <1>8, <1>11, <2>1, Zenon DEF Calls, Ties, Tie
<1>14. Down' /\ Barriers'
  BY <1>1, <1>8, <1>11, Zenon DEF Down, Barriers, Calls
<1>15. OwnedIds'
  BY <1>1, <1>8, <1>9, <1>11, Zenon DEF OwnedIds, Calls
<1> QED BY <1>12, <1>13, <1>14, <1>15, Zenon DEF Calls

\* Putting the parts of a world together again.
LEMMA JoinParts == ASSUME NEW w \in Worlds PROVE join(dmnOf(w), appRec(w)) = w
BY Zenon DEF Worlds, join, dmnOf, appRec

\* The parts of FType that a call on one App can disturb.
AppType == dmn \in Daemons /\ rec \in AppSeqs /\ strays \subseteq [job : Jobs, id : Nat]

\* A call that starts a daemon for the App a, or fails to.
LEMMA KeepKeeps ==
    ASSUME FInv, up = "up", NEW a \in mApps, NEW x, Kept(world(a), x),
           dmn' = dmnOf(x), rec' = [rec EXCEPT ![a] = appRec(x)],
           dropped' = dropped \cup (Ids(x) \ daemonIds),
           UNCHANGED <<lastApp, mApps, wlm, up, strays, freed>>
    PROVE  AppType' /\ Calls'
<1>1. FType /\ Calls /\ HType /\ lastApp \in Nat /\ dmn \in Daemons /\ rec \in AppSeqs
      /\ mApps \subseteq AppIds
  BY Zenon DEF FInv, HInv, HType, FType
<1>2. /\ dmnOf(x) \in Daemons /\ [rec EXCEPT ![a] = appRec(x)] \in AppSeqs /\ Fresh(dmn, dmnOf(x))
      /\ \A b \in AppIds : SameApp(rec[b], [rec EXCEPT ![a] = appRec(x)][b])
  BY <1>1, KeptParts, Zenon DEF world
<1>3. dmn' \in Daemons /\ rec' \in AppSeqs /\ Fresh(dmn, dmn') /\ daemonIds' = Ids(x)
  BY <1>2, PartFields, Zenon DEF daemonIds
<1>4. \A b \in AppIds : SameApp(rec[b], rec'[b])
  BY <1>2, Zenon
<1>5. AppIds' = AppIds /\ AppSeqs' = AppSeqs
  BY Zenon DEF AppIds, AppSeqs
<1>6. Ties'
  <2>1. ASSUME wlm \in Tying PROVE Tie(dmn', rec', strays, freed)
    BY <1>1, <1>3, <1>4, <2>1, TieKept, StraysIds, Zenon DEF Calls, Ties
  <2>2. wlm \in Tying => Tie(dmn, rec, strays, freed)'
    BY <1>5, <2>1, Zenon DEF Tie
  <2>3. ASSUME wlm = "eproxy", NEW b \in AppIds, rec'[b].owns
        PROVE b \in mApps \/ rec'[b].job = "ended"
    BY <1>1, <1>4, <2>3, Zenon DEF SameApp, Calls, Ties
  <2> QED BY <1>1, <1>5, <2>2, <2>3, Zenon DEF Calls, Ties
<1>7. Down'
  BY Zenon DEF Down
<1>8. Barriers'
  BY <1>1, <1>4, Zenon DEF Calls, Barriers, SameApp
<1>9. OwnedIds'
  <2>1. ASSUME wlm \notin {"pals", "alps"}, NEW i \in daemonIds'
        PROVE  i \in dropped' \/ (wlm # "localhost" /\ \E b \in mApps : rec'[b].did = i)
    <3>1. CASE i \in daemonIds
      BY <1>1, <1>4, <2>1, <3>1, Zenon DEF Calls, OwnedIds, SameApp
    <3>2. CASE i \notin daemonIds
      BY <1>3, <3>2, Zenon
    <3> QED BY <3>1, <3>2, Zenon
  <2> QED BY <2>1, Zenon DEF OwnedIds
<1>10. AppType'
  BY <1>1, <1>3, <1>5, Zenon DEF AppType, FType
<1> QED BY <1>6, <1>7, <1>8, <1>9, <1>10, Zenon DEF Calls

\* removeApp after App::finalize: the App a goes, in cti_appIsValid and in
\* cti_deregisterApp.
LEMMA DropKeeps ==
    ASSUME FInv, up = "up", NEW a \in mApps, NEW o \in finalizeApp(a, world(a)), dropApp(a, o),
           UNCHANGED <<wlm, seqNum, up, strays, freed>>
    PROVE  FType' /\ Calls'
<1> DEFINE x == o.w
           d == destroyApp(wlm, x)
           e == dmnOf(x)
           q == [rec EXCEPT ![a] = appRec(x)]
<1>1. FType /\ Calls /\ HType /\ wlm \in Wlms /\ lastApp \in Nat /\ dmn \in Daemons
      /\ rec \in AppSeqs
      /\ mApps \subseteq AppIds /\ a \in AppIds
  BY Zenon DEF FInv, HInv, HType, FType
<1>2. rec \in Seq(Apps) /\ Len(rec) = lastApp /\ AppIds = 1 .. Len(rec) /\ rec[a] \in Apps
  BY <1>1, AppSeqFields, Zenon
<1>3. world(a) \in Worlds
  BY <1>1, <1>2, JoinType, Zenon DEF world
<1>4. Kept(world(a), x) /\ x \in Worlds
  BY <1>1, <1>3, FinalizeAppIs DEF Finalized, Kept
<1>5. Destroyed(wlm, x, d)
  BY <1>1, <1>4, DestroyIs, Zenon
<1>6. /\ dmn' = dmnOf(d) /\ rec' = [rec EXCEPT ![a] = gone(d)]
      /\ dropped' = dropped \cup (Ids(x) \ daemonIds)
      /\ mApps' = mApps \ {a} /\ lastApp' = lastApp /\ appOf' = appOf /\ files' \subseteq files
  BY Zenon DEF dropApp, removeApp
<1> HIDE DEF d, x
<1>7. /\ e \in Daemons /\ q \in AppSeqs /\ Fresh(dmn, e) /\ \A b \in AppIds : SameApp(rec[b], q[b])
  BY <1>1, <1>4, KeptParts, Zenon DEF world
<1>8. d \in Worlds /\ gone(d) \in Apps /\ appRec(x) \in Apps /\ dmnOf(d) \in Daemons
  BY <1>4, <1>5, GoneType, PartsType, Zenon DEF Destroyed
<1>9. /\ [rec EXCEPT ![a] = gone(d)] \in Seq(Apps) /\ Len([rec EXCEPT ![a] = gone(d)]) = Len(rec)
      /\ [rec EXCEPT ![a] = gone(d)][a] = gone(d)
      /\ \A i \in 1 .. Len(rec) : i # a => [rec EXCEPT ![a] = gone(d)][i] = rec[i]
  BY <1>1, <1>2, <1>8, ExceptIs
<1>10. q[a] = appRec(x) /\ \A i \in 1 .. Len(rec) : i # a => q[i] = rec[i]
  BY <1>1, <1>2, <1>8, ExceptIs
<1> HIDE DEF q, e
<1>11. rec' \in AppSeqs /\ rec'[a] = gone(d) /\ \A b \in AppIds \ {a} : rec'[b] = rec[b]
       /\ q[b] = rec[b]
  BY <1>2, <1>6, <1>9, <1>10, Zenon DEF AppSeqs
<1>12. AppIds' = AppIds /\ AppSeqs' = AppSeqs /\ SessIds' = SessIds
  BY <1>6, Zenon DEF AppIds, AppSeqs, SessIds
<1>13. FType'
  BY <1>1, <1>6, <1>8, <1>11, <1>12, Zenon DEF FType
<1>14. rec'[a].did = d.did /\ rec'[a].job = d.job /\ rec'[a].owns = d.owns /\ daemonIds' = Ids(d)
  BY <1>6, <1>11, PartFields, Zenon DEF daemonIds
<1>15. Ties'
  <2>1. ASSUME wlm \in Tying PROVE Tie(dmn', rec', strays, freed)
    <3>1. Tie(e, q, strays, freed)
      BY <1>1, <1>7, <2>1, TieKept, StraysIds, Zenon DEF Calls, Ties
    <3>2. join(e, q[a]) = x
      BY <1>4, <1>10, JoinParts, Zenon DEF e
    <3>3. Destroyed(wlm, join(e, q[a]), d)
      BY <1>5, <3>2, Zenon
    <3>4. Tie(dmnOf(d), rec', strays, freed)
      BY <1>1, <1>7, <1>11, <1>14, <2>1, <3>1, <3>3, StraysIds, TieDestroyed, Zenon
    <3> QED BY <1>6, <3>4, Zenon
  <2>2. wlm \in Tying => Tie(dmn, rec, strays, freed)'
    BY <1>12, <2>1, Zenon DEF Tie
  <2>3. ASSUME wlm = "eproxy", NEW b \in AppIds, rec'[b].owns
        PROVE b \in mApps' \/ rec'[b].job = "ended"
    <3>1. CASE b = a
      <4>1. d.owns = x.owns /\ d.job = IF Ended(wlm, x) THEN "ended" ELSE x.job
        BY <1>5, Zenon DEF Destroyed
      <4> QED BY <1>14, <2>3, <3>1, <4>1, Zenon DEF Ended
    <3>2. CASE b # a
      BY <1>1, <1>6, <1>11, <2>3, <3>2, Zenon DEF Calls, Ties
    <3> QED BY <3>1, <3>2, Zenon
  <2> QED BY <1>1, <1>12, <2>2, <2>3, Zenon DEF Calls, Ties
<1>16. Down'
  BY Zenon DEF Down
<1>17. Barriers'
  <2>1. \A b \in mApps' : b \in mApps /\ rec'[b] = rec[b]
    BY <1>1, <1>6, <1>11, Zenon
  <2> QED BY <1>1, <2>1, Zenon DEF Calls, Barriers
<1>18. OwnedIds'
  <2>1. ASSUME wlm \notin {"pals", "alps"}, NEW i \in daemonIds'
        PROVE  i \in dropped' \/ (wlm # "localhost" /\ \E b \in mApps' : rec'[b].did = i)
    <3>1. Ids(d) = IF wlm \in GivesBack THEN Ids(x) \ {x.did} ELSE Ids(x)
      BY <1>5, Zenon DEF Destroyed
    <3>2. i \in Ids(x)
      BY <1>14, <2>1, <3>1, Zenon
    <3>3. CASE i \notin daemonIds
      BY <1>6, <3>2, <3>3, Zenon
    <3>4. CASE i \in dropped
      BY <1>6, <3>4, Zenon
    <3>5. ASSUME wlm # "localhost", NEW b \in mApps, rec[b].did = i
          PROVE  \E c \in mApps' : rec'[c].did = i
      <4>1. wlm \in GivesBack
        BY <1>1, <2>1, <3>5, Zenon DEF GivesBack, Wlms
      <4>2. x.did = rec[a].did
        BY <1>4, JoinFields DEF Kept, world
      <4>3. b # a
        BY <1>14, <2>1, <3>1, <3>5, <4>1, <4>2, Zenon
      <4>4. b \in mApps' /\ rec'[b] = rec[b]
        BY <1>1, <1>6, <1>11, <4>3, Zenon
      <4> QED BY <3>5, <4>4, Zenon
    <3> QED BY <1>1, <2>1, <3>3, <3>4, <3>5, Zenon DEF Calls, OwnedIds
  <2> QED BY <2>1, Zenon DEF OwnedIds
<1> QED BY <1>13, <1>15, <1>16, <1>17, <1>18 DEF Calls

\* cti_releaseApp: the id goes from the daemon's lists, to the released ones.
LEMMA ReleaseKeeps ==
    ASSUME FInv, NEW id \in AppIds, cti_releaseApp(id)
    PROVE  FType' /\ Calls'
<1>1. FType /\ Calls /\ lastApp \in Nat /\ dmn \in Daemons /\ rec \in AppSeqs
  BY Zenon DEF FInv, HInv, HType, FType
<1>2. /\ dmn' = releaseAppID(dmn, id) /\ freed' = freed \cup {id} /\ up = "up"
      /\ UNCHANGED <<lastApp, mApps, appOf, wlm, rec, seqNum, files, up, dropped, strays>>
  BY Zenon DEF cti_releaseApp, eraseApp
<1>3. dmn.n \in Nat /\ dmn.pid \in PidMaps /\ dmn.mpir \in SUBSET Nat /\ dmn.listed \in SUBSET Nat
  BY <1>1, Zenon DEF Daemons
<1> DEFINE p == [j \in DOMAIN dmn.pid \ {id} |-> dmn.pid[j]]
<1>4. p \in PidMaps
  BY <1>3, PidMapsDrop, Zenon
<1>5. DOMAIN p = daemonIds \ {id}
  BY Zenon DEF daemonIds
<1>6. dmn' = [dmn EXCEPT !.pid = p, !.listed = @ \ {id}]
  BY <1>2, Zenon DEF releaseAppID, Ids
<1> HIDE DEF p
<1>7. /\ dmn' \in Daemons /\ dmn'.n = dmn.n /\ dmn'.mpir = dmn.mpir
      /\ dmn'.listed = dmn.listed \ {id} /\ dmn'.pid = p
  BY <1>1, <1>4, <1>6, Zenon DEF Daemons
<1>8. daemonIds' \subseteq daemonIds
  BY <1>5, <1>7, Zenon DEF daemonIds
<1>9. AppIds' = AppIds /\ AppSeqs' = AppSeqs /\ SessIds' = SessIds
  BY <1>2, Zenon DEF AppIds, AppSeqs, SessIds
<1>10. FType'
  BY <1>1, <1>2, <1>7, <1>9, Zenon DEF FType
<1>11. ASSUME wlm \in Tying PROVE Tie(dmn', rec, strays, freed')
  <2>1. Tie(dmn, rec, strays, freed) /\ \A j \in strays : j.id \in Nat
    BY <1>1, <1>11, StraysIds, Zenon DEF Calls, Ties
  <2>2. \A a \in AppIds : Onward(rec[a], rec[a], dmn, dmn') /\ rec[a].did \in Nat
    BY <1>1, <1>7, AppSeqFields, Zenon DEF Onward
  <2>3. dmn'.n \in Nat /\ dmn.n <= dmn'.n
    BY <1>3, <1>7
  <2>4. freed \subseteq freed' /\ dmn.listed \subseteq dmn'.listed \cup freed'
    BY <1>2, <1>7, Zenon
  <2> QED BY <1>3, <2>1, <2>2, <2>3, <2>4, TieMoves
<1>12. Ties'
  <2>1. wlm \in Tying => Tie(dmn, rec, strays, freed)'
    BY <1>2, <1>9, <1>11, Zenon DEF Tie
  <2> QED BY <1>1, <1>2, <1>9, <2>1, Zenon DEF Calls, Ties
<1>13. Down' /\ Barriers'
  BY <1>1, <1>2, Zenon DEF Down, Barriers, Calls
<1>14. OwnedIds'
  BY <1>1, <1>2, <1>8, Zenon DEF OwnedIds, Calls
<1> QED BY <1>10, <1>12, <1>13, <1>14, Zenon DEF Calls

\* A call or an event that moves the job of the App a on.
LEMMA MoveKeeps ==
    ASSUME FInv, up = "up", NEW a \in AppIds, NEW x \in Apps, rec' = [rec EXCEPT ![a] = x],
           dmn' \in Daemons, dmn'.n = dmn.n, dmn'.listed = dmn.listed, daemonIds' = daemonIds,
           \A i \in Nat : i # rec[a].did => (i \in dmn'.mpir <=> i \in dmn.mpir),
           x.did = rec[a].did, x.owns = rec[a].owns,
           x.job = "none" => rec[a].job = "none", rec[a].job = "ended" => x.job = "ended",
           wlm # "flux" /\ x.job = "held" =>
               rec[a].job = "held" /\ x.at = rec[a].at /\ dmn'.mpir = dmn.mpir,
           UNCHANGED <<hvars, wlm, seqNum, files, up, dropped, strays, freed>>
    PROVE  FType' /\ Calls'
<1>1. FType /\ Calls /\ lastApp \in Nat /\ dmn \in Daemons /\ rec \in AppSeqs
      /\ mApps \subseteq AppIds
  BY Zenon DEF FInv, HInv, HType, FType
<1>2. UNCHANGED <<lastApp, mApps, appOf>>
  BY Zenon DEF hvars
<1>3. rec \in Seq(Apps) /\ Len(rec) = lastApp /\ AppIds = 1 .. Len(rec)
      /\ \A b \in AppIds : rec[b].did \in Nat
  BY <1>1, AppSeqFields, Zenon
<1>4. /\ rec' \in Seq(Apps) /\ Len(rec') = Len(rec) /\ rec'[a] = x
      /\ \A i \in 1 .. Len(rec) : i # a => rec'[i] = rec[i]
  BY <1>3, ExceptIs
<1>5. rec' \in AppSeqs /\ \A b \in AppIds : b # a => rec'[b] = rec[b]
  BY <1>3, <1>4, Zenon DEF AppSeqs
<1>6. AppIds' = AppIds /\ AppSeqs' = AppSeqs /\ SessIds' = SessIds
  BY <1>2, Zenon DEF AppIds, AppSeqs, SessIds
<1>7. FType'
  BY <1>1, <1>2, <1>5, <1>6, Zenon DEF FType
<1>8. \A b \in AppIds : /\ rec'[b].did = rec[b].did /\ rec'[b].owns = rec[b].owns
                        /\ rec[b].job = "ended" => rec'[b].job = "ended"
  BY <1>4, <1>5, Zenon
<1>9. ASSUME wlm \in Tying PROVE Tie(dmn', rec', strays, freed)
  <2>1. Tie(dmn, rec, strays, freed) /\ (\A j \in strays : j.id \in Nat) /\ wlm # "flux"
    BY <1>1, <1>9, StraysIds DEF Calls, Ties, Tying
  <2>2. ASSUME NEW b \in AppIds PROVE Onward(rec[b], rec'[b], dmn, dmn')
    <3>1. CASE b = a
      BY <1>4, <2>1, <3>1 DEF Onward
    <3>2. CASE b # a
      <4>1. rec[b].did # rec[a].did /\ rec[b].did \in Nat
        BY <1>3, <2>1, <3>2, Zenon DEF Tie
      <4>2. rec[b].did \in dmn'.mpir <=> rec[b].did \in dmn.mpir
        BY <4>1, Zenon
      <4> QED BY <1>5, <3>2, <4>2 DEF Onward
    <3> QED BY <3>1, <3>2, Zenon
  <2>3. dmn.n \in Nat /\ dmn'.n \in Nat /\ dmn.n <= dmn'.n
    BY <1>1 DEF Daemons
  <2> QED BY <1>3, <2>1, <2>2, <2>3, TieMoves, Zenon
<1>10. Ties'
  <2>1. wlm \in Tying => Tie(dmn, rec, strays, freed)'
    BY <1>6, <1>9, Zenon DEF Tie
  <2>2. ASSUME wlm = "eproxy", NEW b \in AppIds, rec'[b].owns
        PROVE b \in mApps' \/ rec'[b].job = "ended"
    BY <1>1, <1>2, <1>8, <2>2, Zenon DEF Calls, Ties
  <2> QED BY <1>1, <1>6, <2>1, <2>2, Zenon DEF Calls, Ties
<1>11. Down'
  BY Zenon DEF Down
<1>12. Barriers'
  <2>1. ASSUME wlm \in {"pals", "alps"}, NEW b \in mApps, rec'[b].job = "held" PROVE rec'[b].at
    <3>1. CASE b = a
      BY <1>1, <1>4, <2>1, <3>1 DEF Calls, Barriers
    <3>2. CASE b # a
      BY <1>1, <1>5, <2>1, <3>2, Zenon DEF Calls, Barriers
    <3> QED BY <3>1, <3>2, Zenon
  <2> QED BY <1>2, <2>1, Zenon DEF Barriers
<1>13. OwnedIds'
  <2>1. \A b \in mApps : rec'[b].did = rec[b].did
    BY <1>1, <1>8, Zenon
  <2>2. ASSUME wlm \notin {"pals", "alps"}, NEW i \in daemonIds
        PROVE  i \in dropped \/ (wlm # "localhost" /\ \E b \in mApps : rec'[b].did = i)
    BY <1>1, <2>1, <2>2 DEF Calls, OwnedIds
  <2> QED BY <1>2, <2>2, Zenon DEF OwnedIds
<1> QED BY <1>7, <1>10, <1>11, <1>12, <1>13 DEF Calls

\* Releasing a job from its startup barrier, whether that succeeds or not.
LEMMA BarrierKeeps ==
    ASSUME FInv, NEW a \in AppIds, cti_releaseAppBarrier(a)
    PROVE  FType' /\ Calls'
<1>1. FType /\ wlm \in Wlms /\ dmn \in Daemons /\ rec \in AppSeqs /\ rec[a] \in Apps
      /\ rec[a].did \in Nat
  BY AppSeqFields, Zenon DEF FInv, FType
<1>2. world(a) \in Worlds
  BY <1>1, JoinType, Zenon DEF world
<1>3. /\ up = "up"
      /\ \E s \in releaseScripts(wlm) : \E k \in Ends(world(a), s) :
             dmn' = dmnOf(After(world(a), s, k))
             /\ rec' = [rec EXCEPT ![a] = appRec(After(world(a), s, k))]
      /\ UNCHANGED <<hvars, wlm, seqNum, files, up, dropped, strays, freed>>
  BY Zenon DEF cti_releaseAppBarrier
<1>4. PICK s \in releaseScripts(wlm) : \E k \in Ends(world(a), s) :
             dmn' = dmnOf(After(world(a), s, k))
             /\ rec' = [rec EXCEPT ![a] = appRec(After(world(a), s, k))]
  BY <1>3, Zenon
<1>5. PICK k \in Ends(world(a), s) :
             dmn' = dmnOf(After(world(a), s, k))
             /\ rec' = [rec EXCEPT ![a] = appRec(After(world(a), s, k))]
  BY <1>4, Zenon
<1>6. Releasing(s) /\ Len(s) \in Nat /\ (wlm # "flux" => \A i \in 1 .. Len(s) : s[i] # "loseSignal")
  BY <1>1, ReleaseScripts DEF Releasing
<1>7. k \in 0 .. Len(s)
  BY <1>6 DEF Ends, Throws
<1> DEFINE w == world(a)
           x == After(w, s, k)
<1>8. x \in Worlds
  BY <1>2, <1>6, <1>7, RunIs, Zenon
<1>9. /\ x.n = w.n /\ Ids(x) = Ids(w) /\ x.listed = w.listed /\ x.did = w.did /\ x.owns = w.owns
      /\ x.job = w.job \/ x.job = letGo(w.job)
      /\ \A i \in Nat : i # w.did => (i \in x.mpir <=> i \in w.mpir)
      /\ x.job = "held" /\ ~Did(s, k, {"loseSignal"}) => x.mpir = w.mpir /\ x.at = w.at
  BY <1>2, <1>6, <1>7, ReleaseRun
<1>10. wlm # "flux" => ~Did(s, k, {"loseSignal"})
  BY <1>6, <1>7 DEF Did
<1>11. /\ w.n = dmn.n /\ w.mpir = dmn.mpir /\ w.listed = dmn.listed /\ Ids(w) = daemonIds
       /\ w.did = rec[a].did /\ w.at = rec[a].at /\ w.job = rec[a].job /\ w.owns = rec[a].owns
  BY JoinFields DEF world, daemonIds
<1>12. dmn' = dmnOf(x) /\ rec' = [rec EXCEPT ![a] = appRec(x)]
  BY <1>5, Zenon
<1> HIDE DEF x, w
<1>13. /\ dmn' \in Daemons /\ dmn'.n = x.n /\ dmn'.listed = x.listed /\ dmn'.mpir = x.mpir
       /\ daemonIds' = Ids(x) /\ appRec(x) \in Apps
       /\ appRec(x).did = x.did /\ appRec(x).owns = x.owns /\ appRec(x).at = x.at /\ appRec(x).job = x.job
  BY <1>8, <1>12, PartsType, PartFields, Zenon DEF daemonIds
<1>14. /\ x.job = "none" => w.job = "none"
       /\ w.job = "ended" => x.job = "ended"
       /\ x.job = "held" => w.job = "held"
  BY <1>9, Zenon DEF letGo
<1> QED BY <1>3, <1>9, <1>10, <1>11, <1>12, <1>13, <1>14, MoveKeeps, Zenon

\* A job that ends, by a signal or by itself.
LEMMA EndKeeps ==
    ASSUME FInv, NEW a \in AppIds, cti_killApp(a) \/ jobEnds(a)
    PROVE  FType' /\ Calls'
<1>1. FType /\ dmn \in Daemons /\ rec \in AppSeqs /\ rec[a] \in Apps /\ rec \in Seq(Apps)
      /\ AppIds = 1 .. Len(rec)
  BY AppSeqFields, Zenon DEF FInv, FType
<1>2. /\ up = "up" /\ rec' = [rec EXCEPT ![a].job = "ended"]
      /\ UNCHANGED <<hvars, dmn, wlm, seqNum, files, up, dropped, strays, freed>>
  BY Zenon DEF cti_killApp, jobEnds
<1> DEFINE x == [rec[a] EXCEPT !.job = "ended"]
<1>3. /\ x \in Apps /\ x.job = "ended" /\ x.did = rec[a].did /\ x.owns = rec[a].owns
  BY <1>1, Zenon DEF Apps, Jobs
<1>4. rec' = [rec EXCEPT ![a] = x]
  BY <1>1, <1>2, Zenon
<1>5. daemonIds' = daemonIds
  BY <1>2, Zenon DEF daemonIds
<1> HIDE DEF x
<1> QED BY <1>1, <1>2, <1>3, <1>4, <1>5, MoveKeeps, Zenon

\* The calls that leave the frontends alone, and cti_createSession.
LEMMA HandlesKeep ==
    ASSUME FInv, up = "up", up' = "up", FType', UNCHANGED <<lastApp, mApps, wlm, dmn, rec,
           dropped, strays, freed>>
    PROVE  Calls'
<1>1. AppIds' = AppIds /\ daemonIds' = daemonIds
  BY Zenon DEF AppIds, daemonIds
<1>2. Ties'
  <2>1. wlm \in Tying => Tie(dmn, rec, strays, freed)'
    BY <1>1, Zenon DEF FInv, Calls, Ties, Tie
  <2> QED BY <1>1, <2>1, Zenon DEF FInv, Calls, Ties
<1>3. Down' /\ Barriers' /\ OwnedIds'
  BY <1>1, Zenon DEF FInv, Calls, Down, Barriers, OwnedIds
<1> QED BY <1>2, <1>3, Zenon DEF Calls

\* The calls that change nothing but the registries.
LEMMA LookupKeeps ==
    ASSUME FInv, up = "up", UNCHANGED fvars, UNCHANGED <<lastApp, mApps, appOf>>
    PROVE  FType' /\ Calls'
<1>1. UNCHANGED <<wlm, dmn, rec, seqNum, files, up, dropped, strays, freed>>
  BY Zenon DEF fvars
<1>2. AppSeqs' = AppSeqs /\ SessIds' = SessIds
  BY Zenon DEF AppSeqs, SessIds
<1>3. FType'
  BY <1>1, <1>2, Zenon DEF FInv, FType
<1> QED BY <1>1, <1>3, HandlesKeep, Zenon

\* cti_createSession.
LEMMA CreateKeeps ==
    ASSUME FInv, NEW a \in AppIds, cti_createSession(a)
    PROVE  FType' /\ Calls'
<1>1. FType /\ appOf \in Seq(Nat) /\ a \in Nat /\ up = "up" /\ up' = "up"
  BY DEF FInv, HInv, HType, AppIds, cti_createSession
<1>2. /\ appOf' = Append(appOf, a) /\ seqNum' = Append(seqNum, 0)
      /\ UNCHANGED <<lastApp, mApps, wlm, dmn, rec, files, dropped, strays, freed>>
  BY Zenon DEF cti_createSession, createSession
<1>3. seqNum \in Seq(Nat) /\ Len(seqNum) = Len(appOf)
  BY <1>1, Zenon DEF FType
<1>4. Len(appOf') = Len(appOf) + 1 /\ Len(seqNum') = Len(seqNum) + 1 /\ seqNum' \in Seq(Nat)
      /\ Len(appOf) \in Nat
  BY <1>1, <1>2, <1>3, AppendIs
<1>5. SessIds \subseteq SessIds' /\ AppSeqs' = AppSeqs
  BY <1>2, <1>4 DEF SessIds, AppSeqs
<1>6. FType'
  BY <1>1, <1>2, <1>3, <1>4, <1>5, Zenon DEF FType
<1> QED BY <1>1, <1>2, <1>6, HandlesKeep, Zenon

\* A session that is valid belongs to an App that lives.
LEMMA SessionApp ==
    ASSUME FInv, NEW s, SessAlive(s)
    PROVE  s \in SessIds /\ s \in Nat /\ appOf[s] \in mApps /\ world(appOf[s]) \in Worlds
<1>1. s \in SessIds /\ appOf[s] \in mApps /\ appOf[s] \in AppIds
  BY Zenon DEF FInv, HInv, HType, SessAlive
<1>2. rec[appOf[s]] \in Apps /\ dmn \in Daemons
  BY <1>1, AppSeqFields, Zenon DEF FInv, FType
<1> QED BY <1>1, <1>2, JoinType DEF SessIds, world

\* What the cleanup of one session leaves.
LEMMA OneSession ==
    ASSUME FInv, NEW s, SessAlive(s), NEW o,
           o \in finalizeSession({[w |-> world(appOf[s]), cleaned |-> {}, thrown |-> FALSE]}, s)
    PROVE  /\ Kept(world(appOf[s]), o.w) /\ o \in Outcomes
           /\ seqNum[s] = 0 \/ s \in o.cleaned \/ o.thrown
<1> DEFINE first == [w |-> world(appOf[s]), cleaned |-> {}, thrown |-> FALSE]
<1>1. first \in Outcomes /\ s \in Nat /\ wlm \in Wlms
  BY SessionApp, Zenon DEF Outcomes, FInv, FType
<1>2. first.w = world(appOf[s]) /\ ~first.thrown
  OBVIOUS
<1> HIDE DEF first
<1>3. o \in finalizeSession({first}, s)
  BY Zenon DEF first
<1>4. \E p \in {first} : SessionDone(p, o, s)
  BY <1>1, <1>3, FinalizeSessionIs
<1>5. SessionDone(first, o, s)
  BY <1>4, Zenon
<1> QED BY <1>2, <1>5, Zenon DEF SessionDone

\* cti_destroySession, whether its cleanup throws or not.
LEMMA DestroySessionKeeps ==
    ASSUME FInv, NEW s \in SessIds, cti_destroySession(s)
    PROVE  FType' /\ Calls'
<1>1. up = "up" /\ SessAlive(s) /\ UNCHANGED <<wlm, seqNum, up, strays, freed>>
  BY Zenon DEF cti_destroySession, validSession
<1>2. PICK o \in finalizeSession({[w |-> world(appOf[s]), cleaned |-> {}, thrown |-> FALSE]}, s) :
         /\ dmn' = dmnOf(o.w) /\ rec' = [rec EXCEPT ![appOf[s]] = appRec(o.w)]
         /\ files' = files \ o.cleaned
         /\ dropped' = dropped \cup (Ids(o.w) \ daemonIds)
         /\ IF o.thrown THEN UNCHANGED hvars ELSE removeSession(s)
  BY Zenon DEF cti_destroySession
<1>3. UNCHANGED <<lastApp, mApps, appOf>>
  BY <1>2, Zenon DEF hvars, removeSession
<1>4. Kept(world(appOf[s]), o.w) /\ appOf[s] \in mApps
  BY <1>1, OneSession, SessionApp
<1>5. AppType' /\ Calls'
  BY <1>1, <1>2, <1>3, <1>4, KeepKeeps, Zenon
<1>6. SessIds' = SessIds
  BY <1>3, Zenon DEF SessIds
<1> QED BY <1>1, <1>2, <1>3, <1>5, <1>6 DEF FInv, FType, AppType

\* cti_sendManifest and cti_execManifest, whether the daemon starts or not.
LEMMA SendManifestKeeps ==
    ASSUME FInv, NEW m \in ManIds, cti_sendManifest(m)
    PROVE  FType' /\ Calls'
<1> DEFINE s == sessOf[m]
           a == appOf[s]
<1>1. up = "up" /\ SessAlive(s) /\ files' = files \cup {s} /\ UNCHANGED <<wlm, up, strays, freed>>
  BY Zenon DEF cti_sendManifest, validManifest, ManAlive
<1>2. UNCHANGED <<lastApp, mApps, appOf>>
      /\ (seqNum' = seqNum \/ seqNum' = [seqNum EXCEPT ![s] = @ + 1])
  BY Zenon DEF cti_sendManifest, removeManifest
<1>3. PICK w \in started(world(a)) \cup notStarted(world(a)) :
         /\ dmn' = dmnOf(w) /\ rec' = [rec EXCEPT ![a] = appRec(w)]
         /\ dropped' = dropped \cup (Ids(w) \ daemonIds)
  BY Zenon DEF cti_sendManifest
<1>4. s \in SessIds /\ a \in mApps /\ world(a) \in Worlds /\ wlm \in Wlms
  BY <1>1, SessionApp, Zenon DEF FInv, FType
<1> HIDE DEF a
<1>5. Kept(world(a), w)
  BY <1>4, StartedKept, Zenon
<1>6. AppType' /\ Calls'
  BY <1>1, <1>2, <1>3, <1>4, <1>5, KeepKeeps, Zenon
<1>7. SessIds' = SessIds
  BY <1>2, Zenon DEF SessIds
<1> HIDE DEF s
<1>8. seqNum' \in Seq(Nat) /\ Len(seqNum') = Len(appOf)
  <2>1. seqNum \in Seq(Nat) /\ Len(seqNum) = Len(appOf) /\ s \in 1 .. Len(seqNum)
    BY <1>4, Zenon DEF FInv, FType, SessIds
  <2>2. CASE seqNum' = seqNum
    BY <2>1, <2>2, Zenon
  <2>3. CASE seqNum' = [seqNum EXCEPT ![s] = @ + 1]
    BY <2>1, <2>3
  <2> QED BY <1>2, <2>2, <2>3, Zenon
<1> QED BY <1>1, <1>2, <1>4, <1>6, <1>7, <1>8 DEF FInv, FType, AppType

\* What Frontend::destroy leaves when it finalizes the Apps in an order with the
\* outcome x.
Left(order, x) ==
    LET y == endApps(order, x)[Len(order)]
        killed == y.d.listed
    IN /\ dmn' = [y.d EXCEPT !.listed = {}]
       /\ rec' = [a \in AppIds |->
                    IF y.r[a].did \in killed /\ y.r[a].owns
                    THEN [y.r[a] EXCEPT !.job = "ended"] ELSE y.r[a]]
       /\ strays' = {j \in strays : j.id \notin killed}
       /\ files' = files \ y.cleaned
       /\ notCleaned' = notCleaned \cup y.missed
       /\ dropped' = dropped \cup (DOMAIN y.d.pid \ daemonIds)

\* Frontend::destroy ties up what is left.
LEMMA DestroyKeeps == ASSUME FInv, destroy PROVE FType' /\ Calls'
<1>1. FType /\ Calls /\ HType /\ wlm \in Wlms /\ lastApp \in Nat /\ dmn \in Daemons
      /\ rec \in AppSeqs
      /\ mApps \subseteq AppIds /\ \A j \in strays : j.id \in Nat
  BY StraysIds, Zenon DEF FInv, HInv, HType, FType
<1>2. up' = "down" /\ mApps' = {} /\ UNCHANGED <<lastApp, appOf, wlm, seqNum, freed>>
  BY Zenon DEF destroy, destroyAll
<1>3a. PICK order \in Orders(mApps, lastApp) : \E x \in exitApps(order)[Len(order)] : Left(order, x)
  BY Zenon DEF destroy, Left
<1>3. PICK x \in exitApps(order)[Len(order)] : Left(order, x)
  BY <1>3a, Zenon
<1> DEFINE y == endApps(order, x)[Len(order)]
           killed == y.d.listed
<1>4. /\ x \in Exits /\ Fresh(dmn, x.d) /\ \A b \in AppIds : SameApp(rec[b], x.r[b])
  BY <1>1, ExitAppsIs, Zenon
<1>5. /\ y \in Exits
      /\ DOMAIN y.d.pid \subseteq DOMAIN x.d.pid
      /\ wlm \in GivesBack => \A a \in mApps : x.r[a].did \notin DOMAIN y.d.pid
      /\ \A b \in AppIds : /\ y.r[b].did = x.r[b].did /\ y.r[b].owns = x.r[b].owns
                           /\ x.r[b].job = "ended" => y.r[b].job = "ended"
      /\ wlm = "eproxy" => \A a \in mApps : x.r[a].owns => y.r[a].job = "ended"
      /\ wlm \in Tying /\ Tie(x.d, x.r, strays, freed) => Tie(y.d, y.r, strays, freed)
  <2>1. AllEnded(x, y)
    BY <1>1, <1>4, EndAppsIs, Zenon
  <2> HIDE DEF y
  <2> QED BY <2>1, Zenon DEF AllEnded
<1>6. /\ dmn' = [y.d EXCEPT !.listed = {}]
      /\ rec' = [a \in AppIds |-> IF y.r[a].did \in killed /\ y.r[a].owns
                                  THEN [y.r[a] EXCEPT !.job = "ended"] ELSE y.r[a]]
      /\ strays' = {j \in strays : j.id \notin killed}
      /\ files' = files \ y.cleaned
      /\ dropped' = dropped \cup (DOMAIN y.d.pid \ daemonIds)
  BY <1>3, Zenon DEF Left
<1> HIDE DEF y
<1>7. y.d \in Daemons /\ y.r \in AppSeqs /\ x.d \in Daemons /\ x.r \in AppSeqs
  BY <1>4, <1>5, Zenon DEF Exits
<1>8. \A a \in AppIds : y.r[a] \in Apps /\ y.r[a].did \in Nat
  BY <1>7, AppSeqFields, Zenon
<1>9. /\ dmn' \in Daemons /\ dmn'.n = y.d.n /\ dmn'.mpir = y.d.mpir /\ dmn'.listed = {}
      /\ daemonIds' = DOMAIN y.d.pid
  BY <1>6, <1>7, Zenon DEF Daemons, daemonIds
<1> HIDE DEF killed
<1>10. ASSUME NEW a \in AppIds
       PROVE  /\ rec'[a] \in Apps /\ rec'[a].did = y.r[a].did /\ rec'[a].owns = y.r[a].owns
              /\ rec'[a].job = "ended" \/ rec'[a].job = y.r[a].job
              /\ y.r[a].did \in killed /\ y.r[a].owns => rec'[a].job = "ended"
  <2>1. y.r[a] \in Apps
    BY <1>8, Zenon
  <2>2. rec'[a] = IF y.r[a].did \in killed /\ y.r[a].owns
                  THEN [y.r[a] EXCEPT !.job = "ended"] ELSE y.r[a]
    BY <1>6, Zenon
  <2> QED BY <2>1, <2>2 DEF Apps, Jobs
<1>11. rec' \in AppSeqs /\ AppIds' = AppIds /\ AppSeqs' = AppSeqs /\ SessIds' = SessIds
  <2>1. rec' \in [1 .. lastApp -> Apps]
    <3>1. DOMAIN rec' = AppIds /\ rec' = [a \in AppIds |-> rec'[a]]
      BY <1>6, Zenon
    <3>2. \A a \in AppIds : rec'[a] \in Apps
      BY <1>10, Zenon
    <3> QED BY <3>1, <3>2, Zenon DEF AppIds
  <2>2. rec' \in Seq(Apps) /\ Len(rec') = lastApp
    BY <1>1, <2>1, FunctionSeq, Zenon
  <2> QED BY <1>2, <2>2, Zenon DEF AppSeqs, AppIds, SessIds
<1>12. FType'
  BY <1>1, <1>2, <1>6, <1>9, <1>11 DEF FType
<1>13. ASSUME wlm \in Tying PROVE Tie(dmn', rec', strays', freed)
  <2>1. Tie(x.d, x.r, strays, freed)
    BY <1>1, <1>4, <1>7, <1>13, TieKept DEF Calls, Ties
  <2>2. Tie(y.d, y.r, strays, freed)
    BY <1>5, <1>13, <2>1
  <2>3. \A a \in AppIds : 0 < rec'[a].did /\ rec'[a].did <= dmn'.n
    BY <1>9, <1>10, <2>2, Zenon DEF Tie
  <2>4. \A a, b \in AppIds : a # b => rec'[a].did # rec'[b].did
    <3>1. \A a, b \in AppIds : a # b => y.r[a].did # y.r[b].did
      BY <2>2, Zenon DEF Tie
    <3>2. \A a \in AppIds : rec'[a].did = y.r[a].did
      BY <1>10, Zenon
    <3> QED BY <3>1, <3>2, Zenon
  <2>5. \A j \in strays' : j \in strays /\ j.id \notin killed
    BY <1>6, Zenon
  <2>6. \A j \in strays' : 0 < j.id /\ j.id <= dmn'.n /\ \A a \in AppIds : rec'[a].did # j.id
    <3>1. \A j \in strays : /\ 0 < j.id /\ j.id <= y.d.n
                            /\ \A a \in AppIds : y.r[a].did # j.id
      BY <2>2, Zenon DEF Tie
    <3>2. \A a \in AppIds : rec'[a].did = y.r[a].did
      BY <1>10, Zenon
    <3> QED BY <1>9, <2>5, <3>1, <3>2, Zenon
  <2>7. ASSUME NEW a \in AppIds, rec'[a].owns
        PROVE  rec'[a].job # "none"
        /\ (rec'[a].job = "ended" \/ rec'[a].did \in dmn'.listed \cup freed)
    <3>1. y.r[a].owns /\ y.r[a].job # "none"
          /\ (y.r[a].job = "ended" \/ y.r[a].did \in y.d.listed \cup freed)
      BY <1>10, <2>2, <2>7, Zenon DEF Tie
    <3> QED BY <1>10, <3>1, Zenon DEF killed
  <2>8. \A j \in strays' : j.id \in dmn'.listed \cup freed
    <3>1. \A j \in strays : j.id \in y.d.listed \cup freed
      BY <2>2, Zenon DEF Tie
    <3> QED BY <2>5, <3>1, Zenon DEF killed
  <2>9. ASSUME NEW a \in AppIds, rec'[a].job = "held" PROVE rec'[a].did \in dmn'.mpir
    <3>1. y.r[a].job = "held"
      BY <1>10, <2>9, Zenon
    <3> QED BY <1>9, <1>10, <2>2, <3>1, Zenon DEF Tie
  <2> QED BY <2>3, <2>4, <2>6, <2>7, <2>8, <2>9, Zenon DEF Tie
<1>14. Ties'
  <2>1. wlm \in Tying => Tie(dmn, rec, strays, freed)'
    BY <1>2, <1>11, <1>13, Zenon DEF Tie
  <2>2. ASSUME wlm = "eproxy" PROVE strays' = {}
    BY <1>1, <1>6, <2>2, Zenon DEF Calls, Ties
  <2>3. ASSUME wlm = "eproxy", NEW a \in AppIds, rec'[a].owns PROVE rec'[a].job = "ended"
    <3>1. y.r[a].owns /\ x.r[a].owns /\ SameApp(rec[a], x.r[a])
      BY <1>4, <1>5, <1>10, <2>3, Zenon
    <3>2. a \in mApps \/ rec[a].job = "ended"
      BY <1>1, <2>3, <3>1, Zenon DEF Calls, Ties, SameApp
    <3>3. y.r[a].job = "ended"
      BY <1>5, <2>3, <3>1, <3>2, Zenon DEF SameApp
    <3> QED BY <1>10, <3>3, Zenon
  <2> QED BY <1>2, <1>11, <2>1, <2>2, <2>3, Zenon DEF Ties
<1>15. Down' /\ Barriers'
  BY <1>2, <1>9, Zenon DEF Down, Barriers
<1>16. OwnedIds'
  <2>1. ASSUME wlm \notin {"pals", "alps"}, NEW i \in daemonIds' PROVE i \in dropped'
    <3>1. CASE i \notin daemonIds \/ i \in dropped
      BY <1>6, <1>9, <2>1, <3>1
    <3>2. ASSUME wlm # "localhost", NEW a \in mApps, rec[a].did = i PROVE FALSE
      <4>1. wlm \in GivesBack
        BY <1>1, <2>1, <3>2, Zenon DEF GivesBack, Wlms
      <4>2. x.r[a].did = i
        BY <1>1, <1>4, <3>2, Zenon DEF SameApp
      <4> QED BY <1>5, <1>9, <2>1, <3>2, <4>1, <4>2, Zenon
    <3> QED BY <1>1, <2>1, <3>1, <3>2, Zenon DEF Calls, OwnedIds
  <2> QED BY <1>2, <2>1, Zenon DEF OwnedIds
<1> QED BY <1>12, <1>14, <1>15, <1>16 DEF Calls

\* Every call keeps the invariant.
LEMMA FInvNext == FInv /\ [Next]_vars => FInv'
<1> SUFFICES ASSUME FInv, [Next]_vars PROVE FInv'
  OBVIOUS
<1>1. HInv'
  BY CallSteps, HInvNext, Zenon DEF FInv
<1>2. ASSUME NEW s, Making(wlm, s), NEW kept \in BOOLEAN, kept \/ wlm = "eproxy", tryApp(s, kept)
      PROVE  FType' /\ Calls'
  <2>1. up = "up" /\ UNCHANGED <<wlm, seqNum, files, up, freed>>
        /\ (makeApp(s, kept) \/ \E k \in Throws(blank, s) : failApp(s, k))
    BY <1>2, Zenon DEF tryApp
  <2>2. CASE makeApp(s, kept)
    BY <1>2, <2>1, <2>2, MakeKeeps, Zenon
  <2>3. CASE \E k \in Throws(blank, s) : failApp(s, k)
    BY <1>2, <2>1, <2>3, FailKeeps, Zenon
  <2> QED BY <2>1, <2>2, <2>3, Zenon
<1>3. wlm \in Wlms
  BY Zenon DEF FInv, FType
<1>4. ASSUME cti_launchApp PROVE FType' /\ Calls'
  <2>1. PICK s \in launchScripts(wlm, FALSE) : tryApp(s, keepsApp(wlm, FALSE))
    BY <1>4, Zenon DEF cti_launchApp
  <2>2. Making(wlm, s)
    BY <1>3, MakeScripts, Zenon
  <2>3. CASE wlm = "eproxy"
    <3>1. tryApp(s, FALSE)
      BY <2>1, <2>3, Zenon DEF keepsApp
    <3> QED BY <1>2, <2>2, <2>3, <3>1, Zenon
  <2>4. CASE wlm # "eproxy"
    <3>1. tryApp(s, TRUE)
      BY <2>1, <2>4, Zenon DEF keepsApp
    <3> QED BY <1>2, <2>2, <3>1, Zenon
  <2> QED BY <2>3, <2>4, Zenon
<1>5. ASSUME cti_launchAppBarrier PROVE FType' /\ Calls'
  <2>1. PICK s \in launchScripts(wlm, TRUE) : tryApp(s, TRUE)
    BY <1>5, Zenon DEF cti_launchAppBarrier, keepsApp
  <2>2. Making(wlm, s)
    BY <1>3, MakeScripts, Zenon
  <2> QED BY <1>2, <2>1, <2>2, Zenon
<1>6. ASSUME cti_registerApp PROVE FType' /\ Calls'
  <2>1. PICK s \in registerScripts(wlm) : tryApp(s, TRUE)
    BY <1>6, Zenon DEF cti_registerApp
  <2>2. Making(wlm, s)
    BY <1>3, MakeScripts, Zenon
  <2> QED BY <1>2, <2>1, <2>2, Zenon
<1>7. ASSUME NEW a \in AppIds, missApp(a) PROVE FType' /\ Calls'
  BY <1>7, LookupKeeps, Zenon DEF missApp, sweepApp
<1>8. ASSUME NEW a \in AppIds, cti_appIsValid(a) \/ cti_deregisterApp(a) PROVE FType' /\ Calls'
  <2>1. /\ up = "up" /\ a \in mApps /\ UNCHANGED <<wlm, seqNum, up, strays, freed>>
        /\ \E o \in finalizeApp(a, world(a)) : dropApp(a, o)
    BY <1>8, Zenon DEF cti_appIsValid, cti_deregisterApp, validApp
  <2> QED BY <2>1, DropKeeps, Zenon
<1>9. ASSUME NEW s \in SessIds, missSession(s) \/ cti_createManifest(s) PROVE FType' /\ Calls'
  BY <1>9, LookupKeeps, Zenon DEF missSession, sweepSession, cti_createManifest, createManifest
<1>10. ASSUME NEW m \in ManIds, missManifest(m) \/ sendEmpty(m) \/ sendFails(m)
       PROVE  FType' /\ Calls'
  BY <1>10, LookupKeeps, Zenon DEF missManifest, sweepManifest, sendEmpty, sendFails, removeManifest
<1>11. CASE UNCHANGED vars
  <2>1. UNCHANGED <<lastApp, mApps, appOf, wlm, dmn, rec, seqNum, files, up, dropped, strays,
                    freed>>
    BY <1>11, Zenon DEF vars, hvars, fvars
  <2>2. AppIds' = AppIds /\ AppSeqs' = AppSeqs /\ SessIds' = SessIds /\ daemonIds' = daemonIds
    BY <2>1, Zenon DEF AppIds, AppSeqs, SessIds, daemonIds
  <2>3. FType'
    BY <2>1, <2>2, Zenon DEF FInv, FType
  <2>4. Ties'
    BY <2>1, <2>2, Zenon DEF FInv, Calls, Ties, Tie
  <2>5. Down' /\ Barriers' /\ OwnedIds'
    BY <2>1, <2>2, Zenon DEF FInv, Calls, Down, Barriers, OwnedIds
  <2> QED BY <1>1, <2>3, <2>4, <2>5, Zenon DEF FInv, Calls
<1>12. CASE Next
  <2>1. FType' /\ Calls'
    BY <1>4, <1>5, <1>6, <1>7, <1>8, <1>9, <1>10, <1>12, QueryKeeps, ReleaseKeeps, BarrierKeeps,
       EndKeeps,
       CreateKeeps, DestroySessionKeeps, SendManifestKeeps, DestroyKeeps, Zenon DEF Next
  <2> QED BY <1>1, <2>1, Zenon DEF FInv
<1> QED BY <1>11, <1>12, Zenon

\* The invariant holds of every behaviour.
LEMMA FInvAlways == Spec => []FInv
<1>1. Init => FInv
  BY HInvInit, CallsInit, Zenon DEF Init, FInv
<1> QED BY <1>1, FInvNext, PTL DEF Spec

\* For every frontend but those of PALS and ALPS, an id at the FE daemon belongs to
\* a living App or was dropped by a call that is known to leave one.
THEOREM IdsOwnedCorrect == Spec => []IdsOwned
<1>1. FInv => IdsOwned
  BY Zenon DEF FInv, Calls, OwnedIds, IdsOwned
<1> QED BY <1>1, FInvAlways, PTL

\* After Frontend::destroy every job that a SLURM, Eproxy, PALS or SSH frontend
\* launched has ended when the tool never called cti_releaseApp; this covers the
\* jobs that throwing launches left without an App.
THEOREM LaunchedDieWithToolCorrect == Spec => []LaunchedDieWithTool
<1>1. ASSUME FInv, up = "down", wlm \in {"slurm", "eproxy", "pals", "ssh"}
      PROVE  /\ \A a \in AppIds : rec[a].owns => rec[a].job = "ended" \/ rec[a].did \in freed
             /\ \A j \in strays : j.id \in freed
  <2>1. dmn.listed = {} /\ mApps = {} /\ Ties
    BY <1>1, Zenon DEF FInv, Calls, Down
  <2>2. CASE wlm = "eproxy"
    BY <2>1, <2>2, Zenon DEF Ties
  <2>3. CASE wlm \in Tying
    <3>1. Tie(dmn, rec, strays, freed)
      BY <2>1, <2>3, Zenon DEF Ties
    <3>2. /\ \A a \in AppIds : rec[a].owns => rec[a].job = "ended" \/ rec[a].did \in dmn.listed \cup freed
          /\ \A j \in strays : j.id \in dmn.listed \cup freed
      BY <3>1, Zenon DEF Tie
    <3> QED BY <2>1, <3>2, Zenon
  <2> QED BY <1>1, <2>2, <2>3, Zenon DEF Tying
<1>2. FInv => LaunchedDieWithTool
  BY <1>1, Zenon DEF LaunchedDieWithTool
<1> QED BY <1>2, FInvAlways, PTL

\* One effect that can happen is a script that completes.
LEMMA OneStep ==
    ASSUME NEW w \in Worlds, NEW e, Can(w, e)
    PROVE  Completes(w, <<e>>)
<1>1. Len(<<e>>) = 1 /\ <<e>>[1] = e
  OBVIOUS
<1>2. After(w, <<e>>, 0) = w
  BY <1>1, RunIs, Zenon
<1>3. \A i \in 1 .. 1 : i = 1 /\ i - 1 = 0
  OBVIOUS
<1> QED BY <1>1, <1>2, <1>3, Zenon DEF Completes, Reaches

\* PALS lets its job go when the App is at the barrier and has its MPIR session.
LEMMA PalsReleases ==
    ASSUME NEW w \in Worlds, w.at, w.did \in w.mpir
    PROVE  Completes(w, pals_releaseBarrier)
<1> DEFINE s == pals_releaseBarrier
<1>1. Len(s) = 3 /\ s[1] = "checkBarrier" /\ s[2] = "releaseMPIR" /\ s[3] = "leaveBarrier"
  BY Zenon DEF pals_releaseBarrier
<1> HIDE DEF s
<1>2. After(w, s, 0) = w /\ After(w, s, 1) = Apply(After(w, s, 0), s[1])
  <2>1. /\ After(w, s, 0) = w
        /\ \A k \in 1 .. Len(s) : After(w, s, k) = Apply(After(w, s, k - 1), s[k])
    <3>1. Len(s) \in Nat
      BY <1>1
    <3> QED BY <3>1, RunIs, Zenon
  <2>2. 1 \in 1 .. Len(s) /\ 1 - 1 = 0
    BY <1>1
  <2> QED BY <2>1, <2>2, Zenon
<1>3. After(w, s, 1) = w
  BY <1>1, <1>2, Zenon DEF Apply
<1>4. Can(w, s[1]) /\ Can(w, s[2]) /\ Can(After(w, s, 2), s[3])
  BY <1>1, Zenon DEF Can
<1>5. ASSUME NEW i \in 1 .. 3 PROVE Can(After(w, s, i - 1), s[i])
  <2>1. CASE i = 1
    BY <1>2, <1>4, <2>1
  <2>2. CASE i = 2
    BY <1>3, <1>4, <2>2
  <2>3. CASE i = 3
    BY <1>4, <2>3
  <2> QED BY <2>1, <2>2, <2>3
<1> QED BY <1>1, <1>5, Zenon DEF Completes, Reaches, s

\* ALPS lets its job go when the App is at the barrier.
LEMMA AlpsReleases ==
    ASSUME NEW w \in Worlds, w.at
    PROVE  Completes(w, alps_releaseBarrier)
<1> DEFINE s == alps_releaseBarrier
<1>1. Len(s) = 2 /\ s[1] = "checkBarrier" /\ s[2] = "writeBarrier"
  BY Zenon DEF alps_releaseBarrier
<1> HIDE DEF s
<1>2. After(w, s, 0) = w
  BY <1>1, RunIs
<1>3. Can(w, s[1]) /\ Can(After(w, s, 1), s[2])
  BY <1>1, Zenon DEF Can
<1>4. ASSUME NEW i \in 1 .. 2 PROVE Can(After(w, s, i - 1), s[i])
  <2>1. CASE i = 1
    BY <1>2, <1>3, <2>1
  <2>2. CASE i = 2
    BY <1>3, <2>2
  <2> QED BY <2>1, <2>2
<1> QED BY <1>1, <1>4, Zenon DEF Completes, Reaches, s

\* As long as an application id is valid, a job held at its startup barrier can be
\* released, whatever calls have failed before; Flux, which can lose its signal, is
\* left out.
THEOREM HeldCanBeReleasedCorrect == Spec => []HeldCanBeReleased
<1>1. ASSUME FInv, wlm # "flux", NEW a \in AppIds, validApp(a), rec[a].job = "held"
      PROVE  \E s \in releaseScripts(wlm) : Completes(world(a), s)
  <2> DEFINE w == world(a)
  <2>1. wlm \in Wlms /\ dmn \in Daemons /\ rec \in AppSeqs /\ a \in mApps
    BY <1>1, Zenon DEF FInv, FType, validApp
  <2>2. w \in Worlds
    BY <2>1, AppSeqFields, JoinType, Zenon DEF world
  <2>3. w.did = rec[a].did /\ w.at = rec[a].at /\ w.mpir = dmn.mpir
    BY JoinFields DEF world
  <2>4. wlm \in Tying => w.did \in w.mpir
    BY <1>1, <2>3, Zenon DEF FInv, Calls, Ties, Tie
  <2>5. wlm \in {"pals", "alps"} => w.at
    BY <1>1, <2>1, <2>3, Zenon DEF FInv, Calls, Barriers
  <2> HIDE DEF w
  <2>6. CASE wlm \in {"slurm", "ssh"}
    <3>1. Can(w, "releaseMPIR") /\ <<"releaseMPIR">> \in releaseScripts(wlm)
      BY <2>4, <2>6, Zenon DEF Can, Tying, releaseScripts, slurm_releaseBarrier, ssh_releaseBarrier
    <3> QED BY <2>2, <3>1, OneStep, Zenon DEF w
  <2>7. CASE wlm = "eproxy"
    <3>1. Can(w, "releaseRemote") /\ <<"releaseRemote">> \in releaseScripts(wlm)
      BY <2>7, Zenon DEF Can, releaseScripts, eproxy_releaseBarrier
    <3> QED BY <2>2, <3>1, OneStep, Zenon DEF w
  <2>8. CASE wlm = "localhost"
    <3>1. Can(w, "removeLock") /\ <<"removeLock">> \in releaseScripts(wlm)
      BY <2>8, Zenon DEF Can, releaseScripts, localhost_releaseBarrier
    <3> QED BY <2>2, <3>1, OneStep, Zenon DEF w
  <2>9. CASE wlm = "pals"
    <3>1. pals_releaseBarrier \in releaseScripts(wlm)
      BY <2>9, Zenon DEF releaseScripts
    <3> QED BY <2>2, <2>4, <2>5, <2>9, <3>1, PalsReleases DEF w, Tying
  <2>10. CASE wlm = "alps"
    <3>1. alps_releaseBarrier \in releaseScripts(wlm)
      BY <2>10, Zenon DEF releaseScripts
    <3> QED BY <2>2, <2>5, <2>10, <3>1, AlpsReleases, Zenon DEF w
  <2> QED BY <1>1, <2>1, <2>6, <2>7, <2>8, <2>9, <2>10, Zenon DEF Wlms
<1>2. FInv => HeldCanBeReleased
  BY <1>1, Zenon DEF HeldCanBeReleased
<1> QED BY <1>2, FInvAlways, PTL

\* A call that takes no session away and no file to it.
LEMMA FilesStay ==
    ASSUME FilesCleaned, HType, FType, files' \subseteq files,
           notCleaned' = notCleaned, seqNum' = seqNum, appOf' = appOf, mSess' = mSess,
           mApps \subseteq mApps'
    PROVE  FilesCleaned'
BY Zenon DEF FilesCleaned, SessAlive

\* Every call keeps the files of the nodes accounted for.
LEMMA FilesNext == FilesCleaned /\ FInv /\ [Next]_vars => FilesCleaned'
<1> SUFFICES ASSUME FilesCleaned, FInv, [Next]_vars PROVE FilesCleaned'
  OBVIOUS
<1>1. HType /\ FType /\ wlm \in Wlms /\ files \subseteq SessIds /\ seqNum \in Seq(Nat)
      /\ Len(seqNum) = Len(appOf)
  BY Zenon DEF FInv, HInv, FType
<1>2. CASE cti_launchApp \/ cti_launchAppBarrier \/ cti_registerApp
  <2>1. PICK s, kept : tryApp(s, kept)
    BY <1>2, Zenon DEF cti_launchApp, cti_launchAppBarrier, cti_registerApp
  <2>2. UNCHANGED <<seqNum, files, notCleaned, appOf, mSess>> /\ mApps \subseteq mApps'
    BY <2>1, Zenon DEF tryApp, makeApp, failApp, addApp, hvars
  <2> QED BY <1>1, <2>2, FilesStay, Zenon
<1>3. ASSUME NEW a \in AppIds, cti_appIsValid(a) \/ cti_deregisterApp(a) PROVE FilesCleaned'
  <2>1. PICK o \in finalizeApp(a, world(a)) : dropApp(a, o)
    BY <1>3, Zenon DEF cti_appIsValid, cti_deregisterApp
  <2>2. /\ seqNum' = seqNum /\ mApps' = mApps \ {a} /\ mSess' = mSess /\ appOf' = appOf
        /\ files' = files \ o.cleaned /\ notCleaned' = notCleaned \cup missed(a, o)
    BY <1>3, <2>1, Zenon DEF cti_appIsValid, cti_deregisterApp, dropApp, removeApp
  <2>3. world(a) \in Worlds
    BY <1>1, AppSeqFields, JoinType, Zenon DEF FType, world
  <2>4. \A s \in sessionsOf(a) : seqNum[s] = 0 \/ s \in o.cleaned \cup missed(a, o)
    BY <1>1, <2>3, FinalizeAppIs, Zenon DEF Finalized
  <2>5. ASSUME NEW s \in files' PROVE SessAlive(s)' \/ s \in notCleaned' \/ seqNum'[s] = 0
    <3>1. s \in files /\ s \notin o.cleaned
      BY <2>2, <2>5, Zenon
    <3>2. CASE SessAlive(s) /\ appOf[s] = a
      <4>1. s \in sessionsOf(a)
        BY <3>2, Zenon DEF sessionsOf, SessAlive
      <4> QED BY <2>2, <2>4, <3>1, <4>1, Zenon
    <3>3. CASE SessAlive(s) /\ appOf[s] # a
      BY <2>2, <3>3, Zenon DEF SessAlive
    <3>4. CASE ~SessAlive(s)
      BY <2>2, <3>1, <3>4, Zenon DEF FilesCleaned
    <3> QED BY <3>2, <3>3, <3>4, Zenon
  <2> QED BY <2>5, Zenon DEF FilesCleaned
<1>4. ASSUME NEW a \in AppIds, cti_createSession(a) PROVE FilesCleaned'
  <2>1. /\ files' = files /\ notCleaned' = notCleaned /\ seqNum' = Append(seqNum, 0)
        /\ appOf' = Append(appOf, a) /\ mSess \subseteq mSess' /\ mApps' = mApps
    BY <1>4, Zenon DEF cti_createSession, createSession
  <2>2. \A s \in SessIds : seqNum'[s] = seqNum[s] /\ appOf'[s] = appOf[s]
    <3>1. appOf \in Seq(Nat) /\ a \in Nat
      BY <1>1 DEF HType, AppIds
    <3> QED BY <1>1, <2>1, <3>1, AppendIs DEF SessIds
  <2> QED BY <1>1, <2>1, <2>2, Zenon DEF FilesCleaned, SessAlive
<1>5. ASSUME NEW s \in SessIds, cti_destroySession(s) PROVE FilesCleaned'
  <2>1. SessAlive(s) /\ seqNum' = seqNum /\ notCleaned' = notCleaned
    BY <1>5, Zenon DEF cti_destroySession, validSession
  <2>2. PICK o \in finalizeSession({[w |-> world(appOf[s]), cleaned |-> {}, thrown |-> FALSE]}, s) :
           /\ files' = files \ o.cleaned
           /\ IF o.thrown THEN UNCHANGED hvars ELSE removeSession(s)
    BY <1>5, Zenon DEF cti_destroySession
  <2>3. seqNum[s] = 0 \/ s \in o.cleaned \/ o.thrown
    BY <2>1, OneSession, Zenon
  <2>4. CASE o.thrown
    BY <1>1, <2>1, <2>2, <2>4, FilesStay, Zenon DEF hvars
  <2>5. CASE ~o.thrown
    <3>1. mSess' = mSess \ {s} /\ UNCHANGED <<appOf, mApps>>
      BY <2>2, <2>5, Zenon DEF removeSession
    <3>2. ASSUME NEW t \in files' PROVE SessAlive(t)' \/ t \in notCleaned' \/ seqNum'[t] = 0
      <4>1. t \in files /\ t \notin o.cleaned
        BY <2>2, <3>2, Zenon
      <4>2. CASE t = s
        BY <2>1, <2>3, <2>5, <4>1, <4>2, Zenon
      <4>3. CASE t # s
        BY <2>1, <3>1, <4>1, <4>3, Zenon DEF FilesCleaned, SessAlive
      <4> QED BY <4>2, <4>3, Zenon
    <3> QED BY <3>2, Zenon DEF FilesCleaned
  <2> QED BY <2>4, <2>5, Zenon
<1>6. ASSUME NEW m \in ManIds, cti_sendManifest(m) PROVE FilesCleaned'
  <2> DEFINE s == sessOf[m]
  <2>1. SessAlive(s) /\ files' = files \cup {s} /\ notCleaned' = notCleaned
    BY <1>6, Zenon DEF cti_sendManifest, validManifest, ManAlive
  <2>2. /\ UNCHANGED <<mApps, mSess, appOf>>
        /\ seqNum' = seqNum \/ seqNum' = [seqNum EXCEPT ![s] = @ + 1]
    BY <1>6, Zenon DEF cti_sendManifest, removeManifest
  <2> HIDE DEF s
  <2>3. \A t : SessAlive(t)' <=> SessAlive(t)
    BY <2>2, Zenon DEF SessAlive
  <2>4. ASSUME NEW t \in files' PROVE SessAlive(t)' \/ t \in notCleaned' \/ seqNum'[t] = 0
    <3>1. CASE t = s
      BY <2>1, <2>3, <3>1, Zenon
    <3>2. CASE t # s
      <4>1. t \in files /\ t \in 1 .. Len(seqNum)
        BY <1>1, <2>1, <2>4, <3>2, Zenon DEF SessIds
      <4>2. seqNum'[t] = seqNum[t]
        BY <1>1, <2>2, <3>2, <4>1
      <4> QED BY <2>1, <2>3, <4>1, <4>2, Zenon DEF FilesCleaned
    <3> QED BY <3>1, <3>2, Zenon
  <2> QED BY <2>4, Zenon DEF FilesCleaned
<1>7. CASE destroy
  <2>1. mApps' = {} /\ UNCHANGED <<mSess, appOf, seqNum>>
    BY <1>7, Zenon DEF destroy, destroyAll
  <2>2. PICK order \in Orders(mApps, lastApp) : \E x \in exitApps(order)[Len(order)] : Left(order, x)
    BY <1>7, Zenon DEF destroy, Left
  <2>3. PICK x \in exitApps(order)[Len(order)] : Left(order, x)
    BY <2>2, Zenon
  <2>4. x \in Exits
        /\ \A a \in mApps : \A s \in sessionsOf(a) : seqNum[s] = 0 \/ s \in x.cleaned \cup x.missed
    BY <1>1, ExitAppsIs, Zenon DEF FType
  <2> DEFINE y == endApps(order, x)[Len(order)]
  <2>5. y.cleaned = x.cleaned /\ y.missed = x.missed
    <3>1. wlm \in Wlms /\ HType /\ \A j \in strays : j.id \in Nat
      BY <1>1, StraysIds, Zenon DEF FType
    <3>2. AllEnded(x, y)
      BY <2>4, <3>1, EndAppsIs, Zenon
    <3> HIDE DEF y
    <3> QED BY <3>2, Zenon DEF AllEnded
  <2>6. files' = files \ y.cleaned /\ notCleaned' = notCleaned \cup y.missed
    BY <2>3, Zenon DEF Left
  <2> HIDE DEF y
  <2>7. ASSUME NEW s \in files' PROVE s \in notCleaned' \/ seqNum'[s] = 0
    <3>1. s \in files /\ s \notin x.cleaned
      BY <2>5, <2>6, <2>7, Zenon
    <3>2. CASE SessAlive(s)
      <4>1. appOf[s] \in mApps /\ s \in sessionsOf(appOf[s])
        BY <3>2, Zenon DEF SessAlive, sessionsOf
      <4> QED BY <2>1, <2>4, <2>5, <2>6, <3>1, <4>1, Zenon
    <3>3. CASE ~SessAlive(s)
      BY <2>1, <2>6, <3>1, <3>3, Zenon DEF FilesCleaned
    <3> QED BY <3>2, <3>3, Zenon
  <2> QED BY <2>7, Zenon DEF FilesCleaned
<1>8. CASE cti_getJobInfo
  BY <1>1, <1>8, FilesStay, Zenon DEF cti_getJobInfo, hvars
<1>9. ASSUME NEW a \in AppIds, cti_releaseApp(a) PROVE FilesCleaned'
  BY <1>1, <1>9, FilesStay, Zenon DEF cti_releaseApp, eraseApp
<1>10. ASSUME NEW a \in AppIds, cti_releaseAppBarrier(a) \/ cti_killApp(a) \/ jobEnds(a)
       PROVE  FilesCleaned'
  <2>1. UNCHANGED <<files, notCleaned, seqNum, hvars>>
    BY <1>10, Zenon DEF cti_releaseAppBarrier, cti_killApp, jobEnds
  <2> QED BY <1>1, <2>1, FilesStay, Zenon DEF hvars
<1>11. ASSUME UNCHANGED fvars, UNCHANGED <<mApps, mSess, appOf>> PROVE FilesCleaned'
  BY <1>1, <1>11, FilesStay, Zenon DEF fvars
<1>12. ASSUME NEW a \in AppIds, missApp(a) PROVE FilesCleaned'
  BY <1>11, <1>12, Zenon DEF missApp, sweepApp
<1>13. ASSUME NEW s \in SessIds, missSession(s) \/ cti_createManifest(s) PROVE FilesCleaned'
  BY <1>11, <1>13, Zenon DEF missSession, sweepSession, cti_createManifest, createManifest
<1>14. ASSUME NEW m \in ManIds, missManifest(m) \/ sendEmpty(m) \/ sendFails(m) PROVE FilesCleaned'
  BY <1>11, <1>14, Zenon DEF missManifest, sweepManifest, sendEmpty, sendFails, removeManifest
<1>15. CASE UNCHANGED vars
  BY <1>11, <1>15, Zenon DEF vars, hvars
<1> QED BY <1>2, <1>3, <1>4, <1>5, <1>6, <1>7, <1>8, <1>9, <1>10, <1>12, <1>13, <1>14, <1>15,
           Zenon DEF Next

\* When the object of a session is gone no file of it stays on the nodes, unless
\* its cleanup threw, an earlier session's throw ended App::finalize, or no daemon
\* of the session was ever started.
THEOREM FilesCleanedCorrect == Spec => []FilesCleaned
<1>1. Init => FilesCleaned
  BY Zenon DEF Init, FilesCleaned
<1> QED BY <1>1, FInvAlways, FilesNext, PTL DEF Spec
=============================================================================
