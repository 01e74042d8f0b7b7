----------------------------- MODULE DreamProofs -----------------------------
(***************************************************************************)
(* Proofs about Dream, for any sets of days, rows and agents, with or      *)
(* without late rows, and any bounds; and, in the second half, about the   *)
(* stage that follows it, Chains: its clusters, for any rows and any       *)
(* closeness, and its review queue.                                        *)
(***************************************************************************)
EXTENDS Dream, Chains, FiniteSetTheorems, WellFoundedInduction, TLAPS

LEMMA SatAddType ==
    ASSUME NEW x \in 0 .. CountCap, NEW n \in Nat
    PROVE  SatAdd(x, n) \in 0 .. CountCap
  BY DreamAssumption DEF SatAdd

LEMMA ReadCount ==
    ASSUME TypeOK, NEW a \in Agents
    PROVE  Cardinality(pass[a].read) \in Nat
  <1>1. pass[a].read \subseteq Rows
    BY DEF TypeOK
  <1> QED
    BY <1>1, DreamAssumption, FS_Subset, FS_CardinalityType

LEMMA IdleType ==
    /\ NoRecord \in Records
    /\ NoFile \in [Days -> Records]
    /\ Idle \in [phase : Phases, day : Days \cup {NoDay}, read : SUBSET Rows,
                 loaded : [Days -> Records], lapsed : BOOLEAN]
  BY DreamAssumption DEF NoRecord, NoFile, Records, Idle, Phases

LEMMA TypeInit == Init => TypeOK
  BY DreamAssumption, IdleType DEF Init, TypeOK, NoHarvest, NoSweep

LEMMA TypeAgent ==
    ASSUME TypeOK, NEW a \in Agents, AgentStep(a) \/ Crash(a)
    PROVE  TypeOK'
  <1> USE IdleType, DreamAssumption
  <1>1. ASSUME NEW d \in Days, Acquire(a, d) PROVE TypeOK'
    BY ZenonT(60), <1>1 DEF Acquire, Grant, TypeOK, Phases, rowVars, handlerVars, ghostVars
  <1>2. CASE Renew(a)
    <2>1. pass[a].day \in Days \cup {NoDay} /\ HolderOf[a] \in Holders
      BY DEF TypeOK
    <2> QED
      BY <1>2, <2>1 DEF Renew, Grant, TypeOK, rowVars, handlerVars, ghostVars
  <1>3. CASE ReadWorklist(a)
    <2>1. Unjudged(pass[a].day) \subseteq Rows
      BY DEF Unjudged, Staged
    <2> QED
      BY ZenonT(60), <1>3, <2>1 DEF ReadWorklist, TypeOK, Phases, rowVars, handlerVars, ghostVars
  <1>4. CASE RememberCheck(a)
    BY ZenonT(60), <1>4 DEF RememberCheck, TypeOK, Phases, rowVars, handlerVars, ghostVars
  <1>5. CASE RememberLoad(a)
    <2> DEFINE n == Cardinality(pass[a].read)
    <2>1. \A rec \in Records : Remembered(rec, n) \in Records
      BY ReadCount, SatAddType DEF Records, Remembered, Created
    <2> DEFINE loaded == [file EXCEPT ![pass[a].day] = Remembered(file[pass[a].day], n)]
    <2>2. loaded \in [Days -> Records]
      BY <2>1 DEF TypeOK
    <2>4. pass' = [pass EXCEPT ![a].phase = "saving", ![a].loaded = loaded]
      BY <1>5 DEF RememberLoad
    <2> HIDE DEF n, loaded
    <2>3. pass' \in [Agents -> [phase : Phases, day : Days \cup {NoDay}, read : SUBSET Rows,
                                loaded : [Days -> Records], lapsed : BOOLEAN]]
      BY ZenonT(60), <2>2, <2>4 DEF TypeOK, Phases
    <2> QED
      BY <1>5, <2>3 DEF RememberLoad, TypeOK, Created, rowVars, handlerVars
  <1>6. CASE RememberSave(a)
    <2> DEFINE n == Cardinality(pass[a].read)
    <2>1. \A x \in 0 .. CountCap : SatAdd(x, n) \in 0 .. CountCap
      BY ReadCount, SatAddType
    <2> HIDE DEF n
    <2>2. asked' \in [Days -> 0 .. CountCap]
      BY <1>6, <2>1 DEF RememberSave, TypeOK, n
    <2> QED
      BY ZenonT(60), <1>6, <2>2 DEF RememberSave, TypeOK, Phases, rowVars, handlerVars
  <1>7. CASE Release(a)
    BY <1>7 DEF Release, TypeOK, rowVars, handlerVars, ghostVars
  <1>8. CASE Crash(a)
    BY <1>8 DEF Crash, TypeOK, rowVars, handlerVars, ghostVars
  <1> QED
    BY <1>1, <1>2, <1>3, <1>4, <1>5, <1>6, <1>7, <1>8 DEF AgentStep

LEMMA TypeHandlers ==
    ASSUME TypeOK,
           \/ HarvestSave \/ SweepStep \/ Restart
           \/ \E d \in Days : LeaseRunsOut(d) \/ HarvestLoad(d)
    PROVE  TypeOK'
  <1> USE IdleType, DreamAssumption
  <1>1. ASSUME NEW d \in Days, LeaseRunsOut(d) PROVE TypeOK'
    <2>1. lapses' \in 0 .. MaxLapses
      BY <1>1 DEF LeaseRunsOut, TypeOK
    <2> QED
      BY <1>1, <2>1 DEF LeaseRunsOut, TypeOK, rowVars, handlerVars, ghostVars
  <1>2. ASSUME NEW d \in Days, HarvestLoad(d) PROVE TypeOK'
    BY <1>2 DEF HarvestLoad, TypeOK, rowVars, ghostVars
  <1>3. CASE HarvestSave
    <2>1. \A rec \in Records : Harvested(rec) \in Records
      BY DEF Records, Harvested
    <2>2. file' \in [Days -> Records]
      BY <1>3, <2>1 DEF HarvestSave, TypeOK
    <2> QED
      BY <1>3, <2>2 DEF HarvestSave, TypeOK, NoHarvest, rowVars, ghostVars
  <1>4. CASE SweepLoad
    BY <1>4 DEF SweepLoad, TypeOK, rowVars, ghostVars
  <1>5. ASSUME NEW pastTtl \in SUBSET Rows, SweepList(pastTtl) PROVE TypeOK'
    BY <1>5 DEF SweepList, TypeOK, Staged, rowVars, ghostVars
  <1>6. ASSUME NEW r \in Rows, SweepDelete(r) PROVE TypeOK'
    <2>1. swept' \subseteq Rows
      BY <1>6 DEF SweepDelete, TypeOK
    <2>2. sweep' = [sweep EXCEPT !.victims = sweep.victims \ {r},
                        !.removed = IF r \in Staged THEN sweep.removed \cup {r}
                                                   ELSE sweep.removed]
      BY <1>6 DEF SweepDelete
    <2>3. sweep' \in [phase : {"idle", "loaded", "deleting"}, loaded : [Days -> Records],
                      victims : SUBSET Rows, removed : SUBSET Rows]
      <3>1. CASE r \in Staged
        BY <2>2, <3>1 DEF TypeOK
      <3>2. CASE r \notin Staged
        BY <2>2, <3>2 DEF TypeOK
      <3> QED
        BY <3>1, <3>2
    <2>4. state' \in [Rows -> {"unborn", "forming", "staged", "gone"}]
      BY <1>6 DEF SweepDelete, TypeOK
    <2> QED
      BY <1>6, <2>1, <2>3, <2>4 DEF SweepDelete, TypeOK
  <1>7. CASE SweepSave
    BY <1>7 DEF SweepSave, TypeOK, NoSweep, rowVars, ghostVars
  <1>8. CASE Restart
    <2>1. pass' \in [Agents -> [phase : Phases, day : Days \cup {NoDay}, read : SUBSET Rows,
                                loaded : [Days -> Records], lapsed : BOOLEAN]]
      <3> SUFFICES ASSUME NEW a \in Agents
                   PROVE  pass'[a] \in [phase : Phases, day : Days \cup {NoDay},
                              read : SUBSET Rows, loaded : [Days -> Records], lapsed : BOOLEAN]
        BY <1>8 DEF Restart
      <3>1. CASE pass[a].phase \in {"cleared", "saving"}
        BY ZenonT(60), <1>8, <3>1 DEF Restart, TypeOK, Phases
      <3>2. CASE pass[a].phase \notin {"cleared", "saving"}
        <4>1. pass'[a] = pass[a]
          BY <1>8, <3>2 DEF Restart
        <4> QED
          BY <4>1 DEF TypeOK
      <3> QED
        BY <3>1, <3>2
    <2>2. state' \in [Rows -> {"unborn", "forming", "staged", "gone"}]
      BY <1>8 DEF Restart, TypeOK
    <2>4. crashes < MaxCrashes /\ crashes' = crashes + 1
      BY <1>8 DEF Restart
    <2>5. crashes \in 0 .. MaxCrashes
      BY DEF TypeOK
    <2>3. crashes' \in 0 .. MaxCrashes
      BY <2>4, <2>5
    <2> QED
      BY <1>8, <2>1, <2>2, <2>3 DEF Restart, TypeOK, NoHarvest, NoSweep, ghostVars
  <1> QED
    BY <1>1, <1>2, <1>3, <1>4, <1>5, <1>6, <1>7, <1>8 DEF SweepStep

LEMMA TypeNext == TypeOK /\ [Next]_vars => TypeOK'
  <1>1. TypeOK /\ UNCHANGED vars => TypeOK'
    BY DEF TypeOK, vars, rowVars, handlerVars, ghostVars
  <1>2. ASSUME TypeOK, NEW r \in Rows, Create(r) \/ Delete(r) PROVE TypeOK'
    <2>1. CASE Create(r)
      BY <1>2, <2>1 DEF Create, TypeOK, handlerVars, ghostVars
    <2>2. CASE Delete(r)
      BY <1>2, <2>2 DEF Delete, TypeOK, handlerVars, ghostVars
    <2> QED
      BY <1>2, <2>1, <2>2
  <1>3. ASSUME TypeOK, NEW r \in Rows, NEW d \in Days, Insert(r, d) \/ Redate(r, d) PROVE TypeOK'
    <2>1. CASE Insert(r, d)
      BY <1>3, <2>1 DEF Insert, Join, TypeOK, handlerVars
    <2>2. CASE Redate(r, d)
      BY <1>3, <2>2 DEF Redate, Join, TypeOK, handlerVars
    <2> QED
      BY <1>3, <2>1, <2>2
  <1>4. ASSUME TypeOK, NEW a \in Agents, AgentStep(a) \/ Crash(a) PROVE TypeOK'
    BY <1>4, TypeAgent
  <1>5. ASSUME TypeOK,
               \/ HarvestSave \/ SweepStep \/ Restart
               \/ \E d \in Days : LeaseRunsOut(d) \/ HarvestLoad(d)
        PROVE  TypeOK'
    BY <1>5, TypeHandlers
  <1> QED
    BY <1>1, <1>2, <1>3, <1>4, <1>5 DEF Next

\* Every state is well typed.
THEOREM TypeCorrectness == Spec => []TypeOK
  BY TypeInit, TypeNext, PTL DEF Spec

-----------------------------------------------------------------------------
LEMMA InvInit == Init => IInv
  <1> SUFFICES ASSUME Init PROVE IInv
    OBVIOUS
  <1>1. TypeOK
    BY TypeInit
  <1>2. Staged = {}
    BY DEF Init, Staged
  <1>3. CopiesSound
    BY DEF Init, CopiesSound, RecordsSound, NoFile, NoRecord, NoHarvest, NoSweep, Idle
  <1> QED
    BY <1>1, <1>2, <1>3
       DEF IInv, Init, Idle, StampedKnown, PassOnDay, PassKnows, VictimsKnown, NoSweep, SweptWereJudged

\* Rows come, move and go.
LEMMA InvRow ==
    ASSUME IInv, NEW r \in Rows, Create(r) \/ Delete(r)
    PROVE  IInv'
  <1>1. TypeOK'
    BY TypeNext DEF IInv, Next
  <1>2. Staged' \subseteq Staged
    BY DEF IInv, TypeOK, Create, Delete, Staged
  <1>3. UNCHANGED <<day, file, lease, pass, handlerVars, ghostVars>>
    BY DEF Create, Delete
  <1> QED
    BY <1>1, <1>2, <1>3 DEF IInv, CopiesSound, RecordsSound, StampedKnown, PassOnDay, PassKnows,
       VictimsKnown, SweptWereJudged, Known, handlerVars, ghostVars

LEMMA InvJoin ==
    ASSUME IInv, NEW r \in Rows, NEW d \in Days, Insert(r, d) \/ Redate(r, d)
    PROVE  IInv'
  <1>1. TypeOK'
    BY TypeNext DEF IInv, Next
  <1>2. Join(r, d) /\ UNCHANGED <<file, lease, pass, handlerVars, judged, swept, stamped>>
    BY DEF Insert, Redate
  <1>3. Staged' \subseteq Staged \cup {r}
    BY DEF IInv, TypeOK, Insert, Redate, Staged
  <1>4. day'[r] = d /\ \A q \in Rows : q # r => day'[q] = day[q]
    BY <1>2 DEF IInv, TypeOK, Join
  <1>5. Known \subseteq Known'
    BY <1>2 DEF Join, Known
  <1>6. CopiesSound'
    BY <1>2 DEF IInv, CopiesSound, RecordsSound, handlerVars
  <1>7. StampedKnown'
    <2>1. r \in stamped[d] => r \in Known'
      BY <1>2 DEF Join, Known
    <2> QED
      BY <1>2, <1>3, <1>4, <1>5, <2>1 DEF IInv, StampedKnown, Staged
  <1>8. PassKnows'
    <2>1. UnderPass(d) => r \in Known'
      BY <1>2 DEF Join, Known
    <2> QED
      BY <1>2, <1>3, <1>4, <1>5, <2>1 DEF IInv, PassKnows, Staged, UnderPass
  <1>9. PassOnDay' /\ VictimsKnown' /\ SweptWereJudged'
    BY <1>2, <1>5 DEF IInv, PassOnDay, VictimsKnown, SweptWereJudged, Known, handlerVars
  <1> QED
    BY <1>1, <1>6, <1>7, <1>8, <1>9 DEF IInv

\* Steps of passes, leases and crashes that stamp nothing: the rows, the file
\* and the ghosts stay, a pass keeps its day and worklist or is over.
LEMMA InvQuiet ==
    ASSUME IInv, [Next]_vars,
           UNCHANGED <<state, day, file, handlerVars, ghostVars>>,
           \A a \in Agents :
               /\ pass'[a].loaded = pass[a].loaded \/ pass'[a].loaded = NoFile
               /\ pass'[a].phase = "idle" \/ pass'[a].day \in Days
               /\ \/ pass'[a].phase \in {"idle", "locked", "stamped"}
                  \/ /\ pass[a].phase \in {"judging", "cleared", "saving"}
                     /\ pass'[a].day = pass[a].day
                     /\ pass'[a].read = pass[a].read
    PROVE  IInv'
  <1>1. TypeOK'
    BY TypeNext DEF IInv
  <1>2. CopiesSound'
    BY DEF IInv, CopiesSound, RecordsSound, NoFile, NoRecord, handlerVars, ghostVars
  <1>3. PassKnows'
    BY DEF IInv, PassKnows, Staged, Known, ghostVars
  <1>4. PassOnDay'
    BY DEF PassOnDay
  <1> QED
    BY <1>1, <1>2, <1>3, <1>4 DEF IInv, StampedKnown, Staged, VictimsKnown, SweptWereJudged,
       Known, handlerVars, ghostVars

LEMMA InvRead ==
    ASSUME IInv, NEW a \in Agents, ReadWorklist(a)
    PROVE  IInv'
  <1>1. TypeOK'
    BY TypeNext DEF IInv, Next, AgentStep
  <1>2. UNCHANGED <<rowVars, file, handlerVars, ghostVars>>
    BY DEF ReadWorklist
  <1>3. CopiesSound'
    BY <1>2 DEF IInv, TypeOK, ReadWorklist, CopiesSound, RecordsSound, handlerVars, ghostVars
  <1>4. PassKnows'
    <2> SUFFICES ASSUME NEW b \in Agents, NEW r \in Staged',
                        pass'[b].phase \in {"judging", "cleared", "saving"},
                        day'[r] = pass'[b].day
                 PROVE  r \in Known' \cup pass'[b].read
      BY DEF PassKnows
    <2>1. r \in Staged /\ day'[r] = day[r] /\ Known' = Known
      BY <1>2 DEF Staged, Known, rowVars, ghostVars
    <2>2. CASE b # a
      BY <2>1, <2>2 DEF IInv, TypeOK, ReadWorklist, PassKnows
    <2>3. CASE b = a
      <3>1. pass'[a].read = Unjudged(pass[a].day) /\ pass'[a].day = pass[a].day
        BY DEF ReadWorklist, IInv, TypeOK
      <3>2. CASE r \in Unjudged(pass[a].day)
        BY <2>3, <3>1, <3>2
      <3>3. CASE r \notin Unjudged(pass[a].day)
        <4>1. pass[a].day \in Days \cup {NoDay} /\ day[r] = pass[a].day /\ r \in Rows
          BY <2>1, <2>3, <3>1 DEF IInv, TypeOK, Staged
        <4>2. r \in file[pass[a].day].covers
          BY <2>1, <3>3, <4>1 DEF Unjudged
        <4>3. CASE pass[a].day \in Days
          <5>1. r \in stamped[pass[a].day]
            BY <4>2, <4>3 DEF IInv, CopiesSound, RecordsSound
          <5> QED
            BY <2>1, <4>1, <4>3, <5>1 DEF IInv, StampedKnown
        <4>4. pass[a].day \in Days
          BY DEF IInv, PassOnDay, ReadWorklist
        <4> QED
          BY <4>3, <4>4
      <3> QED
        BY <3>2, <3>3
    <2> QED
      BY <2>2, <2>3
  <1>5. PassOnDay'
    BY DEF IInv, TypeOK, ReadWorklist, PassOnDay
  <1> QED
    BY <1>1, <1>2, <1>3, <1>4, <1>5 DEF IInv, StampedKnown, Staged, VictimsKnown,
       SweptWereJudged, Known, rowVars, handlerVars, ghostVars

\* The stamp: what it newly covers on its day, the pass has read or is excused.
LEMMA InvStamp ==
    ASSUME IInv, NEW a \in Agents, RememberLoad(a)
    PROVE  IInv'
  <1> DEFINE d == pass[a].day
  <1>1. TypeOK'
    BY TypeNext DEF IInv, Next, AgentStep
  <1>2. /\ UNCHANGED <<rowVars, file, handlerVars, swept, slipped>>
        /\ pass[a].phase = "cleared"
        /\ judged' = judged \cup pass[a].read
        /\ stamped' = [stamped EXCEPT ![d] = @ \cup Created]
        /\ pass' = [pass EXCEPT ![a].phase = "saving",
                      ![a].loaded = [file EXCEPT ![d] =
                                        Remembered(file[d], Cardinality(pass[a].read))]]
    BY DEF RememberLoad
  <1>3. d \in Days
    BY <1>2 DEF IInv, PassOnDay
  <1>4. Staged' = Staged /\ day' = day /\ Known' = Known \cup pass[a].read
    BY <1>2 DEF Staged, Known, rowVars
  <1>5. \A e \in Days : stamped[e] \subseteq stamped'[e]
    BY <1>2 DEF IInv, TypeOK
  <1>6. CopiesSound'
    <2>1. RecordsSound(file)' /\ RecordsSound(harvest.loaded)' /\ RecordsSound(sweep.loaded)'
      BY <1>2, <1>5 DEF IInv, CopiesSound, RecordsSound, handlerVars
    <2>2. ASSUME NEW b \in Agents PROVE RecordsSound(pass[b].loaded)'
      <3>1. CASE b # a
        <4>1. pass'[b] = pass[b]
          BY <1>2, <3>1 DEF IInv, TypeOK
        <4> QED
          BY <1>5, <4>1 DEF IInv, CopiesSound, RecordsSound
      <3>2. CASE b = a
        <4>1. pass'[a].loaded = [file EXCEPT ![d] =
                                    Remembered(file[d], Cardinality(pass[a].read))]
          BY <1>2 DEF IInv, TypeOK
        <4>2. pass'[a].loaded[d].covers = Created
          BY <1>3, <4>1 DEF IInv, TypeOK, Remembered, Records
        <4>3. \A e \in Days : e # d => pass'[a].loaded[e] = file[e]
          BY <4>1 DEF IInv, TypeOK
        <4>4. Created \subseteq stamped'[d]
          BY <1>2, <1>3 DEF IInv, TypeOK
        <4> QED
          BY <1>5, <3>2, <4>2, <4>3, <4>4 DEF IInv, CopiesSound, RecordsSound
      <3> QED
        BY <3>1, <3>2
    <2> QED
      BY <2>1, <2>2 DEF CopiesSound
  <1>7. StampedKnown'
    <2>1. \A r \in Staged : day[r] = d => r \in Known \cup pass[a].read
      BY <1>2 DEF IInv, PassKnows
    <2>2. \A e \in Days : e # d => stamped'[e] = stamped[e]
      BY <1>2 DEF IInv, TypeOK
    <2> QED
      BY <1>4, <2>1, <2>2 DEF IInv, StampedKnown
  <1>8. \A b \in Agents :
           /\ pass'[b].day = pass[b].day /\ pass'[b].read = pass[b].read
           /\ pass'[b].phase = IF b = a THEN "saving" ELSE pass[b].phase
    BY <1>2 DEF IInv, TypeOK
  <1>9. PassKnows'
    BY <1>2, <1>4, <1>8 DEF IInv, PassKnows
  <1>10. PassOnDay'
    BY <1>3, <1>8 DEF IInv, PassOnDay
  <1> QED
    BY <1>1, <1>2, <1>4, <1>6, <1>7, <1>9, <1>10
       DEF IInv, VictimsKnown, SweptWereJudged, Known, handlerVars

\* A save puts a sound copy in place of the file.
LEMMA InvSave ==
    ASSUME IInv, NEW a \in Agents, RememberSave(a)
    PROVE  IInv'
  <1>1. TypeOK'
    BY TypeNext DEF IInv, Next, AgentStep
  <1>2. /\ UNCHANGED <<rowVars, handlerVars, judged, swept, stamped, slipped>>
        /\ file' = pass[a].loaded
        /\ pass' = [pass EXCEPT ![a].phase = "stamped", ![a].loaded = NoFile]
        /\ pass[a].phase = "saving"
    BY DEF RememberSave
  <1>3. \A b \in Agents :
           /\ pass'[b].day = pass[b].day /\ pass'[b].read = pass[b].read
           /\ pass'[b].phase = IF b = a THEN "stamped" ELSE pass[b].phase
           /\ pass'[b].loaded = IF b = a THEN NoFile ELSE pass[b].loaded
    BY <1>2 DEF IInv, TypeOK
  <1>4. CopiesSound'
    <2>1. RecordsSound(file)'
      BY <1>2 DEF IInv, CopiesSound, RecordsSound
    <2>2. RecordsSound(harvest.loaded)' /\ RecordsSound(sweep.loaded)'
      BY <1>2 DEF IInv, CopiesSound, RecordsSound, handlerVars
    <2>3. ASSUME NEW b \in Agents PROVE RecordsSound(pass[b].loaded)'
      <3>0. stamped' = stamped
        BY <1>2
      <3>1. CASE b # a
        <4>1. pass'[b].loaded = pass[b].loaded
          BY <1>3, <3>1
        <4> QED
          BY <3>0, <4>1 DEF IInv, CopiesSound, RecordsSound
      <3>2. CASE b = a
        <4>1. pass'[b].loaded = NoFile
          BY <1>3, <3>2
        <4> QED
          BY <4>1 DEF RecordsSound, NoFile, NoRecord
      <3> QED
        BY <3>1, <3>2
    <2> QED
      BY <2>1, <2>2, <2>3 DEF CopiesSound
  <1>5. PassOnDay' /\ PassKnows'
    BY ZenonT(60), <1>2, <1>3 DEF IInv, PassOnDay, PassKnows, Staged, Known, rowVars
  <1> QED
    BY <1>1, <1>2, <1>4, <1>5 DEF IInv, StampedKnown, Staged, VictimsKnown, SweptWereJudged,
       Known, rowVars, handlerVars

LEMMA InvHarvest ==
    ASSUME IInv, HarvestSave \/ \E d \in Days : HarvestLoad(d)
    PROVE  IInv'
  <1>1. TypeOK'
    BY TypeNext DEF IInv, Next
  <1>2. UNCHANGED <<rowVars, pass, sweep, ghostVars>>
    BY DEF HarvestSave, HarvestLoad
  <1>3. CopiesSound'
    <2>1. CASE HarvestSave
      <3>1. \A e \in Days : file'[e].covers = harvest.loaded[e].covers
        BY <2>1 DEF IInv, TypeOK, Records, HarvestSave, Harvested
      <3>2. harvest'.loaded = NoFile
        BY <2>1 DEF HarvestSave, NoHarvest
      <3> QED
        BY <1>2, <3>1, <3>2 DEF IInv, CopiesSound, RecordsSound, NoFile, NoRecord, ghostVars
    <2>2. ASSUME NEW d \in Days, HarvestLoad(d) PROVE CopiesSound'
      BY <1>2, <2>2 DEF HarvestLoad, IInv, CopiesSound, RecordsSound, ghostVars
    <2> QED
      BY <2>1, <2>2
  <1> QED
    BY <1>1, <1>2, <1>3 DEF IInv, StampedKnown, Staged, PassOnDay, PassKnows, VictimsKnown,
       SweptWereJudged, Known, rowVars, ghostVars

\* What the sweep lists is covered by a copy, so by a stamp, so accounted for.
LEMMA InvSweep ==
    ASSUME IInv, SweepStep
    PROVE  IInv'
  <1>1. TypeOK'
    BY TypeNext DEF IInv, Next
  <1>2. CASE SweepLoad
    <2>1. sweep'.victims = sweep.victims /\ sweep'.loaded = file
      BY <1>2 DEF SweepLoad, IInv, TypeOK
    <2> QED
      BY <1>1, <1>2, <2>1 DEF SweepLoad, IInv, CopiesSound, RecordsSound, StampedKnown, Staged,
         PassOnDay, PassKnows, VictimsKnown, SweptWereJudged, Known, rowVars, ghostVars
  <1>3. ASSUME NEW pastTtl \in SUBSET Rows, SweepList(pastTtl) PROVE IInv'
    <2>1. \A r \in Staged : Evictable(r, sweep.loaded) => r \in Known
      BY DEF IInv, Evictable, CopiesSound, RecordsSound, StampedKnown
    <2>2. sweep'.victims \subseteq Known /\ sweep'.loaded = sweep.loaded
      BY <1>3, <2>1 DEF SweepList, IInv, TypeOK
    <2> QED
      BY <1>1, <1>3, <2>2 DEF SweepList, IInv, CopiesSound, RecordsSound, StampedKnown, Staged,
         PassOnDay, PassKnows, VictimsKnown, SweptWereJudged, Known, rowVars, ghostVars
  <1>4. ASSUME NEW r \in Rows, SweepDelete(r) PROVE IInv'
    <2>1. Staged' \subseteq Staged
      BY <1>4 DEF SweepDelete, IInv, TypeOK, Staged
    <2>2. r \in Known
      BY <1>4 DEF SweepDelete, IInv, VictimsKnown
    <2>3. sweep'.victims \subseteq sweep.victims /\ sweep'.loaded = sweep.loaded
      BY <1>4 DEF SweepDelete, IInv, TypeOK
    <2>4. Known' = Known /\ swept' \subseteq swept \cup {r}
      BY <1>4 DEF SweepDelete, Known
    <2>5. SweptWereJudged'
      BY <2>2, <2>4 DEF IInv, SweptWereJudged, Known
    <2> QED
      BY <1>1, <1>4, <2>1, <2>3, <2>4, <2>5 DEF SweepDelete, IInv, CopiesSound, RecordsSound,
         StampedKnown, PassOnDay, PassKnows, VictimsKnown
  <1>5. CASE SweepSave
    <2>1. CopiesSound'
      BY <1>5 DEF SweepSave, IInv, CopiesSound, RecordsSound, NoSweep, NoFile, NoRecord, ghostVars
    <2> QED
      BY <1>1, <1>5, <2>1 DEF SweepSave, NoSweep, IInv, StampedKnown, Staged, PassOnDay,
         PassKnows, VictimsKnown, SweptWereJudged, Known, rowVars, ghostVars
  <1> QED
    BY <1>2, <1>3, <1>4, <1>5 DEF SweepStep

LEMMA InvRestart ==
    ASSUME IInv, Restart
    PROVE  IInv'
  <1>1. TypeOK'
    BY TypeNext DEF IInv, Next
  <1>2. UNCHANGED <<day, file, lease, ghostVars>> /\ harvest' = NoHarvest /\ sweep' = NoSweep
    BY DEF Restart
  <1>3. Staged' \subseteq Staged
    BY DEF IInv, TypeOK, Restart, Staged
  <1>4. \A a \in Agents :
           /\ pass'[a].day = pass[a].day /\ pass'[a].read = pass[a].read
           /\ pass'[a].loaded \in {pass[a].loaded, NoFile}
           /\ \/ pass'[a].phase = pass[a].phase
              \/ pass'[a].phase = "judging" /\ pass[a].phase \in {"cleared", "saving"}
    <2> SUFFICES ASSUME NEW a \in Agents
                 PROVE  /\ pass'[a].day = pass[a].day /\ pass'[a].read = pass[a].read
                        /\ pass'[a].loaded \in {pass[a].loaded, NoFile}
                        /\ \/ pass'[a].phase = pass[a].phase
                           \/ /\ pass'[a].phase = "judging"
                              /\ pass[a].phase \in {"cleared", "saving"}
      OBVIOUS
    <2>1. CASE pass[a].phase \in {"cleared", "saving"}
      <3>1. pass'[a] = [pass[a] EXCEPT !.phase = "judging", !.loaded = NoFile]
        BY <2>1 DEF Restart
      <3> QED
        BY <2>1, <3>1 DEF IInv, TypeOK
    <2>2. CASE pass[a].phase \notin {"cleared", "saving"}
      BY <2>2 DEF Restart
    <2> QED
      BY <2>1, <2>2
  <1>5. CopiesSound'
    BY <1>2, <1>4 DEF IInv, CopiesSound, RecordsSound, NoHarvest, NoSweep, NoFile, NoRecord,
       ghostVars
  <1>6. PassKnows' /\ PassOnDay'
    BY <1>2, <1>3, <1>4 DEF IInv, PassKnows, PassOnDay, Known, ghostVars
  <1> QED
    BY <1>1, <1>2, <1>3, <1>5, <1>6 DEF IInv, StampedKnown, VictimsKnown, NoSweep,
       SweptWereJudged, Known, ghostVars

LEMMA InvPass ==
    ASSUME IInv, NEW a \in Agents, AgentStep(a) \/ Crash(a)
    PROVE  IInv'
  <1>1. [Next]_vars
    BY DEF Next
  <1>2. ASSUME NEW d \in Days, Acquire(a, d) PROVE IInv'
    BY <1>1, <1>2, InvQuiet DEF IInv, TypeOK, PassOnDay, Phases, Acquire, rowVars
  <1>3. CASE Renew(a)
    BY <1>1, <1>3, InvQuiet DEF IInv, TypeOK, PassOnDay, Phases, Renew, rowVars
  <1>4. CASE RememberCheck(a)
    BY SMTT(30), <1>1, <1>4, InvQuiet DEF IInv, TypeOK, PassOnDay, Phases, RememberCheck, Idle, rowVars
  <1>5. CASE Release(a)
    BY <1>1, <1>5, InvQuiet DEF IInv, TypeOK, PassOnDay, Phases, Release, Idle, rowVars
  <1>6. CASE Crash(a)
    BY <1>1, <1>6, InvQuiet DEF IInv, TypeOK, PassOnDay, Phases, Crash, Idle, rowVars
  <1> QED
    BY <1>2, <1>3, <1>4, <1>5, <1>6, InvRead, InvStamp, InvSave DEF AgentStep

LEMMA InvLease ==
    ASSUME IInv, NEW d \in Days, LeaseRunsOut(d)
    PROVE  IInv'
  <1>1. [Next]_vars
    BY DEF Next
  <1>2. \A a \in Agents :
           /\ pass'[a].day = pass[a].day /\ pass'[a].read = pass[a].read
           /\ pass'[a].loaded = pass[a].loaded /\ pass'[a].phase = pass[a].phase
    BY DEF LeaseRunsOut, IInv, TypeOK
  <1>3. \A a \in Agents : pass[a].phase \in Phases
    BY DEF IInv, TypeOK
  <1>4. UNCHANGED <<state, day, file, handlerVars, ghostVars>>
    BY DEF LeaseRunsOut, rowVars
  <1> QED
    BY <1>1, <1>2, <1>3, <1>4, InvQuiet DEF IInv, PassOnDay, Phases

LEMMA InvNext == IInv /\ [Next]_vars => IInv'
  <1>1. IInv /\ UNCHANGED vars => IInv'
    BY DEF IInv, TypeOK, CopiesSound, RecordsSound, StampedKnown, Staged, PassOnDay, PassKnows,
       VictimsKnown, SweptWereJudged, Known, vars, rowVars, handlerVars, ghostVars
  <1>2. ASSUME IInv, NEW r \in Rows, Create(r) \/ Delete(r) PROVE IInv'
    BY <1>2, InvRow
  <1>3. ASSUME IInv, NEW r \in Rows, NEW d \in Days, Insert(r, d) \/ Redate(r, d) PROVE IInv'
    BY <1>3, InvJoin
  <1>4. ASSUME IInv, NEW a \in Agents, AgentStep(a) \/ Crash(a) PROVE IInv'
    BY <1>4, InvPass
  <1>5. ASSUME IInv, NEW d \in Days, LeaseRunsOut(d) PROVE IInv'
    BY <1>5, InvLease
  <1>6. ASSUME IInv, NEW d \in Days, HarvestLoad(d) PROVE IInv'
    BY <1>6, InvHarvest
  <1>7. ASSUME IInv, HarvestSave PROVE IInv'
    BY <1>7, InvHarvest
  <1>8. ASSUME IInv, SweepStep PROVE IInv'
    BY <1>8, InvSweep
  <1>9. ASSUME IInv, Restart PROVE IInv'
    BY <1>9, InvRestart
  <1> QED
    BY <1>1, <1>2, <1>3, <1>4, <1>5, <1>6, <1>7, <1>8, <1>9 DEF Next

THEOREM Induction == Spec => []IInv
  BY InvInit, InvNext, PTL DEF Spec

\* The sweep deletes no row but those a stamped pass had read and those that
\* joined their day behind a pass, whatever the handlers of `.days.json`,
\* lapsed leases, crashes and restarts do to the stamps.
THEOREM SweepSafety == Spec => []SweptWereJudged
  <1>1. IInv => SweptWereJudged
    BY DEF IInv
  <1> QED
    BY <1>1, Induction, PTL

\* A day the rollup shows as dreamed has no other row left to judge.
THEOREM DreamedSafety == Spec => []DreamedIsDone
  <1>1. IInv => DreamedIsDone
    BY DEF IInv, CopiesSound, RecordsSound, StampedKnown, DreamedIsDone, Dreamed, Unjudged, Known
  <1> QED
    BY <1>1, Induction, PTL

-----------------------------------------------------------------------------
LEMMA HoldsNext ==
    ASSUME OwnHolder, TypeOK, HoldsLease, [Next]_vars
    PROVE  HoldsLease'
  <1> USE DreamAssumption
  <1>1. ASSUME UNCHANGED <<pass, lease>> PROVE HoldsLease'
    BY <1>1 DEF HoldsLease
  <1>2. ASSUME NEW a \in Agents, NEW d \in Days, Acquire(a, d) PROVE HoldsLease'
    <2>1. /\ lease' = [lease EXCEPT ![d] = HolderOf[a]]
          /\ lease[d] \in {NoOne, HolderOf[a]}
          /\ pass' = [pass EXCEPT ![a].phase = "locked", ![a].day = d]
      BY <1>2 DEF Acquire, Grant, HeldByOther
    <2> QED
      BY <2>1 DEF TypeOK, HoldsLease, OwnHolder
  <1>3. ASSUME NEW a \in Agents, Renew(a) PROVE HoldsLease'
    <2>1. /\ lease' = [lease EXCEPT ![pass[a].day] = HolderOf[a]]
          /\ lease[pass[a].day] \in {NoOne, HolderOf[a]}
          /\ pass' = pass
      BY <1>3 DEF Renew, Grant, HeldByOther
    <2> QED
      BY <2>1 DEF TypeOK, HoldsLease, OwnHolder
  <1>4. ASSUME NEW a \in Agents, Release(a) PROVE HoldsLease'
    <2>1. pass' = [pass EXCEPT ![a] = Idle]
      BY <1>4 DEF Release
    <2>2. \A d \in Days : lease[d] \notin {NoOne, HolderOf[a]} => lease'[d] = lease[d]
      BY <1>4 DEF Release, HeldByOther, TypeOK
    <2>3. \A d \in Days : d # pass[a].day => lease'[d] = lease[d]
      BY <1>4 DEF Release, TypeOK
    <2> QED
      BY <2>1, <2>2, <2>3 DEF TypeOK, HoldsLease, OwnHolder, Idle
  <1>5. ASSUME NEW a \in Agents,
               ReadWorklist(a) \/ RememberCheck(a) \/ RememberLoad(a) \/ RememberSave(a) \/ Crash(a)
        PROVE  HoldsLease'
    <2>1. lease' = lease /\ \A b \in Agents : b # a => pass'[b] = pass[b]
      BY <1>5 DEF ReadWorklist, RememberCheck, RememberLoad, RememberSave, Crash, TypeOK
    <2>2. \/ pass'[a].phase \in {"idle", "stamped"}
          \/ /\ pass[a].phase \notin {"idle", "stamped"}
             /\ pass'[a].day = pass[a].day /\ pass'[a].lapsed = pass[a].lapsed
      <3>1. CASE ReadWorklist(a)
        BY <3>1 DEF ReadWorklist, TypeOK
      <3>2. CASE RememberCheck(a)
        <4>1. pass' = [pass EXCEPT ![a] = Idle] \/ pass' = [pass EXCEPT ![a].phase = "cleared"]
          BY <3>2 DEF RememberCheck
        <4>2. pass[a].phase = "judging"
          BY <3>2 DEF RememberCheck
        <4>3. pass \in [Agents -> [phase : Phases, day : Days \cup {NoDay}, read : SUBSET Rows,
                                   loaded : [Days -> Records], lapsed : BOOLEAN]]
          BY DEF TypeOK
        <4>4. CASE pass' = [pass EXCEPT ![a] = Idle]
          BY <4>3, <4>4 DEF Idle
        <4>5. CASE pass' = [pass EXCEPT ![a].phase = "cleared"]
          BY <4>2, <4>3, <4>5
        <4> QED
          BY <4>1, <4>4, <4>5
      <3>3. CASE RememberLoad(a)
        BY <3>3 DEF RememberLoad, TypeOK
      <3>4. CASE RememberSave(a)
        BY <3>4 DEF RememberSave, TypeOK
      <3>5. CASE Crash(a)
        BY <3>5 DEF Crash, TypeOK, Idle
      <3> QED
        BY <1>5, <3>1, <3>2, <3>3, <3>4, <3>5
    <2> QED
      BY <2>1, <2>2 DEF HoldsLease
  <1>6. ASSUME NEW d \in Days, LeaseRunsOut(d) PROVE HoldsLease'
    <2>1. lease' = [lease EXCEPT ![d] = NoOne]
      BY <1>6 DEF LeaseRunsOut
    <2>2. \A a \in Agents :
             /\ pass'[a].phase = pass[a].phase /\ pass'[a].day = pass[a].day
             /\ ~pass'[a].lapsed => ~pass[a].lapsed /\ a \notin AtWork(d)
      <3> SUFFICES ASSUME NEW a \in Agents
                   PROVE  /\ pass'[a].phase = pass[a].phase /\ pass'[a].day = pass[a].day
                          /\ ~pass'[a].lapsed => ~pass[a].lapsed /\ a \notin AtWork(d)
        OBVIOUS
      <3>1. CASE a \in AtWork(d)
        <4>1. pass'[a] = [pass[a] EXCEPT !.lapsed = TRUE]
          BY <1>6, <3>1 DEF LeaseRunsOut
        <4> QED
          BY <4>1 DEF TypeOK
      <3>2. CASE a \notin AtWork(d)
        <4>1. pass'[a] = pass[a]
          BY <1>6, <3>2 DEF LeaseRunsOut
        <4> QED
          BY <3>2, <4>1
      <3> QED
        BY <3>1, <3>2
    <2> QED
      BY <2>1, <2>2 DEF HoldsLease, TypeOK, AtWork
  <1>7. ASSUME Restart PROVE HoldsLease'
    <2>1. \A a \in Agents :
             /\ pass'[a].day = pass[a].day /\ pass'[a].lapsed = pass[a].lapsed
             /\ pass'[a].phase \notin {"idle", "stamped"} => pass[a].phase \notin {"idle", "stamped"}
      <3> SUFFICES ASSUME NEW a \in Agents
                   PROVE  /\ pass'[a].day = pass[a].day /\ pass'[a].lapsed = pass[a].lapsed
                          /\ pass'[a].phase \notin {"idle", "stamped"}
                             => pass[a].phase \notin {"idle", "stamped"}
        OBVIOUS
      <3>1. CASE pass[a].phase \in {"cleared", "saving"}
        <4>1. pass'[a] = [pass[a] EXCEPT !.phase = "judging", !.loaded = NoFile]
          BY <1>7, <3>1 DEF Restart
        <4> QED
          BY <3>1, <4>1 DEF TypeOK
      <3>2. CASE pass[a].phase \notin {"cleared", "saving"}
        <4>1. pass'[a] = pass[a]
          BY <1>7, <3>2 DEF Restart
        <4> QED
          BY <4>1
      <3> QED
        BY <3>1, <3>2
    <2>2. lease' = lease
      BY <1>7 DEF Restart
    <2> QED
      BY <2>1, <2>2 DEF HoldsLease
  <1>8. ASSUME \/ HarvestSave \/ SweepStep
               \/ \E d \in Days : HarvestLoad(d)
               \/ \E r \in Rows : Create(r) \/ Delete(r)
               \/ \E r \in Rows, d \in Days : Insert(r, d) \/ Redate(r, d)
        PROVE  UNCHANGED <<pass, lease>>
    BY <1>8 DEF HarvestSave, HarvestLoad, SweepStep, SweepLoad, SweepList, SweepDelete,
       SweepSave, Create, Delete, Insert, Redate
  <1>9. CASE UNCHANGED vars
    BY <1>1, <1>9 DEF vars
  <1> QED
    BY <1>1, <1>2, <1>3, <1>4, <1>5, <1>6, <1>7, <1>8, <1>9 DEF Next, AgentStep

\* Where agents take leases under names of their own, two of them judge one
\* day at once only if the lease of one has run out under it.
THEOREM Exclusion ==
    ASSUME OwnHolder
    PROVE  Spec => []OneExecutor
  <1>1. Init => HoldsLease
    BY DEF Init, HoldsLease, Idle
  <1>2. TypeOK /\ HoldsLease /\ [Next]_vars => HoldsLease'
    BY HoldsNext
  <1>3. TypeOK /\ HoldsLease => OneExecutor
    BY DEF HoldsLease, OneExecutor, OwnHolder
  <1> QED
    BY <1>1, <1>2, <1>3, TypeInit, TypeNext, PTL DEF Spec

-----------------------------------------------------------------------------
(***************************************************************************)
(* The clusters of Chains.                                                 *)
(***************************************************************************)
LEMMA LeastOne ==
    ASSUME NEW S, S \in SUBSET Nat, S # {}
    PROVE  \E n \in S : \A m \in S : n <= m
  <1>1. PICK n \in S : \A m \in S : <<m, n>> \notin OpToRel(<, Nat)
    BY NatLessThanWellFounded, WFMin
  <1>2. \A m \in S : ~(m < n)
    BY <1>1 DEF OpToRel
  <1>3. \A m \in S : m \in Nat
    OBVIOUS
  <1> QED
    BY <1>2, <1>3

LEMMA IdsFinite ==
    /\ IsFiniteSet(Ids) /\ Ids \subseteq Nat
    /\ Cardinality(Ids) \in Nat /\ Ids = 1 .. Cardinality(Ids)
    /\ \A S \in SUBSET Ids : IsFiniteSet(S) /\ Cardinality(S) \in Nat
  <1>1. IsFiniteSet(Ids) /\ Ids = 1 .. Cardinality(Ids)
    BY ChainsAssumption
  <1>2. Cardinality(Ids) \in Nat
    BY <1>1, FS_CardinalityType
  <1>3. \A S \in SUBSET Ids : IsFiniteSet(S)
    BY <1>1, FS_Subset
  <1>4. \A S \in SUBSET Ids : Cardinality(S) \in Nat
    BY <1>3, FS_CardinalityType
  <1> QED
    BY <1>1, <1>2, <1>3, <1>4

\* The order the clusters are grown in has a beginning, so that what Growth
\* describes exists.
LEMMA GrowthUpTo ==
    ASSUME NEW pool, NEW n \in Nat
    PROVE  \E g : g = [s \in 0 .. n |-> IF s = 0 THEN {} ELSE Grow(pool, g[s - 1], s)]
  <1> DEFINE Grown(g, k) ==
               g = [s \in 0 .. k |-> IF s = 0 THEN {} ELSE Grow(pool, g[s - 1], s)]
             bad == {k \in Nat : ~\E g : Grown(g, k)}
  <1>1. ASSUME bad # {} PROVE FALSE
    <2>1. PICK k \in bad : \A m \in bad : k <= m
      <3>1. bad \in SUBSET Nat
        OBVIOUS
      <3> QED
        BY <1>1, <3>1, LeastOne
    <2>2. k # 0
      <3>1. Grown([s \in 0 .. 0 |-> {}], 0)
        OBVIOUS
      <3> HIDE DEF Grown
      <3> QED
        BY <3>1, <2>1
    <2>3. k - 1 \in Nat /\ k - 1 \notin bad
      <3>1. k \in Nat /\ \A m \in bad : m \in Nat
        OBVIOUS
      <3> HIDE DEF bad
      <3> QED
        BY <3>1, <2>1, <2>2
    <2>4. PICK h : Grown(h, k - 1)
      <3> HIDE DEF Grown
      <3> QED
        BY <2>3
    <2> DEFINE g == [s \in 0 .. k |-> IF s = k THEN Grow(pool, h[k - 1], k) ELSE h[s]]
    <2>5. \A s \in 0 .. (k - 1) : h[s] = IF s = 0 THEN {} ELSE Grow(pool, h[s - 1], s)
      BY <2>4
    <2>6. \A s \in 0 .. k : g[s] = IF s = 0 THEN {} ELSE Grow(pool, g[s - 1], s)
      <3> SUFFICES ASSUME NEW s \in 0 .. k
                   PROVE  g[s] = IF s = 0 THEN {} ELSE Grow(pool, g[s - 1], s)
        OBVIOUS
      <3>1. CASE s = k
        <4>1. g[s - 1] = h[k - 1]
          BY <3>1, <2>2, <2>3
        <4> QED
          BY <3>1, <4>1, <2>2
      <3>2. CASE s # k
        <4>1. s \in 0 .. (k - 1) /\ g[s] = h[s]
          BY <3>2, <2>1
        <4>2. s # 0 => g[s - 1] = h[s - 1]
          BY <4>1
        <4> QED
          BY <4>1, <4>2, <2>5
      <3> QED
        BY <3>1, <3>2
    <2>7. Grown(g, k)
      <3>1. g = [s \in 0 .. k |-> g[s]]
        OBVIOUS
      <3> HIDE DEF g
      <3> QED
        BY <3>1, <2>6
    <2> HIDE DEF Grown, g
    <2> QED
      BY <2>1, <2>7
  <1>2. \E g : Grown(g, n)
    <2> HIDE DEF Grown
    <2> QED
      BY <1>1
  <1> QED
    BY <1>2

LEMMA GrowthSteps ==
    ASSUME NEW pool
    PROVE  /\ Growth(pool)[0] = {}
           /\ \A s \in Ids : Growth(pool)[s] = Grow(pool, Growth(pool)[s - 1], s)
  <1>1. Cardinality(Ids) \in Nat /\ Ids = 1 .. Cardinality(Ids)
    BY IdsFinite
  <1>2. PICK g : g = [s \in 0 .. Cardinality(Ids) |->
                        IF s = 0 THEN {} ELSE Grow(pool, g[s - 1], s)]
    BY <1>1, GrowthUpTo
  <1>3. Growth(pool) = [s \in 0 .. Cardinality(Ids) |->
                         IF s = 0 THEN {} ELSE Grow(pool, Growth(pool)[s - 1], s)]
    BY <1>2, Zenon DEF Growth
  <1>4. \A s \in 0 .. Cardinality(Ids) :
           Growth(pool)[s] = IF s = 0 THEN {} ELSE Grow(pool, Growth(pool)[s - 1], s)
    BY <1>3, Zenon
  <1> QED
    BY <1>1, <1>4

NearTyped == near \in [Ids -> [Ids -> Nat]]

\* The closest are as many as were asked for, or all there are: of two rows one
\* is always closer, so that ranks are 0 .. n - 1.
LEMMA ClosestSize ==
    ASSUME NearTyped, NEW seed \in Ids, NEW members \in SUBSET Ids, NEW k \in Nat
    PROVE  /\ Closest(seed, members, k) \in SUBSET members
           /\ Cardinality(Closest(seed, members, k)) =
                IF k <= Cardinality(members) THEN k ELSE Cardinality(members)
  <1> DEFINE n == Cardinality(members)
             before(i) == Closer(seed, members, i)
             rank == [i \in members |-> Cardinality(before(i))]
             near1(i) == near[seed][i]
             some == Closest(seed, members, k)
  <1>1. IsFiniteSet(members) /\ n \in Nat
    BY IdsFinite
  <1>2. \A i \in members : near1(i) \in Nat /\ i \in Nat
    BY IdsFinite DEF NearTyped
  <1>3. ASSUME NEW i \in members
        PROVE  before(i) \in SUBSET (members \ {i}) /\ IsFiniteSet(before(i))
    <2>1. before(i) \in SUBSET (members \ {i})
      BY <1>2 DEF Closer
    <2>2. before(i) \in SUBSET members
      BY <2>1
    <2> HIDE DEF before
    <2> QED
      BY <1>1, <2>1, <2>2, FS_Subset
  <1>4. ASSUME NEW i \in members
        PROVE  Cardinality(before(i)) \in 0 .. (n - 1)
    <2>1. /\ IsFiniteSet(members \ {i})
          /\ Cardinality(members \ {i}) = n - 1
      BY <1>1, FS_RemoveElement
    <2>2. Cardinality(before(i)) <= n - 1 /\ Cardinality(before(i)) \in Nat
      <3> HIDE DEF before, n
      <3> QED
        BY <1>3, <2>1, FS_Subset, FS_CardinalityType
    <2> HIDE DEF before, n
    <2> QED
      BY <2>2, <1>1
  <1>5. ASSUME NEW i \in members, NEW j \in members, j \in before(i)
        PROVE  Cardinality(before(j)) < Cardinality(before(i))
    <2>1. before(j) \in SUBSET (before(i) \ {j})
      BY <1>2, <1>5 DEF Closer
    <2> HIDE DEF before
    <2>2. /\ IsFiniteSet(before(i) \ {j})
          /\ Cardinality(before(i) \ {j}) = Cardinality(before(i)) - 1
      BY <1>3, <1>5, FS_RemoveElement
    <2>3. Cardinality(before(j)) <= Cardinality(before(i)) - 1
      BY <2>1, <2>2, FS_Subset
    <2>4. Cardinality(before(i)) \in Nat /\ Cardinality(before(j)) \in Nat
      BY <1>3, FS_CardinalityType
    <2> QED
      BY <2>3, <2>4
  <1>6. ASSUME NEW i \in members, NEW j \in members, i # j
        PROVE  rank[i] # rank[j]
    <2>1. i \in before(j) \/ j \in before(i)
      BY <1>2, <1>6 DEF Closer
    <2>2. Cardinality(before(i)) \in Nat /\ Cardinality(before(j)) \in Nat
      BY <1>4
    <2> HIDE DEF before
    <2>3. Cardinality(before(i)) # Cardinality(before(j))
      BY <2>1, <2>2, <1>5
    <2> QED
      BY <2>3
  <1>7. rank \in [members -> 0 .. (n - 1)]
    <2> HIDE DEF before, n
    <2> QED
      BY <1>4
  <1>8. some \in SUBSET members /\ \A i \in members : i \in some <=> rank[i] < k
    BY DEF Closest
  <1> HIDE DEF rank, before, some, n
  <1>9. CASE k > n
    <2>1. some = members
      BY <1>1, <1>7, <1>8, <1>9
    <2> QED
      BY <1>1, <1>8, <1>9, <2>1 DEF n, some
  <1>10. CASE k <= n
    <2>1. /\ IsFiniteSet(0 .. (n - 1)) /\ Cardinality(0 .. (n - 1)) = n
          /\ IsFiniteSet(0 .. (k - 1)) /\ Cardinality(0 .. (k - 1)) = k
      BY <1>1, FS_Interval
    <2>2. rank \in Injection(members, 0 .. (n - 1))
      BY <1>6, <1>7 DEF Injection, IsInjective
    <2>3. rank \in Surjection(members, 0 .. (n - 1))
      BY <2>1, <2>2, FS_Injection DEF n
    <2>4. \A m \in 0 .. (n - 1) : \E i \in members : rank[i] = m
      BY <2>3 DEF Surjection
    <2> DEFINE first == [i \in some |-> rank[i]]
    <2>5. first \in [some -> 0 .. (k - 1)]
      BY <1>7, <1>8, <1>1
    <2>6. \A i, j \in some : first[i] = first[j] => i = j
      BY <1>6, <1>8
    <2>7. \A m \in 0 .. (k - 1) : \E i \in some : first[i] = m
      BY <2>4, <1>1, <1>8, <1>10
    <2> HIDE DEF first
    <2>8. first \in Injection(some, 0 .. (k - 1))
      BY <2>5, <2>6 DEF Injection, IsInjective
    <2>9. first \in Surjection(some, 0 .. (k - 1))
      BY <2>5, <2>7 DEF Surjection
    <2>10. Cardinality(some) = k
      BY <2>1, <2>8, <2>9, FS_Injection
    <2> QED
      BY <1>8, <1>10, <2>10 DEF n, some
  <1> QED
    BY <1>1, <1>9, <1>10

\* A cluster's size: the seed, and of the rows around it as many as may be.
LEMMA ClusterSize ==
    ASSUME NearTyped, NEW seed \in Ids, NEW around \in SUBSET Ids, seed \notin around,
           Cardinality(around) + 1 >= MinRows
    PROVE  /\ Closest(seed, around, MaxRows - 1) \in SUBSET around
           /\ Cardinality({seed} \cup Closest(seed, around, MaxRows - 1))
                \in MinRows .. MaxRows
  <1> DEFINE some == Closest(seed, around, MaxRows - 1)
  <1>1. MinRows \in Nat \ {0} /\ MaxRows \in Nat /\ MinRows <= MaxRows /\ MaxRows - 1 \in Nat
    BY ChainsAssumption
  <1>2. Cardinality(around) \in Nat
    BY IdsFinite
  <1>3. /\ some \in SUBSET around
        /\ Cardinality(some) = IF MaxRows - 1 <= Cardinality(around) THEN MaxRows - 1
                               ELSE Cardinality(around)
    BY <1>1, ClosestSize
  <1> HIDE DEF some
  <1>4. IsFiniteSet(some) /\ seed \notin some
    BY <1>3, IdsFinite
  <1>5. Cardinality({seed} \cup some) = Cardinality(some) + 1
    <2>1. {seed} \cup some = some \cup {seed}
      OBVIOUS
    <2> QED
      BY <2>1, <1>4, FS_AddElement
  <1>6. Cardinality({seed} \cup some) \in MinRows .. MaxRows
    BY <1>1, <1>2, <1>3, <1>5
  <1> QED
    BY <1>3, <1>6 DEF some

\* The rows of S that make a subject with i.
Close(i, S) == {j \in S \ {i} : near[i][j] >= 2}

StarsOf(pool, cs) ==
    \A c \in cs : /\ c \subseteq pool
                  /\ Cardinality(c) \in MinRows .. MaxRows
                  /\ \E seed \in c : Close(seed, c) = c \ {seed}
NoneShared(cs) == \A c, d \in cs : c # d => c \cap d = {}

\* What is left of the rows up to n makes no cluster.
NoneLeft(pool, cs, n) ==
    \A i \in pool \ (UNION cs) : i <= n => Cardinality(Star(pool, UNION cs, i)) + 1 < MinRows

GrownTo(pool, cs, n) == StarsOf(pool, cs) /\ NoneShared(cs) /\ NoneLeft(pool, cs, n)

LEMMA StarFinite ==
    ASSUME NEW pool \in SUBSET Ids, NEW taken, NEW more, taken \subseteq more, NEW i
    PROVE  /\ Star(pool, taken, i) \in SUBSET pool /\ i \notin Star(pool, taken, i)
           /\ Star(pool, taken, i) \cap taken = {}
           /\ Cardinality(Star(pool, taken, i)) \in Nat
           /\ Cardinality(Star(pool, more, i)) \in Nat
           /\ Cardinality(Star(pool, more, i)) <= Cardinality(Star(pool, taken, i))
  <1>1. /\ Star(pool, taken, i) \in SUBSET pool /\ i \notin Star(pool, taken, i)
        /\ Star(pool, taken, i) \cap taken = {}
        /\ Star(pool, more, i) \in SUBSET Star(pool, taken, i)
    BY DEF Star
  <1>2. Star(pool, taken, i) \in SUBSET Ids /\ Star(pool, more, i) \in SUBSET Ids
    BY <1>1
  <1>3. IsFiniteSet(Star(pool, taken, i))
    BY <1>2, IdsFinite
  <1>4. Cardinality(Star(pool, more, i)) <= Cardinality(Star(pool, taken, i))
    BY <1>1, <1>3, FS_Subset
  <1> QED
    BY <1>1, <1>2, <1>4, IdsFinite

LEMMA GrowKeeps ==
    ASSUME NearTyped, NEW pool \in SUBSET Ids, NEW cs, NEW s \in Ids, GrownTo(pool, cs, s - 1)
    PROVE  GrownTo(pool, Grow(pool, cs, s), s)
  <1> DEFINE around == Star(pool, UNION cs, s)
             c == {s} \cup Closest(s, around, MaxRows - 1)
  <1>1. /\ around \in SUBSET Ids /\ around \in SUBSET pool /\ s \notin around
        /\ around \cap (UNION cs) = {} /\ Cardinality(around) \in Nat
    BY StarFinite
  <1>2. /\ \A i \in pool : i \in Nat /\ i \in Ids
        /\ s \in Nat /\ MinRows \in Nat
    BY IdsFinite, ChainsAssumption
  <1>3. CASE s \notin pool \ (UNION cs) \/ Cardinality(around) + 1 < MinRows
    <2>1. Grow(pool, cs, s) = cs
      BY <1>3 DEF Grow
    <2>2. NoneLeft(pool, cs, s)
      <3> SUFFICES ASSUME NEW i \in pool \ (UNION cs), i <= s
                   PROVE  Cardinality(Star(pool, UNION cs, i)) + 1 < MinRows
        BY DEF NoneLeft
      <3>1. CASE i = s
        BY <1>3, <3>1
      <3>2. CASE i # s
        <4>1. i <= s - 1
          BY <1>2, <3>2
        <4> QED
          BY <4>1 DEF GrownTo, NoneLeft
      <3> QED
        BY <3>1, <3>2
    <2> QED
      BY <2>1, <2>2 DEF GrownTo
  <1>4. CASE s \in pool \ (UNION cs) /\ ~(Cardinality(around) + 1 < MinRows)
    <2>1. Grow(pool, cs, s) = cs \cup {c}
      BY <1>4 DEF Grow
    <2>2. /\ Closest(s, around, MaxRows - 1) \in SUBSET around
          /\ Cardinality(c) \in MinRows .. MaxRows
      <3> HIDE DEF around
      <3>1. Cardinality(around) + 1 >= MinRows
        BY <1>1, <1>2, <1>4
      <3> QED
        BY <1>1, <3>1, ClusterSize
    <2>3. s \in c /\ c \in SUBSET pool /\ c \cap (UNION cs) = {}
      <3> HIDE DEF around
      <3> QED
        BY <1>1, <1>4, <2>2
    <2>4. Close(s, c) = c \ {s}
      <3>1. \A j \in around : near[s][j] >= 2
        BY DEF Star
      <3> HIDE DEF around
      <3> QED
        BY <2>2, <3>1 DEF Close
    <2> HIDE DEF c, around
    <2>5. StarsOf(pool, cs \cup {c})
      BY <2>2, <2>3, <2>4 DEF GrownTo, StarsOf
    <2>6. NoneShared(cs \cup {c})
      BY <2>3 DEF GrownTo, NoneShared
    <2>7. NoneLeft(pool, cs \cup {c}, s)
      <3> SUFFICES ASSUME NEW i \in pool \ (UNION (cs \cup {c})), i <= s
                   PROVE  Cardinality(Star(pool, UNION (cs \cup {c}), i)) + 1 < MinRows
        BY DEF NoneLeft
      <3>1. (UNION cs) \subseteq (UNION (cs \cup {c})) /\ i \notin UNION cs /\ i \notin c
        OBVIOUS
      <3>2. i <= s - 1
        BY <1>2, <2>3, <3>1
      <3>3. Cardinality(Star(pool, UNION cs, i)) + 1 < MinRows
        BY <3>1, <3>2 DEF GrownTo, NoneLeft
      <3> DEFINE before == UNION cs
                 after == UNION (cs \cup {c})
      <3>4. before \subseteq after
        BY <3>1
      <3> HIDE DEF before, after
      <3>5. /\ Cardinality(Star(pool, after, i)) \in Nat
            /\ Cardinality(Star(pool, before, i)) \in Nat
            /\ Cardinality(Star(pool, after, i)) <= Cardinality(Star(pool, before, i))
        BY <3>4, StarFinite
      <3>6. Cardinality(Star(pool, before, i)) + 1 < MinRows
        BY <3>3 DEF before
      <3>7. Cardinality(Star(pool, after, i)) + 1 < MinRows
        BY <1>2, <3>5, <3>6
      <3> QED
        BY <3>7 DEF after
    <2> QED
      BY <2>1, <2>5, <2>6, <2>7 DEF GrownTo
  <1> QED
    BY <1>3, <1>4

\* The clusters of any pool, grown up to the last row.
LEMMA ClustersGrown ==
    ASSUME NearTyped, NEW pool \in SUBSET Ids
    PROVE  GrownTo(pool, Clusters(pool), Cardinality(Ids))
  <1> DEFINE n == Cardinality(Ids)
             bad == {s \in 0 .. n : ~GrownTo(pool, Growth(pool)[s], s)}
  <1>1. n \in Nat /\ Ids = 1 .. n /\ \A i \in pool : i \in Ids
    BY IdsFinite
  <1>2. ASSUME bad # {} PROVE FALSE
    <2>1. bad \in SUBSET Nat
      BY <1>1
    <2>2. PICK s \in bad : \A m \in bad : s <= m
      <3> HIDE DEF bad
      <3> QED
        BY <1>2, <2>1, LeastOne
    <2>3. CASE s = 0
      <3>1. Growth(pool)[s] = {}
        BY <2>3, GrowthSteps
      <3>2. \A i \in pool : ~(i <= s)
        BY <1>1, <2>3
      <3>3. GrownTo(pool, {}, s)
        BY <3>2 DEF GrownTo, StarsOf, NoneShared, NoneLeft
      <3> QED
        BY <3>1, <3>3
    <2>4. CASE s # 0
      <3>1. s \in 1 .. n /\ s - 1 \in 0 .. n
        BY <1>1, <2>1, <2>4
      <3>2. s - 1 \notin bad
        <4> HIDE DEF bad
        <4> QED
          BY <2>1, <2>2, <3>1
      <3>3. GrownTo(pool, Growth(pool)[s - 1], s - 1)
        BY <3>1, <3>2
      <3>4. s \in Ids /\ Growth(pool)[s] = Grow(pool, Growth(pool)[s - 1], s)
        BY <1>1, <3>1, GrowthSteps
      <3>5. GrownTo(pool, Growth(pool)[s], s)
        BY <3>3, <3>4, GrowKeeps
      <3> QED
        BY <3>5
    <2> QED
      BY <2>3, <2>4
  <1>3. n \in 0 .. n
    BY <1>1
  <1>4. GrownTo(pool, Growth(pool)[n], n)
    <2>1. n \notin bad
      <3> HIDE DEF bad
      <3> QED
        BY <1>2
    <2> QED
      BY <1>3, <2>1
  <1> QED
    BY <1>4 DEF Clusters

LEMMA ClustersAlways == NearTyped => ClustersSound
  <1> SUFFICES ASSUME NearTyped PROVE ClustersSound
    OBVIOUS
  <1> DEFINE pool == SubjectPool(rows, {})
             cs == Clusters(pool)
             left == pool \ (UNION cs)
  <1>1. pool \in SUBSET Ids
    BY DEF SubjectPool, Live
  <1> HIDE DEF pool
  <1>2. GrownTo(pool, cs, Cardinality(Ids))
    BY <1>1, ClustersGrown
  <1>3. \A i \in left : i <= Cardinality(Ids)
    BY <1>1, IdsFinite
  <1> HIDE DEF cs
  <1>4. \A i \in left : Close(i, left) = Star(pool, UNION cs, i)
    BY DEF Close, Star
  <1>5. \A i \in left : Cardinality(Close(i, left)) + 1 < MinRows
    BY <1>2, <1>3, <1>4 DEF GrownTo, NoneLeft
  <1>6. /\ \A c \in cs : /\ c \subseteq pool
                         /\ Cardinality(c) \in MinRows .. MaxRows
                         /\ \E seed \in c : Close(seed, c) = c \ {seed}
        /\ \A c, d \in cs : c # d => c \cap d = {}
    BY <1>2 DEF GrownTo, StarsOf, NoneShared
  <1> QED
    BY <1>5, <1>6, Zenon DEF ClustersSound, Close, pool, cs

-----------------------------------------------------------------------------
(***************************************************************************)
(* The queue of Chains, and what was settled in it.                        *)
(***************************************************************************)
Lanes == {"cited", "marker", "subject"}
Store == [Ids -> Row \cup {NoRow, Gone}]
Call == [at : {"open", "fill", "rename"}, items : SUBSET Item, reply : Item]
Stage == [lane : Lanes, at : {"ask", "listed", "served"}, seen : Store \cup {NoRow},
          item : SUBSET Ids, settled : SUBSET Ids, call : Call \cup {NoCall}]

ChainsTyped ==
    /\ rows \in Store /\ NearTyped
    /\ sidecar \in IssuesState \cup {Missing}
    /\ tmp \in IssuesState \cup {Missing, Torn}
    /\ stage \in Stage /\ solver \in Call \cup {NoCall}
    /\ minted \in 0 .. MaxItems /\ deaths \in 0 .. MaxDeaths
    /\ told \in [DOMAIN told -> Item]

\* These items hold all that was told: every id, of the same kind and rows, and
\* closed if it was.
Holds(items, t) ==
    \A id \in DOMAIN t :
        \E x \in items : /\ x.id = id /\ x.kind = t[id].kind /\ x.rows = t[id].rows
                         /\ t[id].status # "open" => x.status = t[id].status

\* These items still name what was settled when the pass s listed its rows.
Passes(items, s) ==
    s.at = "listed" =>
        s.settled \subseteq IF s.lane = "marker" THEN IssuedRowIds(items)
                            ELSE SubjectRuledIds(items)

\* A request will write nothing less, and renames nothing but what it wrote.
CallSound(p, t, s, beside) ==
    p \in Call => /\ p.reply \in p.items
                  /\ Holds(p.items, t) /\ Passes(p.items, s)
                  /\ p.at = "rename" => beside = [issues |-> p.items]

ChainsInv ==
    /\ ChainsTyped
    /\ ~(AtQueue(stage.call) /\ AtQueue(solver))
    /\ stage.call # NoCall => stage.at = "served"
    /\ Holds(Queue, told) /\ Passes(Queue, stage)
    /\ CallSound(stage.call, told, stage, tmp)
    /\ CallSound(solver, told, stage, tmp)
    /\ SettledStays

LEMMA CallCases ==
    ASSUME NEW p \in Call \cup {NoCall}
    PROVE  (AtQueue(p) <=> p \in Call) /\ (p = NoCall <=> p \notin Call)
  BY DEF Call, NoCall, AtQueue

LEMMA AskOf ==
    ASSUME NEW lane \in Lanes
    PROVE  Ask(lane) \in Stage /\ Ask(lane).call = NoCall /\ Ask(lane).at = "ask"
  <1>1. NoRow \in Store \cup {NoRow} /\ NoCall \in Call \cup {NoCall} /\ {} \in SUBSET Ids
    OBVIOUS
  <1> HIDE DEF Store, Call, NoCall
  <1> QED
    BY <1>1 DEF Stage, Ask

LEMMA AskTyped ==
    ASSUME NEW s \in Stage
    PROVE  /\ Ask(After[s.lane]) \in Stage
           /\ Ask(After[s.lane]).call = NoCall /\ Ask(After[s.lane]).at = "ask"
  <1>1. s.lane \in Lanes
    BY DEF Stage
  <1>2. After[s.lane] \in Lanes
    BY <1>1 DEF Lanes, After
  <1> QED
    BY <1>2, AskOf

LEMMA QueueTyped ==
    ASSUME sidecar \in IssuesState \cup {Missing}
    PROVE  /\ Queue \in SUBSET Item
           /\ \A items \in SUBSET Item : sidecar = [issues |-> items] => Queue = items
  <1>1. Missing \notin IssuesState /\ Torn \notin IssuesState
    BY ChainsAssumption
  <1>2. CASE sidecar = Missing
    BY <1>2, <1>1 DEF Queue, IssuesState
  <1>3. CASE sidecar \in IssuesState
    BY <1>3, <1>1 DEF Queue, IssuesState
  <1> QED
    BY <1>2, <1>3

LEMMA ToldNamed ==
    ASSUME NEW t, NEW items, t \in [DOMAIN t -> Item], Holds(items, t),
           NEW all, all = {t[id] : id \in DOMAIN t}
    PROVE  /\ IssuedRowIds(all) \subseteq Ids /\ SubjectRuledIds(all) \subseteq Ids
           /\ IssuedRowIds(all) \subseteq IssuedRowIds(items)
           /\ SubjectRuledIds(all) \subseteq SubjectRuledIds(items)
  <1>1. \A x \in all : x.rows \subseteq Ids
    BY DEF Item
  <1>2. \A x \in all : \E y \in items : y.kind = x.kind /\ y.rows = x.rows
    BY DEF Holds
  <1> QED
    BY <1>1, <1>2 DEF IssuedRowIds, SubjectRuledIds

LEMMA ListKeeps == ChainsInv /\ List => ChainsInv'
  <1> SUFFICES ASSUME ChainsInv, List PROVE ChainsInv'
    OBVIOUS
  <1> DEFINE all == {told[i] : i \in DOMAIN told}
             settled == IF stage.lane = "marker" THEN IssuedRowIds(all)
                        ELSE SubjectRuledIds(all)
  <1>1. /\ stage.at = "ask"
        /\ stage' = [stage EXCEPT !.at = "listed", !.seen = rows, !.settled = settled]
        /\ UNCHANGED <<rows, near, sidecar, tmp, solver, minted, told, deaths>>
    BY DEF List
  <1>2. /\ ChainsTyped /\ stage \in Stage /\ solver \in Call \cup {NoCall}
        /\ told \in [DOMAIN told -> Item] /\ rows \in Store
        /\ Holds(Queue, told) /\ CallSound(solver, told, stage, tmp)
    BY DEF ChainsInv, ChainsTyped
  <1>3. /\ settled \subseteq Ids
        /\ \A items : Holds(items, told) =>
             settled \subseteq IF stage.lane = "marker" THEN IssuedRowIds(items)
                               ELSE SubjectRuledIds(items)
    <2>1. Holds(Queue, told)
      BY <1>2
    <2> HIDE DEF all
    <2>2. ASSUME NEW items, Holds(items, told), all = {told[i] : i \in DOMAIN told}
          PROVE  /\ settled \subseteq Ids
                 /\ settled \subseteq IF stage.lane = "marker" THEN IssuedRowIds(items)
                                      ELSE SubjectRuledIds(items)
      <3>1. /\ IssuedRowIds(all) \subseteq Ids /\ SubjectRuledIds(all) \subseteq Ids
            /\ IssuedRowIds(all) \subseteq IssuedRowIds(items)
            /\ SubjectRuledIds(all) \subseteq SubjectRuledIds(items)
        BY <1>2, <2>2, ToldNamed
      <3> QED
        BY <3>1
    <2>3. all = {told[i] : i \in DOMAIN told}
      BY DEF all
    <2> HIDE DEF settled
    <2> QED
      BY <2>1, <2>2, <2>3
  <1> HIDE DEF settled
  <1>4. /\ stage' \in Stage /\ stage'.at = "listed" /\ stage'.lane = stage.lane
        /\ stage'.settled = settled /\ stage'.call = stage.call
    BY <1>1, <1>2, <1>3 DEF Stage
  <1>5. \A items : Holds(items, told) => Passes(items, stage')
    BY <1>3, <1>4 DEF Passes
  <1>6. stage.call = NoCall
    BY <1>1 DEF ChainsInv
  <1>7. ChainsTyped'
    BY <1>1, <1>2, <1>4 DEF ChainsTyped, NearTyped
  <1>8. Queue' = Queue
    BY <1>1 DEF Queue
  <1>9. ~AtQueue(stage'.call) /\ stage'.call = NoCall /\ stage'.call \notin Call
    BY <1>4, <1>6, CallCases
  <1>10. CallSound(solver', told', stage', tmp')
    BY <1>1, <1>2, <1>5 DEF CallSound
  <1>11. CallSound(stage'.call, told', stage', tmp')
    BY <1>9 DEF CallSound
  <1>12. Holds(Queue', told') /\ Passes(Queue', stage')
    BY <1>1, <1>2, <1>5, <1>8
  <1>13. SettledStays'
    BY <1>4 DEF SettledStays
  <1> QED
    BY <1>7, <1>9, <1>10, <1>11, <1>12, <1>13 DEF ChainsInv

\* Between two requests a pass has nothing settled to answer for.
LEMMA AskedAgain ==
    ASSUME ChainsInv, stage' \in Stage, stage'.call = NoCall, stage'.at = "ask",
           ~AtQueue(solver') \/ solver' = solver,
           UNCHANGED <<near, sidecar, told>>,
           rows' \in Store, minted' \in 0 .. MaxItems, deaths' \in 0 .. MaxDeaths,
           solver' \in Call \cup {NoCall}, tmp' = tmp
    PROVE  ChainsInv'
  <1>1. /\ ChainsTyped /\ Holds(Queue, told) /\ CallSound(solver, told, stage, tmp)
    BY DEF ChainsInv
  <1>2. ChainsTyped'
    BY <1>1 DEF ChainsTyped, NearTyped
  <1>3. \A items : Passes(items, stage')
    BY DEF Passes
  <1>4. Queue' = Queue
    BY DEF Queue
  <1>5. ~AtQueue(stage'.call) /\ stage'.call \notin Call
    BY CallCases
  <1>6. CallSound(stage'.call, told', stage', tmp')
    BY <1>5 DEF CallSound
  <1>7. CallSound(solver', told', stage', tmp')
    BY <1>1, <1>3, CallCases DEF CallSound
  <1>8. SettledStays'
    BY DEF SettledStays
  <1> QED
    BY <1>1, <1>2, <1>3, <1>4, <1>5, <1>6, <1>7, <1>8 DEF ChainsInv

\* The smallest member of a set of rows is one of them.
LEMMA MinIn ==
    ASSUME NEW c \in SUBSET Ids, c # {}
    PROVE  Min(c) \in c
  <1>1. c \in SUBSET Nat
    BY IdsFinite
  <1>2. \E x \in c : \A y \in c : x <= y
    BY <1>1, LeastOne
  <1> QED
    BY <1>2 DEF Min

LEMMA FirstIn ==
    ASSUME NEW items, items # {}, \A c \in items : c # {} /\ c \subseteq Ids
    PROVE  First(items) \in items
  <1> DEFINE firsts == {Min(c) : c \in items}
  <1>1. \A c \in items : Min(c) \in Nat
    BY MinIn, IdsFinite
  <1>2. firsts \in SUBSET Nat /\ firsts # {}
    BY <1>1
  <1>3. PICK n \in firsts : \A m \in firsts : n <= m
    <2> HIDE DEF firsts
    <2> QED
      BY <1>2, LeastOne
  <1>4. PICK c \in items : n = Min(c)
    BY <1>3
  <1>5. \A d \in items : Min(c) <= Min(d)
    BY <1>3, <1>4
  <1> QED
    BY <1>5 DEF First

\* No item on a page is empty, and none holds what the queue names.
LEMMA PageFacts ==
    ASSUME NearTyped, stage \in Stage
    PROVE  \A c \in Page :
             /\ c # {} /\ c \subseteq Ids
             /\ stage.lane = "marker" => c \cap IssuedRowIds(Queue) = {}
             /\ stage.lane = "subject" => c \cap SubjectRuledIds(Queue) = {}
  <1>1. CASE stage.lane = "cited"
    <2>1. Page = CitedChains(stage.seen, TRUE)
      BY <1>1 DEF Page
    <2>2. \A c \in CitedChains(stage.seen, TRUE) : c # {} /\ c \subseteq Ids
      <3> SUFFICES ASSUME NEW c \in CitedChains(stage.seen, TRUE)
                   PROVE  c # {} /\ c \subseteq Ids
        OBVIOUS
      <3> DEFINE r == stage.seen
                 closed(S) == \A i \in S, j \in Live(r) : Linked(r, i, j) => j \in S
                 component(i) == {j \in Live(r) : \A S \in SUBSET Live(r) :
                                      i \in S /\ closed(S) => j \in S}
      <3>1. PICK i \in InCited(r) : c = component(i)
        BY Zenon DEF CitedChains
      <3>2. i \in Live(r)
        BY DEF InCited
      <3>3. i \in component(i)
        BY <3>2
      <3>4. component(i) \subseteq Live(r) /\ Live(r) \subseteq Ids
        BY DEF Live
      <3> HIDE DEF component
      <3> QED
        BY <3>1, <3>3, <3>4
    <2> QED
      BY <1>1, <2>1, <2>2
  <1>2. CASE stage.lane = "marker"
    <2>1. Page = {{i} : i \in MarkerCandidates(stage.seen, MarkersIssued(Queue))}
      BY <1>2 DEF Page
    <2>2. \A i \in MarkerCandidates(stage.seen, MarkersIssued(Queue)) :
             i \in Ids /\ i \notin IssuedRowIds(Queue)
      BY DEF MarkerCandidates, Live, MarkersIssued
    <2> QED
      BY <1>2, <2>1, <2>2
  <1>3. CASE stage.lane = "subject"
    <2> DEFINE pool == SubjectPool(stage.seen, SubjectRuledIds(Queue))
    <2>1. Page \subseteq Clusters(pool)
      BY <1>3 DEF Page, SubjectClusters
    <2>2. pool \in SUBSET Ids /\ pool \cap SubjectRuledIds(Queue) = {}
      BY DEF SubjectPool, Live
    <2> HIDE DEF pool
    <2>3. \A c \in Clusters(pool) : c \subseteq pool /\ c # {}
      BY <2>2, ClustersGrown DEF GrownTo, StarsOf
    <2> QED
      BY <1>3, <2>1, <2>2, <2>3
  <1>4. stage.lane \in Lanes
    BY DEF Stage
  <1> QED
    BY <1>1, <1>2, <1>3, <1>4 DEF Lanes

LEMMA ServeKeeps == ChainsInv /\ Serve => ChainsInv'
  <1> SUFFICES ASSUME ChainsInv, Serve PROVE ChainsInv'
    OBVIOUS
  <1>1. /\ stage.at = "listed"
        /\ stage' = IF Page = {} THEN Ask(After[stage.lane])
                    ELSE [stage EXCEPT !.at = "served", !.item = First(Page)]
        /\ UNCHANGED <<rows, near, sidecar, tmp, solver, minted, told, deaths>>
    BY DEF Serve
  <1>2. /\ ChainsTyped /\ stage \in Stage /\ solver \in Call \cup {NoCall} /\ NearTyped
        /\ Holds(Queue, told) /\ Passes(Queue, stage) /\ CallSound(solver, told, stage, tmp)
        /\ rows \in Store /\ minted \in 0 .. MaxItems /\ deaths \in 0 .. MaxDeaths
    BY DEF ChainsInv, ChainsTyped
  <1>3. CASE Page = {}
    <2>1. stage' = Ask(After[stage.lane])
      BY <1>1, <1>3
    <2>2. stage' \in Stage /\ stage'.call = NoCall /\ stage'.at = "ask"
      BY <1>2, <2>1, AskTyped
    <2> QED
      BY <1>1, <1>2, <2>2, AskedAgain
  <1>4. CASE Page # {}
    <2> DEFINE item == First(Page)
    <2>1. item \in Page
      BY <1>2, <1>4, PageFacts, FirstIn
    <2>2. /\ item \subseteq Ids
          /\ stage.lane = "marker" => item \cap IssuedRowIds(Queue) = {}
          /\ stage.lane = "subject" => item \cap SubjectRuledIds(Queue) = {}
      BY <1>2, <2>1, PageFacts
    <2> HIDE DEF item
    <2>3. stage' = [stage EXCEPT !.at = "served", !.item = item]
      BY <1>1, <1>4 DEF item
    <2>4. /\ stage' \in Stage /\ stage'.at = "served" /\ stage'.lane = stage.lane
          /\ stage'.item = item /\ stage'.settled = stage.settled /\ stage'.call = stage.call
      BY <1>2, <2>2, <2>3 DEF Stage
    <2>5. stage.lane \in Lanes
      BY <1>2 DEF Stage
    <2>6. SettledStays'
      BY <1>1, <1>2, <2>2, <2>4, <2>5 DEF SettledStays, Passes, Lanes
    <2>7. \A items : Passes(items, stage')
      BY <2>4 DEF Passes
    <2>8. stage'.call = NoCall /\ ~AtQueue(stage'.call) /\ stage'.call \notin Call
      <3>1. stage.call = NoCall
        BY <1>1 DEF ChainsInv
      <3> QED
        BY <2>4, <3>1, CallCases
    <2>9. ChainsTyped'
      BY <1>1, <1>2, <2>4 DEF ChainsTyped, NearTyped
    <2>10. Queue' = Queue
      BY <1>1 DEF Queue
    <2>11. /\ CallSound(solver', told', stage', tmp')
           /\ CallSound(stage'.call, told', stage', tmp')
      BY <1>1, <1>2, <2>7, <2>8 DEF CallSound
    <2> QED
      BY <1>1, <1>2, <2>4, <2>6, <2>7, <2>8, <2>9, <2>10, <2>11 DEF ChainsInv
  <1> QED
    BY <1>3, <1>4

LEMMA MergeKeeps == ChainsInv /\ (Merge \/ Refused) => ChainsInv'
  <1> SUFFICES ASSUME ChainsInv, Merge \/ Refused PROVE ChainsInv'
    OBVIOUS
  <1>1. /\ ChainsTyped /\ stage \in Stage /\ solver \in Call \cup {NoCall}
        /\ rows \in Store /\ minted \in 0 .. MaxItems /\ deaths \in 0 .. MaxDeaths
    BY DEF ChainsInv, ChainsTyped
  <1>2. /\ stage' = Ask(After[stage.lane])
        /\ UNCHANGED <<near, sidecar, tmp, solver, minted, told, deaths>>
    BY DEF Merge, Refused
  <1>3. stage' \in Stage /\ stage'.call = NoCall /\ stage'.at = "ask"
    BY <1>1, <1>2, AskTyped
  <1>4. rows' \in Store
    <2>1. CASE Merge
      <3> DEFINE note == [from |-> "derived", tier |-> "semantic", marked |-> FALSE,
                          cites |-> {}, quiet |-> FALSE]
      <3>1. note \in Row
        BY DEF Row
      <3> HIDE DEF note
      <3>2. PICK gone \in Mergeable, id \in Fresh :
              rows' = [i \in Ids |-> IF i = id THEN note
                                     ELSE IF i \in gone THEN Gone ELSE rows[i]]
        BY <2>1 DEF Merge, note
      <3> QED
        BY <1>1, <3>1, <3>2 DEF Store
    <2>2. CASE Refused
      BY <1>1, <2>2 DEF Refused
    <2> QED
      BY <2>1, <2>2
  <1> QED
    BY <1>1, <1>2, <1>3, <1>4, AskedAgain

LEMMA ChangeKeeps ==
    ASSUME ChainsInv, NEW i \in Ids, Change(i)
    PROVE  ChainsInv'
  <1>1. /\ ChainsTyped /\ rows \in Store /\ rows[i] \in Row
        /\ UNCHANGED <<near, sidecar, tmp, stage, solver, minted, told, deaths>>
    <2>1. ChainsTyped /\ rows \in Store
      BY DEF ChainsInv, ChainsTyped
    <2>2. /\ rows[i] \notin {NoRow, Gone}
          /\ UNCHANGED <<near, sidecar, tmp, stage, solver, minted, told, deaths>>
      BY Zenon DEF Change, Live
    <2> QED
      BY <2>1, <2>2 DEF Store
  <1>2. rows' \in Store
    <2>1. /\ [rows[i] EXCEPT !.from = "user"] \in Row
          /\ [rows[i] EXCEPT !.tier = "core"] \in Row
          /\ [rows[i] EXCEPT !.quiet = TRUE] \in Row
      BY <1>1 DEF Row
    <2>2. \/ rows' = [rows EXCEPT ![i] = [rows[i] EXCEPT !.from = "user"]]
          \/ rows' = [rows EXCEPT ![i] = [rows[i] EXCEPT !.tier = "core"]]
          \/ rows' = [rows EXCEPT ![i] = [rows[i] EXCEPT !.quiet = TRUE]]
      BY DEF Change
    <2> QED
      BY <1>1, <2>1, <2>2 DEF Store
  <1>3. ChainsTyped'
    BY <1>1, <1>2 DEF ChainsTyped, NearTyped
  <1>4. Queue' = Queue
    BY <1>1 DEF Queue
  <1>5. SettledStays'
    BY <1>1 DEF ChainsInv, SettledStays
  <1> QED
    BY <1>1, <1>3, <1>4, <1>5 DEF ChainsInv

LEMMA DieKeeps == ChainsInv /\ Die => ChainsInv'
  <1> SUFFICES ASSUME ChainsInv, Die PROVE ChainsInv'
    OBVIOUS
  <1>1. /\ deaths' = deaths + 1 /\ deaths < MaxDeaths /\ solver' = NoCall
        /\ stage' = IF stage.at = "listed" \/ AtQueue(stage.call)
                    THEN Ask(After[stage.lane]) ELSE stage
        /\ UNCHANGED <<rows, near, sidecar, tmp, minted, told>>
    BY DEF Die
  <1>2. /\ ChainsTyped /\ stage \in Stage /\ rows \in Store /\ minted \in 0 .. MaxItems
        /\ deaths \in 0 .. MaxDeaths /\ Holds(Queue, told) /\ Passes(Queue, stage)
        /\ SettledStays
    BY DEF ChainsInv, ChainsTyped
  <1>3. deaths' \in 0 .. MaxDeaths /\ solver' \in Call \cup {NoCall} /\ ~AtQueue(solver')
        /\ solver' \notin Call
    BY <1>1, <1>2, CallCases, ChainsAssumption
  <1>4. CASE stage.at = "listed" \/ AtQueue(stage.call)
    <2>1. stage' = Ask(After[stage.lane])
      BY <1>1, <1>4
    <2>2. stage' \in Stage /\ stage'.call = NoCall /\ stage'.at = "ask"
      BY <1>2, <2>1, AskTyped
    <2> QED
      BY <1>1, <1>2, <1>3, <2>2, AskedAgain
  <1>5. CASE ~(stage.at = "listed" \/ AtQueue(stage.call))
    <2>1. stage' = stage
      BY <1>1, <1>5
    <2>2. ChainsTyped'
      BY <1>1, <1>2, <1>3, <2>1 DEF ChainsTyped, NearTyped
    <2>3. Queue' = Queue
      BY <1>1 DEF Queue
    <2>4. SettledStays'
      BY <1>2, <2>1 DEF SettledStays
    <2>5. CallSound(solver', told', stage', tmp')
      BY <1>3 DEF CallSound
    <2> QED
      BY <1>1, <1>2, <1>3, <2>1, <2>2, <2>3, <2>4, <2>5 DEF ChainsInv
  <1> QED
    BY <1>4, <1>5

LEMMA BusyCases ==
    ASSUME ChainsInv, ~Busy
    PROVE  stage.call = NoCall /\ solver = NoCall
  <1>1. stage.call \in Call \cup {NoCall} /\ solver \in Call \cup {NoCall}
    BY DEF ChainsInv, ChainsTyped, Stage
  <1> QED
    BY <1>1, CallCases DEF Busy

LEMMA IssueAddKeeps == Overlap = FALSE /\ ChainsInv /\ IssueAdd => ChainsInv'
  <1> SUFFICES ASSUME Overlap = FALSE, ChainsInv, IssueAdd PROVE ChainsInv'
    OBVIOUS
  <1> DEFINE kind == IF stage.lane = "subject" THEN "subject" ELSE "stale-status"
             new == [id |-> minted + 1, kind |-> kind, rows |-> stage.item, status |-> "open"]
  <1>1. /\ stage.at = "served" /\ stage.call = NoCall /\ ~Busy /\ minted < MaxItems
        /\ UNCHANGED <<rows, near, sidecar, tmp, solver, told, deaths>>
        /\ \/ /\ stage' = [stage EXCEPT !.call = Saving(Queue \cup {new}, new)]
              /\ minted' = minted + 1
           \/ stage' = Ask(After[stage.lane]) /\ minted' = minted
    BY Zenon DEF IssueAdd
  <1>2. /\ ChainsTyped /\ stage \in Stage /\ rows \in Store /\ minted \in 0 .. MaxItems
        /\ deaths \in 0 .. MaxDeaths /\ Holds(Queue, told) /\ SettledStays
        /\ solver \in Call \cup {NoCall} /\ sidecar \in IssuesState \cup {Missing}
    BY DEF ChainsInv, ChainsTyped
  <1>3. minted + 1 \in 1 .. MaxItems /\ minted + 1 \in 0 .. MaxItems
    BY <1>1, <1>2, ChainsAssumption
  <1>4. CASE stage' = Ask(After[stage.lane]) /\ minted' = minted
    <2>1. stage' \in Stage /\ stage'.call = NoCall /\ stage'.at = "ask"
      BY <1>2, <1>4, AskTyped
    <2> QED
      BY <1>1, <1>2, <1>4, <2>1, AskedAgain
  <1>5. CASE /\ stage' = [stage EXCEPT !.call = Saving(Queue \cup {new}, new)]
             /\ minted' = minted + 1
    <2> DEFINE call == Saving(Queue \cup {new}, new)
    <2>1. new \in Item
      BY <1>2, <1>3 DEF Item, Stage
    <2> HIDE DEF new
    <2>2. Queue \in SUBSET Item
      BY <1>2, QueueTyped
    <2>3. /\ call \in Call /\ call.at = "open" /\ call.reply \in call.items
          /\ call.items = Queue \cup {new}
      BY <2>1, <2>2 DEF Call, Saving
    <2> HIDE DEF call
    <2>4. /\ stage' \in Stage /\ stage'.at = stage.at /\ stage'.lane = stage.lane
          /\ stage'.item = stage.item /\ stage'.settled = stage.settled /\ stage'.call = call
      BY <1>2, <1>5, <2>3 DEF Stage, call
    <2>5. SettledStays'
      BY <1>2, <2>4 DEF SettledStays
    <2>6. \A items : Passes(items, stage')
      BY <1>1, <2>4 DEF Passes
    <2>7. ChainsTyped'
      BY <1>1, <1>2, <1>3, <1>5, <2>4 DEF ChainsTyped, NearTyped
    <2>8. Queue' = Queue
      BY <1>1 DEF Queue
    <2>9. solver' = NoCall /\ ~AtQueue(solver') /\ solver' \notin Call
      BY <1>1, <1>2, BusyCases, CallCases
    <2>10. Holds(call.items, told)
      BY <1>2, <2>3 DEF Holds
    <2>11. CallSound(solver', told', stage', tmp')
      BY <2>9 DEF CallSound
    <2>12. CallSound(stage'.call, told', stage', tmp')
      BY <1>1, <2>3, <2>4, <2>6, <2>10 DEF CallSound
    <2> QED
      BY <1>1, <1>2, <2>4, <2>5, <2>6, <2>7, <2>8, <2>9, <2>11, <2>12 DEF ChainsInv
  <1> QED
    BY <1>1, <1>4, <1>5

\* One step of a request that alone is at the queue.
SaveEffect(p, next) ==
    \/ /\ p.at = "open"
       /\ next = [p EXCEPT !.at = "fill"]
       /\ tmp' = Torn /\ UNCHANGED <<sidecar, told>>
    \/ /\ p.at = "fill"
       /\ next = [p EXCEPT !.at = "rename"]
       /\ tmp' = [issues |-> p.items] /\ UNCHANGED <<sidecar, told>>
    \/ /\ p.at = "rename"
       /\ next = NoCall
       /\ sidecar' = [issues |-> p.items] /\ tmp' = Missing /\ told' = Acknowledged(p.reply)

LEMMA SaveAlone ==
    ASSUME NEW p, NEW q, NEW next, p \in Call, ~AtQueue(q), Save(p, q, next),
           p.at = "rename" => tmp = [issues |-> p.items]
    PROVE  SaveEffect(p, next)
  <1>1. q.at # "fill"
    BY DEF AtQueue
  <1>2. [issues |-> p.items] \in IssuesState
    BY DEF Call, IssuesState
  <1>3. [issues |-> p.items] # Missing
    BY <1>2, ChainsAssumption
  <1> QED
    BY <1>1, <1>3 DEF Save, SaveStep, SaveEffect

\* What is told when a request answers, it wrote.
LEMMA AnswerHeld ==
    ASSUME NEW t, NEW items, NEW x, Holds(items, t), x \in items, NEW t2,
           t2 = [id \in DOMAIN t \cup {x.id} |-> IF id = x.id THEN x ELSE t[id]]
    PROVE  Holds(items, t2)
  <1> SUFFICES ASSUME NEW id \in DOMAIN t2
               PROVE  \E y \in items :
                        /\ y.id = id /\ y.kind = t2[id].kind /\ y.rows = t2[id].rows
                        /\ t2[id].status # "open" => y.status = t2[id].status
    BY DEF Holds
  <1>1. CASE id = x.id
    BY <1>1
  <1>2. CASE id # x.id
    <2>1. id \in DOMAIN t /\ t2[id] = t[id]
      BY <1>2
    <2> QED
      BY <2>1 DEF Holds
  <1> QED
    BY <1>1, <1>2

\* What is true of a request after a step of it, and of the queue.
LEMMA SaveResult ==
    ASSUME ChainsInv, NEW p, NEW next, p \in Call, SaveEffect(p, next),
           p.reply \in p.items, Holds(p.items, told), Passes(p.items, stage)
    PROVE  /\ sidecar' \in IssuesState \cup {Missing}
           /\ tmp' \in IssuesState \cup {Missing, Torn}
           /\ told' \in [DOMAIN told' -> Item]
           /\ Holds(Queue', told') /\ Passes(Queue', stage)
           /\ next \in Call \cup {NoCall}
           /\ next \in Call => /\ next.items = p.items /\ next.reply = p.reply
                               /\ UNCHANGED told
                               /\ next.at = "rename" => tmp' = [issues |-> next.items]
  <1>1. /\ sidecar \in IssuesState \cup {Missing} /\ told \in [DOMAIN told -> Item]
        /\ Holds(Queue, told) /\ Passes(Queue, stage)
    BY DEF ChainsInv, ChainsTyped
  <1>2. p.items \in SUBSET Item /\ p.reply \in Item /\ [issues |-> p.items] \in IssuesState
    BY DEF Call, IssuesState
  <1>3. CASE p.at \in {"open", "fill"}
    <2>1. /\ UNCHANGED <<sidecar, told>>
          /\ \/ next = [p EXCEPT !.at = "fill"] /\ tmp' = Torn
             \/ next = [p EXCEPT !.at = "rename"] /\ tmp' = [issues |-> p.items]
      BY <1>3 DEF SaveEffect
    <2>2. Queue' = Queue
      BY <2>1 DEF Queue
    <2>3. /\ next \in Call /\ next.items = p.items /\ next.reply = p.reply
          /\ next.at = "rename" => tmp' = [issues |-> next.items]
      BY <2>1 DEF Call
    <2>4. tmp' \in IssuesState \cup {Missing, Torn}
      BY <1>2, <2>1
    <2> QED
      BY <1>1, <2>1, <2>2, <2>3, <2>4
  <1>4. CASE p.at = "rename"
    <2>1. /\ next = NoCall /\ sidecar' = [issues |-> p.items] /\ tmp' = Missing
          /\ told' = Acknowledged(p.reply)
      BY <1>4 DEF SaveEffect
    <2>2. Queue' = p.items
      <3>1. [issues |-> p.items] \notin {Missing, Torn}
        BY <1>2, ChainsAssumption
      <3> QED
        BY <2>1, <3>1 DEF Queue
    <2>3. told' = [id \in DOMAIN told \cup {p.reply.id} |->
                     IF id = p.reply.id THEN p.reply ELSE told[id]]
      BY <2>1 DEF Acknowledged
    <2>4. told' \in [DOMAIN told' -> Item]
      <3>1. \A id \in DOMAIN told' : told'[id] \in Item
        BY <1>1, <1>2, <2>3
      <3> QED
        BY <2>3, <3>1
    <2>5. Holds(p.items, told')
      BY <2>3, AnswerHeld
    <2>6. next \notin Call
      BY <2>1, CallCases
    <2> QED
      BY <1>2, <2>1, <2>2, <2>4, <2>5, <2>6
  <1> QED
    BY <1>3, <1>4 DEF Call

LEMMA IssueAddingKeeps == ChainsInv /\ IssueAdding => ChainsInv'
  <1> SUFFICES ASSUME ChainsInv, IssueAdding PROVE ChainsInv'
    OBVIOUS
  <1> DEFINE p == stage.call
  <1>1. PICK next : /\ AtQueue(p) /\ Save(p, solver, next)
                    /\ stage' = IF next = NoCall THEN Ask(After[stage.lane])
                                ELSE [stage EXCEPT !.call = next]
                    /\ UNCHANGED <<rows, near, solver, minted, deaths>>
    BY DEF IssueAdding
  <1>2. /\ ChainsTyped /\ stage \in Stage /\ rows \in Store /\ minted \in 0 .. MaxItems
        /\ deaths \in 0 .. MaxDeaths /\ solver \in Call \cup {NoCall} /\ NearTyped
        /\ p \in Call \cup {NoCall} /\ CallSound(p, told, stage, tmp) /\ SettledStays
    BY DEF ChainsInv, ChainsTyped, Stage
  <1>3. p \in Call /\ p # NoCall /\ ~AtQueue(solver) /\ stage.at = "served"
    BY <1>1, <1>2, CallCases DEF ChainsInv
  <1>4. solver' = NoCall /\ ~AtQueue(solver') /\ solver' \notin Call
    BY <1>1, <1>2, <1>3, CallCases
  <1>5. /\ SaveEffect(p, next) /\ p.reply \in p.items
        /\ Holds(p.items, told) /\ Passes(p.items, stage)
    BY <1>1, <1>2, <1>3, SaveAlone DEF CallSound
  <1>6. /\ sidecar' \in IssuesState \cup {Missing} /\ tmp' \in IssuesState \cup {Missing, Torn}
        /\ told' \in [DOMAIN told' -> Item]
        /\ Holds(Queue', told')
        /\ next \in Call \cup {NoCall}
        /\ next \in Call => /\ next.items = p.items /\ next.reply = p.reply
                            /\ UNCHANGED told
                            /\ next.at = "rename" => tmp' = [issues |-> next.items]
    BY <1>3, <1>5, SaveResult
  <1> HIDE DEF p
  <1>7. stage' \in Stage /\ stage'.call = next /\ stage'.at # "listed"
    <2>1. CASE next = NoCall
      BY <1>1, <1>2, <2>1, AskTyped
    <2>2. CASE next # NoCall
      BY <1>1, <1>2, <1>3, <1>6, <2>2 DEF Stage
    <2> QED
      BY <2>1, <2>2
  <1>8. \A items : Passes(items, stage')
    BY <1>7 DEF Passes
  <1>9. next # NoCall => stage'.at = "served"
    BY <1>1, <1>2, <1>3 DEF Stage
  <1>10. SettledStays'
    <2>1. CASE next = NoCall
      BY <1>1, <1>2, <2>1, AskTyped DEF SettledStays
    <2>2. CASE next # NoCall
      <3>1. /\ stage'.at = stage.at /\ stage'.lane = stage.lane /\ stage'.item = stage.item
            /\ stage'.settled = stage.settled
        BY <1>1, <1>2, <2>2 DEF Stage
      <3> QED
        BY <1>2, <3>1 DEF SettledStays
    <2> QED
      BY <2>1, <2>2
  <1>11. ChainsTyped'
    BY <1>1, <1>2, <1>6, <1>7 DEF ChainsTyped, NearTyped
  <1>12. CallSound(stage'.call, told', stage', tmp')
    BY <1>5, <1>6, <1>7, <1>8 DEF CallSound
  <1>13. CallSound(solver', told', stage', tmp')
    BY <1>4 DEF CallSound
  <1> QED
    BY <1>4, <1>6, <1>7, <1>8, <1>9, <1>10, <1>11, <1>12, <1>13 DEF ChainsInv

LEMMA IssueResolvingKeeps == ChainsInv /\ IssueResolving => ChainsInv'
  <1> SUFFICES ASSUME ChainsInv, IssueResolving PROVE ChainsInv'
    OBVIOUS
  <1>1. /\ AtQueue(solver) /\ Save(solver, stage.call, solver')
        /\ UNCHANGED <<rows, near, stage, minted, deaths>>
    BY DEF IssueResolving
  <1>2. /\ ChainsTyped /\ stage \in Stage /\ stage.call \in Call \cup {NoCall}
        /\ solver \in Call \cup {NoCall} /\ CallSound(solver, told, stage, tmp) /\ SettledStays
    BY DEF ChainsInv, ChainsTyped, Stage
  <1>3. /\ solver \in Call
        /\ ~AtQueue(stage.call) /\ stage.call = NoCall /\ stage.call \notin Call
    BY <1>1, <1>2, CallCases DEF ChainsInv
  <1>4. /\ SaveEffect(solver, solver') /\ solver.reply \in solver.items
        /\ Holds(solver.items, told) /\ Passes(solver.items, stage)
    BY <1>1, <1>2, <1>3, SaveAlone DEF CallSound
  <1>5. /\ sidecar' \in IssuesState \cup {Missing} /\ tmp' \in IssuesState \cup {Missing, Torn}
        /\ told' \in [DOMAIN told' -> Item]
        /\ Holds(Queue', told') /\ Passes(Queue', stage)
        /\ solver' \in Call \cup {NoCall}
        /\ solver' \in Call => /\ solver'.items = solver.items /\ solver'.reply = solver.reply
                               /\ UNCHANGED told
                               /\ solver'.at = "rename" => tmp' = [issues |-> solver'.items]
    BY <1>3, <1>4, SaveResult
  <1>6. stage' = stage
    BY <1>1
  <1>7. CallSound(solver', told', stage', tmp')
    BY <1>4, <1>5, <1>6 DEF CallSound
  <1>8. CallSound(stage'.call, told', stage', tmp')
    BY <1>3, <1>6 DEF CallSound
  <1>9. ChainsTyped'
    BY <1>1, <1>2, <1>5 DEF ChainsTyped, NearTyped
  <1>10. SettledStays'
    BY <1>2, <1>6 DEF SettledStays
  <1> QED
    BY <1>3, <1>5, <1>6, <1>7, <1>8, <1>9, <1>10 DEF ChainsInv

LEMMA IssueResolveKeeps ==
    ASSUME Overlap = FALSE, ChainsInv, NEW outcome \in {"resolved", "dismissed"},
           IssueResolve(outcome)
    PROVE  ChainsInv'
  <1>1. PICK x \in Queue :
          /\ x.status = "open"
          /\ LET closed == [x EXCEPT !.status = outcome]
             IN  solver' = Saving((Queue \ {x}) \cup {closed}, closed)
    BY DEF IssueResolve
  <1> DEFINE closed == [x EXCEPT !.status = outcome]
             items == (Queue \ {x}) \cup {closed}
  <1>2. /\ solver' = Saving(items, closed) /\ ~Busy
        /\ UNCHANGED <<rows, near, sidecar, tmp, stage, minted, told, deaths>>
    BY <1>1 DEF IssueResolve
  <1>3. /\ ChainsTyped /\ stage \in Stage /\ sidecar \in IssuesState \cup {Missing}
        /\ Holds(Queue, told) /\ Passes(Queue, stage) /\ SettledStays
    BY DEF ChainsInv, ChainsTyped
  <1>4. Queue \in SUBSET Item /\ x \in Item
    BY <1>1, <1>3, QueueTyped
  <1>5. /\ closed \in Item /\ closed.id = x.id /\ closed.kind = x.kind /\ closed.rows = x.rows
    BY <1>4 DEF Item
  <1> HIDE DEF closed
  <1>6. Holds(items, told)
    <2> SUFFICES ASSUME NEW id \in DOMAIN told
                 PROVE  \E y \in items :
                          /\ y.id = id /\ y.kind = told[id].kind /\ y.rows = told[id].rows
                          /\ told[id].status # "open" => y.status = told[id].status
      BY DEF Holds
    <2>1. PICK y \in Queue : /\ y.id = id /\ y.kind = told[id].kind /\ y.rows = told[id].rows
                             /\ told[id].status # "open" => y.status = told[id].status
      BY <1>3 DEF Holds
    <2>2. CASE y = x
      <3>1. told[id].status = "open"
        BY <1>1, <2>1, <2>2
      <3> QED
        BY <1>5, <2>1, <2>2, <3>1
    <2>3. CASE y # x
      BY <2>1, <2>3
    <2> QED
      BY <2>2, <2>3
  <1>7. Passes(items, stage)
    <2>1. \A y \in Queue : \E z \in items : z.kind = y.kind /\ z.rows = y.rows
      BY <1>5
    <2> HIDE DEF items
    <2>2. IssuedRowIds(Queue) \subseteq IssuedRowIds(items)
      BY <2>1 DEF IssuedRowIds
    <2>3. SubjectRuledIds(Queue) \subseteq SubjectRuledIds(items)
      BY <2>1 DEF SubjectRuledIds, IssuedRowIds
    <2> QED
      BY <1>3, <2>2, <2>3 DEF Passes
  <1>8. /\ solver' \in Call /\ solver'.at = "open" /\ solver'.items = items
        /\ solver'.reply = closed /\ closed \in items
    BY <1>2, <1>4, <1>5 DEF Saving, Call
  <1> HIDE DEF items
  <1>9. stage.call = NoCall /\ ~AtQueue(stage.call) /\ stage.call \notin Call
    BY <1>2, BusyCases, CallCases
  <1>10. CallSound(solver', told', stage', tmp')
    BY <1>2, <1>6, <1>7, <1>8 DEF CallSound
  <1>11. CallSound(stage'.call, told', stage', tmp')
    BY <1>2, <1>9 DEF CallSound
  <1>12. Queue' = Queue
    BY <1>2 DEF Queue
  <1>13. ChainsTyped'
    BY <1>2, <1>3, <1>8 DEF ChainsTyped, NearTyped
  <1>14. SettledStays'
    BY <1>2, <1>3 DEF SettledStays
  <1> QED
    BY <1>2, <1>3, <1>9, <1>10, <1>11, <1>12, <1>13, <1>14 DEF ChainsInv

LEMMA ChainsStarts == ChainsInit => ChainsInv
  <1> SUFFICES ASSUME ChainsInit PROVE ChainsInv
    OBVIOUS
  <1>1. PICK w \in Worlds :
          /\ rows = w.rows /\ near = w.near
          /\ sidecar = Missing /\ tmp = Missing /\ stage = Ask("cited") /\ solver = NoCall
          /\ minted = 0 /\ told = <<>> /\ deaths = 0
    BY DEF ChainsInit, InitIn
  <1>2. rows \in Store /\ NearTyped
    BY <1>1, ChainsAssumption DEF Store, NearTyped
  <1>3. stage \in Stage /\ stage.call = NoCall /\ stage.at = "ask"
    <2>1. "cited" \in Lanes
      BY DEF Lanes
    <2> QED
      BY <1>1, <2>1, AskOf
  <1>4. told \in [DOMAIN told -> Item] /\ DOMAIN told = {}
    BY <1>1
  <1>5. ChainsTyped
    BY <1>1, <1>2, <1>3, <1>4, ChainsAssumption DEF ChainsTyped
  <1>6. Holds(Queue, told) /\ Passes(Queue, stage) /\ SettledStays
    BY <1>3, <1>4 DEF Holds, Passes, SettledStays
  <1>7. ~AtQueue(stage.call) /\ stage.call \notin Call /\ solver \notin Call
    BY <1>1, <1>3, CallCases
  <1>8. CallSound(stage.call, told, stage, tmp) /\ CallSound(solver, told, stage, tmp)
    BY <1>7 DEF CallSound
  <1> QED
    BY <1>3, <1>5, <1>6, <1>7, <1>8 DEF ChainsInv

LEMMA ChainsStutter == ChainsInv /\ UNCHANGED chainsVars => ChainsInv'
  <1> SUFFICES ASSUME ChainsInv, UNCHANGED chainsVars PROVE ChainsInv'
    OBVIOUS
  <1>1. UNCHANGED <<rows, near, sidecar, tmp, stage, solver, minted, told, deaths>>
    BY DEF chainsVars
  <1>2. Queue' = Queue
    BY <1>1 DEF Queue
  <1>3. ChainsTyped' /\ SettledStays'
    BY <1>1 DEF ChainsInv, ChainsTyped, NearTyped, SettledStays
  <1> QED
    BY <1>1, <1>2, <1>3 DEF ChainsInv

LEMMA ChainsKeeps == Overlap = FALSE /\ ChainsInv /\ [ChainsNext]_chainsVars => ChainsInv'
  <1> SUFFICES ASSUME Overlap = FALSE, ChainsInv, [ChainsNext]_chainsVars PROVE ChainsInv'
    OBVIOUS
  <1>1. CASE List
    BY <1>1, ListKeeps
  <1>2. CASE Serve
    BY <1>2, ServeKeeps
  <1>3. CASE Merge \/ Refused
    BY <1>3, MergeKeeps
  <1>4. CASE IssueAdd
    BY <1>4, IssueAddKeeps
  <1>5. CASE IssueAdding
    BY <1>5, IssueAddingKeeps
  <1>6. CASE IssueResolving
    BY <1>6, IssueResolvingKeeps
  <1>7. CASE Die
    BY <1>7, DieKeeps
  <1>8. ASSUME NEW outcome \in {"resolved", "dismissed"}, IssueResolve(outcome)
        PROVE  ChainsInv'
    BY <1>8, IssueResolveKeeps
  <1>9. ASSUME NEW i \in Ids, Change(i) PROVE ChainsInv'
    BY <1>9, ChangeKeeps
  <1>10. CASE UNCHANGED chainsVars
    BY <1>10, ChainsStutter
  <1> QED
    BY <1>1, <1>2, <1>3, <1>4, <1>5, <1>6, <1>7, <1>8, <1>9, <1>10 DEF ChainsNext, PassStep

LEMMA QueueAlways == Overlap = FALSE => (ChainsSpec => []ChainsInv)
  <1> SUFFICES ASSUME Overlap = FALSE PROVE ChainsSpec => []ChainsInv
    OBVIOUS
  <1>1. ChainsInv /\ [ChainsNext]_chainsVars => ChainsInv'
    BY ChainsKeeps
  <1> QED
    BY <1>1, ChainsStarts, PTL DEF ChainsSpec

(***************************************************************************)
(* Everything keeps its type; while no two requests to the queue overlap,  *)
(* the sidecar is never half written, only the file beside it.             *)
(***************************************************************************)
THEOREM ChainsTypes == Overlap = FALSE => (ChainsSpec => []ChainsTyped)
  <1>1. ChainsInv => ChainsTyped
    BY DEF ChainsInv
  <1> QED
    BY <1>1, QueueAlways, PTL

(***************************************************************************)
(* QueueKept, for any rows and closeness, any bounds and any death of the  *)
(* daemon, while no two requests to the queue overlap: what it             *)
(* acknowledged it keeps, and a closed item stays closed.                  *)
(***************************************************************************)
THEOREM QueueStaysKept == Overlap = FALSE => (ChainsSpec => []QueueKept)
  <1>1. ChainsInv => QueueKept
    BY DEF ChainsInv, Holds, QueueKept
  <1> QED
    BY <1>1, QueueAlways, PTL

(***************************************************************************)
(* SettledStays, under the same condition: what was acknowledged before a  *)
(* scan began is in no item that it serves, whatever is closed meanwhile.  *)
(***************************************************************************)
THEOREM SettledNeverServed == Overlap = FALSE => (ChainsSpec => []SettledStays)
  <1>1. ChainsInv => SettledStays
    BY DEF ChainsInv
  <1> QED
    BY <1>1, QueueAlways, PTL

(***************************************************************************)
(* ClustersSound, for any rows and any closeness: the subject clusters are *)
(* disjoint stars of the right size and leave none behind.                 *)
(***************************************************************************)
THEOREM ClustersStaySound == ChainsSpec => []ClustersSound
  <1>1. ChainsInit => NearTyped
    BY ChainsAssumption DEF ChainsInit, InitIn, NearTyped
  <1>2. NearTyped /\ [ChainsNext]_chainsVars => NearTyped'
    <2>1. [ChainsNext]_chainsVars => near' = near
      BY Zenon DEF ChainsNext, PassStep, List, Serve, Merge, Refused, IssueAdd, IssueAdding,
        IssueResolving, Die, IssueResolve, Change, chainsVars
    <2> QED
      BY <2>1 DEF NearTyped
  <1> QED
    BY <1>1, <1>2, ClustersAlways, PTL DEF ChainsSpec
=============================================================================
