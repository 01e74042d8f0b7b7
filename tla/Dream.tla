-------------------------------- MODULE Dream --------------------------------
(***************************************************************************)
(* The dream: days of staged (episodic) rows are judged by agents, each    *)
(* under a lease on the day (src/src/http/lease.rs), the judgement is a    *)
(* stamp in `.days.json` (remember_day, src/src/http/days.rs), and the     *)
(* sweep deletes staged rows that were created before their day's stamp.   *)
(*                                                                         *)
(* Times are not modelled.  "Created before the stamp" is kept as a set:   *)
(* a stamp `covers` the rows that had been created when it was made.  A    *)
(* lease that ran out and no lease are treated alike by every reader, so   *)
(* running out is a step.  Which rows are past their TTL is any set.       *)
(* `.days.json` is loaded and saved without a lock by three handlers:      *)
(* each load and each save is a step.  Every day here is a past day.       *)
(***************************************************************************)
EXTENDS Naturals, FiniteSets

CONSTANTS
    Days,       \* past local days
    Rows,       \* rows, each created at most once
    Agents,     \* who makes passes: the engine's mission, a host's /dream session
    Holders,    \* the names they take leases under
    HolderOf,   \* agent -> its name
    NoOne,      \* no holder
    NoDay,      \* no day
    Late,       \* whether rows may join a day a pass is at work on
    CountCap,   \* where the judged counter saturates
    MaxLapses,  \* bound: leases that run out under a pass
    MaxCrashes  \* bound: agents that stop in the middle of a pass, daemon restarts

ASSUME DreamAssumption ==
    /\ NoOne \notin Holders
    /\ HolderOf \in [Agents -> Holders]
    /\ NoDay \notin Days
    /\ IsFiniteSet(Rows)
    /\ Late \in BOOLEAN
    /\ CountCap \in Nat
    /\ MaxLapses \in Nat
    /\ MaxCrashes \in Nat

VARIABLES
    state,      \* row -> "unborn", "forming" (created, being embedded), "staged", "gone"
    day,        \* row -> the day of its effective timestamp
    file,       \* .days.json: day -> its record
    lease,      \* .dream-lease.json: day -> who holds it
    pass,       \* agent -> the pass it is making
    harvest,    \* the harvest_day handler
    sweep,      \* the sweep handler
    judged,     \* ghost: rows some stamped pass had on its worklist
    swept,      \* ghost: rows the sweep deleted
    stamped,    \* ghost: day -> rows created before some stamp of it
    slipped,    \* ghost: rows that joined a day under a pass or behind its stamp
    asked,      \* ghost: day -> judged counts of the stamps answered "ok"
    lapses,     \* leases run out under a pass so far
    crashes     \* crashes so far

rowVars == <<state, day>>
handlerVars == <<harvest, sweep>>
ghostVars == <<judged, swept, stamped, slipped, asked>>
vars == <<rowVars, file, lease, pass, handlerVars, ghostVars, lapses, crashes>>

-----------------------------------------------------------------------------
Records == [remembered : BOOLEAN, covers : SUBSET Rows, harvested : BOOLEAN,
            judged : 0 .. CountCap]

NoRecord == [remembered |-> FALSE, covers |-> {}, harvested |-> FALSE, judged |-> 0]

Phases == {"idle", "locked", "judging", "cleared", "saving", "stamped"}

Created == {r \in Rows : state[r] # "unborn"}
Staged == {r \in Rows : state[r] = "staged"}

\* saturating_add on the day's counter.
SatAdd(x, n) == IF x + n > CountCap THEN CountCap ELSE x + n

NoFile == [d \in Days |-> NoRecord]

\* `lapsed` is a ghost: the pass's lease has run out under it.
Idle == [phase |-> "idle", day |-> NoDay, read |-> {}, loaded |-> NoFile, lapsed |-> FALSE]

NoHarvest == [busy |-> FALSE, day |-> NoDay, loaded |-> NoFile]

NoSweep == [phase |-> "idle", loaded |-> NoFile, victims |-> {}, removed |-> {}]

TypeOK ==
    /\ state \in [Rows -> {"unborn", "forming", "staged", "gone"}]
    /\ day \in [Rows -> Days \cup {NoDay}]
    /\ file \in [Days -> Records]
    /\ lease \in [Days -> Holders \cup {NoOne}]
    /\ pass \in [Agents -> [phase : Phases, day : Days \cup {NoDay},
                            read : SUBSET Rows, loaded : [Days -> Records],
                            lapsed : BOOLEAN]]
    /\ harvest \in [busy : BOOLEAN, day : Days \cup {NoDay}, loaded : [Days -> Records]]
    /\ sweep \in [phase : {"idle", "loaded", "deleting"}, loaded : [Days -> Records],
                  victims : SUBSET Rows, removed : SUBSET Rows]
    /\ judged \subseteq Rows /\ swept \subseteq Rows /\ slipped \subseteq Rows
    /\ stamped \in [Days -> SUBSET Rows]
    /\ asked \in [Days -> 0 .. CountCap]
    /\ lapses \in 0 .. MaxLapses
    /\ crashes \in 0 .. MaxCrashes

Init ==
    /\ state = [r \in Rows |-> "unborn"]
    /\ day = [r \in Rows |-> NoDay]
    /\ file = NoFile
    /\ lease = [d \in Days |-> NoOne]
    /\ pass = [a \in Agents |-> Idle]
    /\ harvest = NoHarvest
    /\ sweep = NoSweep
    /\ judged = {} /\ swept = {} /\ slipped = {}
    /\ stamped = [d \in Days |-> {}]
    /\ asked = [d \in Days |-> 0]
    /\ lapses = 0 /\ crashes = 0

-----------------------------------------------------------------------------
\* Rows.  created_at is taken when the request comes in, the row is inserted
\* once its text is embedded; occurred_at puts it on a day, and an update may
\* put it on another.

\* A pass that will stamp d has read its worklist, or is about to save.
UnderPass(d) ==
    \E a \in Agents : pass[a].day = d /\ pass[a].phase \in {"judging", "cleared", "saving"}

\* r joins d.  Unless Late, only while nobody judges d and no stamp is younger
\* than r: the ordinary row, captured on its own day before that day is over.
Join(r, d) ==
    /\ Late \/ (~UnderPass(d) /\ r \notin stamped[d])
    /\ day' = [day EXCEPT ![r] = d]
    /\ slipped' = IF UnderPass(d) \/ r \in stamped[d] THEN slipped \cup {r} ELSE slipped

Create(r) ==
    /\ state[r] = "unborn"
    /\ state' = [state EXCEPT ![r] = "forming"]
    /\ UNCHANGED <<day, file, lease, pass, handlerVars, ghostVars, lapses, crashes>>

Insert(r, d) ==
    /\ state[r] = "forming"
    /\ state' = [state EXCEPT ![r] = "staged"]
    /\ Join(r, d)
    /\ UNCHANGED <<file, lease, pass, handlerVars, judged, swept, stamped, asked,
                   lapses, crashes>>

Redate(r, d) ==
    /\ state[r] = "staged" /\ day[r] # d
    /\ Join(r, d)
    /\ UNCHANGED <<state, file, lease, pass, handlerVars, judged, swept, stamped, asked,
                   lapses, crashes>>

\* Any other delete of a staged row: by hand, by replace_ids, by a promotion.
Delete(r) ==
    /\ state[r] = "staged"
    /\ state' = [state EXCEPT ![r] = "gone"]
    /\ UNCHANGED <<day, file, lease, pass, handlerVars, ghostVars, lapses, crashes>>

-----------------------------------------------------------------------------
\* The lease.  decide holds LOCK over its load and save: one step.

HeldByOther(d, a) == lease[d] \notin {NoOne, HolderOf[a]}

\* decide for "acquire" and "renew", which it does not tell apart.
Grant(d, a) ==
    /\ ~HeldByOther(d, a)
    /\ lease' = [lease EXCEPT ![d] = HolderOf[a]]

\* The agents at work on d under the name its lease is in.
AtWork(d) == {a \in Agents : pass[a].day = d /\ HolderOf[a] = lease[d]}

LeaseRunsOut(d) ==
    /\ lease[d] # NoOne
    /\ AtWork(d) # {} => lapses < MaxLapses
    /\ lease' = [lease EXCEPT ![d] = NoOne]
    /\ lapses' = IF AtWork(d) = {} THEN lapses ELSE lapses + 1
    /\ pass' = [a \in Agents |->
                   IF a \in AtWork(d) THEN [pass[a] EXCEPT !.lapsed = TRUE] ELSE pass[a]]
    /\ UNCHANGED <<rowVars, file, handlerVars, ghostVars, crashes>>

-----------------------------------------------------------------------------
\* One agent's pass over a day (the steps the handlers serve it).

\* days: rows of d the rollup counts as unjudged; list --unjudged: the same.
Unjudged(d) == {r \in Staged : day[r] = d /\ r \notin file[d].covers}

Dreamed(d) == file[d].remembered /\ Unjudged(d) = {}

Acquire(a, d) ==
    /\ pass[a].phase = "idle"
    /\ Unjudged(d) # {}
    /\ Grant(d, a)
    /\ pass' = [pass EXCEPT ![a].phase = "locked", ![a].day = d]
    /\ UNCHANGED <<rowVars, file, handlerVars, ghostVars, lapses, crashes>>

Renew(a) ==
    /\ pass[a].phase \in {"locked", "judging"}
    /\ Grant(pass[a].day, a)
    /\ UNCHANGED <<rowVars, file, pass, handlerVars, ghostVars, lapses, crashes>>

ReadWorklist(a) ==
    /\ pass[a].phase = "locked"
    /\ pass' = [pass EXCEPT ![a].phase = "judging", ![a].read = Unjudged(pass[a].day)]
    /\ UNCHANGED <<rowVars, file, lease, handlerVars, ghostVars, lapses, crashes>>

\* remember_day: the check of the lease ...
RememberCheck(a) ==
    /\ pass[a].phase = "judging"
    /\ pass' = IF HeldByOther(pass[a].day, a)
               THEN [pass EXCEPT ![a] = Idle]
               ELSE [pass EXCEPT ![a].phase = "cleared"]
    /\ UNCHANGED <<rowVars, file, lease, handlerVars, ghostVars, lapses, crashes>>

\* Mutant: the wrong one of the record's two times.
RememberedElsewhere(rec, n) ==
    [rec EXCEPT !.harvested = TRUE, !.judged = SatAdd(rec.judged, n)]

\* ... the load of `.days.json` and the stamp, now, in what was loaded (promoted
\* is a count like judged; a dream pass leaves `harvested` out) ...
Remembered(rec, n) ==
    [rec EXCEPT !.remembered = TRUE, !.covers = Created, !.judged = SatAdd(rec.judged, n)]

RememberLoad(a) ==
    LET d == pass[a].day IN
    /\ pass[a].phase = "cleared"
    /\ pass' = [pass EXCEPT ![a].phase = "saving",
                    ![a].loaded = [file EXCEPT ![d] =
                                      Remembered(file[d], Cardinality(pass[a].read))]]
    /\ judged' = judged \cup pass[a].read
    /\ stamped' = [stamped EXCEPT ![d] = @ \cup Created]
    /\ UNCHANGED <<rowVars, file, lease, handlerVars, swept, slipped, asked, lapses, crashes>>

\* ... and the save of all of it.
RememberSave(a) ==
    LET d == pass[a].day IN
    /\ pass[a].phase = "saving"
    /\ file' = pass[a].loaded
    /\ pass' = [pass EXCEPT ![a].phase = "stamped", ![a].loaded = NoFile]
    /\ asked' = [asked EXCEPT ![d] = SatAdd(@, Cardinality(pass[a].read))]
    /\ UNCHANGED <<rowVars, lease, handlerVars, judged, swept, stamped, slipped,
                   lapses, crashes>>

\* release: refused when another holds the day by now, else the day is free.
Release(a) ==
    LET d == pass[a].day IN
    /\ pass[a].phase = "stamped"
    /\ lease' = IF HeldByOther(d, a) THEN lease ELSE [lease EXCEPT ![d] = NoOne]
    /\ pass' = [pass EXCEPT ![a] = Idle]
    /\ UNCHANGED <<rowVars, file, handlerVars, ghostVars, lapses, crashes>>

\* The agent stops; a remember_day it has sent is still served to its end.
Crash(a) ==
    /\ crashes < MaxCrashes
    /\ pass[a].phase \in {"locked", "judging", "stamped"}
    /\ pass' = [pass EXCEPT ![a] = Idle]
    /\ crashes' = crashes + 1
    /\ UNCHANGED <<rowVars, file, lease, handlerVars, ghostVars, lapses>>

-----------------------------------------------------------------------------
\* harvest_day: load, stamp harvested_at, save.

HarvestLoad(d) ==
    /\ ~harvest.busy /\ ~file[d].harvested
    /\ harvest' = [busy |-> TRUE, day |-> d, loaded |-> file]
    /\ UNCHANGED <<rowVars, file, lease, pass, sweep, ghostVars, lapses, crashes>>

\* Mutant: a scan counts as a judgement.
HarvestedAndJudged(rec) ==
    [rec EXCEPT !.harvested = TRUE, !.remembered = TRUE, !.covers = Created]

Harvested(rec) == [rec EXCEPT !.harvested = TRUE]

HarvestSave ==
    LET d == harvest.day IN
    /\ harvest.busy
    /\ file' = [harvest.loaded EXCEPT ![d] = Harvested(@)]
    /\ harvest' = NoHarvest
    /\ UNCHANGED <<rowVars, lease, pass, sweep, ghostVars, lapses, crashes>>

-----------------------------------------------------------------------------
\* sweep: load `.days.json`, list the rows, delete the victims one by one,
\* then save what was loaded if any delete hit.

SweepLoad ==
    /\ sweep.phase = "idle"
    /\ sweep' = [sweep EXCEPT !.phase = "loaded", !.loaded = file]
    /\ UNCHANGED <<rowVars, file, lease, pass, harvest, ghostVars, lapses, crashes>>

Evictable(r, records) ==
    \E d \in Days : day[r] = d /\ records[d].remembered /\ r \in records[d].covers

SweepList(pastTtl) ==
    /\ sweep.phase = "loaded"
    /\ sweep' = [sweep EXCEPT !.phase = "deleting",
                    !.victims = {r \in Staged \cap pastTtl : Evictable(r, sweep.loaded)}]
    /\ UNCHANGED <<rowVars, file, lease, pass, harvest, ghostVars, lapses, crashes>>

SweepDelete(r) ==
    /\ sweep.phase = "deleting" /\ r \in sweep.victims
    /\ state' = [state EXCEPT ![r] = "gone"]
    /\ sweep' = [sweep EXCEPT !.victims = @ \ {r},
                    !.removed = IF r \in Staged THEN @ \cup {r} ELSE @]
    /\ swept' = IF r \in Staged THEN swept \cup {r} ELSE swept
    /\ UNCHANGED <<day, file, lease, pass, harvest, judged, stamped, slipped, asked,
                   lapses, crashes>>

SweepSave ==
    /\ sweep.phase = "deleting" /\ sweep.victims = {}
    /\ file' = IF sweep.removed = {} THEN file ELSE sweep.loaded
    /\ sweep' = NoSweep
    /\ UNCHANGED <<rowVars, lease, pass, harvest, ghostVars, lapses, crashes>>

\* The daemon restarts: calls being served are lost, their agents try again.
Restart ==
    /\ crashes < MaxCrashes
    /\ pass' = [a \in Agents |->
                   IF pass[a].phase \in {"cleared", "saving"}
                   THEN [pass[a] EXCEPT !.phase = "judging", !.loaded = NoFile]
                   ELSE pass[a]]
    /\ harvest' = NoHarvest
    /\ sweep' = NoSweep
    /\ state' = [r \in Rows |-> IF state[r] = "forming" THEN "gone" ELSE state[r]]
    /\ crashes' = crashes + 1
    /\ UNCHANGED <<day, file, lease, ghostVars, lapses>>

-----------------------------------------------------------------------------
AgentStep(a) ==
    \/ \E d \in Days : Acquire(a, d)
    \/ Renew(a)
    \/ ReadWorklist(a)
    \/ RememberCheck(a)
    \/ RememberLoad(a)
    \/ RememberSave(a)
    \/ Release(a)

SweepStep ==
    \/ SweepLoad
    \/ \E pastTtl \in SUBSET Rows : SweepList(pastTtl)
    \/ \E r \in Rows : SweepDelete(r)
    \/ SweepSave

Next ==
    \/ \E r \in Rows : Create(r) \/ Delete(r)
    \/ \E r \in Rows, d \in Days : Insert(r, d) \/ Redate(r, d)
    \/ \E d \in Days : LeaseRunsOut(d) \/ HarvestLoad(d)
    \/ HarvestSave
    \/ SweepStep
    \/ Restart
    \/ \E a \in Agents : AgentStep(a) \/ Crash(a)

Spec == Init /\ [][Next]_vars

\* Agents come back night after night and end their calls, handlers run on,
\* clocks do.  Nobody has to sweep, to add rows or to renew.
FairSpec ==
    /\ Spec
    /\ WF_vars(\E a \in Agents, d \in Days : Acquire(a, d))
    /\ \A a \in Agents :
          WF_vars(ReadWorklist(a) \/ RememberCheck(a) \/ RememberLoad(a)
                  \/ RememberSave(a) \/ Release(a))
    /\ WF_vars(HarvestSave)
    /\ WF_vars(\E r \in Rows : SweepDelete(r))
    /\ WF_vars(SweepSave)
    /\ \A d \in Days : WF_vars(LeaseRunsOut(d))

-----------------------------------------------------------------------------
(***************************************************************************)
(* Properties                                                              *)
(***************************************************************************)

\* A row the sweep deleted was on the worklist of a pass that came to its
\* stamp, or joined its day behind the back of one -- whatever stamps are
\* lost, doubled or reordered between the three handlers of `.days.json`.
SweptWereJudged == swept \subseteq judged \cup slipped

\* A day the rollup shows as dreamed holds no row nobody has judged, with
\* the same exception: late rows clear the flag (days.rs, day_flags).
DreamedIsDone ==
    \A d \in Days : Dreamed(d) =>
        {r \in Staged : day[r] = d} \subseteq judged \cup slipped

\* README.md: nothing unjudged is ever deleted.  (The exception matters: a
\* row that joins a day while it is judged is covered by the stamp.)
NothingUnjudgedSwept == swept \subseteq judged

\* Two passes are at work on one day only if the lease of one ran out under
\* it: no release, refusal, crash or second acquire lets another in.
OneExecutor ==
    \A a, b \in Agents :
        /\ a # b /\ pass[a].day = pass[b].day
        /\ pass[a].phase \notin {"idle", "stamped"} /\ pass[b].phase \notin {"idle", "stamped"}
        => pass[a].lapsed \/ pass[b].lapsed

\* lease.rs: renewing is for the holder of the lease, so it never makes one.
RenewOnlyHolder ==
    [][\A a \in Agents, d \in Days :
          pass[a].phase # "idle" /\ pass[a].day = d /\ lease[d] = NoOne
          => lease'[d] # HolderOf[a]]_vars

\* days.rs: a day's judged count adds up over its passes.
CountsAccumulate == \A d \in Days : file[d].judged >= asked[d]

\* Once rows stop coming and moving between days, every staged row of a past day
\* gets judged: no crash, lapse, restart or lost stamp leaves a day undreamed for
\* ever.
EveryDayDreamed ==
    <>[][day' = day]_vars => <>[](\A d \in Days : Unjudged(d) = {})

-----------------------------------------------------------------------------
(***************************************************************************)
(* The inductive invariant behind SweptWereJudged and DreamedIsDone.       *)
(***************************************************************************)

\* No copy of `.days.json`, however old, covers a row that no stamp covered.
RecordsSound(records) == \A d \in Days : records[d].covers \subseteq stamped[d]

CopiesSound ==
    /\ RecordsSound(file)
    /\ RecordsSound(harvest.loaded)
    /\ RecordsSound(sweep.loaded)
    /\ \A a \in Agents : RecordsSound(pass[a].loaded)

Known == judged \cup slipped

\* A staged row older than a stamp of its day is accounted for.
StampedKnown ==
    \A r \in Staged, d \in Days : day[r] = d /\ r \in stamped[d] => r \in Known

\* A pass that has read its worklist has read every row of its day but those.
PassKnows ==
    \A a \in Agents, r \in Staged :
        /\ pass[a].phase \in {"judging", "cleared", "saving"}
        /\ day[r] = pass[a].day
        => r \in Known \cup pass[a].read

PassOnDay == \A a \in Agents : pass[a].phase # "idle" => pass[a].day \in Days

VictimsKnown == sweep.victims \subseteq Known

IInv ==
    /\ TypeOK
    /\ CopiesSound
    /\ StampedKnown
    /\ PassOnDay
    /\ PassKnows
    /\ VictimsKnown
    /\ SweptWereJudged

\* The invariant behind OneExecutor: a pass whose lease has not run out under
\* it holds the lease.
HoldsLease ==
    \A a \in Agents :
        /\ pass[a].phase \notin {"idle", "stamped"} => pass[a].day \in Days
        /\ pass[a].phase \notin {"idle", "stamped"} /\ ~pass[a].lapsed
           => lease[pass[a].day] = HolderOf[a]

OwnHolder == \A a, b \in Agents : HolderOf[a] = HolderOf[b] => a = b

=============================================================================
