------------------------------ MODULE Upgrade ------------------------------
(***************************************************************************)
(* The store's layout over time: the sidecar SCHEMA_VERSION and the gate   *)
(* it is for, opening a table, the accepted step from layout 1 to layout 2 *)
(* with the backup it takes first, what a row reads as before, during and  *)
(* after that step, and the housekeeping of backups and fragments          *)
(* (src/src/memory/schema_version.rs, schema.rs, backups.rs,               *)
(* maintenance.rs and the open and apply parts of store.rs,                *)
(* src/src/http/migration.rs, src/src/daemon/maintenance.rs).              *)
(*                                                                         *)
(* A daemon, a command that opens the episodic table itself (`add          *)
(* --episodic`) share the directory.                                       *)
(* A commit of the table store is one step, and so is reading a table's    *)
(* columns; the sidecar is written with fs::write, which empties the file  *)
(* first.  A table is its columns and the cells of a few rows: the lists   *)
(* (`contexts` and `tags`, one column here), and the summary and the scope *)
(* under their old and their new names.  One tick of the clock is both the *)
(* second a backup is named after and the day its age is counted in.       *)
(***************************************************************************)
EXTENDS Integers, Sequences, FiniteSets

CONSTANTS
    Rows,       \* rows both tables hold from the start
    Added,      \* the row the command adds to the episodic table
    Calls,      \* calls of /api/schema/apply, in the order they arrive
    Words,      \* summaries and scopes a writer gives
    Edited,     \* fields an edit changes
    Stores,     \* stores at the start: the columns of each table, the sidecar
    Keep,       \* MIGRATION_KEEP_DAYS
    Due,        \* fragments that make a table due for maintenance
    MaxWrites, MaxFaults, MaxTicks   \* bounds

Tables == {"semantic", "episodic"}
Columns == {"lists", "hook", "summary", "cwd", "scope"}

\* Fields of a row and the columns that hold them, v2 name first.
Fields == {"summary", "scope"}
OldName == [summary |-> "hook", scope |-> "cwd"]

\* STORE_SCHEMA_VERSION, MIN_READABLE_SCHEMA, LEGACY_LAYOUT, and no sidecar.
Store == 2
MinReadable == 1
Legacy == 1
NoVersion == 0

Null == "null"
Old == "old"
Values == Words \cup {Null, Old}
AllRows == Rows \cup {Added}
Procs == {"daemon", "command"}
Requests == {Calls[i] : i \in DOMAIN Calls}
Tasks == Procs \cup Requests
Free == "free"

ASSUME UpgradeAssumption ==
    /\ Added \notin Rows
    /\ Words \cap {Null, Old} = {}
    /\ Edited \subseteq Fields
    /\ Requests \cap (Procs \cup {Free}) = {}
    /\ Stores \subseteq [cols : [Tables -> SUBSET Columns], sidecar : Nat]
    /\ {Keep, MaxWrites, MaxFaults, MaxTicks} \subseteq Nat
    /\ Due \in Nat \ {0}

VARIABLES
    cols,       \* table -> its columns; {} when the table does not exist
    cell,       \* table -> row -> column -> value
    sidecar,    \* the version in SCHEMA_VERSION, NoVersion when absent or empty
    cache,      \* process -> table -> the columns its handle last read; {} when closed
    task,       \* process or request -> how far it is
    lock,       \* table -> the request that holds the daemon's write lock
    backup,     \* tick -> table -> rows whose lists the copy has; <<>> when there is none
    now,
    small,      \* table -> small fragments, counted up to Due
    look,       \* tables the maintenance pass under way has still to look at
    said,       \* ghost: table -> row -> field -> what its writer last gave
    dulled,     \* ghost: rows edited while a value of theirs was hidden
    taken,      \* ghost: table -> tick of the backup of the request that dropped its lists
    stale,      \* ghost: tables whose reshaping failed half way
    writes, faults

tableVars == <<cols, cell, small>>
daemonVars == <<cache, task, lock, look>>
ghostVars == <<said, dulled, taken, stale>>
vars == <<tableVars, sidecar, daemonVars, backup, now, ghostVars, writes, faults>>

Absent == -1

----------------------------------------------------------------------------
(* Layouts and rows *)

\* Layout::is_v1 of a table with these columns.
IsV1(c) == c \cap {"lists", "hook", "cwd"} # {}

\* column_either: the v2 name where the table has it, else the v1 name.
NameOf(f, c) == IF f \in c THEN f ELSE OldName[f]

\* record_batch_to_memories; a column the table lacks reads as null.
ReadRow(c, x) == [f \in Fields |-> x[NameOf(f, c)]]

\* Mutant: an edit leaves the lists empty.
Emptied(m, c, x, known) == [n \in Columns |->
    CASE n \in c \cap Fields -> m[n]
      [] n = "hook" /\ n \in c -> m["summary"]
      [] n = "cwd" /\ n \in c -> m["scope"]
      [] OTHER -> Null]

\* conform_keeping: row m as the table with columns c stores it over cells x.
\* A v1 column takes the field's value too; the lists are kept only when the
\* handle still knows of them.
Conform(m, c, x, known) == [n \in Columns |-> IF n \notin c THEN Null ELSE
    CASE n \in Fields -> m[n]
      [] n = "hook"   -> m["summary"]
      [] n = "cwd"    -> m["scope"]
      [] n = "lists"  -> IF "lists" \in known THEN x["lists"] ELSE Null]

Sees(t, r) == ReadRow(cols[t], cell[t][r])

\* A value that reads do not show: under the old name, the new one empty.
HiddenIn(c, x) == \E f \in Fields :
    {f, OldName[f]} \subseteq c /\ x[f] = Null /\ x[OldName[f]] # Null

\* ensure_late_schema_additions: summary, unless the table has it as hook.
Additions(c) == IF c \cap {"hook", "summary"} = {} THEN {"summary"} ELSE {}

\* Mutant: the old name is dropped before its values are copied.
DropFirst(f, c) ==
    IF OldName[f] \notin c THEN <<>>
    ELSE IF f \in c THEN <<[do |-> "drop", of |-> OldName[f]], [do |-> "copy", of |-> f]>>
    ELSE <<[do |-> "rename", of |-> f]>>

\* The commits of apply_v2_layout on a table with columns c, in order.
Carry(f, c) ==
    IF OldName[f] \notin c THEN <<>>
    ELSE IF f \in c THEN <<[do |-> "copy", of |-> f], [do |-> "drop", of |-> OldName[f]]>>
    ELSE <<[do |-> "rename", of |-> f]>>

Reshape(c) ==
    (IF "lists" \in c THEN <<[do |-> "drop", of |-> "lists"]>> ELSE <<>>)
        \o Carry("summary", c) \o Carry("scope", c)

\* Columns after commit s, and a row's cells after it.
ColsAfter(s, c) ==
    CASE s.do = "drop"   -> c \ {s.of}
      [] s.do = "rename" -> (c \ {OldName[s.of]}) \cup {s.of}
      [] s.do = "copy"   -> c

CellsAfter(s, x) ==
    CASE s.do = "drop"   -> [x EXCEPT ![s.of] = Null]
      [] s.do = "rename" -> [x EXCEPT ![s.of] = x[OldName[s.of]], ![OldName[s.of]] = Null]
      [] s.do = "copy"   -> [x EXCEPT ![s.of] = IF @ = Null THEN x[OldName[s.of]] ELSE @]

\* stamp_layout's version.
VersionFor(legacy) == IF legacy THEN Legacy ELSE Store

----------------------------------------------------------------------------
(* Tasks: an opening process and a request of the apply route *)

Idle == [at |-> "idle", t |-> "semantic", legacy |-> FALSE, dest |-> Absent,
         todo |-> <<>>, shape |-> {}]

Phases == {"idle", "table", "layout", "stamp", "write", "up", "refused",
           "commit", "copy", "version", "lock", "reshape", "done"}

\* A process goes on to the episodic table, or is up; a request is done.
AfterStamp(w) ==
    IF w \in Requests THEN [task[w] EXCEPT !.at = "done"]
    ELSE IF task[w].t = "semantic" THEN [task[w] EXCEPT !.at = "table", !.t = "episodic"]
    ELSE [task[w] EXCEPT !.at = "up"]

Closed == [t \in Tables |-> {}]

Init ==
    /\ \E s \in Stores :
        /\ cols = s.cols /\ sidecar = s.sidecar
        \* Rows hold a value in every column, but where a table has a name
        \* twice some rows were written by a build that knew the old one only.
        /\ \E late \in SUBSET Rows :
            cell = [t \in Tables |-> [r \in AllRows |-> [n \in Columns |->
                IF r \in Rows /\ n \in s.cols[t]
                       /\ ~(n \in Fields /\ OldName[n] \in s.cols[t] /\ r \in late)
                THEN Old ELSE Null]]]
    /\ cache = [p \in Procs |-> Closed]
    /\ task = [w \in Tasks |-> Idle]
    /\ lock = [t \in Tables |-> Free]
    /\ backup = [d \in 0 .. MaxTicks |-> <<>>] /\ now = 0
    /\ small = [t \in Tables |-> 0] /\ look = <<>>
    /\ said = [t \in Tables |-> [r \in AllRows |-> [f \in Fields |->
                  IF Old \in {cell[t][r][f], cell[t][r][OldName[f]]} THEN Old ELSE Null]]]
    /\ dulled = {}
    /\ taken = [t \in Tables |-> Absent]
    /\ stale = {}
    /\ writes = 0 /\ faults = 0

Move(w, rec) == task' = [task EXCEPT ![w] = rec]

(* open_named *)

\* schema_version::classify: an absent sidecar is adopted.
Openable(v, known) == v = NoVersion \/ v \in MinReadable .. known

\* The daemon opens both tables, a command with a row to add the episodic one.
FirstTable(p) == IF p = "daemon" THEN "semantic" ELSE "episodic"

\* The gate, then the table is opened and given the late columns it misses, or
\* created.  One step: no other process changes what the gate answers.
OpenTable(p) ==
    /\ task[p].at \in {"idle", "table"}
    /\ p = "command" => writes < MaxWrites
    /\ LET t == IF task[p].at = "idle" THEN FirstTable(p) ELSE task[p].t IN
        IF Openable(sidecar, Store)
        THEN /\ cols' = [cols EXCEPT ![t] = IF @ = {} THEN Fields ELSE @ \cup Additions(@)]
             /\ Move(p, [Idle EXCEPT !.at = "layout", !.t = t])
        ELSE cols' = cols /\ Move(p, [Idle EXCEPT !.at = "refused"])
    /\ UNCHANGED <<cell, small, sidecar, cache, lock, look, backup, now, ghostVars, writes, faults>>

\* open_named: is this table of layout 1, or any other (any_table_legacy)?
OnlyThis(t) == IsV1(cols[t])
SeesLegacy(t) == IsV1(cols[t]) \/ \E u \in Tables \ {t} : IsV1(cols[u])

\* read_layout of this table, and of the others.
Layout(p) == LET t == task[p].t IN
    /\ task[p].at = "layout"
    /\ cache' = [cache EXCEPT ![p][t] = cols[t]]
    /\ stale' = IF p = "daemon" THEN stale \ {t} ELSE stale
    /\ Move(p, [task[p] EXCEPT !.at = "stamp", !.legacy = SeesLegacy(t)])
    /\ UNCHANGED <<tableVars, sidecar, lock, look, backup, now,
                   said, dulled, taken, writes, faults>>

\* stamp_layout: nothing to do, or the file is emptied ...
Stamp(w) ==
    /\ task[w].at = "stamp"
    /\ IF sidecar = VersionFor(task[w].legacy)
       THEN sidecar' = sidecar /\ Move(w, AfterStamp(w))
       ELSE sidecar' = NoVersion /\ Move(w, [task[w] EXCEPT !.at = "write"])
    /\ UNCHANGED <<tableVars, cache, lock, look, backup, now, ghostVars, writes, faults>>

\* ... and then filled.
Write(w) ==
    /\ task[w].at = "write"
    /\ sidecar' = VersionFor(task[w].legacy)
    /\ Move(w, AfterStamp(w))
    /\ UNCHANGED <<tableVars, cache, lock, look, backup, now, ghostVars, writes, faults>>

----------------------------------------------------------------------------
(* Writers *)

Bump(t) == small' = [small EXCEPT ![t] = IF @ < Due THEN @ + 1 ELSE @]

\* A field given by an edit that read the row first.
GivenBy(t, r, f, v) == [Sees(t, r) EXCEPT ![f] = v]

\* The daemon changes a field under the table's write lock: it reads the row,
\* and writes the whole of it in the table's own shape (batch_for_table).
Edit(t, r, f, v) ==
    /\ task["daemon"].at = "up" /\ lock[t] = Free
    /\ writes < MaxWrites /\ writes' = writes + 1
    /\ cell' = [cell EXCEPT ![t][r] =
                    Conform(GivenBy(t, r, f, v), cols[t], @, cache["daemon"][t])]
    /\ said' = [said EXCEPT ![t][r][f] = v]
    /\ dulled' = IF HiddenIn(cols[t], cell[t][r]) THEN dulled \cup {<<t, r>>} ELSE dulled
    /\ Bump(t)
    /\ UNCHANGED <<cols, sidecar, cache, task, lock, look, backup, now,
                   taken, stale, faults>>

\* The command shapes its row to the columns it reads ...
Shape ==
    /\ task["command"].at = "up"
    /\ writes < MaxWrites /\ writes' = writes + 1
    /\ Move("command", [task["command"] EXCEPT !.at = "commit", !.shape = cols["episodic"]])
    /\ UNCHANGED <<tableVars, sidecar, cache, lock, look, backup, now, ghostVars, faults>>

\* ... and commits it; the store refuses a batch of another shape.  Either
\* way the command is over.
Commit(v) == LET m == [f \in Fields |-> v] IN
    /\ task["command"].at = "commit"
    /\ IF task["command"].shape = cols["episodic"]
       THEN /\ cell' = [cell EXCEPT !["episodic"][Added] =
                            Conform(m, cols["episodic"], @, cache["command"]["episodic"])]
            /\ said' = [said EXCEPT !["episodic"][Added] = m]
            /\ Bump("episodic")
       ELSE UNCHANGED <<cell, said, small>>
    /\ cache' = [cache EXCEPT !["command"] = Closed]
    /\ Move("command", Idle)
    /\ UNCHANGED <<cols, sidecar, lock, look, backup, now,
                   dulled, taken, stale, writes, faults>>

----------------------------------------------------------------------------
(* /api/schema/apply *)

\* The request names its backup after the second; the directory may be there.
Post(q) ==
    /\ task["daemon"].at = "up" /\ task[q].at = "idle"
    /\ \E i \in DOMAIN Calls :
        Calls[i] = q /\ \A j \in 1 .. i - 1 : task[Calls[j]].at # "idle"
    /\ backup' = [backup EXCEPT ![now] =
            IF @ = <<>> THEN [t \in Tables |-> {}] ELSE @]
    /\ Move(q, [Idle EXCEPT !.at = "copy", !.dest = now])
    /\ UNCHANGED <<tableVars, sidecar, cache, lock, look, now,
                   said, dulled, taken, stale, writes, faults>>

\* copy_dir of a table: its newest version becomes the copy's newest.  The
\* sidecar's copy is left out: nothing reads it.
Copy(q) == LET t == task[q].t IN
    /\ task[q].at = "copy"
    /\ backup' = [backup EXCEPT ![task[q].dest][t] = {r \in Rows : cell[t][r]["lists"] = Old}]
    /\ Move(q, IF t = "semantic" THEN [task[q] EXCEPT !.t = "episodic"]
               ELSE [task[q] EXCEPT !.at = "lock", !.t = "semantic"])
    /\ UNCHANGED <<tableVars, sidecar, cache, lock, look, now, ghostVars, writes, faults>>

\* apply_v2_layout takes the write lock and reads the columns once ...
Lock(q) == LET t == task[q].t IN
    /\ task[q].at = "lock" /\ lock[t] = Free
    /\ lock' = [lock EXCEPT ![t] = q]
    /\ Move(q, [task[q] EXCEPT !.at = "reshape", !.todo = Reshape(cols[t])])
    /\ UNCHANGED <<tableVars, sidecar, cache, look, backup, now, ghostVars, writes, faults>>

\* ... then makes one commit after another ...
Step(q) == LET t == task[q].t  s == Head(task[q].todo) IN
    /\ task[q].at = "reshape" /\ task[q].todo # <<>>
    /\ cols' = [cols EXCEPT ![t] = ColsAfter(s, @)]
    /\ cell' = [cell EXCEPT ![t] = [r \in AllRows |-> CellsAfter(s, @[r])]]
    /\ IF s.do = "copy" THEN Bump(t) ELSE small' = small
    /\ taken' = IF s.of = "lists" THEN [taken EXCEPT ![t] = task[q].dest] ELSE taken
    /\ Move(q, [task[q] EXCEPT !.todo = Tail(@)])
    /\ UNCHANGED <<sidecar, cache, lock, look, backup, now,
                   said, dulled, stale, writes, faults>>

\* The guard of the write lock is dropped.
Released(t) == [lock EXCEPT ![t] = Free]

\* ... and tells the handle the layout only after the last one.
Finish(q) == LET t == task[q].t IN
    /\ task[q].at = "reshape" /\ task[q].todo = <<>>
    /\ cache' = [cache EXCEPT !["daemon"][t] = cols[t]]
    /\ lock' = Released(t)
    /\ stale' = stale \ {t}
    /\ Move(q, IF t = "semantic" THEN [task[q] EXCEPT !.at = "lock", !.t = "episodic"]
               ELSE [task[q] EXCEPT !.at = "stamp",
                        !.legacy = \E u \in Tables : IsV1(cache'["daemon"][u])])
    /\ UNCHANGED <<tableVars, sidecar, look, backup, now,
                   said, dulled, taken, writes, faults>>

\* A commit fails: the request answers the error and the lock is free again.
StepFails(q) == LET t == task[q].t IN
    /\ task[q].at = "reshape" /\ task[q].todo # <<>>
    /\ faults < MaxFaults /\ faults' = faults + 1
    /\ lock' = Released(t)
    /\ stale' = IF cols[t] # cache["daemon"][t] THEN stale \cup {t} ELSE stale
    /\ Move(q, [task[q] EXCEPT !.at = "done", !.todo = <<>>])
    /\ UNCHANGED <<tableVars, sidecar, cache, look, backup, now,
                   said, dulled, taken, writes>>

----------------------------------------------------------------------------
(* Housekeeping *)

\* backups::prune: a migration's backup older than Keep goes.  The daily
\* exports beside them are written by another program and not modelled.
Kept(d) == d >= now - Keep
Pruned == [d \in DOMAIN backup |-> IF Kept(d) THEN backup[d] ELSE <<>>]

\* The tables a pass looks at.  Mutant: the curated one only.
CuratedOnly == <<"semantic">>
Pass == <<"semantic", "episodic">>

\* run_if_due: backups always, the tables only when no request has come for
\* IDLE_FOR.
Look ==
    /\ task["daemon"].at = "up" /\ look = <<>>
    /\ backup' = Pruned
    /\ look' \in {<<>>, Pass}
    /\ UNCHANGED <<tableVars, sidecar, cache, task, lock, now, ghostVars, writes, faults>>

\* Footprint::maintenance_due
IsDue(t) == small[t] >= Due

\* maintain_table: nothing to do, or compact and prune under the write lock.
Maintain == LET t == Head(look) IN
    /\ look # <<>>
    /\ IF IsDue(t) THEN lock[t] = Free /\ small' = [small EXCEPT ![t] = 0]
                   ELSE small' = small
    /\ look' = Tail(look)
    /\ UNCHANGED <<cols, cell, sidecar, cache, task, lock, backup, now, ghostVars, writes, faults>>

\* A failed pass is logged, and the next table is looked at.
MaintainFails ==
    /\ look # <<>> /\ IsDue(Head(look))
    /\ faults < MaxFaults /\ faults' = faults + 1
    /\ look' = Tail(look)
    /\ UNCHANGED <<tableVars, sidecar, cache, task, lock, backup, now, ghostVars, writes>>

----------------------------------------------------------------------------
(* The world *)

\* Time passes; a request takes far less than Keep.
Tick ==
    /\ now < MaxTicks /\ now' = now + 1
    /\ \A q \in Requests : task[q].at \notin {"idle", "done"} => now < task[q].dest + Keep
    /\ UNCHANGED <<tableVars, sidecar, daemonVars, backup, ghostVars, writes, faults>>

\* The process is killed: its requests, its handles and its locks are gone.
Crash(p) ==
    /\ task[p].at \notin {"idle", "refused"}
    /\ faults < MaxFaults /\ faults' = faults + 1
    /\ cache' = [cache EXCEPT ![p] = Closed]
    /\ IF p = "daemon"
       THEN /\ task' = [w \in Tasks |->
                CASE w = p -> Idle
                  [] w \in Requests /\ task[w].at # "idle" -> [Idle EXCEPT !.at = "done", !.dest = task[w].dest]
                  [] OTHER -> task[w]]
            /\ lock' = [t \in Tables |-> Free] /\ look' = <<>>
            /\ stale' = {}
       ELSE Move(p, Idle) /\ UNCHANGED <<lock, look, stale>>
    /\ UNCHANGED <<tableVars, sidecar, backup, now, said, dulled, taken, writes>>

Open(p) == OpenTable(p) \/ Layout(p)
Request(q) == Copy(q) \/ Lock(q) \/ Step(q) \/ Finish(q) \/ Stamp(q) \/ Write(q)

Next ==
    \/ \E p \in Procs : Open(p) \/ Stamp(p) \/ Write(p) \/ Crash(p)
    \/ \E t \in Tables, r \in Rows, f \in Edited, v \in Words : Edit(t, r, f, v)
    \/ Shape
    \/ \E v \in Words : Commit(v)
    \/ \E q \in Requests : Post(q) \/ Request(q) \/ StepFails(q)
    \/ Look \/ Maintain \/ MaintainFails \/ Tick

\* The runtime runs the tasks of a daemon until they end.
Fairness ==
    /\ \A q \in Requests : WF_vars(Request(q))
    /\ WF_vars(Maintain)

Spec == Init /\ [][Next]_vars /\ Fairness

----------------------------------------------------------------------------
(* Properties *)

\* Some table still has something of layout 1.
AnyLegacy == \E t \in Tables : IsV1(cols[t])

\* Every table, row, sidecar, task and count has the shape the code gives it.
TypeOK ==
    /\ cols \in [Tables -> SUBSET Columns]
    /\ cell \in [Tables -> [AllRows -> [Columns -> Values]]]
    /\ sidecar \in Nat
    /\ cache \in [Procs -> [Tables -> SUBSET Columns]]
    /\ DOMAIN task = Tasks
    /\ \A w \in Tasks : task[w].at \in Phases /\ task[w].t \in Tables
    /\ lock \in [Tables -> Requests \cup {Free}]
    /\ \A t \in Tables : lock[t] # Free =>
        task[lock[t]].at = "reshape" /\ task[lock[t]].t = t
    /\ DOMAIN backup = 0 .. MaxTicks /\ now \in 0 .. MaxTicks
    /\ small \in [Tables -> 0 .. Due]
    /\ taken \in [Tables -> 0 .. MaxTicks \cup {Absent}]
    /\ writes \in 0 .. MaxWrites /\ faults \in 0 .. MaxFaults

\* The sidecar never says layout 2 while a table still has something of
\* layout 1, whoever opens, reshapes, stamps or dies in between: an owner
\* whose store is not yet reshaped is never locked out of it by an older
\* release ("one legacy table keeps it v1", store.rs any_table_legacy).
NeverAhead == sidecar >= Store => ~AnyLegacy

\* Two requests have backed up into one directory.
Blurred(d) == \E q, k \in Requests : q # k /\ task[q].dest = d /\ task[k].dest = d

\* From the moment a table's lists are dropped, a copy of the table that
\* still has them stays for as long as migration backups are kept, whatever
\* commit failed, whoever crashed or asked again; until then the rows have
\* them, edits included (migration.rs "Backs the store up, then reshapes").
\* Except when a second request backs up into the same second's directory.
ListsKept == \A t \in Tables :
    /\ "lists" \in cols[t] => \A r \in Rows : cell[t][r]["lists"] = Old
    /\ taken[t] # Absent /\ ~Blurred(taken[t]) /\ Kept(taken[t]) =>
        backup[taken[t]] # <<>> /\ backup[taken[t]][t] = Rows

\* A row reads as its writers left it under either layout and between any two
\* commits of the reshaping, and the handle's filters name columns the table
\* has, except while a table is being reshaped or after that failed half way
\* (store.rs read_layout, sql, batch_for_table; schema.rs conform_keeping).
ReadsTrue == \A t \in Tables : cols[t] # {} =>
    /\ \A r \in AllRows :
        ~HiddenIn(cols[t], cell[t][r]) /\ <<t, r>> \notin dulled => Sees(t, r) = said[t][r]
    /\ task["daemon"].at = "up" /\ lock[t] = Free /\ t \notin stale =>
        {n \in {"lists", "cwd"} : n \in cache["daemon"][t]} \subseteq cols[t]

\* As long as the loop finds the daemon idle again and again, no table stays
\* due for maintenance: a pass that comes during a reshaping, fails, or is for
\* the other table only delays it (daemon/maintenance.rs).
Maintained == []<>(look # <<>>) => <>[](\A t \in Tables : ~IsDue(t))

----------------------------------------------------------------------------
(* What the code does not keep: README, "Divergences" *)

\* The gate of a binary that knows layout 1 refuses a store of layout 2
\* ("an older binary refuses a newer store", schema_version.rs:20).
OldLockedOut ==
    Openable(sidecar, Legacy) /\ (\E t \in Tables : cols[t] # {}) => AnyLegacy

\* With nothing under way and nothing killed, the sidecar says the layout.
StampTrue ==
    (faults = 0 /\ \A w \in Tasks : task[w].at \in {"up", "done"}) =>
        sidecar = VersionFor(AnyLegacy)

\* The lists are in a backup even when the route is called twice in a second.
ListsAlwaysKept == \A t \in Tables :
    taken[t] # Absent /\ Kept(taken[t]) =>
        backup[taken[t]] # <<>> /\ backup[taken[t]][t] = Rows

\* An edit of a table with both names leaves the values it does not change.
NothingDulled == \A t \in Tables, r \in AllRows :
    cols[t] # {} /\ ~HiddenIn(cols[t], cell[t][r]) => Sees(t, r) = said[t][r]

\* A filtered read works while the table is being reshaped.
FiltersWork == \A t \in Tables :
    task["daemon"].at = "up" /\ cols[t] # {} =>
        {n \in {"lists", "cwd"} : n \in cache["daemon"][t]} \subseteq cols[t]
=============================================================================
