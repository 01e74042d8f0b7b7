---------------------------- MODULE UpgradeProofs ----------------------------
(***************************************************************************)
(* What the store's two layouts keep, for any rows, calls, stores and      *)
(* faults.  Columns of layout 1 only go, so what a handle or a stamp saw   *)
(* of them is never less than what is left; a request drops the lists of a *)
(* table only when its copy has them; and between any two commits of a     *)
(* reshaping a row still holds, under one name or the other, what its      *)
(* writers gave it.                                                        *)
(***************************************************************************)
EXTENDS Upgrade, TLAPS

-----------------------------------------------------------------------------
(* The inductive invariant *)

\* The v1 names, which no build since gives a table.
OldColumns == {"lists", "hook", "cwd"}

\* The stores the releases left: none that says layout 2 has anything of layout
\* 1, and every table can name a row's scope.
StoresAsLeft == \A s \in Stores :
    /\ s.sidecar >= Store => \A t \in Tables : ~IsV1(s.cols[t])
    /\ \A t \in Tables : s.cols[t] # {} => s.cols[t] \cap {"cwd", "scope"} # {}

\* A commit of a reshaping.
Drop(n) == [do |-> "drop", of |-> n]
Rename(f) == [do |-> "rename", of |-> f]
CopyTo(f) == [do |-> "copy", of |-> f]
Commits == {Drop(n) : n \in OldColumns} \cup {Rename(f) : f \in Fields}
              \cup {CopyTo(f) : f \in Fields}

Task == [at : Phases, t : Tables, legacy : BOOLEAN, dest : 0 .. MaxTicks \cup {Absent},
         todo : Seq(Commits), shape : SUBSET Columns]

Active(q) == task[q].at \notin {"idle", "done"}

\* Where each kind of task may be.
Placed ==
    /\ task["daemon"].at \in {"idle", "table", "layout", "stamp", "write", "up", "refused"}
    /\ task["daemon"].at = "table" => task["daemon"].t = "episodic"
    /\ task["command"].at \in {"idle", "layout", "stamp", "write", "up", "commit", "refused"}
    /\ task["command"].at \notin {"idle", "refused"} => task["command"].t = "episodic"
    /\ \A q \in Requests :
        /\ task[q].at \in {"idle", "copy", "lock", "reshape", "stamp", "write", "done"}
        /\ task[q].at = "reshape" => lock[task[q].t] = q
        /\ Active(q) => task["daemon"].at = "up" /\ task[q].dest # Absent

Shaped ==
    /\ task \in [Tasks -> Task]
    /\ said \in [Tables -> [AllRows -> [Fields -> Values]]]
    /\ backup \in [0 .. MaxTicks -> {<<>>} \cup [Tables -> SUBSET Rows]]

\* The tables a process has opened.
Opened(p) ==
    IF task[p].at \in {"up", "commit"}
    THEN IF p = "daemon" THEN Tables ELSE {"episodic"}
    ELSE (IF task[p].at \in {"layout", "stamp", "write"} THEN {task[p].t} ELSE {})
            \cup (IF p = "daemon" /\ task[p].at \in {"table", "layout", "stamp", "write"}
                     /\ task[p].t = "episodic" THEN {"semantic"} ELSE {})

\* Those of them whose columns the daemon has read.
ReadTables ==
    Opened("daemon") \ (IF task["daemon"].at = "layout" THEN {task["daemon"].t} ELSE {})

\* Old columns only go, so the daemon's handle knows all that are left.
KnowsOld == \A t \in ReadTables : cols[t] \cap OldColumns \subseteq cache["daemon"][t]

\* Whoever is about to write the sidecar saw no less than is left.
Marks == \A w \in Tasks : task[w].at \in {"stamp", "write"} /\ ~task[w].legacy => ~AnyLegacy

ListsThere == \A t \in Tables : "lists" \in cols[t] =>
    \A r \in Rows : cell[t][r]["lists"] = Old

\* The commits a reshaping has still to make for field f, and what they find.
PartOf(f) == {<<>>, <<Rename(f)>>, <<CopyTo(f), Drop(OldName[f])>>, <<Drop(OldName[f])>>}
PartFits(t, f, part) ==
    /\ part = <<Rename(f)>> => f \notin cols[t] /\ OldName[f] \in cols[t]
    /\ part \in {<<CopyTo(f), Drop(OldName[f])>>, <<Drop(OldName[f])>>} =>
            {f, OldName[f]} \subseteq cols[t]
    /\ part = <<Drop(OldName[f])>> =>
            \A r \in AllRows : cell[t][r][f] = Null => cell[t][r][OldName[f]] = Null

\* todo is what is left of a reshaping of t.
Left(t, todo) ==
    \E l \in {<<>>, <<Drop("lists")>>}, a \in PartOf("summary"), b \in PartOf("scope") :
        /\ todo = l \o (a \o b)
        /\ l # <<>> => "lists" \in cols[t]
        /\ PartFits(t, "summary", a)
        /\ PartFits(t, "scope", b)

Reshaping == \A q \in Requests : task[q].at = "reshape" => Left(task[q].t, task[q].todo)

\* The tables a request has copied.
CopiedBy(q) ==
    IF task[q].at \in {"lock", "reshape", "stamp", "write"} THEN Tables
    ELSE IF task[q].at = "copy" /\ task[q].t = "episodic" THEN {"semantic"}
    ELSE {}

\* A request's copy is there while it is under way, with the lists of what it
\* has copied and not dropped.
BackedUp == \A q \in Requests : Active(q) =>
    /\ Kept(task[q].dest)
    /\ backup[task[q].dest] # <<>>
    /\ \A t \in CopiedBy(q) : "lists" \in cols[t] /\ ~Blurred(task[q].dest) =>
            backup[task[q].dest][t] = Rows

\* Who dropped a table's lists had copied them.
TakenByOne == \A t \in Tables : taken[t] # Absent =>
    \E q \in Requests : task[q].dest = taken[t] /\ task[q].at \notin {"idle", "copy"}

\* A row has no cell in a column its table lacks.
Bare == \A t \in Tables, r \in AllRows, n \in Columns :
    n \notin cols[t] => cell[t][r][n] = Null

\* A table that is open can name each field.
Named ==
    /\ \A t \in Tables : cols[t] # {} => cols[t] \cap {"cwd", "scope"} # {}
    /\ \A p \in Procs : \A t \in Opened(p) : cols[t] \cap {"hook", "summary"} # {}

\* What a row would read as if nothing were hidden.
Whole(x, f) == IF x[f] # Null THEN x[f] ELSE x[OldName[f]]

SaidWhole == \A t \in Tables, r \in AllRows : <<t, r>> \notin dulled =>
    \A f \in Fields : Whole(cell[t][r], f) = said[t][r][f]

\* What the handle knows is what is there, but for a reshaping.
KnowsNoMore == \A t \in ReadTables :
    lock[t] = Free /\ t \notin stale =>
        cache["daemon"][t] \cap {"lists", "cwd"} \subseteq cols[t]

-----------------------------------------------------------------------------
(* Types *)

Typed == TypeOK /\ Placed /\ Shaped

LEMMA Kinds ==
    /\ Tasks = Procs \cup Requests
    /\ "daemon" \in Tasks /\ "command" \in Tasks
    /\ "daemon" \notin Requests /\ "command" \notin Requests /\ Free \notin Requests
BY UpgradeAssumption DEF Tasks, Procs

LEMMA MoveTyped ==
    ASSUME Shaped, NEW w \in Tasks, NEW rec \in Task, Move(w, rec)
    PROVE  /\ task' \in [Tasks -> Task] /\ task'[w] = rec
           /\ \A v \in Tasks : v # w => task'[v] = task[v]
BY DEF Shaped, Move

LEMMA IdleTyped ==
    Idle \in Task /\ Idle.at = "idle" /\ Idle.t = "semantic" /\ Idle.dest = Absent
<1>1. <<>> \in Seq(Commits)  OBVIOUS
<1> QED BY <1>1 DEF Idle, Task, Phases, Tables, Columns

\* The records that tasks become.
LEMMA RecordTyped ==
    ASSUME NEW r \in Task
    PROVE  /\ \A at \in Phases :
              /\ [r EXCEPT !.at = at] \in Task
              /\ \A t \in Tables : [r EXCEPT !.at = at, !.t = t] \in Task
              /\ \A legacy \in BOOLEAN : [r EXCEPT !.at = at, !.legacy = legacy] \in Task
              /\ \A dest \in 0 .. MaxTicks : [r EXCEPT !.at = at, !.dest = dest] \in Task
              /\ \A todo \in Seq(Commits) : [r EXCEPT !.at = at, !.todo = todo] \in Task
              /\ \A shape \in SUBSET Columns : [r EXCEPT !.at = at, !.shape = shape] \in Task
              /\ \A t \in Tables, legacy \in BOOLEAN :
                    [r EXCEPT !.at = at, !.t = t, !.legacy = legacy] \in Task
           /\ \A t \in Tables : [r EXCEPT !.t = t] \in Task
           /\ \A todo \in Seq(Commits) : [r EXCEPT !.todo = todo] \in Task
BY DEF Task

LEMMA AfterStampTyped ==
    ASSUME Shaped, NEW w \in Tasks
    PROVE  /\ AfterStamp(w) \in Task
           /\ AfterStamp(w).dest = task[w].dest
           /\ w \in Requests => AfterStamp(w).at = "done"
           /\ w \notin Requests /\ task[w].t = "semantic" =>
                 AfterStamp(w).at = "table" /\ AfterStamp(w).t = "episodic"
           /\ w \notin Requests /\ task[w].t # "semantic" =>
                 AfterStamp(w).at = "up" /\ AfterStamp(w).t = task[w].t
<1>1. task[w] \in Task /\ {"done", "table", "up"} \subseteq Phases /\ "episodic" \in Tables
  BY DEF Shaped, Phases, Tables
<1>2. AfterStamp(w) \in Task  BY <1>1, RecordTyped DEF AfterStamp
<1> QED BY <1>1, <1>2 DEF AfterStamp, Task

\* Sequences of at most two commits before others.
LEMMA Sequences ==
    ASSUME NEW S, NEW s \in Seq(S), NEW x \in S, NEW y \in S
    PROVE  /\ <<>> \o s = s
           /\ <<x>> \o s \in Seq(S) /\ <<x>> \o s # <<>>
           /\ Head(<<x>> \o s) = x /\ Tail(<<x>> \o s) = s
           /\ <<x, y>> \o s \in Seq(S) /\ <<x, y>> \o s # <<>>
           /\ Head(<<x, y>> \o s) = x /\ Tail(<<x, y>> \o s) = <<y>> \o s
<1>1. <<>> \o s = s  OBVIOUS
<1>2. <<x>> \o s \in Seq(S) /\ <<x, y>> \o s \in Seq(S)  OBVIOUS
<1>3. <<x>> \o s # <<>> /\ <<x, y>> \o s # <<>>  OBVIOUS
<1>4. Head(<<x>> \o s) = x /\ Head(<<x, y>> \o s) = x  OBVIOUS
<1>5. Tail(<<x>> \o s) = s  OBVIOUS
<1>6. Tail(<<x, y>> \o s) = <<y>> \o s  OBVIOUS
<1> QED BY <1>1, <1>2, <1>3, <1>4, <1>5, <1>6

LockHeld == \A t \in Tables : lock[t] # Free =>
    task[lock[t]].at = "reshape" /\ task[lock[t]].t = t

LEMMA ProcMoves ==
    ASSUME Typed, NEW p \in Procs, NEW rec \in Task, Move(p, rec), lock' = lock,
           p = "daemon" =>
               /\ rec.at \in {"idle", "table", "layout", "stamp", "write", "up", "refused"}
               /\ rec.at = "table" => rec.t = "episodic"
               /\ task["daemon"].at = "up" => rec.at = "up",
           p = "command" =>
               /\ rec.at \in {"idle", "layout", "stamp", "write", "up", "commit", "refused"}
               /\ rec.at \notin {"idle", "refused"} => rec.t = "episodic"
    PROVE  task' \in [Tasks -> Task] /\ Placed' /\ LockHeld'
<1>1. /\ task' \in [Tasks -> Task] /\ task'[p] = rec
      /\ \A v \in Tasks : v # p => task'[v] = task[v]
  BY Kinds, MoveTyped DEF Typed
<1>2. \A q \in Requests : q \in Tasks /\ q # p /\ task'[q] = task[q]
  BY <1>1, Kinds DEF Procs
<1>3. \A t \in Tables : lock[t] # Free => lock[t] \in Requests
  BY DEF Typed, TypeOK
<1>4. LockHeld'  BY <1>2, <1>3 DEF Typed, TypeOK, LockHeld
<1>5. CASE p = "daemon"
  <2>1. task'["daemon"] = rec /\ task'["command"] = task["command"]
    BY <1>1, <1>5, Kinds
  <2> QED BY <1>1, <1>2, <1>4, <1>5, <2>1 DEF Typed, Placed, Active
<1>6. CASE p = "command"
  <2>1. task'["command"] = rec /\ task'["daemon"] = task["daemon"]
    BY <1>1, <1>6, Kinds
  <2> QED BY <1>1, <1>2, <1>4, <1>6, <2>1 DEF Typed, Placed, Active
<1> QED BY <1>5, <1>6 DEF Procs

LEMMA RequestMoves ==
    ASSUME Typed, NEW q \in Requests, NEW rec \in Task, Move(q, rec),
           task["daemon"].at = "up", rec.dest # Absent,
           rec.at \in {"copy", "lock", "reshape", "stamp", "write", "done"},
           \/ lock' = lock /\ task[q].at # "reshape" /\ rec.at # "reshape"
           \/ lock' = lock /\ task[q].at = "reshape" /\ rec.at = "reshape" /\ rec.t = task[q].t
           \/ /\ task[q].at # "reshape" /\ rec.at = "reshape"
              /\ lock[rec.t] = Free /\ lock' = [lock EXCEPT ![rec.t] = q]
           \/ /\ task[q].at = "reshape" /\ rec.at # "reshape"
              /\ lock' = [lock EXCEPT ![task[q].t] = Free]
    PROVE  /\ task' \in [Tasks -> Task] /\ Placed' /\ LockHeld'
           /\ lock' \in [Tables -> Requests \cup {Free}]
<1>1. /\ task' \in [Tasks -> Task] /\ task'[q] = rec
      /\ \A v \in Tasks : v # q => task'[v] = task[v]
  BY Kinds, MoveTyped DEF Typed
<1>2. /\ task'["daemon"] = task["daemon"] /\ task'["command"] = task["command"]
      /\ \A k \in Requests : k # q => task'[k] = task[k]
  BY <1>1, Kinds
<1>3. lock \in [Tables -> Requests \cup {Free}] /\ rec.t \in Tables /\ task[q].t \in Tables
  BY Kinds DEF Typed, TypeOK, Task
<1>4. lock' \in [Tables -> Requests \cup {Free}]  BY <1>3
<1>5. LockHeld
  BY DEF Typed, TypeOK, LockHeld
<1>6. \A k \in Requests : task[k].at = "reshape" => lock[task[k].t] = k /\ task[k].t \in Tables
  BY Kinds DEF Typed, TypeOK, Placed
<1>7. LockHeld'
  <2> SUFFICES ASSUME NEW t \in Tables, lock'[t] # Free
               PROVE  task'[lock'[t]].at = "reshape" /\ task'[lock'[t]].t = t
    BY DEF LockHeld
  <2>1. lock'[t] \in Requests  BY <1>4
  <2> QED BY <1>1, <1>2, <1>3, <1>5, <1>6, <2>1, Kinds DEF LockHeld
<1>8. \A k \in Requests : task'[k].at = "reshape" => lock'[task'[k].t] = k
  <2> SUFFICES ASSUME NEW k \in Requests, task'[k].at = "reshape"
               PROVE  lock'[task'[k].t] = k
    OBVIOUS
  <2>1. CASE k = q  BY <1>1, <1>3, <1>6, <2>1
  <2>2. CASE k # q
    <3>1. task'[k] = task[k] /\ lock[task[k].t] = k /\ task[k].t \in Tables
      BY <1>2, <1>6, <2>2
    <3>2. k # Free  BY Kinds
    <3> QED BY <1>3, <1>5, <1>6, <2>2, <3>1, <3>2 DEF LockHeld
  <2> QED BY <2>1, <2>2
<1>9. Placed'  BY <1>1, <1>2, <1>8 DEF Typed, Placed, Active
<1> QED BY <1>1, <1>4, <1>7, <1>9

-----------------------------------------------------------------------------
(* What is stored stays of its type *)

Stored ==
    /\ cols \in [Tables -> SUBSET Columns]
    /\ cell \in [Tables -> [AllRows -> [Columns -> Values]]]
    /\ sidecar \in Nat
    /\ cache \in [Procs -> [Tables -> SUBSET Columns]]
    /\ backup \in [0 .. MaxTicks -> {<<>>} \cup [Tables -> SUBSET Rows]]
    /\ now \in 0 .. MaxTicks
    /\ small \in [Tables -> 0 .. Due]
    /\ taken \in [Tables -> 0 .. MaxTicks \cup {Absent}]
    /\ said \in [Tables -> [AllRows -> [Fields -> Values]]]
    /\ writes \in 0 .. MaxWrites /\ faults \in 0 .. MaxFaults

\* Where the tasks and the write locks are.
Moved ==
    /\ task \in [Tasks -> Task]
    /\ Placed /\ LockHeld
    /\ lock \in [Tables -> Requests \cup {Free}]

LEMMA Parts ==
    /\ Typed => Stored /\ Moved
    /\ Stored' /\ Moved' => Typed'
<1>1. Typed => Stored /\ Moved
  BY DEF Typed, TypeOK, Shaped, Stored, Moved, LockHeld
<1>2. ASSUME Stored', Moved' PROVE Typed'
  <2>1. /\ DOMAIN task' = Tasks
        /\ \A w \in Tasks : task'[w].at \in Phases /\ task'[w].t \in Tables
    BY <1>2 DEF Moved, Task
  <2>2. DOMAIN backup' = 0 .. MaxTicks  BY <1>2 DEF Stored
  <2> QED BY <1>2, <2>1, <2>2 DEF Typed, TypeOK, Shaped, Stored, Moved, LockHeld
<1> QED BY <1>1, <1>2

LEMMA Numbers ==
    /\ Keep \in Nat /\ MaxWrites \in Nat /\ MaxFaults \in Nat /\ MaxTicks \in Nat
    /\ Due \in Nat /\ Due > 0
BY UpgradeAssumption

LEMMA Names ==
    /\ Fields \subseteq Columns /\ OldColumns \subseteq Columns
    /\ "lists" \in OldColumns /\ "lists" \notin Fields
    /\ OldColumns \cap Fields = {}
    /\ \A f \in Fields : OldName[f] \in OldColumns /\ OldName[f] # "lists" /\ OldName[f] # f
    /\ OldName["summary"] = "hook" /\ OldName["scope"] = "cwd"
    /\ Words \subseteq Values /\ Null \in Values /\ Old \in Values /\ Null \notin Words
    /\ Rows \subseteq AllRows /\ Added \in AllRows
BY UpgradeAssumption DEF Fields, Columns, OldColumns, OldName, Values, AllRows, Null, Old

LEMMA ReadTyped ==
    ASSUME NEW c \in SUBSET Columns, NEW x \in [Columns -> Values]
    PROVE  ReadRow(c, x) \in [Fields -> Values]
<1>1. \A f \in Fields : NameOf(f, c) \in Columns  BY Names DEF NameOf
<1> QED BY <1>1 DEF ReadRow

\* The cells of a row as Conform stores it.
LEMMA ConformCells ==
    ASSUME NEW m, NEW c, NEW x, NEW known
    PROVE  /\ \A n \in Columns : n \notin c => Conform(m, c, x, known)[n] = Null
           /\ \A n \in Fields : n \in c => Conform(m, c, x, known)[n] = m[n]
           /\ "hook" \in c => Conform(m, c, x, known)["hook"] = m["summary"]
           /\ "cwd" \in c => Conform(m, c, x, known)["cwd"] = m["scope"]
           /\ "lists" \in c => Conform(m, c, x, known)["lists"] =
                 IF "lists" \in known THEN x["lists"] ELSE Null
<1>2. ASSUME NEW n \in Columns, n \notin c PROVE Conform(m, c, x, known)[n] = Null
  BY <1>2 DEF Conform
<1>3. ASSUME NEW n \in Fields, n \in c PROVE Conform(m, c, x, known)[n] = m[n]
  BY <1>3 DEF Conform, Fields, Columns
<1>4. ASSUME "hook" \in c PROVE Conform(m, c, x, known)["hook"] = m["summary"]
  BY <1>4 DEF Conform, Fields, Columns
<1>5. ASSUME "cwd" \in c PROVE Conform(m, c, x, known)["cwd"] = m["scope"]
  BY <1>5 DEF Conform, Fields, Columns
<1>6. ASSUME "lists" \in c
      PROVE  Conform(m, c, x, known)["lists"] = IF "lists" \in known THEN x["lists"] ELSE Null
  BY <1>6 DEF Conform, Fields, Columns
<1> QED BY <1>2, <1>3, <1>4, <1>5, <1>6

LEMMA ConformTyped ==
    ASSUME NEW m \in [Fields -> Values], NEW c, NEW x \in [Columns -> Values], NEW known
    PROVE  Conform(m, c, x, known) \in [Columns -> Values]
<1>1. "summary" \in Fields /\ "scope" \in Fields  BY DEF Fields
<1>2. Columns = Fields \cup {"hook", "cwd", "lists"}  BY DEF Columns, Fields
<1>3. m["summary"] \in Values /\ m["scope"] \in Values  BY <1>1
<1>4. x["lists"] \in Values /\ Null \in Values  BY <1>2, Names
<1>5. \A n \in Columns : Conform(m, c, x, known)[n] \in Values
  BY <1>2, <1>3, <1>4, ConformCells
<1> QED BY <1>5 DEF Conform

LEMMA CellsAfterTyped ==
    ASSUME NEW s \in Commits, NEW x \in [Columns -> Values]
    PROVE  CellsAfter(s, x) \in [Columns -> Values]
<1>1. CASE s \in {Drop(n) : n \in OldColumns}
  <2>1. PICK n \in OldColumns : s = Drop(n)  BY <1>1
  <2>2. CellsAfter(s, x) = [x EXCEPT ![n] = Null]  BY <2>1 DEF Drop, CellsAfter
  <2> QED BY <2>2, Names
<1>2. CASE s \in {Rename(f) : f \in Fields}
  <2>1. PICK f \in Fields : s = Rename(f)  BY <1>2
  <2>2. CellsAfter(s, x) = [x EXCEPT ![f] = x[OldName[f]], ![OldName[f]] = Null]
    BY <2>1 DEF Rename, CellsAfter
  <2> QED BY <2>2, Names
<1>3. CASE s \in {CopyTo(f) : f \in Fields}
  <2>1. PICK f \in Fields : s = CopyTo(f)  BY <1>3
  <2>2. CellsAfter(s, x) = [x EXCEPT ![f] = IF @ = Null THEN x[OldName[f]] ELSE @]
    BY <2>1 DEF CopyTo, CellsAfter
  <2>3. x[f] \in Values /\ x[OldName[f]] \in Values  BY Names
  <2> QED BY <2>2, <2>3, Names
<1> QED BY <1>1, <1>2, <1>3 DEF Commits

LEMMA ColsAfterTyped ==
    ASSUME NEW s \in Commits, NEW c \in SUBSET Columns
    PROVE  /\ ColsAfter(s, c) \in SUBSET Columns
           /\ ColsAfter(s, c) \cap OldColumns \subseteq c
<1>1. CASE s \in {Drop(n) : n \in OldColumns}
  <2>1. PICK n \in OldColumns : s = Drop(n)  BY <1>1
  <2>2. ColsAfter(s, c) = c \ {n}  BY <2>1 DEF Drop, ColsAfter
  <2> QED BY <2>2
<1>2. CASE s \in {Rename(f) : f \in Fields}
  <2>1. PICK f \in Fields : s = Rename(f)  BY <1>2
  <2>2. ColsAfter(s, c) = (c \ {OldName[f]}) \cup {f}  BY <2>1 DEF Rename, ColsAfter
  <2> QED BY <2>2, Names
<1>3. CASE s \in {CopyTo(f) : f \in Fields}
  <2>1. PICK f \in Fields : s = CopyTo(f)  BY <1>3
  <2>2. ColsAfter(s, c) = c  BY <2>1 DEF CopyTo, ColsAfter
  <2> QED BY <2>2
<1> QED BY <1>1, <1>2, <1>3 DEF Commits

\* A reshaping is a sequence of commits.
LEMMA CarryTyped ==
    ASSUME NEW f \in Fields, NEW c
    PROVE  Carry(f, c) \in PartOf(f) /\ Carry(f, c) \in Seq(Commits)
<1>1. CopyTo(f) \in Commits /\ Rename(f) \in Commits /\ Drop(OldName[f]) \in Commits
  BY Names DEF Commits
<1>2. CASE OldName[f] \notin c
  <2>1. Carry(f, c) = <<>>  BY <1>2 DEF Carry
  <2>2. <<>> \in Seq(Commits)  OBVIOUS
  <2> QED BY <2>1, <2>2 DEF PartOf
<1>3. CASE OldName[f] \in c /\ f \in c
  <2>1. Carry(f, c) = <<CopyTo(f), Drop(OldName[f])>>  BY <1>3 DEF Carry, CopyTo, Drop
  <2> HIDE DEF CopyTo, Drop
  <2>2. <<CopyTo(f), Drop(OldName[f])>> \in Seq(Commits)  BY <1>1
  <2> QED BY <2>1, <2>2 DEF PartOf
<1>4. CASE OldName[f] \in c /\ f \notin c
  <2>1. Carry(f, c) = <<Rename(f)>>  BY <1>4 DEF Carry, Rename
  <2> HIDE DEF Rename
  <2>2. <<Rename(f)>> \in Seq(Commits)  BY <1>1
  <2> QED BY <2>1, <2>2 DEF PartOf
<1> QED BY <1>2, <1>3, <1>4

LEMMA ReshapeTyped ==
    ASSUME NEW c
    PROVE  /\ Reshape(c) = (IF "lists" \in c THEN <<Drop("lists")>> ELSE <<>>)
                              \o (Carry("summary", c) \o Carry("scope", c))
           /\ Reshape(c) \in Seq(Commits)
<1> DEFINE L == IF "lists" \in c THEN <<Drop("lists")>> ELSE <<>>
<1>1. Drop("lists") \in Commits  BY Names DEF Commits
<1>2. L \in Seq(Commits)  BY <1>1
<1>3. Carry("summary", c) \in Seq(Commits) /\ Carry("scope", c) \in Seq(Commits)
  BY CarryTyped DEF Fields
<1>4. Reshape(c) = L \o Carry("summary", c) \o Carry("scope", c)  BY DEF Reshape, Drop
<1> HIDE DEF L
<1>5. \A x, y, z \in Seq(Commits) :
        (x \o y) \o z = x \o (y \o z) /\ x \o (y \o z) \in Seq(Commits)
  OBVIOUS
<1>6. /\ Reshape(c) = L \o (Carry("summary", c) \o Carry("scope", c))
      /\ Reshape(c) \in Seq(Commits)
  BY <1>2, <1>3, <1>4, <1>5
<1> QED BY <1>6 DEF L

LEMMA InitTyped == Init => Typed
<1> SUFFICES ASSUME Init PROVE Typed
  OBVIOUS
<1>1. PICK s \in Stores :
        /\ cols = s.cols /\ sidecar = s.sidecar
        /\ \E late \in SUBSET Rows :
            cell = [t \in Tables |-> [r \in AllRows |-> [n \in Columns |->
                IF r \in Rows /\ n \in s.cols[t]
                       /\ ~(n \in Fields /\ OldName[n] \in s.cols[t] /\ r \in late)
                THEN Old ELSE Null]]]
  BY DEF Init
<1>2. cols \in [Tables -> SUBSET Columns] /\ sidecar \in Nat
  BY <1>1, UpgradeAssumption
<1>3. cell \in [Tables -> [AllRows -> [Columns -> Values]]]
  BY <1>1, Names
<1>4. said \in [Tables -> [AllRows -> [Fields -> Values]]]  BY Names DEF Init
<1>5. /\ cache \in [Procs -> [Tables -> SUBSET Columns]]
      /\ now \in 0 .. MaxTicks
      /\ small \in [Tables -> 0 .. Due]
      /\ taken \in [Tables -> 0 .. MaxTicks \cup {Absent}]
      /\ writes \in 0 .. MaxWrites /\ faults \in 0 .. MaxFaults
  BY Numbers DEF Init, Closed
<1>6. backup \in [0 .. MaxTicks -> {<<>>} \cup [Tables -> SUBSET Rows]]
  BY DEF Init
<1>7. task \in [Tasks -> Task] /\ \A w \in Tasks : task[w].at = "idle"
  BY IdleTyped DEF Init
<1>8. lock \in [Tables -> Requests \cup {Free}] /\ \A t \in Tables : lock[t] = Free
  BY DEF Init
<1>9. Placed /\ LockHeld  BY <1>7, <1>8, Kinds DEF Placed, LockHeld, Active
<1>10. DOMAIN task = Tasks /\ \A w \in Tasks : task[w].at \in Phases /\ task[w].t \in Tables
  BY <1>7 DEF Task
<1>11. DOMAIN backup = 0 .. MaxTicks  BY <1>6
<1> QED BY <1>2, <1>3, <1>4, <1>5, <1>6, <1>7, <1>8, <1>9, <1>10, <1>11
        DEF Typed, TypeOK, Shaped, LockHeld

\* An update two levels deep.
LEMMA Nested ==
    ASSUME NEW A, NEW B, NEW S, NEW g \in [A -> [B -> S]], NEW a \in A, NEW b \in B,
           NEW x \in S
    PROVE  /\ [g EXCEPT ![a][b] = x] \in [A -> [B -> S]]
           /\ [g EXCEPT ![a][b] = x][a][b] = x
           /\ \A i \in A, j \in B : i # a \/ j # b => [g EXCEPT ![a][b] = x][i][j] = g[i][j]
<1>1. g[a] \in [B -> S]  OBVIOUS
<1>2. [g[a] EXCEPT ![b] = x] \in [B -> S]  BY <1>1
<1> QED BY <1>1, <1>2

LEMMA BumpTyped ==
    ASSUME Stored, NEW t, Bump(t) PROVE small' \in [Tables -> 0 .. Due]
<1>1. \A n \in 0 .. Due : (IF n < Due THEN n + 1 ELSE n) \in 0 .. Due  BY Numbers
<1>2. small' = [small EXCEPT ![t] = IF small[t] < Due THEN small[t] + 1 ELSE small[t]]
  BY DEF Bump
<1>3. small \in [Tables -> 0 .. Due]  BY DEF Stored
<1>4. CASE t \in Tables
  <2>1. small[t] \in 0 .. Due  BY <1>3, <1>4
  <2> QED BY <1>1, <1>2, <1>3, <2>1
<1>5. CASE t \notin Tables  BY <1>2, <1>3, <1>5
<1> QED BY <1>4, <1>5

LEMMA StoredStep ==
    ASSUME Typed, [Next]_vars PROVE Stored'
<1>1. Stored /\ Moved  BY Parts
<1>2. \A w \in Tasks : task[w] \in Task  BY <1>1 DEF Moved
<1>3. ASSUME NEW p \in Procs, OpenTable(p) PROVE Stored'
  <2>1. PICK t : \/ cols' = cols
                 \/ cols' = [cols EXCEPT ![t] =
                        IF cols[t] = {} THEN Fields ELSE cols[t] \cup Additions(cols[t])]
    BY <1>3 DEF OpenTable
  <2>2. \A c : Additions(c) \subseteq Columns  BY DEF Additions, Columns
  <2>3. Fields \subseteq Columns  BY Names
  <2>4. cols' \in [Tables -> SUBSET Columns]
    BY <1>1, <2>1, <2>2, <2>3 DEF Stored
  <2> QED BY <1>1, <1>3, <2>4 DEF OpenTable, ghostVars, Stored
<1>4. ASSUME NEW p \in Procs, Layout(p) PROVE Stored'
  <2>1. task[p].t \in Tables  BY <1>2, Kinds DEF Task
  <2>2. cols[task[p].t] \in SUBSET Columns  BY <1>1, <2>1 DEF Stored
  <2>3. cache' \in [Procs -> [Tables -> SUBSET Columns]]
    BY <1>1, <1>4, <2>1, <2>2 DEF Layout, Stored
  <2> QED BY <1>1, <1>4, <2>3 DEF Layout, tableVars, Stored
<1>5. ASSUME NEW w, Stamp(w) \/ Write(w) PROVE Stored'
  <2>1. sidecar' \in Nat
    BY <1>1, <1>5 DEF Stamp, Write, Stored, VersionFor, NoVersion, Legacy, Store
  <2> QED BY <1>1, <1>5, <2>1 DEF Stamp, Write, tableVars, ghostVars, Stored
<1>6. ASSUME NEW t \in Tables, NEW r \in Rows, NEW f \in Edited, NEW v \in Words,
             Edit(t, r, f, v)
      PROVE  Stored'
  <2>1. r \in AllRows /\ f \in Fields /\ v \in Values  BY Names, UpgradeAssumption
  <2>2. cols[t] \in SUBSET Columns /\ cell[t][r] \in [Columns -> Values]
    BY <1>1, <2>1 DEF Stored
  <2>3. GivenBy(t, r, f, v) \in [Fields -> Values]
    BY <2>1, <2>2, ReadTyped DEF GivenBy, Sees
  <2>4. Conform(GivenBy(t, r, f, v), cols[t], cell[t][r], cache["daemon"][t])
            \in [Columns -> Values]
    BY <2>2, <2>3, ConformTyped
  <2> HIDE DEF Conform, GivenBy
  <2>5. cell' = [cell EXCEPT ![t][r] =
                    Conform(GivenBy(t, r, f, v), cols[t], cell[t][r], cache["daemon"][t])]
    BY <1>1, <1>6, <2>1 DEF Edit, Stored
  <2>6. cell' \in [Tables -> [AllRows -> [Columns -> Values]]]
    BY <1>1, <2>1, <2>4, <2>5 DEF Stored
  <2>7. said' \in [Tables -> [AllRows -> [Fields -> Values]]]
    BY <1>1, <1>6, <2>1 DEF Edit, Stored
  <2>8. writes' \in 0 .. MaxWrites  BY <1>1, <1>6, Numbers DEF Edit, Stored
  <2>9. small' \in [Tables -> 0 .. Due]  BY <1>1, <1>6, BumpTyped DEF Edit
  <2> QED BY <1>1, <1>6, <2>6, <2>7, <2>8, <2>9 DEF Edit, Stored
<1>7. ASSUME Shape PROVE Stored'
  <2>1. writes' \in 0 .. MaxWrites  BY <1>1, <1>7, Numbers DEF Shape, Stored
  <2> QED BY <1>1, <1>7, <2>1 DEF Shape, tableVars, ghostVars, Stored
<1>8. ASSUME NEW v \in Words, Commit(v) PROVE Stored'
  <2> DEFINE m == [f \in Fields |-> v]
             x == Conform(m, cols["episodic"], cell["episodic"][Added],
                          cache["command"]["episodic"])
  <2>1. "episodic" \in Tables /\ Added \in AllRows /\ m \in [Fields -> Values]
    BY Names DEF Tables
  <2>2. x \in [Columns -> Values]
    <3>1. cell["episodic"][Added] \in [Columns -> Values]  BY <1>1, <2>1 DEF Stored
    <3> HIDE DEF m
    <3> QED BY <2>1, <3>1, ConformTyped
  <2>3. \/ cell' = [cell EXCEPT !["episodic"][Added] = x]
        \/ cell' = cell
    BY <1>1, <1>8, <2>1, Zenon DEF Commit
  <2>4. said' \in [Tables -> [AllRows -> [Fields -> Values]]]
    <3>1. said' = said \/ said' = [said EXCEPT !["episodic"][Added] = m]
      BY <1>8 DEF Commit
    <3> HIDE DEF m
    <3>2. said \in [Tables -> [AllRows -> [Fields -> Values]]]  BY <1>1 DEF Stored
    <3>3. [said EXCEPT !["episodic"][Added] = m] \in
              [Tables -> [AllRows -> [Fields -> Values]]]
      BY <2>1, <3>2, Nested
    <3> QED BY <3>1, <3>2, <3>3
  <2>5. small' \in [Tables -> 0 .. Due]
    <3>1. Bump("episodic") \/ small' = small  BY <1>8 DEF Commit
    <3> QED BY <1>1, <3>1, BumpTyped DEF Stored
  <2> HIDE DEF m, x
  <2>6. cell' \in [Tables -> [AllRows -> [Columns -> Values]]]
    <3>1. cell \in [Tables -> [AllRows -> [Columns -> Values]]]  BY <1>1 DEF Stored
    <3>2. [cell EXCEPT !["episodic"][Added] = x] \in
              [Tables -> [AllRows -> [Columns -> Values]]]
      BY <2>1, <2>2, <3>1, Nested
    <3> QED BY <2>3, <3>1, <3>2
  <2>7. cache' \in [Procs -> [Tables -> SUBSET Columns]]
    BY <1>1, <1>8 DEF Commit, Closed, Stored, Procs
  <2> QED BY <1>1, <1>8, <2>4, <2>5, <2>6, <2>7 DEF Commit, Stored
<1>9. ASSUME NEW q \in Requests, Post(q) PROVE Stored'
  <2>1. backup' \in [0 .. MaxTicks -> {<<>>} \cup [Tables -> SUBSET Rows]]
    BY <1>1, <1>9 DEF Post, Stored
  <2> QED BY <1>1, <1>9, <2>1 DEF Post, tableVars, Stored
<1>10. ASSUME NEW q \in Requests, Copy(q) PROVE Stored'
  <2> DEFINE d == task[q].dest  t == task[q].t
             rows == {r \in Rows : cell[t][r]["lists"] = Old}
  <2>1. task[q].t \in Tables  BY <1>2, Kinds DEF Task
  <2>2. rows \in SUBSET Rows  OBVIOUS
  <2>3. backup' = [backup EXCEPT ![d][t] = rows]  BY <1>10 DEF Copy
  <2> HIDE DEF rows
  <2>4. backup \in [0 .. MaxTicks -> {<<>>} \cup [Tables -> SUBSET Rows]]
    BY <1>1 DEF Stored
  <2>5. ASSUME NEW b \in {<<>>} \cup [Tables -> SUBSET Rows]
        PROVE  [b EXCEPT ![t] = rows] \in {<<>>} \cup [Tables -> SUBSET Rows]
    <3>1. CASE b = <<>>
      <4>1. DOMAIN b = {}  BY <3>1
      <4> QED BY <3>1, <4>1
    <3>2. CASE b \in [Tables -> SUBSET Rows]  BY <2>1, <2>2, <3>2
    <3> QED BY <3>1, <3>2
  <2>6. backup' = [backup EXCEPT ![d] = [backup[d] EXCEPT ![t] = rows]]  BY <2>3
  <2>7. d \in 0 .. MaxTicks =>
            [backup[d] EXCEPT ![t] = rows] \in {<<>>} \cup [Tables -> SUBSET Rows]
    BY <2>4, <2>5
  <2> HIDE DEF d, t
  <2>8. backup' \in [0 .. MaxTicks -> {<<>>} \cup [Tables -> SUBSET Rows]]
    BY <2>4, <2>6, <2>7
  <2> QED BY <1>1, <1>10, <2>8 DEF Copy, tableVars, ghostVars, Stored
<1>11. ASSUME NEW q \in Requests, Lock(q) \/ Finish(q) \/ StepFails(q) PROVE Stored'
  <2>1. task[q].t \in Tables  BY <1>2, Kinds DEF Task
  <2>2. cols[task[q].t] \in SUBSET Columns  BY <1>1, <2>1 DEF Stored
  <2>3. cache' \in [Procs -> [Tables -> SUBSET Columns]]
    <3>1. \/ cache' = cache
          \/ cache' = [cache EXCEPT !["daemon"][task[q].t] = cols[task[q].t]]
      BY <1>11 DEF Lock, Finish, StepFails
    <3>2. cache \in [Procs -> [Tables -> SUBSET Columns]] /\ "daemon" \in Procs
      BY <1>1 DEF Stored, Procs
    <3> QED BY <2>1, <2>2, <3>1, <3>2, Nested
  <2>4. faults' \in 0 .. MaxFaults
    BY <1>1, <1>11, Numbers DEF Lock, Finish, StepFails, Stored
  <2> QED BY <1>1, <1>11, <2>3, <2>4
          DEF Lock, Finish, StepFails, tableVars, ghostVars, Stored
<1>12. ASSUME NEW q \in Requests, Step(q) PROVE Stored'
  <2> DEFINE t == task[q].t  s == Head(task[q].todo)
  <2>1. task[q] \in Task /\ task[q].todo # <<>>  BY <1>2, <1>12, Kinds DEF Step
  <2>2. t \in Tables /\ s \in Commits /\ task[q].dest \in 0 .. MaxTicks \cup {Absent}
    BY <2>1 DEF Task
  <2>3. cols[t] \in SUBSET Columns /\ \A r \in AllRows : cell[t][r] \in [Columns -> Values]
    BY <1>1, <2>2 DEF Stored
  <2>4. ColsAfter(s, cols[t]) \in SUBSET Columns  BY <2>2, <2>3, ColsAfterTyped
  <2>5. \A r \in AllRows : CellsAfter(s, cell[t][r]) \in [Columns -> Values]
    BY <2>2, <2>3, CellsAfterTyped
  <2>6. /\ cols' = [cols EXCEPT ![t] = ColsAfter(s, cols[t])]
        /\ cell' = [cell EXCEPT ![t] = [r \in AllRows |-> CellsAfter(s, cell[t][r])]]
        /\ Bump(t) \/ small' = small
        /\ taken' = taken \/ taken' = [taken EXCEPT ![t] = task[q].dest]
    BY <1>12 DEF Step
  <2> HIDE DEF t, s
  <2>7. cols' \in [Tables -> SUBSET Columns]  BY <1>1, <2>2, <2>4, <2>6 DEF Stored
  <2>8. cell' \in [Tables -> [AllRows -> [Columns -> Values]]]
    BY <1>1, <2>2, <2>5, <2>6 DEF Stored
  <2>9. small' \in [Tables -> 0 .. Due]  BY <1>1, <2>6, BumpTyped DEF Stored
  <2>10. taken' \in [Tables -> 0 .. MaxTicks \cup {Absent}]
    BY <1>1, <2>2, <2>6 DEF Stored
  <2> QED BY <1>1, <1>12, <2>7, <2>8, <2>9, <2>10 DEF Step, Stored
<1>13. ASSUME Look PROVE Stored'
  <2>1. backup' \in [0 .. MaxTicks -> {<<>>} \cup [Tables -> SUBSET Rows]]
    BY <1>1, <1>13 DEF Look, Pruned, Stored
  <2> QED BY <1>1, <1>13, <2>1 DEF Look, tableVars, ghostVars, Stored
<1>14. ASSUME Maintain PROVE Stored'
  <2>1. small' \in [Tables -> 0 .. Due]  BY <1>1, <1>14, Numbers DEF Maintain, Stored
  <2> QED BY <1>1, <1>14, <2>1 DEF Maintain, ghostVars, Stored
<1>15. ASSUME MaintainFails PROVE Stored'
  <2>1. faults' \in 0 .. MaxFaults  BY <1>1, <1>15, Numbers DEF MaintainFails, Stored
  <2> QED BY <1>1, <1>15, <2>1 DEF MaintainFails, tableVars, ghostVars, Stored
<1>16. ASSUME Tick PROVE Stored'
  <2>1. now' \in 0 .. MaxTicks  BY <1>1, <1>16, Numbers DEF Tick, Stored
  <2> QED BY <1>1, <1>16, <2>1 DEF Tick, tableVars, daemonVars, ghostVars, Stored
<1>17. ASSUME NEW p \in Procs, Crash(p) PROVE Stored'
  <2>1. faults' \in 0 .. MaxFaults
    <3>1. faults < MaxFaults /\ faults' = faults + 1  BY <1>17, Zenon DEF Crash
    <3> QED BY <1>1, <3>1, Numbers DEF Stored
  <2>2. cache' \in [Procs -> [Tables -> SUBSET Columns]]
    <3>1. cache' = [cache EXCEPT ![p] = Closed]  BY <1>17, Zenon DEF Crash
    <3> QED BY <1>1, <3>1 DEF Closed, Stored
  <2>3. UNCHANGED <<tableVars, sidecar, backup, now, said, dulled, taken, writes>>
    BY <1>17, Zenon DEF Crash
  <2> QED BY <1>1, <2>1, <2>2, <2>3 DEF tableVars, Stored
<1>18. ASSUME UNCHANGED vars PROVE Stored'
  BY <1>1, <1>18 DEF vars, tableVars, daemonVars, ghostVars, Stored
<1> QED BY <1>3, <1>4, <1>5, <1>6, <1>7, <1>8, <1>9, <1>10, <1>11, <1>12, <1>13, <1>14,
           <1>15, <1>16, <1>17, <1>18 DEF Next, Open, Request

-----------------------------------------------------------------------------
(* The tasks stay where they may be *)

\* A step that leaves the tasks and the locks alone.
LEMMA MovedStays == ASSUME Moved, UNCHANGED <<task, lock>> PROVE Moved'
BY DEF Moved, Placed, LockHeld, Active

LEMMA ProcMoved ==
    ASSUME Typed, NEW p \in Procs,
           \/ OpenTable(p) \/ Layout(p) \/ Stamp(p) \/ Write(p)
           \/ p = "command" /\ (Shape \/ \E v \in Words : Commit(v))
    PROVE  /\ Moved' /\ UNCHANGED lock
           /\ \A w \in Tasks : w # p => task'[w] = task[w]
           /\ task[p].at # "up" \/ p = "command"
<1>1. Stored /\ Moved  BY Parts
<1>2. task[p] \in Task /\ p \in Tasks  BY <1>1, Kinds DEF Moved
<1>3. p = "daemon" \/ p = "command"  BY DEF Procs
<1>4. Placed  BY <1>1 DEF Moved
<1> DEFINE Fits(rec) ==
        /\ p = "daemon" =>
               /\ rec.at \in {"idle", "table", "layout", "stamp", "write", "up", "refused"}
               /\ rec.at = "table" => rec.t = "episodic"
        /\ p = "command" =>
               /\ rec.at \in {"idle", "layout", "stamp", "write", "up", "commit", "refused"}
               /\ rec.at \notin {"idle", "refused"} => rec.t = "episodic"
<1>5. ASSUME NEW rec \in Task, Move(p, rec), lock' = lock, Fits(rec),
             task[p].at # "up" \/ p = "command"
      PROVE  /\ Moved'
             /\ \A w \in Tasks : w # p => task'[w] = task[w]
  <2>1. task' \in [Tasks -> Task] /\ Placed' /\ LockHeld'
    BY <1>5, ProcMoves
  <2>2. lock' \in [Tables -> Requests \cup {Free}]  BY <1>1, <1>5 DEF Moved
  <2>3. \A w \in Tasks : w # p => task'[w] = task[w]
    BY <1>1, <1>5 DEF Move, Moved
  <2> QED BY <2>1, <2>2, <2>3 DEF Moved
<1>6. CASE OpenTable(p)
  <2> DEFINE t == IF task[p].at = "idle" THEN FirstTable(p) ELSE task[p].t
             rec == IF Openable(sidecar, Store) THEN [Idle EXCEPT !.at = "layout", !.t = t]
                    ELSE [Idle EXCEPT !.at = "refused"]
  <2>1. t \in Tables /\ (p = "command" => t = "episodic")
    BY <1>2, <1>3, <1>4, <1>6 DEF FirstTable, Tables, Task, OpenTable, Placed
  <2>2. Move(p, rec) /\ lock' = lock /\ task[p].at \in {"idle", "table"}
    BY <1>6 DEF OpenTable
  <2> HIDE DEF t
  <2>3. /\ [Idle EXCEPT !.at = "layout", !.t = t] \in Task
        /\ [Idle EXCEPT !.at = "refused"] \in Task
    BY <2>1, IdleTyped, RecordTyped DEF Phases
  <2>4. rec \in Task  BY <2>3
  <2>5. rec.at \in {"layout", "refused"} /\ (rec.at = "layout" => rec.t = t)
    BY DEF Idle
  <2> HIDE DEF rec
  <2>6. Fits(rec)  BY <2>1, <2>5
  <2>7. task[p].at # "up"  BY <2>2
  <2> HIDE DEF Fits
  <2> QED BY <1>5, <2>2, <2>4, <2>6, <2>7
<1>7. CASE Layout(p)
  <2> DEFINE rec == [task[p] EXCEPT !.at = "stamp", !.legacy = SeesLegacy(task[p].t)]
  <2>1. Move(p, rec) /\ lock' = lock /\ task[p].at = "layout"  BY <1>7 DEF Layout
  <2>2. SeesLegacy(task[p].t) \in BOOLEAN  BY DEF SeesLegacy
  <2>3. rec \in Task  BY <1>2, <2>2, RecordTyped DEF Phases
  <2>4. rec.at = "stamp" /\ rec.t = task[p].t  BY <1>2 DEF Task
  <2> HIDE DEF rec
  <2>5. Fits(rec)  BY <1>4, <2>1, <2>4 DEF Placed
  <2>6. task[p].at # "up"  BY <2>1
  <2> HIDE DEF Fits
  <2> QED BY <1>5, <2>1, <2>3, <2>5, <2>6
<1>8. CASE Stamp(p) \/ Write(p)
  <2>1. p \notin Requests  BY <1>3, Kinds
  <2>2. /\ lock' = lock /\ task[p].at \in {"stamp", "write"}
        /\ Move(p, AfterStamp(p)) \/ Move(p, [task[p] EXCEPT !.at = "write"])
    BY <1>8 DEF Stamp, Write
  <2>3. AfterStamp(p) \in Task /\ Fits(AfterStamp(p))
    BY <1>1, <1>2, <1>3, <1>4, <2>1, <2>2, AfterStampTyped, Parts
    DEF Typed, Placed, Tables, Task
  <2> DEFINE rec == [task[p] EXCEPT !.at = "write"]
  <2>4. rec \in Task /\ rec.at = "write" /\ rec.t = task[p].t
    <3>1. rec \in Task  BY <1>2, RecordTyped DEF Phases
    <3>2. rec.at = "write" /\ rec.t = task[p].t  BY <1>2 DEF Task
    <3> QED BY <3>1, <3>2
  <2>5. Fits(rec)
    <3> HIDE DEF rec
    <3> QED BY <1>4, <2>2, <2>4 DEF Placed
  <2>6. task[p].at # "up"  BY <2>2
  <2> HIDE DEF Fits, rec
  <2>7. Move(p, AfterStamp(p)) \/ Move(p, rec)  BY <2>2 DEF rec
  <2> QED BY <1>5, <2>2, <2>3, <2>4, <2>5, <2>6, <2>7
<1>9. CASE p = "command" /\ Shape
  <2> DEFINE rec == [task[p] EXCEPT !.at = "commit", !.shape = cols["episodic"]]
  <2>1. Move(p, rec) /\ lock' = lock /\ task[p].at = "up"  BY <1>9 DEF Shape
  <2>2. cols["episodic"] \in SUBSET Columns  BY <1>1 DEF Stored, Tables
  <2>3. rec \in Task  BY <1>2, <2>2, RecordTyped DEF Phases
  <2>4. rec.at = "commit" /\ rec.t = task[p].t  BY <1>2 DEF Task
  <2> HIDE DEF rec
  <2>5. Fits(rec)  BY <1>4, <1>9, <2>1, <2>4 DEF Placed
  <2> HIDE DEF Fits
  <2> QED BY <1>5, <1>9, <2>1, <2>3, <2>5
<1>10. CASE p = "command" /\ \E v \in Words : Commit(v)
  <2>1. Move(p, Idle) /\ lock' = lock  BY <1>10 DEF Commit
  <2>2. Fits(Idle)  BY <1>10, IdleTyped
  <2> HIDE DEF Fits
  <2> QED BY <1>5, <1>10, <2>1, <2>2, IdleTyped
<1>11. UNCHANGED lock  BY <1>6, <1>7, <1>8, <1>9, <1>10, Zenon
                       DEF OpenTable, Layout, Stamp, Write, Shape, Commit
<1>12. task[p].at # "up" \/ p = "command"
  BY <1>6, <1>7, <1>8, <1>9, <1>10 DEF OpenTable, Layout, Stamp, Write
<1> QED BY <1>5, <1>6, <1>7, <1>8, <1>9, <1>10, <1>11, <1>12

LEMMA RequestMoved ==
    ASSUME Typed, NEW q \in Requests, Post(q) \/ Request(q) \/ StepFails(q)
    PROVE  /\ Moved'
           /\ \A w \in Tasks : w # q => task'[w] = task[w]
           /\ task["daemon"].at = "up" /\ task'[q].dest # Absent
           /\ ~Post(q) => Active(q) /\ task'[q].dest = task[q].dest
<1>1. Stored /\ Moved  BY Parts
<1>2. task[q] \in Task /\ q \in Tasks  BY <1>1, Kinds DEF Moved
<1>3. Placed  BY <1>1 DEF Moved
<1>4. /\ task["daemon"].at = "up"
      /\ ~Post(q) => Active(q)
  BY <1>2, <1>3 DEF Post, Request, Copy, Lock, Step, Finish, Stamp, Write, StepFails,
                    Placed, Active
<1>5. \/ lock' = lock /\ task[q].at # "reshape"
      \/ Step(q) /\ lock' = lock
      \/ Lock(q)
      \/ Finish(q) \/ StepFails(q)
  BY DEF Post, Request, Copy, Stamp, Write, Step
<1> DEFINE Goes(rec) ==
        \/ lock' = lock /\ task[q].at # "reshape" /\ rec.at # "reshape"
        \/ lock' = lock /\ task[q].at = "reshape" /\ rec.at = "reshape" /\ rec.t = task[q].t
        \/ /\ task[q].at # "reshape" /\ rec.at = "reshape"
           /\ lock[rec.t] = Free /\ lock' = [lock EXCEPT ![rec.t] = q]
        \/ /\ task[q].at = "reshape" /\ rec.at # "reshape"
           /\ lock' = [lock EXCEPT ![task[q].t] = Free]
<1>6. ASSUME NEW rec \in Task, Move(q, rec), rec.dest # Absent, Goes(rec),
             rec.at \in {"copy", "lock", "reshape", "stamp", "write", "done"}
      PROVE  /\ Moved'
             /\ \A w \in Tasks : w # q => task'[w] = task[w]
             /\ task'[q] = rec
  <2>1. /\ task' \in [Tasks -> Task] /\ Placed' /\ LockHeld'
        /\ lock' \in [Tables -> Requests \cup {Free}]
    BY <1>4, <1>6, RequestMoves
  <2>2. task'[q] = rec /\ \A w \in Tasks : w # q => task'[w] = task[w]
    BY <1>1, <1>2, <1>6 DEF Move, Moved
  <2> QED BY <2>1, <2>2 DEF Moved
<1> DEFINE Done(rec) ==
        /\ Moved' /\ \A w \in Tasks : w # q => task'[w] = task[w]
        /\ task'[q].dest # Absent
        /\ ~Post(q) => task'[q].dest = task[q].dest
<1>7. ASSUME NEW rec \in Task, Move(q, rec), ~Post(q), rec.dest = task[q].dest, Goes(rec),
             rec.at \in {"copy", "lock", "reshape", "stamp", "write", "done"}
      PROVE  Done(rec)
  <2>1. task[q].dest # Absent  BY <1>3, <1>4, <1>7 DEF Placed
  <2> HIDE DEF Goes
  <2> QED BY <1>6, <1>7, <2>1
<1>8. CASE Post(q)
  <2> DEFINE rec == [Idle EXCEPT !.at = "copy", !.dest = now]
  <2>1. now \in 0 .. MaxTicks /\ now # Absent  BY <1>1, Numbers DEF Stored, Absent
  <2>2. rec \in Task  BY <2>1, IdleTyped, RecordTyped DEF Phases
  <2>3. rec.at = "copy" /\ rec.dest = now  BY DEF Idle
  <2>4. Move(q, rec) /\ lock' = lock /\ task[q].at = "idle"  BY <1>8 DEF Post
  <2> HIDE DEF rec
  <2>5. Goes(rec)  BY <2>3, <2>4
  <2> HIDE DEF Goes
  <2> QED BY <1>4, <1>6, <1>8, <2>1, <2>2, <2>3, <2>4, <2>5
<1>9. CASE Copy(q) /\ ~Post(q)
  <2> DEFINE rec == IF task[q].t = "semantic" THEN [task[q] EXCEPT !.t = "episodic"]
                    ELSE [task[q] EXCEPT !.at = "lock", !.t = "semantic"]
  <2>1. Move(q, rec) /\ lock' = lock /\ task[q].at = "copy"  BY <1>9 DEF Copy
  <2>2. "lock" \in Phases /\ "semantic" \in Tables /\ "episodic" \in Tables
    BY DEF Phases, Tables
  <2>3. rec \in Task  BY <1>2, <2>2, RecordTyped
  <2>4. rec.at \in {"copy", "lock"} /\ rec.dest = task[q].dest  BY <1>2, <2>1 DEF Task
  <2> HIDE DEF rec
  <2>5. Goes(rec)  BY <2>1, <2>4
  <2> HIDE DEF Goes
  <2> QED BY <1>4, <1>7, <1>9, <2>1, <2>3, <2>4, <2>5
<1>10. CASE Lock(q) /\ ~Post(q)
  <2> DEFINE rec == [task[q] EXCEPT !.at = "reshape", !.todo = Reshape(cols[task[q].t])]
  <2>1. /\ Move(q, rec) /\ lock' = [lock EXCEPT ![task[q].t] = q]
        /\ task[q].at = "lock" /\ lock[task[q].t] = Free
    BY <1>10 DEF Lock
  <2>2. Reshape(cols[task[q].t]) \in Seq(Commits)  BY ReshapeTyped
  <2>3. rec \in Task
    <3> HIDE DEF Reshape
    <3> QED BY <1>2, <2>2, RecordTyped DEF Phases
  <2>4. rec.at = "reshape" /\ rec.dest = task[q].dest /\ rec.t = task[q].t
    <3> HIDE DEF Reshape
    <3> QED BY <1>2 DEF Task
  <2> HIDE DEF rec
  <2>5. Goes(rec)  BY <2>1, <2>4
  <2> HIDE DEF Goes
  <2> QED BY <1>4, <1>7, <1>10, <2>1, <2>3, <2>4, <2>5
<1>11. CASE Step(q) /\ ~Post(q)
  <2> DEFINE rec == [task[q] EXCEPT !.todo = Tail(task[q].todo)]
  <2>1. /\ Move(q, rec) /\ lock' = lock
        /\ task[q].at = "reshape" /\ task[q].todo # <<>>
    BY <1>11 DEF Step
  <2>2. Tail(task[q].todo) \in Seq(Commits)  BY <1>2, <2>1 DEF Task
  <2>3. rec \in Task  BY <1>2, <2>2, RecordTyped
  <2>4. rec.at = "reshape" /\ rec.dest = task[q].dest /\ rec.t = task[q].t
    BY <1>2, <2>1 DEF Task
  <2> HIDE DEF rec
  <2>5. Goes(rec)  BY <2>1, <2>4
  <2> HIDE DEF Goes
  <2> QED BY <1>4, <1>7, <1>11, <2>1, <2>3, <2>4, <2>5
<1>12. CASE (Finish(q) \/ StepFails(q)) /\ ~Post(q)
  <2>1. PICK legacy \in BOOLEAN :
           /\ lock' = [lock EXCEPT ![task[q].t] = Free] /\ task[q].at = "reshape"
           /\ \/ Move(q, [task[q] EXCEPT !.at = "lock", !.t = "episodic"])
              \/ Move(q, [task[q] EXCEPT !.at = "stamp", !.legacy = legacy])
              \/ Move(q, [task[q] EXCEPT !.at = "done", !.todo = <<>>])
    <3>1. CASE Finish(q)
      <4> DEFINE l == \E u \in Tables : IsV1(cache'["daemon"][u])
      <4>1. l \in BOOLEAN  OBVIOUS
      <4>2. /\ lock' = [lock EXCEPT ![task[q].t] = Free] /\ task[q].at = "reshape"
            /\ \/ Move(q, [task[q] EXCEPT !.at = "lock", !.t = "episodic"])
               \/ Move(q, [task[q] EXCEPT !.at = "stamp", !.legacy = l])
        BY <3>1 DEF Finish, Released
      <4> HIDE DEF l
      <4> QED BY <4>1, <4>2
    <3>2. CASE StepFails(q)  BY <3>2 DEF StepFails, Released
    <3> QED BY <1>12, <3>1, <3>2
  <2>2. /\ {"lock", "stamp", "done"} \subseteq Phases /\ "episodic" \in Tables
        /\ <<>> \in Seq(Commits)
    BY DEF Phases, Tables
  <2>3. PICK rec \in {[task[q] EXCEPT !.at = "lock", !.t = "episodic"],
                      [task[q] EXCEPT !.at = "stamp", !.legacy = legacy],
                      [task[q] EXCEPT !.at = "done", !.todo = <<>>]} : Move(q, rec)
    BY <2>1
  <2>4. rec \in Task
    <3>1. [task[q] EXCEPT !.at = "lock", !.t = "episodic"] \in Task
      BY <1>2, <2>2, RecordTyped
    <3>2. [task[q] EXCEPT !.at = "stamp", !.legacy = legacy] \in Task
      BY <1>2, <2>2, RecordTyped
    <3>3. [task[q] EXCEPT !.at = "done", !.todo = <<>>] \in Task
      BY <1>2, <2>2, RecordTyped
    <3> QED BY <2>3, <3>1, <3>2, <3>3
  <2>5. rec.at \in {"lock", "stamp", "done"} /\ rec.dest = task[q].dest
    BY <1>2 DEF Task
  <2>6. Goes(rec)  BY <2>1, <2>5
  <2> HIDE DEF Goes
  <2> QED BY <1>4, <1>7, <1>12, <2>3, <2>4, <2>5, <2>6
<1>13. CASE (Stamp(q) \/ Write(q)) /\ ~Post(q)
  <2> DEFINE rec == [task[q] EXCEPT !.at = "write"]
  <2>1. /\ lock' = lock /\ task[q].at \in {"stamp", "write"}
        /\ Move(q, AfterStamp(q)) \/ Move(q, rec)
    BY <1>13 DEF Stamp, Write
  <2>2. /\ AfterStamp(q) \in Task /\ AfterStamp(q).dest = task[q].dest
        /\ AfterStamp(q).at = "done"
    BY <1>2, AfterStampTyped DEF Typed
  <2>3. rec \in Task  BY <1>2, RecordTyped DEF Phases
  <2>4. rec.at = "write" /\ rec.dest = task[q].dest  BY <1>2 DEF Task
  <2> HIDE DEF rec
  <2>5. Goes(rec) /\ Goes(AfterStamp(q))  BY <2>1, <2>2, <2>4
  <2> HIDE DEF Goes
  <2> QED BY <1>4, <1>7, <1>13, <2>1, <2>2, <2>3, <2>4, <2>5
<1> HIDE DEF Goes
<1>14. Post(q) \/ ((Request(q) \/ StepFails(q)) /\ ~Post(q))  OBVIOUS
<1> QED BY <1>4, <1>8, <1>9, <1>10, <1>11, <1>12, <1>13, <1>14 DEF Request

\* A crash of the daemon ends its requests; one of the command ends it alone.
LEMMA CrashMoves ==
    ASSUME Typed, NEW p \in Procs, Crash(p)
    PROVE  /\ Moved'
           /\ task'[p].at = "idle"
           /\ p = "command" =>
                 UNCHANGED <<lock, stale>> /\ \A w \in Tasks : w # p => task'[w] = task[w]
           /\ p = "daemon" =>
                 /\ task'["command"] = task["command"]
                 /\ stale' = {} /\ \A t \in Tables : lock'[t] = Free
           /\ \A q \in Requests : task'[q].dest = task[q].dest
           /\ p = "daemon" => \A q \in Requests :
                 /\ task'[q].at \in {"idle", "done"}
                 /\ task[q].at # "idle" => task'[q].at = "done"
                 /\ task[q].at = "idle" => task'[q] = task[q]
<1>1. Stored /\ Moved  BY Parts
<1>2. task \in [Tasks -> Task] /\ Placed  BY <1>1 DEF Moved
<1>3. CASE p = "command"
  <2>1. Move(p, Idle) /\ UNCHANGED <<lock, stale>>
    BY <1>3, Zenon DEF Crash
  <2>2. task' \in [Tasks -> Task] /\ Placed' /\ LockHeld'
    BY <1>3, <2>1, IdleTyped, ProcMoves
  <2>3. task'[p] = Idle /\ \A w \in Tasks : w # p => task'[w] = task[w]
    BY <1>2, <1>3, <2>1, Kinds DEF Move
  <2>4. \A q \in Requests : task'[q] = task[q]  BY <1>3, <2>3, Kinds
  <2> QED BY <1>1, <1>3, <2>1, <2>2, <2>3, <2>4, IdleTyped DEF Moved
<1>4. CASE p = "daemon"
  <2> DEFINE Ended(w) == [Idle EXCEPT !.at = "done", !.dest = task[w].dest]
  <2>1. task' = [w \in Tasks |->
                CASE w = p -> Idle
                  [] w \in Requests /\ task[w].at # "idle" -> Ended(w)
                  [] OTHER -> task[w]]
    BY <1>4, Zenon DEF Crash
  <2>2. lock' = [t \in Tables |-> Free] /\ stale' = {}
    BY <1>4, Zenon DEF Crash
  <2>3. \A q \in Requests : task[q].dest \in 0 .. MaxTicks \cup {Absent}
    BY <1>2, Kinds DEF Task
  <2>4. ASSUME NEW q \in Requests
        PROVE  /\ Ended(q) \in Task /\ Ended(q).at = "done" /\ Ended(q).dest = task[q].dest
    <3>1. "done" \in Phases  BY DEF Phases
    <3>2. Ended(q) \in Task
      BY <2>3, <3>1, IdleTyped DEF Task
    <3> QED BY <3>2 DEF Idle
  <2> HIDE DEF Ended
  <2>5. task'["daemon"] = Idle /\ task'["command"] = task["command"]
    BY <1>4, <2>1, Kinds
  <2>6. \A q \in Requests : task'[q] = IF task[q].at # "idle" THEN Ended(q) ELSE task[q]
    BY <1>4, <2>1, Kinds
  <2>7. task' \in [Tasks -> Task]
    <3>1. \A w \in Tasks : task'[w] \in Task
      BY <1>2, <2>4, <2>5, <2>6, IdleTyped, Kinds DEF Procs
    <3>2. task' = [w \in Tasks |-> task'[w]]  BY <2>1
    <3> QED BY <3>1, <3>2
  <2>8. \A q \in Requests :
            /\ task'[q].dest = task[q].dest
            /\ task'[q].at \in {"idle", "done"}
            /\ task[q].at # "idle" => task'[q].at = "done"
            /\ task[q].at = "idle" => task'[q] = task[q]
    BY <2>4, <2>6
  <2>9. /\ \A t \in Tables : lock'[t] = Free
        /\ lock' \in [Tables -> Requests \cup {Free}]
    BY <2>2
  <2>10. Placed' /\ LockHeld'
    BY <1>2, <2>5, <2>8, <2>9, IdleTyped DEF Placed, LockHeld, Active
  <2> QED BY <1>4, <2>2, <2>5, <2>7, <2>8, <2>9, <2>10, IdleTyped, Kinds DEF Moved
<1> QED BY <1>3, <1>4 DEF Procs

LEMMA TypedStep == ASSUME Typed, [Next]_vars PROVE Typed'
<1>1. Stored' BY StoredStep
<1>2. Moved  BY Parts
<1>3. ASSUME NEW t, NEW r, NEW f, NEW v, Edit(t, r, f, v) PROVE Moved'
  BY <1>2, <1>3, MovedStays DEF Edit
<1>4. ASSUME Look \/ Maintain \/ MaintainFails \/ Tick \/ UNCHANGED vars PROVE Moved'
  <2>1. UNCHANGED <<task, lock>>
    BY <1>4, Zenon DEF Look, Maintain, MaintainFails, Tick, vars, daemonVars
  <2> QED BY <1>2, <2>1, MovedStays
<1>5. ASSUME NEW p \in Procs, Open(p) \/ Stamp(p) \/ Write(p) \/ Crash(p) PROVE Moved'
  BY <1>5, ProcMoved, CrashMoves DEF Open
<1>6. ASSUME Shape \/ \E v \in Words : Commit(v) PROVE Moved'
  BY <1>6, ProcMoved DEF Procs
<1>7. ASSUME NEW q \in Requests, Post(q) \/ Request(q) \/ StepFails(q) PROVE Moved'
  BY <1>7, RequestMoved
<1>8. Moved'  BY <1>3, <1>4, <1>5, <1>6, <1>7 DEF Next
<1> QED BY <1>1, <1>8, Parts

\* The shape the code gives every part of the state.
THEOREM TypeCorrectness == Spec => []TypeOK
<1>1. Init => Typed  BY InitTyped
<1>2. Typed /\ [Next]_vars => Typed'  BY TypedStep
<1>3. Typed => TypeOK  BY DEF Typed
<1> QED BY <1>1, <1>2, <1>3, PTL DEF Spec

-----------------------------------------------------------------------------
(* Columns of layout 1 only go *)

\* What leaves the columns of the tables alone, and what does not.
LEMMA ColsMove ==
    ASSUME Typed, [Next]_vars
    PROVE  \/ UNCHANGED cols
           \/ \E p \in Procs : OpenTable(p)
           \/ \E q \in Requests : Step(q)
<1>1. ASSUME NEW p, Layout(p) \/ Stamp(p) \/ Write(p) \/ Crash(p) PROVE UNCHANGED cols
  BY <1>1, Zenon DEF Layout, Stamp, Write, Crash, tableVars
<1>2. ASSUME NEW t, NEW r, NEW f, NEW v, Edit(t, r, f, v) PROVE UNCHANGED cols
  BY <1>2 DEF Edit
<1>3. ASSUME NEW v, Shape \/ Commit(v) PROVE UNCHANGED cols
  BY <1>3 DEF Shape, Commit, tableVars
<1>4. ASSUME NEW q, Post(q) \/ Copy(q) \/ Lock(q) \/ Finish(q) \/ StepFails(q)
      PROVE  UNCHANGED cols
  BY <1>4 DEF Post, Copy, Lock, Finish, StepFails, tableVars
<1>5. ASSUME Look \/ Maintain \/ MaintainFails \/ Tick \/ UNCHANGED vars PROVE UNCHANGED cols
  BY <1>5 DEF Look, Maintain, MaintainFails, Tick, vars, tableVars
<1> QED BY <1>1, <1>2, <1>3, <1>4, <1>5 DEF Next, Open, Request

\* Opening a table makes its columns those it had and perhaps more of layout 2.
LEMMA OpenedCols ==
    ASSUME Typed, NEW p \in Procs, OpenTable(p)
    PROVE  \A t \in Tables :
             /\ cols[t] \subseteq cols'[t]
             /\ cols'[t] \cap OldColumns \subseteq cols[t]
             /\ \/ cols'[t] = cols[t]
                \/ cols[t] = {} /\ cols'[t] = Fields
                \/ cols[t] # {} /\ cols'[t] = cols[t] \cup Additions(cols[t])
<1>1. PICK u : \/ cols' = cols
               \/ cols' = [cols EXCEPT ![u] =
                      IF cols[u] = {} THEN Fields ELSE cols[u] \cup Additions(cols[u])]
  BY DEF OpenTable
<1>2. \A c : Additions(c) \subseteq {"summary"}  BY DEF Additions
<1>3. cols \in [Tables -> SUBSET Columns]  BY Parts DEF Stored
<1>4. "summary" \notin OldColumns /\ Fields \cap OldColumns = {}  BY Names DEF Fields
<1>5. ASSUME NEW t \in Tables
      PROVE \/ cols'[t] = cols[t]
            \/ cols[t] = {} /\ cols'[t] = Fields
            \/ cols[t] # {} /\ cols'[t] = cols[t] \cup Additions(cols[t])
  BY <1>1, <1>3
<1> QED BY <1>2, <1>4, <1>5

\* A commit of a reshaping, as a step of one table.
LEMMA StepShape ==
    ASSUME Typed, NEW q \in Requests, Step(q)
    PROVE  /\ task[q].t \in Tables /\ task[q].at = "reshape" /\ lock[task[q].t] = q
           /\ Head(task[q].todo) \in Commits /\ task[q].todo # <<>>
           /\ cols' = [cols EXCEPT ![task[q].t] =
                  ColsAfter(Head(task[q].todo), cols[task[q].t])]
           /\ \A u \in Tables : u # task[q].t => cols'[u] = cols[u] /\ cell'[u] = cell[u]
           /\ cols'[task[q].t] = ColsAfter(Head(task[q].todo), cols[task[q].t])
           /\ \A r \in AllRows : cell'[task[q].t][r] =
                  CellsAfter(Head(task[q].todo), cell[task[q].t][r])
           /\ lock' = lock /\ cache' = cache
<1> DEFINE t == task[q].t  s == Head(task[q].todo)
<1>1. Stored /\ Moved  BY Parts
<1>2. task[q] \in Task /\ task[q].at = "reshape" /\ task[q].todo # <<>>
  BY <1>1, Kinds DEF Step, Moved
<1>3. t \in Tables /\ s \in Commits  BY <1>2 DEF Task
<1>4. lock[t] = q  BY <1>1, <1>2 DEF Moved, Placed
<1>5. /\ cols' = [cols EXCEPT ![t] = ColsAfter(s, cols[t])]
      /\ cell' = [cell EXCEPT ![t] = [r \in AllRows |-> CellsAfter(s, cell[t][r])]]
      /\ lock' = lock /\ cache' = cache
  BY DEF Step
<1>6. cols \in [Tables -> SUBSET Columns]
  BY <1>1 DEF Stored
<1>7. cell \in [Tables -> [AllRows -> [Columns -> Values]]]  BY <1>1 DEF Stored
<1> HIDE DEF t, s
<1>8. /\ \A u \in Tables : u # t => cols'[u] = cols[u] /\ cell'[u] = cell[u]
      /\ cols'[t] = ColsAfter(s, cols[t])
      /\ \A r \in AllRows : cell'[t][r] = CellsAfter(s, cell[t][r])
  BY <1>3, <1>5, <1>6, <1>7
<1> QED BY <1>2, <1>3, <1>4, <1>5, <1>8 DEF t, s

LEMMA OldShrinks ==
    ASSUME Typed, [Next]_vars
    PROVE  /\ \A t \in Tables : cols'[t] \cap OldColumns \subseteq cols[t]
           /\ AnyLegacy' => AnyLegacy
<1>1. \A t \in Tables : cols'[t] \cap OldColumns \subseteq cols[t]
  <2>1. ASSUME NEW q \in Requests, Step(q), NEW t \in Tables
        PROVE  cols'[t] \cap OldColumns \subseteq cols[t]
    <3>1. cols[task[q].t] \in SUBSET Columns  BY <2>1, Parts, StepShape DEF Stored
    <3>2. CASE t = task[q].t
      BY <2>1, <3>1, <3>2, StepShape, ColsAfterTyped
    <3>3. CASE t # task[q].t  BY <2>1, <3>3, StepShape
    <3> QED BY <3>2, <3>3
  <2> QED BY <2>1, ColsMove, OpenedCols
<1>2. AnyLegacy' => AnyLegacy  BY <1>1 DEF AnyLegacy, IsV1, OldColumns
<1> QED BY <1>1, <1>2

\* How the tables the daemon knows, and what it knows of them, change.
LEMMA ReadStep ==
    ASSUME Typed, [Next]_vars
    PROVE  \A t \in ReadTables' :
             \/ t \in ReadTables /\ cache'["daemon"][t] = cache["daemon"][t]
             \/ cache'["daemon"][t] = cols[t] /\ UNCHANGED cols
<1> DEFINE Told == \A t \in ReadTables' :
             \/ t \in ReadTables /\ cache'["daemon"][t] = cache["daemon"][t]
             \/ cache'["daemon"][t] = cols[t] /\ UNCHANGED cols
<1>1. Stored /\ Moved  BY Parts
<1>2. /\ cache \in [Procs -> [Tables -> SUBSET Columns]] /\ "daemon" \in Procs
      /\ task \in [Tasks -> Task] /\ Placed
  BY <1>1 DEF Stored, Moved, Procs
<1>3. task["daemon"] \in Task  BY <1>2, Kinds
<1>4. ASSUME task'["daemon"] = task["daemon"], cache'["daemon"] = cache["daemon"] PROVE Told
  BY <1>4 DEF ReadTables, Opened
<1>5. CASE OpenTable("daemon")
  <2>1. cache' = cache /\ task["daemon"].at \in {"idle", "table"}  BY <1>5 DEF OpenTable
  <2>2. \/ task'["daemon"].at = "refused"
        \/ /\ task'["daemon"].at = "layout"
           /\ task'["daemon"].t = IF task["daemon"].at = "idle" THEN "semantic"
                                  ELSE task["daemon"].t
    <3> DEFINE t == IF task["daemon"].at = "idle" THEN FirstTable("daemon")
                    ELSE task["daemon"].t
    <3>1. \/ Move("daemon", [Idle EXCEPT !.at = "layout", !.t = t])
          \/ Move("daemon", [Idle EXCEPT !.at = "refused"])
      BY <1>5 DEF OpenTable
    <3>2. \A rec : Move("daemon", rec) => task'["daemon"] = rec
      BY <1>2, Kinds DEF Move
    <3>3. t = IF task["daemon"].at = "idle" THEN "semantic" ELSE task["daemon"].t
      BY DEF FirstTable
    <3> HIDE DEF t
    <3>4. \/ task'["daemon"] = [Idle EXCEPT !.at = "layout", !.t = t]
          \/ task'["daemon"] = [Idle EXCEPT !.at = "refused"]
      BY <3>1, <3>2
    <3> QED BY <3>3, <3>4 DEF Idle
  <2>3. CASE task'["daemon"].at = "refused"
    BY <2>3 DEF ReadTables, Opened
  <2>4. CASE task'["daemon"].at = "layout" /\ task["daemon"].at = "idle"
    BY <2>2, <2>4 DEF ReadTables, Opened
  <2>5. CASE task'["daemon"].at = "layout" /\ task["daemon"].at = "table"
    <3>1. task["daemon"].t = "episodic" /\ task'["daemon"].t = "episodic"
      BY <1>2, <2>2, <2>5 DEF Placed
    <3> QED BY <2>1, <2>5, <3>1 DEF ReadTables, Opened
  <2> QED BY <2>1, <2>2, <2>3, <2>4, <2>5
<1>6. CASE Layout("daemon")
  <2> DEFINE t == task["daemon"].t
  <2>1. /\ cache' = [cache EXCEPT !["daemon"][t] = cols[t]] /\ cols' = cols
        /\ task["daemon"].at = "layout"
        /\ task'["daemon"].at = "stamp" /\ task'["daemon"].t = t
    BY <1>2, <1>3, <1>6, Kinds DEF Layout, Move, tableVars, Task
  <2>2. t \in Tables  BY <1>3 DEF Task
  <2>3. \A u \in ReadTables' : u = t \/ u \in ReadTables
    BY <2>1 DEF ReadTables, Opened
  <2> HIDE DEF t
  <2>4. /\ cache'["daemon"][t] = cols[t]
        /\ \A u \in Tables : u # t => cache'["daemon"][u] = cache["daemon"][u]
    BY <1>2, <2>1, <2>2
  <2>5. ReadTables' \subseteq Tables
    <3>1. task'["daemon"].t \in Tables  BY <2>1, <2>2
    <3> QED BY <3>1 DEF ReadTables, Opened, Tables
  <2> QED BY <2>1, <2>3, <2>4, <2>5
<1>7. CASE Stamp("daemon") \/ Write("daemon")
  <2>1. cache' = cache /\ task["daemon"].at \in {"stamp", "write"}  BY <1>7 DEF Stamp, Write
  <2>2. \/ task'["daemon"] = AfterStamp("daemon")
        \/ task'["daemon"] = [task["daemon"] EXCEPT !.at = "write"]
    BY <1>2, <1>7, Kinds DEF Stamp, Write, Move
  <2>3. task["daemon"].t \in {"semantic", "episodic"}  BY <1>3 DEF Task, Tables
  <2>4. CASE task'["daemon"] = [task["daemon"] EXCEPT !.at = "write"]
    <3>1. task'["daemon"].at = "write" /\ task'["daemon"].t = task["daemon"].t
      BY <1>3, <2>4 DEF Task
    <3> QED BY <2>1, <3>1 DEF ReadTables, Opened
  <2>5. CASE task'["daemon"] = AfterStamp("daemon") /\ task["daemon"].t = "semantic"
    <3>1. task'["daemon"].at = "table" /\ task'["daemon"].t = "episodic"
      BY <2>5, AfterStampTyped, Kinds DEF Typed
    <3> QED BY <2>1, <2>5, <3>1 DEF ReadTables, Opened
  <2>6. CASE task'["daemon"] = AfterStamp("daemon") /\ task["daemon"].t = "episodic"
    <3>1. task'["daemon"].at = "up"
      BY <2>6, AfterStampTyped, Kinds DEF Typed
    <3> QED BY <2>1, <2>6, <3>1 DEF ReadTables, Opened, Tables
  <2> QED BY <2>2, <2>3, <2>4, <2>5, <2>6
<1>8. CASE Crash("daemon")
  <2>1. task'["daemon"].at = "idle"  BY <1>2, <1>8, CrashMoves
  <2> QED BY <2>1 DEF ReadTables, Opened
<1>9. ASSUME NEW q \in Requests, Post(q) \/ Request(q) \/ StepFails(q) PROVE Told
  <2>1. task'["daemon"] = task["daemon"]  BY <1>9, RequestMoved, Kinds
  <2>2. CASE Finish(q)
    <3> DEFINE t == task[q].t
    <3>1. cache' = [cache EXCEPT !["daemon"][t] = cols[t]] /\ cols' = cols
      BY <2>2 DEF Finish, tableVars
    <3>2. t \in Tables  BY <1>2, Kinds DEF Task
    <3> HIDE DEF t
    <3>3. /\ cache'["daemon"][t] = cols[t]
          /\ \A u \in Tables : u # t => cache'["daemon"][u] = cache["daemon"][u]
      BY <1>2, <3>1, <3>2
    <3>4. ReadTables' = ReadTables /\ ReadTables \subseteq Tables
      BY <1>3, <2>1 DEF ReadTables, Opened, Tables, Task
    <3> QED BY <3>1, <3>3, <3>4
  <2>3. CASE ~Finish(q)
    <3>1. cache' = cache
      BY <1>9, <2>3 DEF Post, Request, Copy, Lock, Step, Stamp, Write, StepFails
    <3> QED BY <1>4, <2>1, <3>1
  <2> QED BY <2>2, <2>3
<1>10. ASSUME OpenTable("command") \/ Layout("command") \/ Stamp("command") \/ Write("command")
              \/ Crash("command") \/ Shape \/ \E v \in Words : Commit(v)
       PROVE  Told
  <2>1. task'["daemon"] = task["daemon"]
    BY <1>10, ProcMoved, CrashMoves, Kinds DEF Procs
  <2>2. \/ cache' = cache
        \/ \E x : cache' = [cache EXCEPT !["command"] = x]
        \/ \E t, x : cache' = [cache EXCEPT !["command"][t] = x]
    BY <1>10, Zenon DEF OpenTable, Layout, Stamp, Write, Crash, Shape, Commit
  <2>3. cache'["daemon"] = cache["daemon"]  BY <1>2, <2>2
  <2> QED BY <1>4, <2>1, <2>3
<1>11. ASSUME (\E t \in Tables, r \in Rows, f \in Edited, v \in Words : Edit(t, r, f, v))
              \/ Look \/ Maintain \/ MaintainFails \/ Tick \/ UNCHANGED vars
       PROVE  Told
  <2>1. UNCHANGED <<task, cache>>
    BY <1>11 DEF Edit, Look, Maintain, MaintainFails, Tick, vars, daemonVars
  <2> QED BY <1>4, <2>1
<1> QED BY <1>5, <1>6, <1>7, <1>8, <1>9, <1>10, <1>11 DEF Next, Open, Procs

-----------------------------------------------------------------------------
(* The sidecar is never ahead of the tables *)

Ahead == Typed /\ KnowsOld /\ Marks /\ NeverAhead

LEMMA InitAhead ==
    ASSUME Init, StoresAsLeft
    PROVE  Ahead
<1>1. Typed  BY InitTyped
<1>2. PICK s \in Stores : cols = s.cols /\ sidecar = s.sidecar
  BY DEF Init
<1>3. NeverAhead  BY <1>2 DEF StoresAsLeft, NeverAhead, AnyLegacy
<1>4. \A w \in Tasks : task[w].at = "idle"  BY IdleTyped DEF Init
<1>5. KnowsOld /\ Marks  BY <1>4, Kinds DEF KnowsOld, Marks, ReadTables, Opened
<1> QED BY <1>1, <1>3, <1>5 DEF Ahead

LEMMA KnowsOldStep ==
    ASSUME Typed, KnowsOld, [Next]_vars PROVE KnowsOld'
<1> SUFFICES ASSUME NEW t \in ReadTables'
             PROVE  cols'[t] \cap OldColumns \subseteq cache'["daemon"][t]
  BY DEF KnowsOld
<1>1. t \in Tables
  <2>1. task'["daemon"].t \in Tables  BY TypedStep, Kinds DEF Typed, TypeOK
  <2> QED BY <2>1 DEF ReadTables, Opened, Tables
<1>2. cols'[t] \cap OldColumns \subseteq cols[t]  BY <1>1, OldShrinks
<1> QED BY <1>2, ReadStep DEF KnowsOld

\* Who is about to write the sidecar saw what there was just before.
LEMMA MarkStep ==
    ASSUME Typed, KnowsOld, [Next]_vars, NEW w \in Tasks, task'[w].at \in {"stamp", "write"}
    PROVE  \/ task[w].at \in {"stamp", "write"} /\ task'[w].legacy = task[w].legacy
           \/ AnyLegacy' => task'[w].legacy
<1> DEFINE Told == \/ task[w].at \in {"stamp", "write"} /\ task'[w].legacy = task[w].legacy
                   \/ AnyLegacy' => task'[w].legacy
<1>1. Stored /\ Moved  BY Parts
<1>2. task \in [Tasks -> Task] /\ Placed  BY <1>1 DEF Moved
<1>3. task[w] \in Task  BY <1>2
<1>4. CASE task'[w] = task[w]  BY <1>4
<1>5. ASSUME NEW rec, Move(w, rec) PROVE task'[w] = rec
  BY <1>2, <1>5 DEF Move
<1>6. ASSUME NEW p \in Procs, OpenTable(p) PROVE Told
  <2>1. CASE w = p
    <3>1. PICK t : \/ task'[w] = [Idle EXCEPT !.at = "layout", !.t = t]
                   \/ task'[w] = [Idle EXCEPT !.at = "refused"]
      BY <1>5, <1>6, <2>1 DEF OpenTable
    <3> QED BY <3>1 DEF Idle
  <2>2. CASE w # p  BY <1>4, <1>6, <2>2, ProcMoved
  <2> QED BY <2>1, <2>2
<1>7. ASSUME NEW p \in Procs, Layout(p) PROVE Told
  <2>1. CASE w = p
    <3>1. task'[w] = [task[w] EXCEPT !.at = "stamp", !.legacy = SeesLegacy(task[w].t)]
      BY <1>5, <1>7, <2>1 DEF Layout
    <3>2. task'[w].legacy = SeesLegacy(task[w].t)  BY <1>3, <3>1 DEF Task
    <3>3. cols' = cols  BY <1>7 DEF Layout, tableVars
    <3>4. AnyLegacy' => SeesLegacy(task[w].t)  BY <3>3 DEF AnyLegacy, SeesLegacy, IsV1
    <3> QED BY <3>2, <3>4
  <2>2. CASE w # p  BY <1>4, <1>7, <2>2, ProcMoved
  <2> QED BY <2>1, <2>2
<1>8. ASSUME NEW k \in Tasks, Stamp(k) \/ Write(k) PROVE Told
  <2>1. CASE w = k
    <3>1. \/ task'[w] = AfterStamp(w)
          \/ /\ task'[w] = [task[w] EXCEPT !.at = "write"]
             /\ task[w].at = "stamp"
      BY <1>5, <1>8, <2>1 DEF Stamp, Write
    <3>2. AfterStamp(w).at \in {"done", "table", "up"}
      BY <1>2, AfterStampTyped DEF Typed
    <3> QED BY <1>3, <3>1, <3>2 DEF Task
  <2>2. CASE w # k
    <3>1. \A rec : Move(k, rec) => task'[w] = task[w]  BY <1>2, <2>2 DEF Move
    <3>2. task'[w] = task[w]  BY <1>8, <3>1 DEF Stamp, Write
    <3> QED BY <1>4, <3>2
  <2> QED BY <2>1, <2>2
<1>9. ASSUME Shape \/ \E v \in Words : Commit(v) PROVE Told
  <2>1. CASE w = "command"
    <3>1. \/ task'[w] = [task[w] EXCEPT !.at = "commit", !.shape = cols["episodic"]]
          \/ task'[w] = Idle
      BY <1>5, <1>9, <2>1 DEF Shape, Commit
    <3> QED BY <1>3, <3>1, IdleTyped DEF Task
  <2>2. CASE w # "command"  BY <1>4, <1>9, <2>2, ProcMoved DEF Procs
  <2> QED BY <2>1, <2>2
<1>10. ASSUME NEW q \in Requests, Post(q) \/ Request(q) \/ StepFails(q) PROVE Told
  <2>1. CASE w # q  BY <1>4, <1>10, <2>1, RequestMoved
  <2>2. CASE w = q /\ Finish(q)
    <3>1. task["daemon"].at = "up" /\ task'["daemon"] = task["daemon"]
      BY <1>10, RequestMoved, Kinds
    <3>2. ReadTables' = Tables  BY <3>1 DEF ReadTables, Opened
    <3>3. AnyLegacy' => \E u \in Tables : IsV1(cache'["daemon"][u])
      BY <3>2, KnowsOldStep DEF KnowsOld, AnyLegacy, IsV1, OldColumns
    <3> DEFINE l == \E u \in Tables : IsV1(cache'["daemon"][u])
    <3>4. \/ task'[w] = [task[w] EXCEPT !.at = "lock", !.t = "episodic"]
          \/ task'[w] = [task[w] EXCEPT !.at = "stamp", !.legacy = l]
      BY <1>5, <2>2 DEF Finish
    <3> HIDE DEF l
    <3>5. \/ task'[w].at = "lock"
          \/ task'[w].legacy = l
      BY <1>3, <3>4 DEF Task
    <3> QED BY <3>3, <3>5 DEF l
  <2>3. CASE w = q /\ (Stamp(q) \/ Write(q))  BY <1>8, <2>3, Kinds
  <2>4. CASE w = q /\ Post(q)
    <3>1. task'[w] = [Idle EXCEPT !.at = "copy", !.dest = now]
      BY <1>5, <2>4 DEF Post
    <3> QED BY <3>1 DEF Idle
  <2>5. CASE w = q /\ Copy(q)
    <3>1. /\ \/ task'[w] = [task[w] EXCEPT !.t = "episodic"]
             \/ task'[w] = [task[w] EXCEPT !.at = "lock", !.t = "semantic"]
          /\ task[w].at = "copy"
      BY <1>5, <2>5 DEF Copy
    <3> QED BY <1>3, <3>1 DEF Task
  <2>6. CASE w = q /\ (Lock(q) \/ Step(q) \/ StepFails(q))
    <3>1. PICK todo :
             \/ task'[w] = [task[w] EXCEPT !.at = "reshape", !.todo = todo]
             \/ task'[w] = [task[w] EXCEPT !.todo = todo] /\ task[w].at = "reshape"
             \/ task'[w] = [task[w] EXCEPT !.at = "done", !.todo = todo]
      BY <1>5, <2>6 DEF Lock, Step, StepFails
    <3> QED BY <1>3, <3>1 DEF Task
  <2> QED BY <1>10, <2>1, <2>2, <2>3, <2>4, <2>5, <2>6 DEF Request
<1>11. ASSUME NEW p \in Procs, Crash(p) PROVE Told
  <2>1. CASE w = p  BY <1>11, <2>1, CrashMoves
  <2>2. CASE w # p /\ p = "command"  BY <1>4, <1>11, <2>2, CrashMoves
  <2>3. CASE w # p /\ p = "daemon" /\ w = "command"  BY <1>4, <1>11, <2>3, CrashMoves
  <2>4. CASE p = "daemon" /\ w \in Requests  BY <1>11, <2>4, CrashMoves
  <2> QED BY <2>1, <2>2, <2>3, <2>4, Kinds DEF Procs
<1>12. ASSUME (\E t \in Tables, r \in Rows, f \in Edited, v \in Words : Edit(t, r, f, v))
              \/ Look \/ Maintain \/ MaintainFails \/ Tick \/ UNCHANGED vars
       PROVE  Told
  <2>1. task' = task
    BY <1>12 DEF Edit, Look, Maintain, MaintainFails, Tick, vars, daemonVars
  <2> QED BY <1>4, <2>1
<1> HIDE DEF Told
<1>13. Told
  BY <1>6, <1>7, <1>8, <1>9, <1>10, <1>11, <1>12, Kinds DEF Next, Open
<1> QED BY <1>13 DEF Told

\* What the sidecar says after a step.
LEMMA SidecarStep ==
    ASSUME Typed, [Next]_vars
    PROVE  \/ sidecar' = sidecar
           \/ sidecar' = NoVersion
           \/ \E w \in Tasks : task[w].at = "write" /\ UNCHANGED cols
                               /\ sidecar' = VersionFor(task[w].legacy)
<1> DEFINE Told ==
        \/ sidecar' = sidecar
        \/ sidecar' = NoVersion
        \/ \E w \in Tasks : task[w].at = "write" /\ UNCHANGED cols
                            /\ sidecar' = VersionFor(task[w].legacy)
<1>1. ASSUME NEW w \in Tasks, Stamp(w) \/ Write(w) PROVE Told
  BY <1>1 DEF Stamp, Write, tableVars
<1>2. ASSUME NEW p \in Procs, OpenTable(p) \/ Layout(p) \/ Crash(p) PROVE sidecar' = sidecar
  BY <1>2, Zenon DEF OpenTable, Layout, Crash
<1>3. ASSUME NEW q \in Requests, Post(q) \/ Copy(q) \/ Lock(q) \/ Step(q) \/ Finish(q)
                                 \/ StepFails(q)
      PROVE  sidecar' = sidecar
  BY <1>3 DEF Post, Copy, Lock, Step, Finish, StepFails
<1>4. ASSUME (\E t \in Tables, r \in Rows, f \in Edited, v \in Words : Edit(t, r, f, v))
             \/ Shape \/ (\E v \in Words : Commit(v))
             \/ Look \/ Maintain \/ MaintainFails \/ Tick \/ UNCHANGED vars
      PROVE  sidecar' = sidecar
  BY <1>4 DEF Edit, Shape, Commit, Look, Maintain, MaintainFails, Tick, vars
<1> QED BY <1>1, <1>2, <1>3, <1>4, Kinds DEF Next, Open, Request

LEMMA AheadStep == ASSUME Ahead, [Next]_vars PROVE Ahead'
<1>1. Typed' /\ KnowsOld'  BY TypedStep, KnowsOldStep DEF Ahead
<1>2. AnyLegacy' => AnyLegacy  BY OldShrinks DEF Ahead
<1>3. Marks'
  <2> SUFFICES ASSUME NEW w \in Tasks, task'[w].at \in {"stamp", "write"}, AnyLegacy',
                      task'[w].legacy = FALSE
               PROVE  FALSE
    <3>1. \A w \in Tasks : task'[w].legacy \in BOOLEAN
      BY <1>1 DEF Typed, Shaped, Task
    <3> QED BY <3>1 DEF Marks
  <2> QED BY <1>2, MarkStep DEF Ahead, Marks
<1>4. NeverAhead'
  <2>1. CASE sidecar' = sidecar  BY <1>2, <2>1 DEF Ahead, NeverAhead
  <2>2. CASE sidecar' = NoVersion  BY <2>2 DEF NeverAhead, NoVersion, Store
  <2>3. ASSUME NEW w \in Tasks, task[w].at = "write", UNCHANGED cols,
               sidecar' = VersionFor(task[w].legacy)
        PROVE  NeverAhead'
    <3>1. CASE task[w].legacy
      BY <2>3, <3>1 DEF VersionFor, NeverAhead, Legacy, Store
    <3>2. CASE ~task[w].legacy
      BY <1>2, <2>3, <3>2 DEF Ahead, Marks, NeverAhead
    <3> QED BY <3>1, <3>2
  <2> QED BY <2>1, <2>2, <2>3, SidecarStep DEF Ahead
<1> QED BY <1>1, <1>3, <1>4 DEF Ahead

\* The sidecar never says layout 2 while a table still has something of layout
\* 1, whoever opens, reshapes, stamps or dies in between, if no store starts so.
THEOREM SidecarNeverAhead == StoresAsLeft /\ Spec => []NeverAhead
<1>1. StoresAsLeft /\ Init => Ahead  BY InitAhead
<1>2. Ahead /\ [Next]_vars => Ahead'  BY AheadStep
<1>3. Ahead => NeverAhead  BY DEF Ahead
<1> QED BY <1>1, <1>2, <1>3, PTL DEF Spec

-----------------------------------------------------------------------------
(* What a step does to a table and its rows *)

RowStays(t, r) == cell'[t][r] = cell[t][r] /\ said'[t][r] = said[t][r]

RowEdited(t, r) ==
    /\ r \in Rows /\ lock[t] = Free /\ task["daemon"].at = "up"
    /\ HiddenIn(cols[t], cell[t][r]) => <<t, r>> \in dulled'
    /\ \E f \in Fields, v \in Words :
        /\ cell'[t][r] =
                Conform(GivenBy(t, r, f, v), cols[t], cell[t][r], cache["daemon"][t])
        /\ said'[t][r] = [said[t][r] EXCEPT ![f] = v]

RowCommitted(t, r) ==
    /\ t = "episodic" /\ r = Added /\ task["command"].at = "commit"
    /\ \E v \in Words, known \in SUBSET Columns :
        LET m == [f \in Fields |-> v] IN
        cell'[t][r] = Conform(m, cols[t], cell[t][r], known) /\ said'[t][r] = m

LEMMA EditRows ==
    ASSUME Typed, NEW u \in Tables, NEW s \in Rows, NEW f \in Edited, NEW v \in Words,
           Edit(u, s, f, v)
    PROVE  \A t \in Tables, r \in AllRows : RowStays(t, r) \/ RowEdited(t, r)
<1>1. s \in AllRows /\ f \in Fields  BY Names, UpgradeAssumption
<1> DEFINE x == Conform(GivenBy(u, s, f, v), cols[u], cell[u][s], cache["daemon"][u])
<1>2. /\ cell \in [Tables -> [AllRows -> [Columns -> Values]]]
      /\ said \in [Tables -> [AllRows -> [Fields -> Values]]]
  BY Parts DEF Stored
<1>3. /\ lock[u] = Free /\ task["daemon"].at = "up"
      /\ HiddenIn(cols[u], cell[u][s]) => <<u, s>> \in dulled'
      /\ cell' = [cell EXCEPT ![u][s] = x]
      /\ said' = [said EXCEPT ![u][s][f] = v]
  BY <1>1, <1>2 DEF Edit
<1> HIDE DEF x
<1>4. cell'[u][s] = x /\ said'[u][s] = [said[u][s] EXCEPT ![f] = v]
  BY <1>1, <1>2, <1>3
<1>5. RowEdited(u, s)  BY <1>1, <1>3, <1>4 DEF RowEdited, x
<1>6. ASSUME NEW t \in Tables, NEW r \in AllRows, t # u \/ r # s PROVE RowStays(t, r)
  BY <1>1, <1>2, <1>3, <1>6 DEF RowStays
<1> QED BY <1>5, <1>6

LEMMA CommitRows ==
    ASSUME Typed, NEW v \in Words, Commit(v)
    PROVE  \A t \in Tables, r \in AllRows : RowStays(t, r) \/ RowCommitted(t, r)
<1> DEFINE m == [f \in Fields |-> v]
           known == cache["command"]["episodic"]
           x == Conform(m, cols["episodic"], cell["episodic"][Added], known)
<1>1. /\ cell \in [Tables -> [AllRows -> [Columns -> Values]]]
      /\ said \in [Tables -> [AllRows -> [Fields -> Values]]]
      /\ known \in SUBSET Columns
  BY Parts DEF Stored, Procs, Tables
<1>2. "episodic" \in Tables /\ Added \in AllRows  BY Names DEF Tables
<1>3. task["command"].at = "commit"  BY DEF Commit
<1>4. CASE cell' = cell /\ said' = said  BY <1>4 DEF RowStays
<1>5. CASE /\ cell' = [cell EXCEPT !["episodic"][Added] = x]
           /\ said' = [said EXCEPT !["episodic"][Added] = m]
  <2> HIDE DEF m, known, x
  <2>1. cell'["episodic"][Added] = x /\ said'["episodic"][Added] = m
    BY <1>1, <1>2, <1>5
  <2>2. RowCommitted("episodic", Added)
    BY <1>1, <1>3, <2>1 DEF RowCommitted, x, m
  <2>3. ASSUME NEW t \in Tables, NEW r \in AllRows, t # "episodic" \/ r # Added
        PROVE  RowStays(t, r)
    BY <1>1, <1>2, <1>5, <2>3 DEF RowStays
  <2> QED BY <2>2, <2>3
<1>6. \/ cell' = cell /\ said' = said
      \/ /\ cell' = [cell EXCEPT !["episodic"][Added] = x]
         /\ said' = [said EXCEPT !["episodic"][Added] = m]
  BY Zenon DEF Commit
<1> QED BY <1>4, <1>5, <1>6

\* A table is left alone, written to, opened or reshaped by one commit.
LEMMA TableStep ==
    ASSUME Typed, [Next]_vars
    PROVE  /\ dulled \subseteq dulled'
           /\ \/ /\ UNCHANGED cols
                 /\ \A t \in Tables, r \in AllRows :
                        RowStays(t, r) \/ RowEdited(t, r) \/ RowCommitted(t, r)
              \/ UNCHANGED <<cell, said>> /\ \E p \in Procs : OpenTable(p)
              \/ UNCHANGED said /\ \E q \in Requests : Step(q)
<1> DEFINE Told ==
      /\ dulled \subseteq dulled'
      /\ \/ /\ UNCHANGED cols
            /\ \A t \in Tables, r \in AllRows :
                   RowStays(t, r) \/ RowEdited(t, r) \/ RowCommitted(t, r)
         \/ UNCHANGED <<cell, said>> /\ \E p \in Procs : OpenTable(p)
         \/ UNCHANGED said /\ \E q \in Requests : Step(q)
<1>1. ASSUME UNCHANGED <<cols, cell, said, dulled>> PROVE Told
  BY <1>1 DEF RowStays
<1>2. ASSUME NEW p \in Procs, OpenTable(p) PROVE Told
  BY <1>2 DEF OpenTable, ghostVars
<1>3. ASSUME NEW p, Layout(p) \/ Stamp(p) \/ Write(p) \/ Crash(p) PROVE Told
  <2>1. UNCHANGED <<cols, cell, said, dulled>>
    BY <1>3, Zenon DEF Layout, Stamp, Write, Crash, tableVars, ghostVars
  <2> HIDE DEF Told
  <2> QED BY <1>1, <2>1
<1>4. ASSUME NEW t \in Tables, NEW r \in Rows, NEW f \in Edited, NEW v \in Words,
             Edit(t, r, f, v)
      PROVE  Told
  <2>1. UNCHANGED cols /\ dulled \subseteq dulled'  BY <1>4 DEF Edit
  <2> QED BY <1>4, <2>1, EditRows
<1>5. ASSUME NEW v \in Words, Commit(v) PROVE Told
  <2>1. UNCHANGED cols /\ dulled \subseteq dulled'  BY <1>5 DEF Commit
  <2> QED BY <1>5, <2>1, CommitRows
<1>6. ASSUME NEW q \in Requests, Step(q) PROVE Told
  BY <1>6 DEF Step
<1>7. ASSUME NEW q, Post(q) \/ Copy(q) \/ Lock(q) \/ Finish(q) \/ StepFails(q)
      PROVE  Told
  <2>1. UNCHANGED <<cols, cell, said, dulled>>
    BY <1>7 DEF Post, Copy, Lock, Finish, StepFails, tableVars, ghostVars
  <2> HIDE DEF Told
  <2> QED BY <1>1, <2>1
<1>8. ASSUME Shape \/ Look \/ Maintain \/ MaintainFails \/ Tick \/ UNCHANGED vars
      PROVE  Told
  <2>1. UNCHANGED <<cols, cell, said, dulled>>
    BY <1>8 DEF Shape, Look, Maintain, MaintainFails, Tick, vars, tableVars, ghostVars
  <2> HIDE DEF Told
  <2> QED BY <1>1, <2>1
<1> HIDE DEF Told
<1>9. Told
  BY <1>2, <1>3, <1>4, <1>5, <1>6, <1>7, <1>8 DEF Next, Open, Request
<1> QED BY <1>9 DEF Told

-----------------------------------------------------------------------------
(* The commits of a reshaping *)

DropsLists(t) ==
    /\ "lists" \in cols[t] /\ cols'[t] = cols[t] \ {"lists"}
    /\ \A r \in AllRows, n \in Columns :
        cell'[t][r][n] = IF n = "lists" THEN Null ELSE cell[t][r][n]

Renames(t, f) ==
    /\ f \notin cols[t] /\ OldName[f] \in cols[t]
    /\ cols'[t] = (cols[t] \ {OldName[f]}) \cup {f}
    /\ \A r \in AllRows, n \in Columns :
        cell'[t][r][n] = IF n = OldName[f] THEN Null
                         ELSE IF n = f THEN cell[t][r][OldName[f]] ELSE cell[t][r][n]

Copies(t, f) ==
    /\ {f, OldName[f]} \subseteq cols[t] /\ cols'[t] = cols[t]
    /\ \A r \in AllRows, n \in Columns :
        cell'[t][r][n] = IF n = f /\ cell[t][r][f] = Null THEN cell[t][r][OldName[f]]
                         ELSE cell[t][r][n]

DropsOld(t, f) ==
    /\ {f, OldName[f]} \subseteq cols[t] /\ cols'[t] = cols[t] \ {OldName[f]}
    /\ \A r \in AllRows, n \in Columns :
        cell'[t][r][n] = IF n = OldName[f] THEN Null ELSE cell[t][r][n]
    /\ \A r \in AllRows : cell[t][r][f] = Null => cell[t][r][OldName[f]] = Null

LEMMA Distinct ==
    ASSUME NEW f \in Fields, NEW g \in Fields
    PROVE  /\ f # OldName[g] /\ (f # g => OldName[f] # OldName[g])
           /\ f # "lists" /\ OldName[f] # "lists"
           /\ f \in Columns /\ OldName[f] \in Columns /\ "lists" \in Columns
BY DEF Fields, OldName, Columns

LEMMA DropEffect ==
    ASSUME NEW n \in OldColumns
    PROVE  /\ \A c : ColsAfter(Drop(n), c) = c \ {n}
           /\ \A x \in [Columns -> Values], k \in Columns :
                CellsAfter(Drop(n), x)[k] = IF k = n THEN Null ELSE x[k]
BY Names DEF Drop, ColsAfter, CellsAfter

LEMMA RenameEffect ==
    ASSUME NEW f \in Fields
    PROVE  /\ \A c : ColsAfter(Rename(f), c) = (c \ {OldName[f]}) \cup {f}
           /\ \A x \in [Columns -> Values], k \in Columns :
                CellsAfter(Rename(f), x)[k] =
                    IF k = OldName[f] THEN Null ELSE IF k = f THEN x[OldName[f]] ELSE x[k]
<1>1. \A c : ColsAfter(Rename(f), c) = (c \ {OldName[f]}) \cup {f}
  BY DEF Rename, ColsAfter
<1>2. ASSUME NEW x \in [Columns -> Values], NEW k \in Columns
      PROVE  CellsAfter(Rename(f), x)[k] =
                 IF k = OldName[f] THEN Null ELSE IF k = f THEN x[OldName[f]] ELSE x[k]
  <2> DEFINE o == OldName[f]
  <2>1. CellsAfter(Rename(f), x) = [x EXCEPT ![f] = x[o], ![o] = Null]
    BY DEF Rename, CellsAfter
  <2>2. f # o /\ f \in Columns /\ o \in Columns  BY Distinct
  <2> HIDE DEF o
  <2>3. [x EXCEPT ![f] = x[o], ![o] = Null][k] =
            IF k = o THEN Null ELSE IF k = f THEN x[o] ELSE x[k]
    BY <2>2
  <2> QED BY <2>1, <2>3 DEF o
<1> QED BY <1>1, <1>2

LEMMA CopyEffect ==
    ASSUME NEW f \in Fields
    PROVE  /\ \A c : ColsAfter(CopyTo(f), c) = c
           /\ \A x \in [Columns -> Values], k \in Columns :
                CellsAfter(CopyTo(f), x)[k] =
                    IF k = f /\ x[f] = Null THEN x[OldName[f]] ELSE x[k]
<1>1. \A c : ColsAfter(CopyTo(f), c) = c  BY DEF CopyTo, ColsAfter
<1>2. ASSUME NEW x \in [Columns -> Values], NEW k \in Columns
      PROVE  CellsAfter(CopyTo(f), x)[k] =
                 IF k = f /\ x[f] = Null THEN x[OldName[f]] ELSE x[k]
  <2>1. CellsAfter(CopyTo(f), x) =
            [x EXCEPT ![f] = IF x[f] = Null THEN x[OldName[f]] ELSE x[f]]
    BY DEF CopyTo, CellsAfter
  <2>2. f \in Columns  BY Distinct
  <2> QED BY <2>1, <2>2
<1> QED BY <1>1, <1>2

\* The first commit of what is left for a field, and the rest.
PartNext(f, part, head, rest) ==
    \/ part = <<Rename(f)>> /\ head = Rename(f) /\ rest = <<>>
    \/ /\ part = <<CopyTo(f), Drop(OldName[f])>>
       /\ head = CopyTo(f) /\ rest = <<Drop(OldName[f])>>
    \/ part = <<Drop(OldName[f])>> /\ head = Drop(OldName[f]) /\ rest = <<>>

LEMMA PartHead ==
    ASSUME NEW f \in Fields, NEW part \in PartOf(f), part # <<>>, NEW y \in Seq(Commits)
    PROVE  /\ part \o y # <<>>
           /\ \E rest \in PartOf(f) :
                PartNext(f, part, Head(part \o y), rest) /\ Tail(part \o y) = rest \o y
<1>1. Rename(f) \in Commits /\ CopyTo(f) \in Commits /\ Drop(OldName[f]) \in Commits
  BY Names DEF Commits
<1>2. /\ <<>> \in PartOf(f) /\ <<Drop(OldName[f])>> \in PartOf(f)
  BY DEF PartOf
<1> HIDE DEF Rename, CopyTo, Drop
<1>3. CASE part = <<Rename(f)>>
  <2>1. part \o y # <<>> /\ Head(part \o y) = Rename(f) /\ Tail(part \o y) = <<>> \o y
    BY <1>1, <1>3, Sequences
  <2> QED BY <1>2, <1>3, <2>1 DEF PartNext
<1>4. CASE part = <<CopyTo(f), Drop(OldName[f])>>
  <2>1. /\ part \o y # <<>> /\ Head(part \o y) = CopyTo(f)
        /\ Tail(part \o y) = <<Drop(OldName[f])>> \o y
    BY <1>1, <1>4, Sequences
  <2> QED BY <1>2, <1>4, <2>1 DEF PartNext
<1>5. CASE part = <<Drop(OldName[f])>>
  <2>1. /\ part \o y # <<>> /\ Head(part \o y) = Drop(OldName[f])
        /\ Tail(part \o y) = <<>> \o y
    BY <1>1, <1>5, Sequences
  <2> QED BY <1>2, <1>5, <2>1 DEF PartNext
<1> QED BY <1>3, <1>4, <1>5 DEF PartOf

LEMMA PartTyped == \A f \in Fields : PartOf(f) \subseteq Seq(Commits)
<1> SUFFICES ASSUME NEW f \in Fields PROVE PartOf(f) \subseteq Seq(Commits)
  OBVIOUS
<1>1. Rename(f) \in Commits /\ CopyTo(f) \in Commits /\ Drop(OldName[f]) \in Commits
  BY Names DEF Commits
<1> HIDE DEF Rename, CopyTo, Drop
<1> QED BY <1>1 DEF PartOf

\* The first commit left, s, is of one of the four kinds, and left is the rest.
NextLeft(t, s, left) ==
    \E l \in {<<>>, <<Drop("lists")>>}, a \in PartOf("summary"), b \in PartOf("scope") :
        /\ l # <<>> => "lists" \in cols[t]
        /\ PartFits(t, "summary", a) /\ PartFits(t, "scope", b)
        /\ \/ l # <<>> /\ s = Drop("lists") /\ left = <<>> \o (a \o b)
           \/ \E rest \in PartOf("summary") :
                PartNext("summary", a, s, rest) /\ left = <<>> \o (rest \o b)
           \/ \E rest \in PartOf("scope") :
                PartNext("scope", b, s, rest) /\ left = <<>> \o (<<>> \o rest)

LEMMA LeftNext ==
    ASSUME NEW t, NEW todo, Left(t, todo), todo # <<>>
    PROVE  NextLeft(t, Head(todo), Tail(todo))
<1>1. PICK l \in {<<>>, <<Drop("lists")>>}, a \in PartOf("summary"), b \in PartOf("scope") :
        /\ todo = l \o (a \o b)
        /\ l # <<>> => "lists" \in cols[t]
        /\ PartFits(t, "summary", a)
        /\ PartFits(t, "scope", b)
  BY DEF Left
<1>2. /\ Drop("lists") \in Commits /\ "summary" \in Fields /\ "scope" \in Fields
  BY Names DEF Commits, Fields
<1>3. a \in Seq(Commits) /\ b \in Seq(Commits) /\ a \o b \in Seq(Commits)
  BY <1>2, PartTyped
<1>4. \A y \in Seq(Commits) : <<>> \o y = y  OBVIOUS
<1> HIDE DEF Drop
<1>5. CASE l # <<>>
  <2>1. Head(todo) = Drop("lists") /\ Tail(todo) = a \o b
    <3>1. todo = <<Drop("lists")>> \o (a \o b)  BY <1>1, <1>5
    <3> DEFINE y == a \o b
    <3>2. y \in Seq(Commits)  BY <1>3
    <3> HIDE DEF y
    <3>3. Head(<<Drop("lists")>> \o y) = Drop("lists") /\ Tail(<<Drop("lists")>> \o y) = y
      BY <1>2, <3>2, Sequences
    <3> QED BY <3>1, <3>3 DEF y
  <2>2. Tail(todo) = <<>> \o (a \o b)  BY <1>3, <1>4, <2>1
  <2> QED BY <1>1, <1>5, <2>1, <2>2 DEF NextLeft
<1>6. CASE l = <<>> /\ a # <<>>
  <2>1. todo = a \o b  BY <1>1, <1>3, <1>4, <1>6
  <2>2. PICK rest \in PartOf("summary") :
          PartNext("summary", a, Head(todo), rest) /\ Tail(todo) = rest \o b
    BY <1>2, <1>3, <1>6, <2>1, PartHead
  <2>3. rest \o b \in Seq(Commits)  BY <1>2, <1>3, PartTyped
  <2>4. Tail(todo) = <<>> \o (rest \o b)  BY <1>4, <2>2, <2>3
  <2> QED BY <1>1, <2>2, <2>4 DEF NextLeft
<1>7. CASE l = <<>> /\ a = <<>>
  <2>1. todo = b /\ b # <<>>  BY <1>1, <1>3, <1>4, <1>7
  <2>2. <<>> \in Seq(Commits) /\ b \o <<>> = b  BY <1>3
  <2>3. PICK rest \in PartOf("scope") :
          /\ PartNext("scope", b, Head(b \o <<>>), rest)
          /\ Tail(b \o <<>>) = rest \o <<>>
    BY <1>2, <2>1, <2>2, PartHead
  <2>4. rest \in Seq(Commits) /\ rest \o <<>> = rest  BY <1>2, PartTyped
  <2>5. Tail(todo) = <<>> \o (<<>> \o rest)  BY <1>4, <2>1, <2>2, <2>3, <2>4
  <2> QED BY <1>1, <2>1, <2>2, <2>3, <2>5 DEF NextLeft
<1> QED BY <1>5, <1>6, <1>7

\* What a step of the reshaping does to its table, and that the rest is left.
LEMMA HeadStep ==
    ASSUME Typed, Reshaping, NEW q \in Requests, Step(q),
           NEW t, t = task[q].t, NEW s, s = Head(task[q].todo),
           NEW left, left = Tail(task[q].todo)
    PROVE  /\ \/ DropsLists(t) /\ s.of = "lists"
              \/ \E f \in Fields :
                    s.of # "lists" /\ (Renames(t, f) \/ Copies(t, f) \/ DropsOld(t, f))
           /\ Left(t, left)'
<1>1. /\ t \in Tables /\ task[q].at = "reshape" /\ task[q].todo # <<>>
      /\ cols'[t] = ColsAfter(s, cols[t])
      /\ \A r \in AllRows : cell'[t][r] = CellsAfter(s, cell[t][r])
  BY StepShape
<1>2. /\ cell \in [Tables -> [AllRows -> [Columns -> Values]]]
  BY Parts DEF Stored
<1>3. \A r \in AllRows : cell[t][r] \in [Columns -> Values]  BY <1>1, <1>2
<1>4. Left(t, task[q].todo)  BY <1>1 DEF Reshaping
<1>5. NextLeft(t, s, left)  BY <1>1, <1>4, LeftNext
<1>6. PICK l \in {<<>>, <<Drop("lists")>>}, a \in PartOf("summary"), b \in PartOf("scope") :
        /\ l # <<>> => "lists" \in cols[t]
        /\ PartFits(t, "summary", a) /\ PartFits(t, "scope", b)
        /\ \/ l # <<>> /\ s = Drop("lists") /\ left = <<>> \o (a \o b)
           \/ \E rest \in PartOf("summary") :
                PartNext("summary", a, s, rest) /\ left = <<>> \o (rest \o b)
           \/ \E rest \in PartOf("scope") :
                PartNext("scope", b, s, rest) /\ left = <<>> \o (<<>> \o rest)
  BY <1>5 DEF NextLeft
<1>7. "summary" \in Fields /\ "scope" \in Fields /\ Fields = {"summary", "scope"}
  BY DEF Fields
\* What a commit for one field does, and what it leaves of the other.
<1>8. ASSUME s = Drop("lists"), "lists" \in cols[t]
      PROVE  DropsLists(t) /\ s.of = "lists"
  <2>1. s.of = "lists"  BY <1>8 DEF Drop
  <2> HIDE DEF Drop
  <2>2. cols'[t] = cols[t] \ {"lists"}
    BY <1>1, <1>8, DropEffect, Names
  <2>3. ASSUME NEW r \in AllRows, NEW n \in Columns
        PROVE  cell'[t][r][n] = IF n = "lists" THEN Null ELSE cell[t][r][n]
    BY <1>1, <1>3, <1>8, DropEffect, Names
  <2> QED BY <1>8, <2>1, <2>2, <2>3 DEF DropsLists
<1>9. ASSUME NEW f \in Fields, NEW part, NEW rest, PartFits(t, f, part),
             PartNext(f, part, s, rest)
      PROVE  /\ s.of # "lists"
             /\ Renames(t, f) \/ Copies(t, f) \/ DropsOld(t, f)
             /\ PartFits(t, f, rest)'
  <2>1. CASE part = <<Rename(f)>> /\ s = Rename(f) /\ rest = <<>>
    <3>1. s.of # "lists"  BY <2>1, Distinct DEF Rename
    <3>2. f \notin cols[t] /\ OldName[f] \in cols[t]  BY <1>9, <2>1 DEF PartFits
    <3> HIDE DEF Rename
    <3>3. cols'[t] = (cols[t] \ {OldName[f]}) \cup {f}
      BY <1>1, <2>1, RenameEffect
    <3>4. ASSUME NEW r \in AllRows, NEW n \in Columns
          PROVE  cell'[t][r][n] = IF n = OldName[f] THEN Null
                         ELSE IF n = f THEN cell[t][r][OldName[f]] ELSE cell[t][r][n]
      BY <1>1, <1>3, <2>1, RenameEffect
    <3>5. Renames(t, f)  BY <3>2, <3>3, <3>4 DEF Renames
    <3> QED BY <2>1, <3>1, <3>5 DEF PartFits
  <2>2. CASE /\ part = <<CopyTo(f), Drop(OldName[f])>>
             /\ s = CopyTo(f) /\ rest = <<Drop(OldName[f])>>
    <3>1. s.of # "lists"  BY <2>2, Distinct DEF CopyTo
    <3>2. {f, OldName[f]} \subseteq cols[t]  BY <1>9, <2>2 DEF PartFits
    <3> HIDE DEF CopyTo
    <3>3. cols'[t] = cols[t]
      BY <1>1, <2>2, CopyEffect
    <3>4. ASSUME NEW r \in AllRows, NEW n \in Columns
          PROVE  cell'[t][r][n] = IF n = f /\ cell[t][r][f] = Null
                                  THEN cell[t][r][OldName[f]] ELSE cell[t][r][n]
      BY <1>1, <1>3, <2>2, CopyEffect
    <3>5. Copies(t, f)  BY <3>2, <3>3, <3>4 DEF Copies
    <3>6. \A r \in AllRows : cell'[t][r][f] = Null => cell'[t][r][OldName[f]] = Null
      BY <3>4, Distinct
    <3>7. <<Drop(OldName[f])>> # <<Rename(f)>>  BY DEF Drop, Rename
    <3> HIDE DEF Drop, Rename
    <3>8. PartFits(t, f, rest)'  BY <2>2, <3>2, <3>3, <3>6, <3>7 DEF PartFits
    <3> QED BY <3>1, <3>5, <3>8
  <2>3. CASE part = <<Drop(OldName[f])>> /\ s = Drop(OldName[f]) /\ rest = <<>>
    <3>1. s.of # "lists"  BY <2>3, Distinct DEF Drop
    <3>2. /\ {f, OldName[f]} \subseteq cols[t]
          /\ \A r \in AllRows : cell[t][r][f] = Null => cell[t][r][OldName[f]] = Null
      BY <1>9, <2>3 DEF PartFits
    <3> HIDE DEF Drop
    <3>3. cols'[t] = cols[t] \ {OldName[f]}
      BY <1>1, <2>3, DropEffect, Names
    <3>4. ASSUME NEW r \in AllRows, NEW n \in Columns
          PROVE  cell'[t][r][n] = IF n = OldName[f] THEN Null ELSE cell[t][r][n]
      BY <1>1, <1>3, <2>3, DropEffect, Names
    <3>5. DropsOld(t, f)  BY <3>2, <3>3, <3>4 DEF DropsOld
    <3> QED BY <2>3, <3>1, <3>5 DEF PartFits
  <2> QED BY <1>9, <2>1, <2>2, <2>3 DEF PartNext
<1>10. ASSUME NEW g \in Fields, NEW part, PartFits(t, g, part),
              DropsLists(t) \/ \E f \in Fields \ {g} :
                  Renames(t, f) \/ Copies(t, f) \/ DropsOld(t, f)
       PROVE  PartFits(t, g, part)'
  <2>1. CASE DropsLists(t)
    <3>1. /\ g \in cols'[t] <=> g \in cols[t]
          /\ OldName[g] \in cols'[t] <=> OldName[g] \in cols[t]
          /\ \A r \in AllRows : /\ cell'[t][r][g] = cell[t][r][g]
                               /\ cell'[t][r][OldName[g]] = cell[t][r][OldName[g]]
      BY <2>1, Distinct DEF DropsLists
    <3> QED BY <1>10, <3>1 DEF PartFits
  <2>2. ASSUME NEW f \in Fields \ {g}, Renames(t, f) \/ Copies(t, f) \/ DropsOld(t, f)
        PROVE  PartFits(t, g, part)'
    <3>1. /\ f \in Fields /\ f # g /\ f # OldName[g] /\ OldName[f] # g
          /\ OldName[f] # OldName[g]
          /\ g \in Columns /\ OldName[g] \in Columns
      BY Distinct
    <3>2. /\ g \in cols'[t] <=> g \in cols[t]
          /\ OldName[g] \in cols'[t] <=> OldName[g] \in cols[t]
      BY <2>2, <3>1 DEF Renames, Copies, DropsOld
    <3>3. \A r \in AllRows : /\ cell'[t][r][g] = cell[t][r][g]
                             /\ cell'[t][r][OldName[g]] = cell[t][r][OldName[g]]
      BY <2>2, <3>1 DEF Renames, Copies, DropsOld
    <3> QED BY <1>10, <3>2, <3>3 DEF PartFits
  <2> QED BY <1>10, <2>1, <2>2
<1> DEFINE Kind == \/ DropsLists(t) /\ s.of = "lists"
                   \/ \E f \in Fields :
                        s.of # "lists" /\ (Renames(t, f) \/ Copies(t, f) \/ DropsOld(t, f))
<1>11. CASE /\ l # <<>> /\ s = Drop("lists")
            /\ left = <<>> \o (a \o b)
  <2>1. DropsLists(t) /\ s.of = "lists"  BY <1>6, <1>8, <1>11
  <2>2. PartFits(t, "summary", a)' /\ PartFits(t, "scope", b)'
    BY <1>6, <1>7, <1>10, <2>1
  <2>3. Left(t, left)'  BY <1>11, <2>2 DEF Left
  <2> QED BY <2>1, <2>3
<1>12. ASSUME NEW rest \in PartOf("summary"),
              PartNext("summary", a, s, rest),
              left = <<>> \o (rest \o b)
       PROVE  Kind /\ Left(t, left)'
  <2>1. /\ s.of # "lists"
        /\ Renames(t, "summary") \/ Copies(t, "summary") \/ DropsOld(t, "summary")
        /\ PartFits(t, "summary", rest)'
    BY <1>6, <1>7, <1>9, <1>12
  <2>2. PartFits(t, "scope", b)'
    BY <1>6, <1>7, <1>10, <2>1
  <2>3. Left(t, left)'  BY <1>12, <2>1, <2>2 DEF Left
  <2> QED BY <1>7, <2>1, <2>3
<1>13. ASSUME NEW rest \in PartOf("scope"),
              PartNext("scope", b, s, rest),
              left = <<>> \o (<<>> \o rest)
       PROVE  Kind /\ Left(t, left)'
  <2>1. /\ s.of # "lists"
        /\ Renames(t, "scope") \/ Copies(t, "scope") \/ DropsOld(t, "scope")
        /\ PartFits(t, "scope", rest)'
    BY <1>6, <1>7, <1>9, <1>13
  <2>2. PartFits(t, "summary", <<>>)'  BY DEF PartFits
  <2>3. <<>> \in PartOf("summary")  BY DEF PartOf
  <2>4. Left(t, left)'  BY <1>13, <2>1, <2>2, <2>3 DEF Left
  <2> QED BY <1>7, <2>1, <2>4
<1> HIDE DEF Left
<1>14. Kind /\ Left(t, left)'  BY <1>6, <1>11, <1>12, <1>13
<1> QED BY <1>14

-----------------------------------------------------------------------------
(* How a request goes on *)

LEMMA RequestTask ==
    ASSUME Typed, NEW q \in Requests
    PROVE  /\ Post(q) => /\ task[q].at = "idle" /\ task'[q].dest = now
                         /\ task'[q].at = "copy" /\ task'[q].t = "semantic"
           /\ Copy(q) => /\ task[q].at = "copy"
                         /\ \/ /\ task[q].t = "semantic"
                               /\ task'[q].at = "copy" /\ task'[q].t = "episodic"
                            \/ task[q].t = "episodic" /\ task'[q].at = "lock"
           /\ Lock(q) => /\ task[q].at = "lock" /\ task'[q].at = "reshape"
                         /\ task'[q].t = task[q].t
                         /\ task'[q].todo = Reshape(cols[task[q].t])
           /\ Step(q) => /\ task[q].at = "reshape" /\ task'[q].at = "reshape"
                         /\ task'[q].t = task[q].t /\ task'[q].todo = Tail(task[q].todo)
           /\ Finish(q) => task[q].at = "reshape" /\ task'[q].at \in {"lock", "stamp"}
           /\ StepFails(q) => task[q].at = "reshape" /\ task'[q].at = "done"
           /\ Stamp(q) => task[q].at = "stamp" /\ task'[q].at \in {"write", "done"}
           /\ Write(q) => task[q].at = "write" /\ task'[q].at = "done"
<1>1. task \in [Tasks -> Task] /\ q \in Tasks /\ task[q] \in Task
  BY Parts, Kinds DEF Moved
<1>2. \A rec : Move(q, rec) => task'[q] = rec  BY <1>1 DEF Move
<1>3. AfterStamp(q).at = "done"  BY <1>1, AfterStampTyped DEF Typed
<1>4. ASSUME Post(q)
      PROVE  /\ task[q].at = "idle" /\ task'[q].dest = now
             /\ task'[q].at = "copy" /\ task'[q].t = "semantic"
  <2>1. task'[q] = [Idle EXCEPT !.at = "copy", !.dest = now]  BY <1>2, <1>4 DEF Post
  <2> QED BY <1>4, <2>1 DEF Post, Idle
<1>5. ASSUME Copy(q)
      PROVE  /\ task[q].at = "copy"
             /\ \/ /\ task[q].t = "semantic"
                   /\ task'[q].at = "copy" /\ task'[q].t = "episodic"
                \/ task[q].t = "episodic" /\ task'[q].at = "lock"
  <2>1. /\ task[q].at = "copy"
        /\ \/ task[q].t = "semantic" /\ task'[q] = [task[q] EXCEPT !.t = "episodic"]
           \/ /\ task[q].t # "semantic"
              /\ task'[q] = [task[q] EXCEPT !.at = "lock", !.t = "semantic"]
    BY <1>2, <1>5 DEF Copy
  <2>2. task[q].t \in {"semantic", "episodic"}  BY <1>1 DEF Task, Tables
  <2> QED BY <1>1, <2>1, <2>2 DEF Task
<1>6. ASSUME Lock(q)
      PROVE  /\ task[q].at = "lock" /\ task'[q].at = "reshape"
             /\ task'[q].t = task[q].t
             /\ task'[q].todo = Reshape(cols[task[q].t])
  <2> DEFINE todo == Reshape(cols[task[q].t])
  <2>1. task'[q] = [task[q] EXCEPT !.at = "reshape", !.todo = todo] /\ task[q].at = "lock"
    BY <1>2, <1>6 DEF Lock
  <2> HIDE DEF todo
  <2>2. /\ task[q].at = "lock" /\ task'[q].at = "reshape"
        /\ task'[q].t = task[q].t /\ task'[q].todo = todo
    BY <1>1, <2>1 DEF Task
  <2> QED BY <2>2 DEF todo
<1>7. ASSUME Step(q)
      PROVE  /\ task[q].at = "reshape" /\ task'[q].at = "reshape"
             /\ task'[q].t = task[q].t /\ task'[q].todo = Tail(task[q].todo)
  <2>1. task'[q] = [task[q] EXCEPT !.todo = Tail(task[q].todo)] /\ task[q].at = "reshape"
    BY <1>2, <1>7 DEF Step
  <2> QED BY <1>1, <2>1 DEF Task
<1>8. ASSUME Finish(q)
      PROVE  task[q].at = "reshape" /\ task'[q].at \in {"lock", "stamp"}
  <2> DEFINE l == \E u \in Tables : IsV1(cache'["daemon"][u])
  <2>1. /\ task[q].at = "reshape"
        /\ \/ task'[q] = [task[q] EXCEPT !.at = "lock", !.t = "episodic"]
           \/ task'[q] = [task[q] EXCEPT !.at = "stamp", !.legacy = l]
    BY <1>2, <1>8 DEF Finish
  <2> HIDE DEF l
  <2> QED BY <1>1, <2>1 DEF Task
<1>9. ASSUME StepFails(q)
      PROVE  task[q].at = "reshape" /\ task'[q].at = "done"
  <2>1. /\ task[q].at = "reshape"
        /\ task'[q] = [task[q] EXCEPT !.at = "done", !.todo = <<>>]
    BY <1>2, <1>9 DEF StepFails
  <2> QED BY <1>1, <2>1 DEF Task
<1>10. ASSUME Stamp(q) PROVE task[q].at = "stamp" /\ task'[q].at \in {"write", "done"}
  <2>1. /\ task[q].at = "stamp"
        /\ task'[q] = AfterStamp(q) \/ task'[q] = [task[q] EXCEPT !.at = "write"]
    BY <1>2, <1>10 DEF Stamp
  <2> QED BY <1>1, <1>3, <2>1 DEF Task
<1>11. ASSUME Write(q) PROVE task[q].at = "write" /\ task'[q].at = "done"
  BY <1>2, <1>3, <1>11 DEF Write
<1> QED BY <1>4, <1>5, <1>6, <1>7, <1>8, <1>9, <1>10, <1>11

LEMMA RequestStep ==
    ASSUME Typed, [Next]_vars
    PROVE  \A q \in Requests :
             \/ task'[q] = task[q]
             \/ Post(q) \/ Request(q) \/ StepFails(q)
             \/ /\ task[q].at # "idle" /\ task'[q].at = "done"
                /\ task'[q].dest = task[q].dest
<1> SUFFICES ASSUME NEW q \in Requests
             PROVE  \/ task'[q] = task[q]
                    \/ Post(q) \/ Request(q) \/ StepFails(q)
                    \/ /\ task[q].at # "idle" /\ task'[q].at = "done"
                       /\ task'[q].dest = task[q].dest
  OBVIOUS
<1> DEFINE Told == \/ task'[q] = task[q]
                   \/ Post(q) \/ Request(q) \/ StepFails(q)
                   \/ /\ task[q].at # "idle" /\ task'[q].at = "done"
                      /\ task'[q].dest = task[q].dest
<1>1. q \in Tasks /\ q \notin Procs  BY Kinds DEF Procs
<1>2. ASSUME NEW p \in Procs, OpenTable(p) \/ Layout(p) \/ Stamp(p) \/ Write(p) PROVE Told
  BY <1>1, <1>2, ProcMoved
<1>3. ASSUME Shape \/ \E v \in Words : Commit(v) PROVE Told
  BY <1>1, <1>3, ProcMoved DEF Procs
<1>4. ASSUME NEW k \in Requests, Post(k) \/ Request(k) \/ StepFails(k) PROVE Told
  BY <1>1, <1>4, RequestMoved
<1>5. ASSUME NEW p \in Procs, Crash(p) PROVE Told
  BY <1>1, <1>5, CrashMoves DEF Procs
<1>6. ASSUME (\E t \in Tables, r \in Rows, f \in Edited, v \in Words : Edit(t, r, f, v))
              \/ Look \/ Maintain \/ MaintainFails \/ Tick \/ UNCHANGED vars
      PROVE  Told
  BY <1>6 DEF Edit, Look, Maintain, MaintainFails, Tick, vars, daemonVars
<1> QED BY <1>2, <1>3, <1>4, <1>5, <1>6 DEF Next, Open

-----------------------------------------------------------------------------
(* Rows keep their lists until these are dropped, and what is left of a      *)
(* reshaping goes on fitting its table                                       *)

Layouts == Typed /\ KnowsOld /\ Reshaping /\ ListsThere /\ Bare

LEMMA InitLayouts == Init => Layouts
<1> SUFFICES ASSUME Init PROVE Layouts
  OBVIOUS
<1>1. Typed  BY InitTyped
<1>2. \A w \in Tasks : task[w].at = "idle"  BY IdleTyped DEF Init
<1>3. KnowsOld /\ Reshaping
  BY <1>2, Kinds DEF KnowsOld, ReadTables, Opened, Reshaping
<1>4. PICK s \in Stores, late \in SUBSET Rows :
        /\ cols = s.cols
        /\ cell = [t \in Tables |-> [r \in AllRows |-> [n \in Columns |->
                IF r \in Rows /\ n \in s.cols[t]
                       /\ ~(n \in Fields /\ OldName[n] \in s.cols[t] /\ r \in late)
                THEN Old ELSE Null]]]
  BY DEF Init
<1>5. \A t \in Tables, r \in AllRows, n \in Columns :
        cell[t][r][n] = IF r \in Rows /\ n \in cols[t]
                       /\ ~(n \in Fields /\ OldName[n] \in cols[t] /\ r \in late)
                THEN Old ELSE Null
  BY <1>4
<1>6. ListsThere
  <2>1. "lists" \in Columns /\ "lists" \notin Fields /\ Rows \subseteq AllRows
    BY Names
  <2> QED BY <1>5, <2>1 DEF ListsThere
<1>7. Bare  BY <1>5 DEF Bare
<1> QED BY <1>1, <1>3, <1>6, <1>7 DEF Layouts

LEMMA BareStep == ASSUME Layouts, [Next]_vars PROVE Bare'
<1> SUFFICES ASSUME NEW t \in Tables, NEW r \in AllRows, NEW n \in Columns, n \notin cols'[t]
             PROVE  cell'[t][r][n] = Null
  BY DEF Bare
<1>1. n \notin cols[t] => cell[t][r][n] = Null  BY DEF Layouts, Bare
<1>2. CASE UNCHANGED cols /\ RowStays(t, r)  BY <1>1, <1>2 DEF RowStays
<1>3. CASE UNCHANGED cols /\ RowEdited(t, r)  BY <1>3, ConformCells DEF RowEdited
<1>4. CASE UNCHANGED cols /\ RowCommitted(t, r)  BY <1>4, ConformCells DEF RowCommitted
<1>5. ASSUME UNCHANGED cell, NEW p \in Procs, OpenTable(p) PROVE cell'[t][r][n] = Null
  BY <1>1, <1>5, OpenedCols DEF Layouts
<1>6. ASSUME NEW q \in Requests, Step(q) PROVE cell'[t][r][n] = Null
  <2>1. CASE t # task[q].t  BY <1>1, <1>6, <2>1, StepShape DEF Layouts
  <2>2. CASE t = task[q].t
    <3>1. \/ DropsLists(t)
          \/ \E f \in Fields : Renames(t, f) \/ Copies(t, f) \/ DropsOld(t, f)
      BY <1>6, <2>2, HeadStep DEF Layouts
    <3>2. CASE DropsLists(t)  BY <1>1, <3>2 DEF DropsLists
    <3>3. ASSUME NEW f \in Fields, Renames(t, f) PROVE cell'[t][r][n] = Null
      BY <1>1, <3>3 DEF Renames
    <3>4. ASSUME NEW f \in Fields, Copies(t, f) PROVE cell'[t][r][n] = Null
      BY <1>1, <3>4 DEF Copies
    <3>5. ASSUME NEW f \in Fields, DropsOld(t, f) PROVE cell'[t][r][n] = Null
      BY <1>1, <3>5 DEF DropsOld
    <3> QED BY <3>1, <3>2, <3>3, <3>4, <3>5
  <2> QED BY <2>1, <2>2
<1> QED BY <1>2, <1>3, <1>4, <1>5, <1>6, TableStep DEF Layouts

LEMMA ListsThereStep == ASSUME Layouts, [Next]_vars PROVE ListsThere'
<1> SUFFICES ASSUME NEW t \in Tables, NEW r \in Rows, "lists" \in cols'[t]
             PROVE  cell'[t][r]["lists"] = Old
  BY DEF ListsThere
<1>1. "lists" \in OldColumns /\ "lists" \in Columns /\ r \in AllRows  BY Names
<1>2. "lists" \in cols[t]  BY <1>1, OldShrinks DEF Layouts
<1>3. cell[t][r]["lists"] = Old  BY <1>2 DEF Layouts, ListsThere
<1>4. CASE UNCHANGED cols /\ RowStays(t, r)  BY <1>3, <1>4 DEF RowStays
<1>5. CASE UNCHANGED cols /\ RowEdited(t, r)
  <2>1. ReadTables = Tables  BY <1>5 DEF RowEdited, ReadTables, Opened
  <2>2. "lists" \in cache["daemon"][t]  BY <1>1, <1>2, <2>1 DEF Layouts, KnowsOld
  <2> QED BY <1>2, <1>3, <1>5, <2>2, ConformCells DEF RowEdited
<1>6. CASE UNCHANGED cols /\ RowCommitted(t, r)
  BY <1>6, UpgradeAssumption DEF RowCommitted
<1>7. ASSUME UNCHANGED cell PROVE cell'[t][r]["lists"] = Old  BY <1>3, <1>7
<1>8. ASSUME NEW q \in Requests, Step(q) PROVE cell'[t][r]["lists"] = Old
  <2>1. CASE t # task[q].t  BY <1>3, <1>8, <2>1, StepShape DEF Layouts
  <2>2. CASE t = task[q].t
    <3>1. \/ DropsLists(t)
          \/ \E f \in Fields : Renames(t, f) \/ Copies(t, f) \/ DropsOld(t, f)
      BY <1>8, <2>2, HeadStep DEF Layouts
    <3>2. CASE DropsLists(t)  BY <3>2 DEF DropsLists
    <3>3. ASSUME NEW f \in Fields, Renames(t, f) \/ Copies(t, f) \/ DropsOld(t, f)
          PROVE  cell'[t][r]["lists"] = Old
      BY <1>1, <1>3, <3>3, Distinct DEF Renames, Copies, DropsOld
    <3> QED BY <3>1, <3>2, <3>3
  <2> QED BY <2>1, <2>2
<1> QED BY <1>1, <1>4, <1>5, <1>6, <1>7, <1>8, TableStep DEF Layouts

\* What a reshaping finds when it starts.
LEMMA LeftAtFirst ==
    ASSUME NEW t \in Tables PROVE Left(t, Reshape(cols[t]))
<1> DEFINE l == IF "lists" \in cols[t] THEN <<Drop("lists")>> ELSE <<>>
           a == Carry("summary", cols[t])
           b == Carry("scope", cols[t])
<1>1. Reshape(cols[t]) = l \o (a \o b)  BY ReshapeTyped
<1>2. ASSUME NEW f \in Fields
      PROVE  PartFits(t, f, Carry(f, cols[t])) /\ Carry(f, cols[t]) \in PartOf(f)
  <2>1. Carry(f, cols[t]) \in PartOf(f)  BY CarryTyped
  <2>2. /\ <<Rename(f)>> # <<Drop(OldName[f])>>
        /\ <<CopyTo(f), Drop(OldName[f])>> # <<Drop(OldName[f])>>
        /\ <<CopyTo(f), Drop(OldName[f])>> # <<Rename(f)>>
    BY DEF Rename, Drop
  <2>3. Carry(f, cols[t]) = IF OldName[f] \notin cols[t] THEN <<>>
                            ELSE IF f \in cols[t] THEN <<CopyTo(f), Drop(OldName[f])>>
                            ELSE <<Rename(f)>>
    BY DEF Carry, CopyTo, Drop, Rename
  <2> HIDE DEF CopyTo, Drop, Rename
  <2>4. CASE OldName[f] \notin cols[t]
    <3>1. Carry(f, cols[t]) = <<>>  BY <2>3, <2>4
    <3>2. PartFits(t, f, <<>>)  BY DEF PartFits
    <3> QED BY <2>1, <3>1, <3>2
  <2>5. CASE OldName[f] \in cols[t] /\ f \in cols[t]
    <3>1. Carry(f, cols[t]) = <<CopyTo(f), Drop(OldName[f])>>  BY <2>3, <2>5
    <3>2. PartFits(t, f, <<CopyTo(f), Drop(OldName[f])>>)  BY <2>2, <2>5 DEF PartFits
    <3> QED BY <2>1, <3>1, <3>2
  <2>6. CASE OldName[f] \in cols[t] /\ f \notin cols[t]
    <3>1. Carry(f, cols[t]) = <<Rename(f)>>  BY <2>3, <2>6
    <3>2. PartFits(t, f, <<Rename(f)>>)  BY <2>2, <2>6 DEF PartFits
    <3> QED BY <2>1, <3>1, <3>2
  <2> QED BY <2>4, <2>5, <2>6
<1>3. "summary" \in Fields /\ "scope" \in Fields  BY DEF Fields
<1>4. /\ PartFits(t, "summary", a) /\ PartFits(t, "scope", b)
      /\ a \in PartOf("summary") /\ b \in PartOf("scope")
  BY <1>2, <1>3
<1>5. l \in {<<>>, <<Drop("lists")>>} /\ (l # <<>> => "lists" \in cols[t])
  OBVIOUS
<1> HIDE DEF l, a, b
<1> QED BY <1>1, <1>4, <1>5 DEF Left

\* What is left of a reshaping goes on fitting its table when others write to
\* the table or open it.
LEMMA LeftStays ==
    ASSUME Layouts, NEW t \in Tables, NEW todo, Left(t, todo), lock[t] # Free,
           \/ UNCHANGED cols /\ \A r \in AllRows :
                RowStays(t, r) \/ RowEdited(t, r) \/ RowCommitted(t, r)
           \/ UNCHANGED cell /\ \E p \in Procs : OpenTable(p)
    PROVE  Left(t, todo)'
<1>1. PICK l \in {<<>>, <<Drop("lists")>>}, a \in PartOf("summary"), b \in PartOf("scope") :
        /\ todo = l \o (a \o b)
        /\ l # <<>> => "lists" \in cols[t]
        /\ PartFits(t, "summary", a)
        /\ PartFits(t, "scope", b)
  BY DEF Left
<1>2. ASSUME NEW f \in Fields, NEW part, PartFits(t, f, part),
             UNCHANGED cols, \A r \in AllRows :
                RowStays(t, r) \/ RowEdited(t, r) \/ RowCommitted(t, r)
      PROVE  PartFits(t, f, part)'
  <2>1. ASSUME NEW r \in AllRows, {f, OldName[f]} \subseteq cols[t],
               cell[t][r][f] = Null => cell[t][r][OldName[f]] = Null
        PROVE  cell'[t][r][f] = Null => cell'[t][r][OldName[f]] = Null
    <3>1. CASE RowStays(t, r)  BY <2>1, <3>1 DEF RowStays
    <3>2. CASE RowEdited(t, r)  BY <3>2 DEF RowEdited
    <3>3. CASE RowCommitted(t, r)
      <4>1. PICK v \in Words, known \in SUBSET Columns :
              cell'[t][r] = Conform([g \in Fields |-> v], cols[t], cell[t][r], known)
        BY <3>3 DEF RowCommitted
      <4>2. cell'[t][r][f] = v  BY <2>1, <4>1, ConformCells
      <4> QED BY <4>2, Names
    <3> QED BY <1>2, <3>1, <3>2, <3>3
  <2> HIDE DEF Rename, CopyTo, Drop
  <2> QED BY <1>2, <2>1 DEF PartFits
<1>3. ASSUME NEW f \in Fields, NEW part, PartFits(t, f, part),
             UNCHANGED cell, NEW p \in Procs, OpenTable(p)
      PROVE  PartFits(t, f, part)'
  <2>1. OldName[f] \in cols[t] =>
            cols'[t] = cols[t] \/ cols'[t] = cols[t] \cup Additions(cols[t])
    BY <1>3, OpenedCols DEF Layouts
  <2>2. OldName[f] \in cols[t] => f \notin Additions(cols[t])
    BY DEF Additions, Fields, OldName
  <2>3. /\ OldName[f] \in cols[t] /\ f \notin cols[t] => f \notin cols'[t]
        /\ cols[t] \subseteq cols'[t]
    BY <1>3, <2>1, <2>2, OpenedCols DEF Layouts
  <2> HIDE DEF Rename, CopyTo, Drop
  <2> QED BY <1>3, <2>3 DEF PartFits
<1>4. "summary" \in Fields /\ "scope" \in Fields  BY DEF Fields
<1>5. PartFits(t, "summary", a)' /\ PartFits(t, "scope", b)'
  BY <1>1, <1>2, <1>3, <1>4
<1>6. l # <<>> => "lists" \in cols'[t]  BY <1>1, OpenedCols DEF Layouts
<1> HIDE DEF PartFits
<1> QED BY <1>1, <1>5, <1>6 DEF Left

LEMMA ReshapingStep == ASSUME Layouts, [Next]_vars PROVE Reshaping'
<1> SUFFICES ASSUME NEW q \in Requests, task'[q].at = "reshape"
             PROVE  Left(task[q].t, task[q].todo)'
  BY DEF Reshaping
<1>1. Typed /\ Reshaping /\ Placed /\ LockHeld  BY Parts DEF Layouts, Moved
<1>2. q \in Tasks /\ task[q].t \in Tables  BY Kinds, Parts DEF Layouts, Moved, Task
<1> DEFINE t == task[q].t
<1>3. CASE Lock(q)
  <2>1. UNCHANGED <<cols, cell>>  BY <1>3 DEF Lock, tableVars
  <2>2. task'[q].t = task[q].t /\ task'[q].todo = Reshape(cols[task[q].t])
    BY <1>1, <1>3, RequestTask
  <2>3. Left(task[q].t, Reshape(cols[task[q].t]))  BY <1>2, LeftAtFirst
  <2>4. ASSUME NEW u, NEW todo, Left(u, todo) PROVE Left(u, todo)'
    BY <2>1, <2>4 DEF Left, PartFits
  <2>5. \A u, todo : u = task[q].t /\ todo = Reshape(cols[task[q].t]) => Left(u, todo)'
    BY <2>3, <2>4
  <2> QED BY <2>2, <2>5
<1>4. CASE Step(q)
  <2>1. task'[q].t = task[q].t /\ task'[q].todo = Tail(task[q].todo)
    BY <1>1, <1>4, RequestTask
  <2>2. \A u, left : u = task[q].t /\ left = Tail(task[q].todo) => Left(u, left)'
    BY <1>1, <1>4, HeadStep
  <2> QED BY <2>1, <2>2
<1>5. CASE task'[q] = task[q]
  <2>1. Left(task[q].t, task[q].todo) /\ lock[task[q].t] = q /\ q # Free
    BY <1>1, <1>5, Kinds DEF Reshaping, Placed
  <2>2. ASSUME NEW u \in Tables, NEW todo, u = task[q].t, todo = task[q].todo
        PROVE  Left(u, todo)'
    <3>1. ASSUME NEW k \in Requests, Step(k) PROVE Left(u, todo)'
      <4>1. CASE k = q
        <5>1. \A v, left : v = task[q].t /\ left = Tail(task[q].todo) => Left(v, left)'
          BY <1>1, <3>1, <4>1, HeadStep
        <5>2. task'[q].todo = Tail(task[q].todo)  BY <1>1, <3>1, <4>1, RequestTask
        <5> QED BY <1>5, <2>2, <5>1, <5>2
      <4>2. CASE k # q
        <5>1. u # task[k].t  BY <1>1, <2>1, <2>2, <3>1, <4>2, StepShape
        <5>2. cols'[u] = cols[u] /\ cell'[u] = cell[u]
          BY <1>1, <3>1, <5>1, StepShape
        <5>3. Left(u, todo)  BY <2>1, <2>2
        <5> QED BY <5>2, <5>3 DEF Left, PartFits
      <4> QED BY <4>1, <4>2
    <3>2. CASE \/ UNCHANGED cols /\ \A r \in AllRows :
                    RowStays(u, r) \/ RowEdited(u, r) \/ RowCommitted(u, r)
               \/ UNCHANGED cell /\ \E p \in Procs : OpenTable(p)
      BY <2>1, <2>2, <3>2, LeftStays
    <3> QED BY <1>1, <3>1, <3>2, TableStep
  <2> QED BY <1>2, <1>5, <2>2
<1>6. CASE task'[q] # task[q] /\ ~Lock(q) /\ ~Step(q)
  <2>1. Post(q) \/ Request(q) \/ StepFails(q)
    BY <1>1, <1>6, RequestStep
  <2>2. task'[q].at # "reshape"
    BY <1>1, <1>6, <2>1, RequestTask DEF Request
  <2> QED BY <2>2
<1> QED BY <1>3, <1>4, <1>5, <1>6

LEMMA LayoutsStep == ASSUME Layouts, [Next]_vars PROVE Layouts'
BY TypedStep, KnowsOldStep, ReshapingStep, ListsThereStep, BareStep DEF Layouts

-----------------------------------------------------------------------------
(* Who drops the lists of a table has a copy of them *)

\* A request not yet posted has no backup.
Fresh == \A q \in Requests : task[q].at = "idle" => task[q].dest = Absent

TakenKept == \A t \in Tables :
    taken[t] # Absent /\ ~Blurred(taken[t]) /\ Kept(taken[t]) =>
        backup[taken[t]] # <<>> /\ backup[taken[t]][t] = Rows

Keeping == Layouts /\ Fresh /\ BackedUp /\ TakenByOne /\ TakenKept

LEMMA NowStep ==
    ASSUME Typed, [Next]_vars
    PROVE  /\ UNCHANGED now \/ Tick
           /\ \A d \in 0 .. MaxTicks : Kept(d)' => Kept(d)
<1>1. UNCHANGED now \/ Tick
  <2>1. ASSUME NEW p, OpenTable(p) \/ Layout(p) \/ Stamp(p) \/ Write(p) \/ Crash(p)
        PROVE  UNCHANGED now
    BY <2>1, Zenon DEF OpenTable, Layout, Stamp, Write, Crash
  <2>2. ASSUME NEW t, NEW r, NEW f, NEW v, Edit(t, r, f, v) \/ Shape \/ Commit(v)
        PROVE  UNCHANGED now
    BY <2>2 DEF Edit, Shape, Commit
  <2>3. ASSUME NEW q, Post(q) \/ Copy(q) \/ Lock(q) \/ Step(q) \/ Finish(q) \/ StepFails(q)
        PROVE  UNCHANGED now
    BY <2>3 DEF Post, Copy, Lock, Step, Finish, StepFails
  <2>4. ASSUME Look \/ Maintain \/ MaintainFails \/ UNCHANGED vars PROVE UNCHANGED now
    BY <2>4 DEF Look, Maintain, MaintainFails, vars
  <2> QED BY <2>1, <2>2, <2>3, <2>4 DEF Next, Open, Request
<1>2. now' = now \/ now' = now + 1  BY <1>1 DEF Tick
<1>3. now \in Nat /\ Keep \in Nat  BY Parts, Numbers DEF Stored
<1>4. \A d \in 0 .. MaxTicks : Kept(d)' => Kept(d)
  BY <1>2, <1>3, Numbers DEF Kept
<1> QED BY <1>1, <1>4

LEMMA CopyBackup ==
    ASSUME Typed, NEW q \in Requests, Copy(q), backup[task[q].dest] # <<>>,
           task[q].dest \in 0 .. MaxTicks
    PROVE  LET d == task[q].dest  t == task[q].t IN
           /\ backup'[d] # <<>>
           /\ backup'[d][t] = {r \in Rows : cell[t][r]["lists"] = Old}
           /\ \A u \in Tables : u # t => backup'[d][u] = backup[d][u]
           /\ \A e \in 0 .. MaxTicks : e # d => backup'[e] = backup[e]
<1> DEFINE d == task[q].dest  t == task[q].t
           rows == {r \in Rows : cell[t][r]["lists"] = Old}
<1>1. backup \in [0 .. MaxTicks -> {<<>>} \cup [Tables -> SUBSET Rows]]
  BY Parts DEF Stored
<1>2. t \in Tables  BY Parts, Kinds DEF Moved, Task
<1>3. backup' = [backup EXCEPT ![d][t] = rows]  BY DEF Copy
<1>4. d \in 0 .. MaxTicks /\ backup[d] # <<>>  OBVIOUS
<1> HIDE DEF d, t, rows
<1>5. backup[d] \in [Tables -> SUBSET Rows]  BY <1>1, <1>4
<1>6. backup'[d] = [backup[d] EXCEPT ![t] = rows]  BY <1>1, <1>3, <1>4
<1>7. backup'[d][t] = rows /\ \A u \in Tables : u # t => backup'[d][u] = backup[d][u]
  BY <1>2, <1>5, <1>6
<1>8. DOMAIN backup'[d] = Tables  BY <1>5, <1>6
<1>9. backup'[d] # <<>>  BY <1>2, <1>8
<1>10. \A e \in 0 .. MaxTicks : e # d => backup'[e] = backup[e]
  BY <1>1, <1>3, <1>4
<1> QED BY <1>7, <1>9, <1>10 DEF d, t, rows

\* A backup that is kept stays as it is but for what requests copy into it.
LEMMA BackupStep ==
    ASSUME Typed, [Next]_vars
    PROVE  \A d \in 0 .. MaxTicks : backup[d] # <<>> /\ Kept(d) =>
             \/ backup'[d] = backup[d]
             \/ \E q \in Requests : Copy(q) /\ task[q].dest = d
<1> SUFFICES ASSUME NEW d \in 0 .. MaxTicks, backup[d] # <<>>, Kept(d)
             PROVE  \/ backup'[d] = backup[d]
                    \/ \E q \in Requests : Copy(q) /\ task[q].dest = d
  OBVIOUS
<1>1. /\ backup \in [0 .. MaxTicks -> {<<>>} \cup [Tables -> SUBSET Rows]]
      /\ now \in 0 .. MaxTicks
  BY Parts DEF Stored
<1>2. ASSUME NEW p, OpenTable(p) \/ Layout(p) \/ Stamp(p) \/ Write(p) \/ Crash(p)
      PROVE  UNCHANGED backup
  BY <1>2, Zenon DEF OpenTable, Layout, Stamp, Write, Crash
<1>3. ASSUME NEW t, NEW r, NEW f, NEW v, Edit(t, r, f, v) \/ Shape \/ Commit(v)
      PROVE  UNCHANGED backup
  BY <1>3 DEF Edit, Shape, Commit
<1>4. ASSUME NEW q, Lock(q) \/ Step(q) \/ Finish(q) \/ StepFails(q)
      PROVE  UNCHANGED backup
  BY <1>4 DEF Lock, Step, Finish, StepFails
<1>5. ASSUME Maintain \/ MaintainFails \/ Tick \/ UNCHANGED vars PROVE UNCHANGED backup
  BY <1>5 DEF Maintain, MaintainFails, Tick, vars
<1>6. ASSUME NEW q \in Requests, Post(q) PROVE backup'[d] = backup[d]
  BY <1>1, <1>6 DEF Post
<1>7. ASSUME Look PROVE backup'[d] = backup[d]
  BY <1>1, <1>7 DEF Look, Pruned
<1>8. ASSUME NEW q \in Requests, Copy(q), task[q].dest # d PROVE backup'[d] = backup[d]
  <2> DEFINE e == task[q].dest
  <2>1. \E x : backup' = [backup EXCEPT ![e] = x]  BY <1>8 DEF Copy
  <2> HIDE DEF e
  <2>2. e # d  BY <1>8 DEF e
  <2> QED BY <1>1, <2>1, <2>2
<1> QED BY <1>2, <1>3, <1>4, <1>5, <1>6, <1>7, <1>8 DEF Next, Open, Request

LEMMA DestStep ==
    ASSUME Typed, Fresh, [Next]_vars
    PROVE  /\ \A q \in Requests :
                \/ task'[q].dest = task[q].dest
                \/ Post(q) /\ task[q].dest = Absent
           /\ \A d \in 0 .. MaxTicks : Blurred(d) => Blurred(d)'
           /\ Fresh'
<1>1. ASSUME NEW q \in Requests
      PROVE  /\ \/ task'[q].dest = task[q].dest
                \/ Post(q) /\ task[q].dest = Absent
             /\ task'[q].at = "idle" => task'[q] = task[q]
  <2>1. CASE task'[q] = task[q]  BY <2>1
  <2>2. CASE Post(q)  BY <2>2, RequestTask DEF Fresh
  <2>3. CASE (Request(q) \/ StepFails(q)) /\ ~Post(q)
    <3>1. task'[q].dest = task[q].dest  BY <2>3, RequestMoved
    <3>2. task'[q].at # "idle"  BY <2>3, RequestTask DEF Request
    <3> QED BY <3>1, <3>2
  <2> QED BY <2>1, <2>2, <2>3, RequestStep
<1>2. ASSUME NEW d \in 0 .. MaxTicks, Blurred(d) PROVE Blurred(d)'
  <2>1. d # Absent  BY Numbers DEF Absent
  <2> QED BY <1>1, <1>2, <2>1 DEF Blurred
<1>3. Fresh'  BY <1>1 DEF Fresh
<1> QED BY <1>1, <1>2, <1>3

LEMMA InitKeeping == Init => Keeping
<1> SUFFICES ASSUME Init PROVE Keeping
  OBVIOUS
<1>1. \A w \in Tasks : task[w].at = "idle" /\ task[w].dest = Absent
  BY IdleTyped DEF Init
<1>2. Fresh /\ BackedUp  BY <1>1, Kinds DEF Fresh, BackedUp, Active
<1>3. TakenByOne /\ TakenKept  BY DEF Init, TakenByOne, TakenKept
<1> QED BY <1>2, <1>3, InitLayouts DEF Keeping

LEMMA BackedUpStep == ASSUME Keeping, [Next]_vars PROVE BackedUp'
<1> SUFFICES ASSUME NEW q \in Requests, Active(q)'
             PROVE  /\ Kept(task[q].dest)'
                    /\ (backup[task[q].dest] # <<>>)'
                    /\ \A t \in CopiedBy(q)' :
                         "lists" \in cols'[t] /\ ~Blurred(task[q].dest)' =>
                            (backup[task[q].dest][t] = Rows)'
  BY DEF BackedUp
<1> DEFINE d == task[q].dest
<1>1. Typed /\ Fresh /\ Placed /\ Layouts /\ task \in [Tasks -> Task]
  BY Parts DEF Keeping, Layouts, Moved
<1>2. now \in 0 .. MaxTicks /\ Keep \in Nat /\ MaxTicks \in Nat
  BY <1>1, Parts, Numbers DEF Stored
<1>3. CASE Post(q)
  <2>1. /\ task'[q].dest = now /\ task'[q].at = "copy" /\ task'[q].t = "semantic"
        /\ now' = now
        /\ backup' = [backup EXCEPT ![now] =
                        IF backup[now] = <<>> THEN [t \in Tables |-> {}] ELSE backup[now]]
    BY <1>1, <1>3, RequestTask DEF Post
  <2>2. Kept(task[q].dest)'  BY <1>2, <2>1 DEF Kept
  <2>3. [t \in Tables |-> {}] # <<>>
    <3>1. DOMAIN [t \in Tables |-> {}] = Tables  OBVIOUS
    <3>2. "semantic" \in Tables  BY DEF Tables
    <3> QED BY <3>1, <3>2
  <2>4. backup \in [0 .. MaxTicks -> {<<>>} \cup [Tables -> SUBSET Rows]]
    BY <1>1, Parts DEF Stored
  <2>5. backup'[now] # <<>>  BY <1>2, <2>1, <2>3, <2>4
  <2>6. CopiedBy(q)' = {}  BY <2>1 DEF CopiedBy
  <2> QED BY <2>1, <2>2, <2>5, <2>6
<1>4. CASE ~Post(q)
  <2>1. /\ Active(q) /\ task'[q].dest = d
        /\ CopiedBy(q)' \subseteq CopiedBy(q) \cup {t \in Tables : Copy(q) /\ t = task[q].t}
        /\ CopiedBy(q)' \subseteq Tables
    <3>1. CASE task'[q] = task[q]  BY <1>4, <3>1 DEF Active, CopiedBy, Tables
    <3>2. CASE Request(q) \/ StepFails(q)
      <4>1. Active(q) /\ task'[q].dest = d  BY <1>1, <1>4, <3>2, RequestMoved
      <4>2. CopiedBy(q)' \subseteq CopiedBy(q) \cup {t \in Tables : Copy(q) /\ t = task[q].t}
        <5>1. CASE Copy(q)  BY <1>1, <5>1, RequestTask DEF CopiedBy, Tables
        <5>2. CASE Lock(q) \/ Step(q) \/ Finish(q) \/ Stamp(q) \/ Write(q) \/ StepFails(q)
          BY <1>1, <5>2, RequestTask DEF CopiedBy, Tables
        <5> QED BY <3>2, <5>1, <5>2 DEF Request
      <4>3. CopiedBy(q)' \subseteq Tables  BY DEF CopiedBy, Tables
      <4> QED BY <4>1, <4>2, <4>3
    <3>3. CASE task'[q].at = "done"  BY <3>3 DEF Active
    <3> QED BY <1>1, <1>4, <3>1, <3>2, <3>3, RequestStep
  <2>2. d \in 0 .. MaxTicks
    <3>1. d \in 0 .. MaxTicks \cup {Absent}  BY <1>1, Kinds DEF Task
    <3> QED BY <1>1, <2>1, <3>1 DEF Placed
  <2>3. /\ Kept(d) /\ backup[d] # <<>>
        /\ \A t \in CopiedBy(q) : "lists" \in cols[t] /\ ~Blurred(d) => backup[d][t] = Rows
    BY <2>1 DEF Keeping, BackedUp
  <2>4. Kept(task[q].dest)'
    <3>1. CASE UNCHANGED now  BY <2>1, <2>3, <3>1 DEF Kept
    <3>2. CASE Tick
      <4>1. now < d + Keep /\ now' = now + 1  BY <2>1, <3>2 DEF Tick, Active
      <4> QED BY <1>2, <2>1, <2>2, <4>1 DEF Kept
    <3> QED BY <1>1, <3>1, <3>2, NowStep
  <2>5. CASE Copy(q)
    <3>1. /\ backup'[d] # <<>>
          /\ backup'[d][task[q].t] = {r \in Rows : cell[task[q].t][r]["lists"] = Old}
          /\ \A u \in Tables : u # task[q].t => backup'[d][u] = backup[d][u]
      BY <1>1, <2>2, <2>3, <2>5, CopyBackup
    <3>2. UNCHANGED cols  BY <2>5 DEF Copy, tableVars
    <3>3. Blurred(d) => Blurred(task[q].dest)'  BY <1>1, <2>1, <2>2, DestStep
    <3>4. ASSUME NEW t \in CopiedBy(q)', "lists" \in cols'[t], ~Blurred(task[q].dest)'
          PROVE  backup'[d][t] = Rows
      <4>1. t \in Tables  BY <2>1
      <4>2. CASE t = task[q].t
        <5>1. \A r \in Rows : cell[t][r]["lists"] = Old
          BY <1>1, <3>2, <3>4, <4>1 DEF Layouts, ListsThere
        <5>2. {r \in Rows : cell[t][r]["lists"] = Old} = Rows  BY <5>1
        <5> QED BY <3>1, <4>2, <5>2
      <4>3. CASE t # task[q].t
        <5>1. t \in CopiedBy(q)  BY <2>1, <4>3
        <5>2. "lists" \in cols[t] /\ ~Blurred(d)  BY <3>2, <3>3, <3>4
        <5> QED BY <2>3, <3>1, <4>1, <4>3, <5>1, <5>2
      <4> QED BY <4>2, <4>3
    <3> QED BY <2>1, <2>4, <3>1, <3>4
  <2>6. CASE ~Copy(q)
    <3>1. Blurred(d) => Blurred(task[q].dest)'  BY <1>1, <2>1, <2>2, DestStep
    <3>2. \A t \in Tables : "lists" \in cols'[t] => "lists" \in cols[t]
      BY <1>1, OldShrinks, Names
    <3>3. CASE backup'[d] = backup[d]
      <4>1. (backup[task[q].dest] # <<>>)'  BY <2>1, <2>3, <3>3
      <4>2. ASSUME NEW t \in CopiedBy(q)', "lists" \in cols'[t], ~Blurred(task[q].dest)'
            PROVE  (backup[task[q].dest][t] = Rows)'
        BY <2>1, <2>3, <2>6, <3>1, <3>2, <3>3, <4>2
      <4> QED BY <2>4, <4>1, <4>2
    <3>4. ASSUME NEW k \in Requests, Copy(k), task[k].dest = d
          PROVE  backup'[d] # <<>> /\ Blurred(task[q].dest)'
      <4>1. backup'[d] # <<>>  BY <1>1, <2>2, <2>3, <3>4, CopyBackup
      <4>2. k # q  BY <2>6, <3>4
      <4>3. Blurred(d)  BY <3>4, <4>2 DEF Blurred
      <4> QED BY <3>1, <4>1, <4>3
    <3> QED BY <1>1, <2>1, <2>2, <2>3, <2>4, <3>3, <3>4, BackupStep
  <2> QED BY <2>5, <2>6
<1> QED BY <1>3, <1>4

\* Only a commit that drops a table's lists says whose backup has them.
LEMMA TakenStep ==
    ASSUME Layouts, [Next]_vars
    PROVE  \A t \in Tables :
             \/ taken'[t] = taken[t]
             \/ \E q \in Requests :
                    /\ Step(q) /\ task[q].t = t /\ taken'[t] = task[q].dest
                    /\ "lists" \in cols[t] /\ UNCHANGED backup
<1> SUFFICES ASSUME NEW t \in Tables
             PROVE  \/ taken'[t] = taken[t]
                    \/ \E q \in Requests :
                        /\ Step(q) /\ task[q].t = t /\ taken'[t] = task[q].dest
                        /\ "lists" \in cols[t] /\ UNCHANGED backup
  OBVIOUS
<1>1. taken \in [Tables -> 0 .. MaxTicks \cup {Absent}]  BY Parts DEF Layouts, Stored
<1>2. ASSUME NEW p, OpenTable(p) \/ Layout(p) \/ Stamp(p) \/ Write(p) \/ Crash(p)
      PROVE  UNCHANGED taken
  BY <1>2, Zenon DEF OpenTable, Layout, Stamp, Write, Crash, ghostVars
<1>3. ASSUME NEW u, NEW r, NEW f, NEW v, Edit(u, r, f, v) \/ Shape \/ Commit(v)
      PROVE  UNCHANGED taken
  BY <1>3 DEF Edit, Shape, Commit, ghostVars
<1>4. ASSUME NEW q, Post(q) \/ Copy(q) \/ Lock(q) \/ Finish(q) \/ StepFails(q)
      PROVE  UNCHANGED taken
  BY <1>4 DEF Post, Copy, Lock, Finish, StepFails, ghostVars
<1>5. ASSUME Look \/ Maintain \/ MaintainFails \/ Tick \/ UNCHANGED vars PROVE UNCHANGED taken
  BY <1>5 DEF Look, Maintain, MaintainFails, Tick, vars, ghostVars
<1>6. ASSUME NEW q \in Requests, Step(q), taken'[t] # taken[t]
      PROVE  /\ task[q].t = t /\ taken'[t] = task[q].dest
             /\ "lists" \in cols[t] /\ UNCHANGED backup
  <2> DEFINE u == task[q].t  d == task[q].dest
  <2>1. /\ UNCHANGED backup
        /\ taken' = IF Head(task[q].todo).of = "lists" THEN [taken EXCEPT ![u] = d] ELSE taken
    BY <1>6 DEF Step
  <2> HIDE DEF u, d
  <2>2. u = t /\ taken'[t] = d /\ Head(task[q].todo).of = "lists"
    BY <1>1, <1>6, <2>1
  <2>3. \A v, s : v = u /\ s = Head(task[q].todo) => DropsLists(v) \/ s.of # "lists"
    BY <1>6, HeadStep DEF Layouts, u
  <2>4. DropsLists(t)  BY <2>2, <2>3
  <2> QED BY <2>1, <2>2, <2>4 DEF u, d, DropsLists
<1> QED BY <1>2, <1>3, <1>4, <1>5, <1>6 DEF Next, Open, Request

LEMMA TakenByOneStep == ASSUME Keeping, [Next]_vars PROVE TakenByOne'
<1> SUFFICES ASSUME NEW t \in Tables, taken'[t] # Absent
             PROVE  \E q \in Requests :
                        task'[q].dest = taken'[t] /\ task'[q].at \notin {"idle", "copy"}
  BY DEF TakenByOne
<1>1. Typed /\ Fresh /\ Layouts  BY DEF Keeping, Layouts
<1>2. CASE taken'[t] = taken[t]
  <2>1. PICK q \in Requests : task[q].dest = taken[t] /\ task[q].at \notin {"idle", "copy"}
    BY <1>2 DEF Keeping, TakenByOne
  <2>2. task'[q].at \notin {"idle", "copy"} /\ task'[q].dest = task[q].dest
    <3>1. CASE task'[q] = task[q]  BY <2>1, <3>1
    <3>2. CASE Post(q)  BY <1>1, <2>1, <3>2, RequestTask
    <3>3. CASE (Request(q) \/ StepFails(q)) /\ ~Post(q)
      <4>1. task'[q].dest = task[q].dest  BY <1>1, <3>3, RequestMoved
      <4>2. task'[q].at \notin {"idle", "copy"}
        BY <1>1, <2>1, <3>3, RequestTask DEF Request
      <4> QED BY <4>1, <4>2
    <3> QED BY <1>1, <3>1, <3>2, <3>3, RequestStep
  <2> QED BY <1>2, <2>1, <2>2
<1>3. ASSUME NEW q \in Requests, Step(q), taken'[t] = task[q].dest
      PROVE  task'[q].dest = taken'[t] /\ task'[q].at \notin {"idle", "copy"}
  <2>1. task'[q].at = "reshape" /\ ~Post(q)
    BY <1>1, <1>3, RequestTask
  <2>2. task'[q].dest = task[q].dest  BY <1>1, <1>3, <2>1, RequestMoved DEF Request
  <2> QED BY <1>3, <2>1, <2>2
<1> QED BY <1>1, <1>2, <1>3, TakenStep

LEMMA TakenKeptStep == ASSUME Keeping, [Next]_vars PROVE TakenKept'
<1> SUFFICES ASSUME NEW t \in Tables, taken'[t] # Absent, ~Blurred(taken[t])',
                    Kept(taken[t])'
             PROVE  backup'[taken'[t]] # <<>> /\ backup'[taken'[t]][t] = Rows
  BY DEF TakenKept
<1>1. Typed /\ Fresh /\ Layouts /\ Placed
  BY Parts DEF Keeping, Layouts, Moved
<1>2. taken'[t] \in 0 .. MaxTicks
  BY <1>1, TypedStep DEF Typed, TypeOK
<1>3. \A d \in 0 .. MaxTicks : d = taken'[t] => ~Blurred(d) /\ Kept(d)
  <2> SUFFICES ASSUME NEW d \in 0 .. MaxTicks, d = taken'[t]
               PROVE  ~Blurred(d) /\ Kept(d)
    OBVIOUS
  <2>1. ~Blurred(d)'  OBVIOUS
  <2>2. Kept(d)'  OBVIOUS
  <2> QED BY <1>1, <2>1, <2>2, DestStep, NowStep
<1>4. CASE taken'[t] = taken[t]
  <2>1. backup[taken[t]] # <<>> /\ backup[taken[t]][t] = Rows
    BY <1>2, <1>3, <1>4 DEF Keeping, TakenKept
  <2>2. CASE backup'[taken[t]] = backup[taken[t]]  BY <1>4, <2>1, <2>2
  <2>3. ASSUME NEW k \in Requests, Copy(k), task[k].dest = taken[t] PROVE FALSE
    <3>1. PICK q \in Requests : task[q].dest = taken[t] /\ task[q].at \notin {"idle", "copy"}
      BY <1>4 DEF Keeping, TakenByOne
    <3>2. k # q  BY <1>1, <2>3, <3>1, RequestTask
    <3>3. Blurred(taken[t])  BY <2>3, <3>1, <3>2 DEF Blurred
    <3> QED BY <1>2, <1>3, <1>4, <3>3
  <2> QED BY <1>1, <1>2, <1>3, <1>4, <2>1, <2>2, <2>3, BackupStep
<1>5. ASSUME NEW q \in Requests, Step(q), task[q].t = t, taken'[t] = task[q].dest,
             "lists" \in cols[t], UNCHANGED backup
      PROVE  backup'[taken'[t]] # <<>> /\ backup'[taken'[t]][t] = Rows
  <2>1. task[q].at = "reshape"  BY <1>1, <1>5, RequestTask
  <2>2. Active(q) /\ t \in CopiedBy(q)  BY <2>1 DEF Active, CopiedBy
  <2>3. ~Blurred(task[q].dest)  BY <1>2, <1>3, <1>5
  <2> QED BY <1>5, <2>2, <2>3 DEF Keeping, BackedUp
<1> QED BY <1>1, <1>4, <1>5, TakenStep

\* From the moment a table's lists are dropped, a copy of the table that still
\* has them stays for as long as backups are kept, whatever commit failed,
\* whoever crashed or asked again; until then the rows have them.  Except when
\* a second request backs up into the same second's directory.
THEOREM ListsStayKept == Spec => []ListsKept
<1>1. Init => Keeping  BY InitKeeping
<1>2. ASSUME Keeping, [Next]_vars PROVE Keeping'
  BY <1>2, LayoutsStep, DestStep, BackedUpStep, TakenByOneStep, TakenKeptStep
  DEF Keeping, Layouts
<1>3. Keeping => ListsKept
  BY DEF Keeping, Layouts, ListsThere, TakenKept, ListsKept
<1> QED BY <1>1, <1>2, <1>3, PTL DEF Spec


-----------------------------------------------------------------------------
(* What the handle knows is there, and each field has a column *)

\* A handle that no reshaping is under way for, nor one that failed, has just
\* read the columns, or knows what it knew of a table that lost none.
LEMMA FreeStep ==
    ASSUME Typed, [Next]_vars, NEW t \in ReadTables', lock'[t] = Free, t \notin stale'
    PROVE  \/ cache'["daemon"][t] = cols'[t]
           \/ /\ t \in ReadTables /\ cache'["daemon"][t] = cache["daemon"][t]
              /\ lock[t] = Free /\ t \notin stale /\ cols[t] \subseteq cols'[t]
<1> DEFINE Told == \/ cache'["daemon"][t] = cols'[t]
                   \/ /\ t \in ReadTables /\ cache'["daemon"][t] = cache["daemon"][t]
                      /\ lock[t] = Free /\ t \notin stale /\ cols[t] \subseteq cols'[t]
<1>1. /\ cache \in [Procs -> [Tables -> SUBSET Columns]] /\ "daemon" \in Procs
      /\ lock \in [Tables -> Requests \cup {Free}]
      /\ cols \in [Tables -> SUBSET Columns]
  BY Parts DEF Stored, Moved, Procs
<1>2. t \in Tables
  <2>1. task'["daemon"].t \in Tables  BY TypedStep, Kinds DEF Typed, TypeOK
  <2> QED BY <2>1 DEF ReadTables, Opened, Tables
<1>3. \/ t \in ReadTables /\ cache'["daemon"][t] = cache["daemon"][t]
      \/ cache'["daemon"][t] = cols[t] /\ UNCHANGED cols
  BY ReadStep
<1>4. ASSUME lock'[t] = lock[t], t \notin stale, cols[t] \subseteq cols'[t] PROVE Told
  BY <1>3, <1>4
<1>5. ASSUME UNCHANGED <<lock, stale, cols>> PROVE Told
  BY <1>4, <1>5
<1>6. ASSUME NEW p \in Procs, OpenTable(p) PROVE Told
  BY <1>2, <1>4, <1>6, OpenedCols DEF OpenTable, ghostVars
<1>7. ASSUME Layout("daemon") PROVE Told
  <2> DEFINE u == task["daemon"].t
  <2>1. /\ cache' = [cache EXCEPT !["daemon"][u] = cols[u]]
        /\ stale' = stale \ {u} /\ UNCHANGED <<cols, lock>>
    BY <1>7 DEF Layout, tableVars
  <2> HIDE DEF u
  <2>2. CASE t = u  BY <1>1, <1>2, <2>1, <2>2
  <2>3. CASE t # u  BY <1>4, <2>1, <2>3
  <2> QED BY <2>2, <2>3
<1>8. ASSUME Layout("command") PROVE Told  BY <1>5, <1>8 DEF Layout, tableVars
<1>9. ASSUME NEW w, Stamp(w) \/ Write(w) PROVE Told
  BY <1>5, <1>9 DEF Stamp, Write, tableVars, ghostVars
<1>10. ASSUME Crash("daemon") PROVE Told
  <2>1. task'["daemon"].at = "idle"  BY <1>1, <1>10, CrashMoves
  <2> QED BY <2>1 DEF ReadTables, Opened
<1>11. ASSUME Crash("command") PROVE Told
  <2>1. UNCHANGED <<lock, stale>>  BY <1>11, CrashMoves DEF Procs
  <2>2. UNCHANGED cols  BY <1>11, Zenon DEF Crash, tableVars
  <2> QED BY <1>5, <2>1, <2>2
<1>12. ASSUME NEW u, NEW r, NEW f, NEW v, Edit(u, r, f, v) \/ Shape \/ Commit(v) PROVE Told
  BY <1>5, <1>12 DEF Edit, Shape, Commit, tableVars, ghostVars
<1>13. ASSUME NEW q, Post(q) \/ Copy(q) PROVE Told
  BY <1>5, <1>13 DEF Post, Copy, tableVars, ghostVars
<1>14. ASSUME NEW q \in Requests, Lock(q) PROVE Told
  <2>1. lock' = [lock EXCEPT ![task[q].t] = q] /\ UNCHANGED <<cols, stale>>
    BY <1>14 DEF Lock, tableVars, ghostVars
  <2>2. lock'[t] = lock[t]  BY <1>1, <1>2, <2>1, Kinds
  <2> QED BY <1>4, <2>1, <2>2
<1>15. ASSUME NEW q \in Requests, Step(q) PROVE Told
  <2>1. lock' = lock /\ lock[task[q].t] = q /\ stale' = stale  BY <1>15, StepShape DEF Step
  <2>2. t # task[q].t  BY <2>1, Kinds
  <2>3. cols'[t] = cols[t]  BY <1>2, <1>15, <2>2, StepShape
  <2> QED BY <1>4, <2>1, <2>3
<1>16. ASSUME NEW q \in Requests, Finish(q) PROVE Told
  <2> DEFINE u == task[q].t
  <2>1. /\ cache' = [cache EXCEPT !["daemon"][u] = cols[u]]
        /\ lock' = [lock EXCEPT ![u] = Free]
        /\ stale' = stale \ {u} /\ UNCHANGED cols
    BY <1>16 DEF Finish, Released, tableVars
  <2> HIDE DEF u
  <2>2. CASE t = u  BY <1>1, <1>2, <2>1, <2>2
  <2>3. CASE t # u  BY <1>4, <2>1, <2>3
  <2> QED BY <2>2, <2>3
<1>17. ASSUME NEW q \in Requests, StepFails(q) PROVE Told
  <2> DEFINE u == task[q].t
  <2>1. /\ UNCHANGED <<cache, cols>>
        /\ lock' = [lock EXCEPT ![u] = Free]
        /\ stale' = IF cols[u] # cache["daemon"][u] THEN stale \cup {u} ELSE stale
    BY <1>17 DEF StepFails, Released, tableVars
  <2> HIDE DEF u
  <2>2. CASE t = u  BY <2>1, <2>2
  <2>3. CASE t # u  BY <1>4, <2>1, <2>3
  <2> QED BY <2>2, <2>3
<1>18. ASSUME Look \/ Maintain \/ MaintainFails \/ Tick \/ UNCHANGED vars PROVE Told
  BY <1>5, <1>18
  DEF Look, Maintain, MaintainFails, Tick, vars, tableVars, daemonVars, ghostVars
<1> HIDE DEF Told
<1>19. Told
  BY <1>6, <1>7, <1>8, <1>9, <1>10, <1>11, <1>12, <1>13, <1>14, <1>15, <1>16, <1>17, <1>18
  DEF Next, Open, Request, Procs
<1> QED BY <1>19 DEF Told

LEMMA KnowsNoMoreStep == ASSUME Typed, KnowsNoMore, [Next]_vars PROVE KnowsNoMore'
BY FreeStep DEF KnowsNoMore

\* A table a process has opened can name the summary from then on.
LEMMA OpenedStep ==
    ASSUME Typed, [Next]_vars, NEW p \in Procs, NEW t \in Opened(p)'
    PROVE  t \in Opened(p) \/ cols'[t] \cap {"hook", "summary"} # {}
<1> DEFINE Told == t \in Opened(p) \/ cols'[t] \cap {"hook", "summary"} # {}
<1>1. /\ cols \in [Tables -> SUBSET Columns]
      /\ task \in [Tasks -> Task] /\ Placed
  BY Parts DEF Stored, Moved
<1>2. p \in Tasks /\ task[p] \in Task /\ p \notin Requests
  BY <1>1, Kinds DEF Procs
<1>3. p = "daemon" \/ p = "command"  BY DEF Procs
<1>4. ASSUME task'[p] = task[p] PROVE Told  BY <1>4 DEF Opened
<1>5. ASSUME OpenTable(p) PROVE Told
  <2> DEFINE u == IF task[p].at = "idle" THEN FirstTable(p) ELSE task[p].t
  <2>1. /\ task[p].at \in {"idle", "table"}
        /\ \/ /\ cols' = [cols EXCEPT ![u] = IF cols[u] = {} THEN Fields
                                             ELSE cols[u] \cup Additions(cols[u])]
              /\ Move(p, [Idle EXCEPT !.at = "layout", !.t = u])
           \/ Move(p, [Idle EXCEPT !.at = "refused"])
    BY <1>5 DEF OpenTable
  <2>2. u \in Tables  BY <1>2 DEF Task, FirstTable, Tables
  <2>3. task[p].at = "table" => p = "daemon" /\ u = "episodic"
    BY <1>1, <1>3, <2>1 DEF Placed
  <2>4. task[p].at = "idle" /\ p = "daemon" => u = "semantic"  BY DEF FirstTable
  <2> HIDE DEF u
  <2>5. \A rec : Move(p, rec) => task'[p] = rec  BY <1>1, <1>2 DEF Move
  <2>6. CASE Move(p, [Idle EXCEPT !.at = "refused"])
    <3>1. task'[p].at = "refused"  BY <2>5, <2>6 DEF Idle
    <3> QED BY <3>1 DEF Opened
  <2>7. CASE /\ cols' = [cols EXCEPT ![u] = IF cols[u] = {} THEN Fields
                                             ELSE cols[u] \cup Additions(cols[u])]
             /\ Move(p, [Idle EXCEPT !.at = "layout", !.t = u])
    <3>1. task'[p].at = "layout" /\ task'[p].t = u  BY <2>5, <2>7 DEF Idle
    <3>2. cols'[u] = IF cols[u] = {} THEN Fields ELSE cols[u] \cup Additions(cols[u])
      BY <1>1, <2>2, <2>7
    <3>3. cols'[u] \cap {"hook", "summary"} # {}  BY <3>2 DEF Fields, Additions
    <3>4. CASE t = u  BY <3>3, <3>4
    <3>5. CASE t # u
      <4>1. p = "daemon" /\ u = "episodic" /\ t = "semantic"  BY <3>1, <3>5 DEF Opened
      <4>2. task[p].at = "table" /\ task[p].t = "episodic"
        BY <1>1, <2>1, <2>4, <4>1 DEF Placed
      <4> QED BY <4>1, <4>2 DEF Opened
    <3> QED BY <3>4, <3>5
  <2> QED BY <2>1, <2>6, <2>7
<1>6. ASSUME Layout(p) PROVE Told
  <2>1. task[p].at = "layout" /\ task'[p].at = "stamp" /\ task'[p].t = task[p].t
    BY <1>1, <1>2, <1>6 DEF Layout, Move, Task
  <2> QED BY <2>1 DEF Opened
<1>7. ASSUME Stamp(p) \/ Write(p) PROVE Told
  <2>1. task[p].at \in {"stamp", "write"}  BY <1>7 DEF Stamp, Write
  <2>2. task'[p] = AfterStamp(p) \/ task'[p] = [task[p] EXCEPT !.at = "write"]
    BY <1>1, <1>2, <1>7 DEF Stamp, Write, Move
  <2>3. task[p].t \in {"semantic", "episodic"}  BY <1>2 DEF Task, Tables
  <2>4. p = "command" => task[p].t = "episodic"  BY <1>1, <2>1 DEF Placed
  <2>5. CASE task'[p] = [task[p] EXCEPT !.at = "write"]
    <3>1. task'[p].at = "write" /\ task'[p].t = task[p].t  BY <1>2, <2>5 DEF Task
    <3> QED BY <2>1, <3>1 DEF Opened
  <2>6. CASE task'[p] = AfterStamp(p) /\ task[p].t = "semantic"
    <3>1. task'[p].at = "table" /\ task'[p].t = "episodic"
      BY <1>2, <2>6, AfterStampTyped DEF Typed
    <3> QED BY <1>3, <2>1, <2>4, <2>6, <3>1 DEF Opened
  <2>7. CASE task'[p] = AfterStamp(p) /\ task[p].t = "episodic"
    <3>1. task'[p].at = "up"
      BY <1>2, <2>7, AfterStampTyped DEF Typed
    <3> QED BY <1>3, <2>1, <2>7, <3>1 DEF Opened, Tables
  <2> QED BY <2>2, <2>3, <2>5, <2>6, <2>7
<1>8. ASSUME p = "command" /\ Shape PROVE Told
  <2>1. task[p].at = "up" /\ task'[p].at = "commit"
    BY <1>1, <1>2, <1>8 DEF Shape, Move, Task
  <2> QED BY <1>8, <2>1 DEF Opened
<1>9. ASSUME p = "command" /\ \E v \in Words : Commit(v) PROVE Told
  <2>1. task'[p] = Idle  BY <1>1, <1>2, <1>9 DEF Commit, Move
  <2> QED BY <2>1, IdleTyped DEF Opened
<1>10. ASSUME Crash(p) PROVE Told
  <2>1. task'[p].at = "idle"  BY <1>10, CrashMoves
  <2> QED BY <2>1 DEF Opened
<1>11. ASSUME NEW k \in Procs, k # p,
              k = "command" /\ (Shape \/ \E v \in Words : Commit(v))
       PROVE  task'[p] = task[p]
  BY <1>2, <1>3, <1>11, ProcMoved, CrashMoves DEF Procs
<1>12. ASSUME NEW q \in Requests, Post(q) \/ Request(q) \/ StepFails(q)
       PROVE  task'[p] = task[p]
  BY <1>2, <1>12, RequestMoved
<1>13. ASSUME (\E u \in Tables, r \in Rows, f \in Edited, v \in Words : Edit(u, r, f, v))
              \/ Look \/ Maintain \/ MaintainFails \/ Tick \/ UNCHANGED vars
       PROVE  task'[p] = task[p]
  BY <1>13 DEF Edit, Look, Maintain, MaintainFails, Tick, vars, daemonVars
<1> HIDE DEF Told
<1>14. ASSUME Shape \/ \E v \in Words : Commit(v) PROVE Told
  BY <1>3, <1>4, <1>8, <1>9, <1>11, <1>14 DEF Procs
<1>15. ASSUME NEW k \in Procs,
              OpenTable(k) \/ Layout(k) \/ Stamp(k) \/ Write(k) \/ Crash(k)
       PROVE  Told
  <2>1. ASSUME k # p PROVE Told
    <3>1. task'[p] = task[p]
      BY <1>2, <1>3, <1>15, <2>1, ProcMoved, CrashMoves DEF Procs
    <3> QED BY <1>4, <3>1
  <2>2. ASSUME k = p PROVE Told
    <3>1. OpenTable(p) \/ Layout(p) \/ Stamp(p) \/ Write(p) \/ Crash(p)
      BY <1>15, <2>2
    <3> QED BY <1>5, <1>6, <1>7, <1>10, <3>1
  <2> QED BY <2>1, <2>2
<1>16. Told
  BY <1>4, <1>12, <1>13, <1>14, <1>15 DEF Next, Open
<1> QED BY <1>16 DEF Told


\* A table that names a field goes on naming it.
LEMMA NamedOnce ==
    ASSUME Layouts, [Next]_vars, NEW t \in Tables, NEW f \in Fields,
           cols[t] \cap {f, OldName[f]} # {}
    PROVE  cols'[t] \cap {f, OldName[f]} # {}
<1>1. ASSUME NEW q \in Requests, Step(q) PROVE cols'[t] \cap {f, OldName[f]} # {}
  <2>1. CASE t # task[q].t  BY <1>1, <2>1, StepShape DEF Layouts
  <2>2. CASE t = task[q].t
    <3>1. \/ DropsLists(t)
          \/ \E g \in Fields : Renames(t, g) \/ Copies(t, g) \/ DropsOld(t, g)
      BY <1>1, <2>2, HeadStep DEF Layouts
    <3>2. CASE DropsLists(t)  BY <3>2, Distinct DEF DropsLists
    <3>3. ASSUME NEW g \in Fields, Renames(t, g) \/ Copies(t, g) \/ DropsOld(t, g)
          PROVE  cols'[t] \cap {f, OldName[f]} # {}
      BY <3>3, Distinct DEF Renames, Copies, DropsOld
    <3> QED BY <3>1, <3>2, <3>3
  <2> QED BY <2>1, <2>2
<1>2. ASSUME NEW p \in Procs, OpenTable(p) PROVE cols[t] \subseteq cols'[t]
  BY <1>2, OpenedCols DEF Layouts
<1> QED BY <1>1, <1>2, ColsMove DEF Layouts

LEMMA NamedStep == ASSUME Layouts, Named, [Next]_vars PROVE Named'
<1>1. Fields = {"summary", "scope"} /\ OldName["summary"] = "hook" /\ OldName["scope"] = "cwd"
  BY DEF Fields, OldName
<1>2. \A t \in Tables :
                        /\ cols[t] \cap {"cwd", "scope"} # {}
                              => cols'[t] \cap {"cwd", "scope"} # {}
                        /\ cols[t] \cap {"hook", "summary"} # {}
                              => cols'[t] \cap {"hook", "summary"} # {}
  <2> SUFFICES ASSUME NEW t \in Tables
               PROVE  /\ cols[t] \cap {"cwd", "scope"} # {}
                            => cols'[t] \cap {"cwd", "scope"} # {}
                      /\ cols[t] \cap {"hook", "summary"} # {}
                            => cols'[t] \cap {"hook", "summary"} # {}
    OBVIOUS
  <2>1. \A f \in Fields : cols[t] \cap {f, OldName[f]} # {}
                              => cols'[t] \cap {f, OldName[f]} # {}
    BY NamedOnce
  <2> QED BY <1>1, <2>1
<1>3. ASSUME NEW t \in Tables, cols[t] = {}, cols'[t] # {} PROVE "scope" \in cols'[t]
  <2>1. ASSUME NEW p \in Procs, OpenTable(p) PROVE cols'[t] = Fields
    BY <1>3, <2>1, OpenedCols DEF Layouts
  <2>2. ASSUME NEW q \in Requests, Step(q) PROVE FALSE
    <3>1. t = task[q].t  BY <1>3, <2>2, StepShape DEF Layouts
    <3>2. \/ DropsLists(t)
          \/ \E g \in Fields : Renames(t, g) \/ Copies(t, g) \/ DropsOld(t, g)
      BY <2>2, <3>1, HeadStep DEF Layouts
    <3> QED BY <1>3, <3>2 DEF DropsLists, Renames, Copies, DropsOld
  <2> QED BY <1>1, <1>3, <2>1, <2>2, ColsMove DEF Layouts
<1>4. \A t \in Tables : cols'[t] # {} => cols'[t] \cap {"cwd", "scope"} # {}
  BY <1>2, <1>3 DEF Named
<1>5. ASSUME NEW p \in Procs, NEW t \in Opened(p)'
      PROVE  cols'[t] \cap {"hook", "summary"} # {}
  <2>1. CASE t \in Opened(p)
    <3>1. t \in Tables
      <4>1. p \in Tasks /\ task[p].t \in Tables  BY Kinds DEF Layouts, Typed, TypeOK
      <4> QED BY <2>1, <4>1 DEF Opened, Tables
    <3> QED BY <1>2, <2>1, <3>1 DEF Named
  <2> QED BY <2>1, OpenedStep DEF Layouts
<1> QED BY <1>4, <1>5 DEF Named

-----------------------------------------------------------------------------
(* What a row holds of a field, under one name or the other *)

\* A row that hides nothing reads as what it holds.
LEMMA SeesWhole ==
    ASSUME Bare, NEW t \in Tables, NEW r \in AllRows, ~HiddenIn(cols[t], cell[t][r])
    PROVE  \A f \in Fields : Sees(t, r)[f] = Whole(cell[t][r], f)
<1> SUFFICES ASSUME NEW f \in Fields PROVE Sees(t, r)[f] = Whole(cell[t][r], f)
  OBVIOUS
<1>1. f \in Columns /\ OldName[f] \in Columns  BY Distinct
<1>2. /\ f \notin cols[t] => cell[t][r][f] = Null
      /\ OldName[f] \notin cols[t] => cell[t][r][OldName[f]] = Null
  BY <1>1 DEF Bare
<1>3. {f, OldName[f]} \subseteq cols[t] /\ cell[t][r][f] = Null
        => cell[t][r][OldName[f]] = Null
  BY DEF HiddenIn
<1>4. Sees(t, r)[f] = cell[t][r][IF f \in cols[t] THEN f ELSE OldName[f]]
  BY DEF Sees, ReadRow, NameOf
<1> QED BY <1>2, <1>3, <1>4 DEF Whole

\* A row stored by a table that names every field holds what it was given.
LEMMA ConformWhole ==
    ASSUME NEW m, NEW c, NEW x, NEW known, NEW f \in Fields, c \cap {f, OldName[f]} # {}
    PROVE  Whole(Conform(m, c, x, known), f) = m[f]
<1>1. /\ f \notin c => Conform(m, c, x, known)[f] = Null
      /\ f \in c => Conform(m, c, x, known)[f] = m[f]
      /\ OldName[f] \notin c => Conform(m, c, x, known)[OldName[f]] = Null
  BY ConformCells, Distinct
<1>2. OldName[f] \in c => Conform(m, c, x, known)[OldName[f]] = m[f]
  BY ConformCells DEF Fields, OldName
<1> QED BY <1>1, <1>2 DEF Whole

\* A commit of a reshaping moves values, and loses none.
LEMMA StepWhole ==
    ASSUME Layouts, NEW q \in Requests, Step(q),
           NEW t \in Tables, NEW r \in AllRows, NEW f \in Fields
    PROVE  Whole(cell'[t][r], f) = Whole(cell[t][r], f)
<1>1. CASE t # task[q].t  BY <1>1, StepShape DEF Layouts
<1>2. CASE t = task[q].t
  <2>1. \/ DropsLists(t)
        \/ \E g \in Fields : Renames(t, g) \/ Copies(t, g) \/ DropsOld(t, g)
    BY <1>2, HeadStep DEF Layouts
  <2>2. /\ f \in Columns /\ OldName[f] \in Columns
        /\ f # "lists" /\ OldName[f] # "lists" /\ f # OldName[f]
    BY Distinct
  <2>3. CASE DropsLists(t)
    <3>1. cell'[t][r][f] = cell[t][r][f] /\ cell'[t][r][OldName[f]] = cell[t][r][OldName[f]]
      BY <2>2, <2>3 DEF DropsLists
    <3> QED BY <3>1 DEF Whole
  <2>4. ASSUME NEW g \in Fields, g # f, Renames(t, g) \/ Copies(t, g) \/ DropsOld(t, g)
        PROVE  Whole(cell'[t][r], f) = Whole(cell[t][r], f)
    <3>1. f # OldName[g] /\ OldName[f] # g /\ OldName[f] # OldName[g]
      BY <2>4, Distinct
    <3>2. cell'[t][r][f] = cell[t][r][f] /\ cell'[t][r][OldName[f]] = cell[t][r][OldName[f]]
      BY <2>2, <2>4, <3>1 DEF Renames, Copies, DropsOld
    <3> QED BY <3>2 DEF Whole
  <2>5. CASE Renames(t, f)
    <3>1. f \notin cols[t] /\ cell[t][r][f] = Null
      BY <2>2, <2>5 DEF Renames, Layouts, Bare
    <3>2. cell'[t][r][f] = cell[t][r][OldName[f]] /\ cell'[t][r][OldName[f]] = Null
      BY <2>2, <2>5 DEF Renames
    <3> QED BY <3>1, <3>2 DEF Whole
  <2>6. CASE Copies(t, f)
    <3>1. /\ cell'[t][r][f] = IF cell[t][r][f] = Null THEN cell[t][r][OldName[f]]
                              ELSE cell[t][r][f]
          /\ cell'[t][r][OldName[f]] = cell[t][r][OldName[f]]
      BY <2>2, <2>6 DEF Copies
    <3> QED BY <3>1 DEF Whole
  <2>7. CASE DropsOld(t, f)
    <3>1. /\ cell'[t][r][f] = cell[t][r][f] /\ cell'[t][r][OldName[f]] = Null
          /\ cell[t][r][f] = Null => cell[t][r][OldName[f]] = Null
      BY <2>2, <2>7 DEF DropsOld
    <3> QED BY <3>1 DEF Whole
  <2> QED BY <2>1, <2>3, <2>4, <2>5, <2>6, <2>7
<1> QED BY <1>1, <1>2


-----------------------------------------------------------------------------
(* Reads *)

Reading == Layouts /\ Named /\ SaidWhole /\ KnowsNoMore

LEMMA InitReading == StoresAsLeft /\ Init => Reading
<1> SUFFICES ASSUME StoresAsLeft, Init PROVE Reading
  OBVIOUS
<1>1. Layouts  BY InitLayouts
<1>2. \A w \in Tasks : task[w].at = "idle"  BY IdleTyped DEF Init
<1>3. \A p \in Procs : Opened(p) = {}  BY <1>2, Kinds DEF Opened
<1>4. PICK s \in Stores : cols = s.cols  BY DEF Init
<1>5. Named  BY <1>3, <1>4 DEF Named, StoresAsLeft
<1>6. KnowsNoMore  BY <1>3 DEF KnowsNoMore, ReadTables, Procs
<1>7. \A t \in Tables, r \in AllRows, n \in Columns : cell[t][r][n] \in {Old, Null}
  BY DEF Init
<1>8. \A t \in Tables, r \in AllRows, f \in Fields :
        said[t][r][f] = IF Old \in {cell[t][r][f], cell[t][r][OldName[f]]} THEN Old ELSE Null
  BY DEF Init
<1>9. Old # Null  BY DEF Old, Null
<1>10. SaidWhole
  <2> SUFFICES ASSUME NEW t \in Tables, NEW r \in AllRows, NEW f \in Fields
               PROVE  Whole(cell[t][r], f) = said[t][r][f]
    BY DEF SaidWhole
  <2>1. cell[t][r][f] \in {Old, Null} /\ cell[t][r][OldName[f]] \in {Old, Null}
    BY <1>7, Distinct
  <2> QED BY <1>8, <1>9, <2>1 DEF Whole
<1> QED BY <1>1, <1>5, <1>6, <1>10 DEF Reading

LEMMA SaidWholeStep == ASSUME Reading, [Next]_vars PROVE SaidWhole'
<1>1. Typed /\ Layouts /\ Bare /\ Named  BY DEF Reading, Layouts
<1> SUFFICES ASSUME NEW t \in Tables, NEW r \in AllRows, <<t, r>> \notin dulled',
                    NEW f \in Fields
             PROVE  Whole(cell'[t][r], f) = said'[t][r][f]
  BY DEF SaidWhole
<1>2. <<t, r>> \notin dulled  BY <1>1, TableStep
<1>3. \A g \in Fields : Whole(cell[t][r], g) = said[t][r][g]
  BY <1>2 DEF Reading, SaidWhole
<1>4. said \in [Tables -> [AllRows -> [Fields -> Values]]]  BY <1>1, Parts DEF Stored
<1>5. ASSUME NEW p \in Procs, t \in Opened(p)
      PROVE  \A g \in Fields : cols[t] \cap {g, OldName[g]} # {}
  BY <1>1, <1>5 DEF Named, Fields, OldName
<1>6. CASE RowStays(t, r)  BY <1>3, <1>6 DEF RowStays
<1>7. CASE RowEdited(t, r)
  <2>1. ~HiddenIn(cols[t], cell[t][r])  BY <1>7 DEF RowEdited
  <2>2. t \in Opened("daemon")  BY <1>7 DEF RowEdited, Opened
  <2>3. PICK g \in Fields, v \in Words :
          /\ cell'[t][r] =
                Conform(GivenBy(t, r, g, v), cols[t], cell[t][r], cache["daemon"][t])
          /\ said'[t][r] = [said[t][r] EXCEPT ![g] = v]
    BY <1>7 DEF RowEdited
  <2>4. Whole(cell'[t][r], f) = GivenBy(t, r, g, v)[f]
    BY <1>5, <2>2, <2>3, ConformWhole DEF Procs
  <2>5. Sees(t, r)[f] = said[t][r][f]  BY <1>1, <1>3, <2>1, SeesWhole
  <2>6. GivenBy(t, r, g, v)[f] = IF f = g THEN v ELSE Sees(t, r)[f]
    BY DEF GivenBy, Sees, ReadRow
  <2>7. said'[t][r][f] = IF f = g THEN v ELSE said[t][r][f]
    BY <1>4, <2>3
  <2> QED BY <2>4, <2>5, <2>6, <2>7
<1>8. CASE RowCommitted(t, r)
  <2>1. t \in Opened("command")  BY <1>8 DEF RowCommitted, Opened
  <2>2. PICK v \in Words, known \in SUBSET Columns :
          /\ cell'[t][r] = Conform([g \in Fields |-> v], cols[t], cell[t][r], known)
          /\ said'[t][r] = [g \in Fields |-> v]
    BY <1>8 DEF RowCommitted
  <2> DEFINE m == [g \in Fields |-> v]
  <2>3. cell'[t][r] = Conform(m, cols[t], cell[t][r], known) /\ said'[t][r] = m
    BY <2>2
  <2> HIDE DEF m
  <2> QED BY <1>5, <2>1, <2>3, ConformWhole DEF Procs
<1>9. ASSUME UNCHANGED <<cell, said>> PROVE Whole(cell'[t][r], f) = said'[t][r][f]
  BY <1>3, <1>9
<1>10. ASSUME UNCHANGED said, NEW q \in Requests, Step(q)
       PROVE  Whole(cell'[t][r], f) = said'[t][r][f]
  <2>1. Whole(cell'[t][r], f) = Whole(cell[t][r], f)  BY <1>1, <1>10, StepWhole
  <2> QED BY <1>3, <1>10, <2>1
<1> QED BY <1>1, <1>6, <1>7, <1>8, <1>9, <1>10, TableStep

LEMMA ReadingTrue == ASSUME Reading PROVE ReadsTrue
<1>1. Typed /\ Bare /\ SaidWhole /\ KnowsNoMore  BY DEF Reading, Layouts
<1>2. said \in [Tables -> [AllRows -> [Fields -> Values]]]  BY <1>1, Parts DEF Stored
<1>3. ASSUME NEW t \in Tables, NEW r \in AllRows,
             ~HiddenIn(cols[t], cell[t][r]), <<t, r>> \notin dulled
      PROVE  Sees(t, r) = said[t][r]
  <2>1. \A f \in Fields : Sees(t, r)[f] = said[t][r][f]
    BY <1>1, <1>3, SeesWhole DEF SaidWhole
  <2>2. Sees(t, r) = [f \in Fields |-> Sees(t, r)[f]]  BY DEF Sees, ReadRow
  <2>3. said[t][r] = [f \in Fields |-> said[t][r][f]]  BY <1>2
  <2> QED BY <2>1, <2>2, <2>3
<1>4. ASSUME NEW t \in Tables, task["daemon"].at = "up", lock[t] = Free, t \notin stale
      PROVE  {n \in {"lists", "cwd"} : n \in cache["daemon"][t]} \subseteq cols[t]
  <2>1. t \in ReadTables  BY <1>4 DEF ReadTables, Opened
  <2> QED BY <1>1, <1>4, <2>1 DEF KnowsNoMore
<1> QED BY <1>3, <1>4 DEF ReadsTrue

\* What a row reads as is what its writers gave it, under either layout and
\* between any two commits of a reshaping, and the handle names no column that
\* is gone but while a table is reshaped or after that failed half way
\* (store.rs read_layout, batch_for_table; schema.rs conform_keeping).
THEOREM ReadsStayTrue == StoresAsLeft /\ Spec => []ReadsTrue
<1>1. StoresAsLeft /\ Init => Reading  BY InitReading
<1>2. Reading /\ [Next]_vars => Reading'
  <2> SUFFICES ASSUME Reading, [Next]_vars PROVE Reading'
    OBVIOUS
  <2>1. Layouts' /\ Named'  BY LayoutsStep, NamedStep DEF Reading
  <2>2. KnowsNoMore'  BY KnowsNoMoreStep DEF Reading, Layouts
  <2> QED BY <2>1, <2>2, SaidWholeStep DEF Reading
<1>3. Reading => ReadsTrue  BY ReadingTrue
<1> QED BY <1>1, <1>2, <1>3, PTL DEF Spec
=============================================================================
