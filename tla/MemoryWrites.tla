----------------------------- MODULE MemoryWrites -----------------------------
(***************************************************************************)
(* The handlers that write memories (src/src/http/memory.rs: add, update,  *)
(* delete, restamp) over the two tables of src/src/memory/store.rs, each   *)
(* with a write lock that its read-modify-writes take and its deletes and  *)
(* plain inserts do not.  A handler is the sequence of its store calls,    *)
(* and requests run in parallel: every read whose result is used after an  *)
(* await is a step.                                                        *)
(*                                                                         *)
(* A row is its text, its voice (`from`), a note (the fields an update may *)
(* patch besides the text, as the request that set them), and the row that *)
(* superseded it.  A table is a set of rows, in which one id may occur     *)
(* twice: a plain insert does not look.  Type, scope and account are left  *)
(* out; core rows live in the semantic table and count as semantic.        *)
(***************************************************************************)
EXTENDS Naturals, FiniteSets

CONSTANTS
    Rows,       \* rows there are at the start
    Requests,   \* write requests, each made once
    Ops,        \* what they may ask: see Op below
    Voices,     \* in whose voice they may add
    Texts,      \* contents
    None,       \* no row, nobody, no note
    MaxFaults   \* bound: store calls that fail, daemon restarts

Op == {"add",       \* add, with the duplicate check
       "insert",    \* add with skip_dedup, or a row of a batch
       "rewrite",   \* update with `content`
       "revoice",   \* update with `from`
       "annotate",  \* update of other fields
       "move",      \* update with `tier`
       "delete", "restamp"}

ASSUME MemoryWritesAssumption ==
    /\ Ops \subseteq Op
    /\ Voices \subseteq {"user", "derived"}
    /\ Rows \cap Requests = {}
    /\ None \notin Rows \cup Requests \cup Texts
    /\ MaxFaults \in Nat

Tables == {"semantic", "episodic"}
Other(t) == IF t = "semantic" THEN "episodic" ELSE "semantic"

\* The row a request adds has the request's name.
Ids == Rows \cup Requests
Row == [id : Ids, text : Texts, voice : {"user", "derived"},
        note : Requests \cup {None}, heir : Ids \cup {None}]

\* What a request asks.  `table` is where the tier of an add or a move lies
\* (resolve_tier), `target` the one row an add replaces or an update is about.
Args == [op : Op, table : Tables, target : Ids \cup {None},
         text : Texts \cup {None}, voice : {"user", "derived"}, directed : BOOLEAN]

VARIABLES
    table,      \* the two tables: table -> its rows
    lock,       \* table -> the request that holds its write_lock
    arg,        \* request -> what it asks
    pc,         \* request -> the store call it is about to make
    at,         \* request -> the table it looks in
    seen,       \* request -> rows it has read and will use
    survivor,   \* request -> the row its write landed in
    stale,      \* ghost: ids written back from a copy that was out of date
    noted,      \* ghost: row -> the note last acknowledged
    faults      \* failures so far

ghostVars == <<stale, noted>>
localVars == <<at, seen, survivor>>
vars == <<table, lock, arg, pc, localVars, ghostVars, faults>>

\* The steps a request makes while it holds the lock of table `at`.
Locked == {"write", "save", "archive", "stamp"}
Ended == {"done", "refused", "failed"}
Steps == Locked \cup Ended \cup
    {"new", "guard", "find", "fill", "evict", "dedup", "put", "expire", "discard",
     "locate", "edit", "leave", "enter", "look", "remove", "list", "await"}

Live(x) == x.heir = None
With(t, id) == {x \in table[t] : x.id = id}

\* The statements of the store.
Inserted(t, x) == [table EXCEPT ![t] = @ \cup {x}]
Upserted(t, x) == [table EXCEPT ![t] = {y \in @ : y.id # x.id} \cup {x}]
Deleted(t, id) == [table EXCEPT ![t] = {y \in @ : y.id # id}]

\* Broken variant of Twins: an archived row is a match.
TwinsOrArchived(t, text, except) ==
    {x \in table[t] : x.text = text /\ x.id # except}

\* find_exact_content: live rows with the text, but for those to be replaced.
Twins(t, text, except) ==
    {x \in table[t] : Live(x) /\ x.text = text /\ x.id # except}
-----------------------------------------------------------------------------
Unasked == [op |-> "add", table |-> "semantic", target |-> None,
            text |-> None, voice |-> "derived", directed |-> FALSE]

\* Each of the first rows is live in either table, or archived in the semantic
\* one (under which row matters to nobody); no two share a text.
Init ==
    /\ \E first \in [Rows -> [text : Texts, voice : {"user", "derived"}]],
          where \in [Rows -> {"semantic", "episodic", "archived"}] :
          /\ \A r, s \in Rows : first[r].text = first[s].text => r = s
          /\ LET RowOf(r) == [id |-> r, text |-> first[r].text, note |-> None,
                              voice |-> first[r].voice,
                              heir |-> IF where[r] = "archived" THEN r ELSE None]
                 In(t) == {r \in Rows : where[r] = t}
             IN  table = [t \in Tables |->
                    {RowOf(r) : r \in IF t = "semantic" THEN Rows \ In("episodic")
                                      ELSE In("episodic")}]
    /\ lock = [t \in Tables |-> None]
    /\ arg = [r \in Requests |-> Unasked]
    /\ pc = [r \in Requests |-> "new"]
    /\ at = [r \in Requests |-> "semantic"]
    /\ seen = [r \in Requests |-> {}]
    /\ survivor = [r \in Requests |-> None]
    /\ stale = {}
    /\ noted = [id \in Ids |-> None]
    /\ faults = 0

Goto(r, step) == pc' = [pc EXCEPT ![r] = step]
Keep(r, rows) == seen' = [seen EXCEPT ![r] = rows]
LookIn(r, t) == at' = [at EXCEPT ![r] = t]
Lock(r, t) == lock[t] = None /\ lock' = [lock EXCEPT ![t] = r]
Unlock(t) == lock' = [lock EXCEPT ![t] = None]

\* Where a handler begins once its target may be touched.
Begun(a) == CASE a.op = "add" -> "find"
              [] a.op = "insert" -> "put"
              [] a.op \in {"rewrite", "revoice", "annotate", "move"} -> "locate"
              [] a.op = "delete" -> "look"
              [] a.op = "restamp" -> "list"

Guarded(a) ==
    /\ ~a.directed
    /\ a.op = "rewrite" \/ (a.op \in {"add", "insert"} /\ a.target # None)

\* What an operation does not use is left at its default.
Plain(a) ==
    /\ \/ a.op = "revoice"
       \/ a.op \in {"add", "insert"} /\ a.voice \in Voices
       \/ a.op \notin {"add", "insert", "revoice"} /\ a.voice = "derived"
    /\ a.text = None <=> a.op \notin {"add", "insert", "rewrite"}
    /\ a.op \in {"rewrite", "revoice", "annotate", "move", "delete"} => a.target # None
    /\ a.op = "restamp" => a.target = None
    /\ a.op \notin {"add", "insert", "move"} => a.table = "semantic"
    /\ a.directed => a.target # None /\ a.text # None

\* A client knows the first rows, and those it can list.
Known == Rows \cup {x.id : x \in UNION {table[t] : t \in Tables}}

Begin(r) ==
    /\ pc[r] = "new"
    /\ \E a \in [op : Ops, table : Tables, target : Known \cup {None},
                 text : Texts \cup {None}, voice : {"user", "derived"},
                 directed : BOOLEAN] :
          /\ Plain(a)
          /\ arg' = [arg EXCEPT ![r] = a]
          /\ Goto(r, IF Guarded(a) THEN "guard" ELSE Begun(a))
    /\ UNCHANGED <<table, lock, localVars, ghostVars, faults>>

\* Broken variant of Guard: it only looks in the semantic table.
GuardSemantic(r) ==
    /\ pc[r] = "guard"
    /\ LET found == With("semantic", arg[r].target)
       IN  Goto(r, IF \E x \in found : x.voice = "user" THEN "refused"
                   ELSE Begun(arg[r]))
    /\ UNCHANGED <<table, lock, arg, localVars, ghostVars, faults>>

\* guard_user_voice: one table, then the other.
Guard(r) ==
    /\ pc[r] = "guard"
    /\ LET found == With(at[r], arg[r].target)
       IN  \/ /\ \E x \in found : x.voice = "user"
              /\ Goto(r, "refused")
              /\ UNCHANGED at
           \/ /\ \E x \in found : x.voice # "user"
              /\ Goto(r, Begun(arg[r]))
              /\ LookIn(r, "semantic")
           \/ /\ found = {} /\ at[r] = "semantic"
              /\ LookIn(r, "episodic")
              /\ UNCHANGED pc
           \/ /\ found = {} /\ at[r] = "episodic"
              /\ Goto(r, Begun(arg[r]))
              /\ LookIn(r, "semantic")
    /\ UNCHANGED <<table, lock, arg, seen, survivor, ghostVars, faults>>
-----------------------------------------------------------------------------
(* add *)

\* The new row's copy in the other table, if there is one: a long-term copy is
\* kept and filled, a staged one makes way.
Find(r) ==
    /\ pc[r] = "find"
    /\ LET other == Other(arg[r].table)
           twins == Twins(other, arg[r].text, arg[r].target)
       IN  \/ twins = {} /\ Goto(r, "dedup") /\ UNCHANGED seen
           \/ \E x \in twins :
                 /\ Keep(r, {x})
                 /\ Goto(r, IF other = "semantic" THEN "fill" ELSE "evict")
    /\ UNCHANGED <<table, lock, arg, at, survivor, ghostVars, faults>>

\* apply_replace_ids never retires the row the write landed in.
Retiring(r, id) ==
    IF arg[r].target \in {None, id} THEN "done" ELSE "expire"

Landed(r, id) ==
    /\ survivor' = [survivor EXCEPT ![r] = id]
    /\ Goto(r, Retiring(r, id))

\* update_full_public: locks, but writes back the row found before.
Fill(r) ==
    /\ pc[r] = "fill"
    /\ lock["semantic"] = None
    /\ \E x \in seen[r] :
          /\ table' = Upserted("semantic", x)
          /\ stale' = IF With("semantic", x.id) = {x} THEN stale ELSE stale \cup {x.id}
          /\ Landed(r, x.id)
    /\ Keep(r, {})
    /\ UNCHANGED <<lock, arg, at, noted, faults>>

Evict(r) ==
    /\ pc[r] = "evict"
    /\ \E x \in seen[r] : table' = Deleted("episodic", x.id)
    /\ Goto(r, "dedup")
    /\ Keep(r, {})
    /\ UNCHANGED <<lock, arg, at, survivor, ghostVars, faults>>

\* Broken variant of Dedup: the duplicate is looked for before the lock.
DedupUnlocked(r) ==
    /\ pc[r] = "dedup"
    /\ LET twins == Twins(arg[r].table, arg[r].text, arg[r].target)
       IN  \/ twins = {} /\ Keep(r, {})
           \/ \E x \in twins : Keep(r, {x})
    /\ LookIn(r, arg[r].table)
    /\ Goto(r, "write")
    /\ UNCHANGED <<table, lock, arg, survivor, ghostVars, faults>>

\* insert_with_dedup_except, up to its write.
Dedup(r) ==
    /\ pc[r] = "dedup"
    /\ Lock(r, arg[r].table)
    /\ LET twins == Twins(arg[r].table, arg[r].text, arg[r].target)
       IN  \/ twins = {} /\ Keep(r, {})
           \/ \E x \in twins : Keep(r, {x})
    /\ LookIn(r, arg[r].table)
    /\ Goto(r, "write")
    /\ UNCHANGED <<table, arg, survivor, ghostVars, faults>>

\* Memory::new with the request's text and voice.
New(r) == [id |-> r, text |-> arg[r].text, voice |-> arg[r].voice,
           note |-> None, heir |-> None]

\* A delete does not take the lock: the row may be gone when it is written back.
Gone(t, id) == IF With(t, id) = {} THEN stale \cup {id} ELSE stale

Write(r) ==
    /\ pc[r] = "write"
    /\ \/ /\ seen[r] = {}
          /\ table' = Inserted(at[r], New(r))
          /\ Landed(r, r)
          /\ UNCHANGED stale
       \/ \E x \in seen[r] :
             /\ table' = Upserted(at[r], x)
             /\ stale' = Gone(at[r], x.id)
             /\ Landed(r, x.id)
    /\ Unlock(at[r])
    /\ Keep(r, {})
    /\ UNCHANGED <<arg, at, noted, faults>>

\* skip_dedup, add_batch.
Put(r) ==
    /\ pc[r] = "put"
    /\ table' = Inserted(arg[r].table, New(r))
    /\ Landed(r, r)
    /\ UNCHANGED <<lock, arg, at, seen, stale, noted, faults>>

\* apply_replace_ids: `expire` in the semantic table, or else a delete in the
\* episodic one.
Expire(r) ==
    /\ pc[r] = "expire"
    /\ lock["semantic"] = None
    /\ LET found == With("semantic", arg[r].target)
       IN  \/ /\ found = {}
              /\ Goto(r, "discard")
              /\ UNCHANGED <<lock, at, seen>>
           \/ \E x \in found :
                 /\ Lock(r, "semantic")
                 /\ LookIn(r, "semantic")
                 /\ Keep(r, {x})
                 /\ Goto(r, "archive")
    /\ UNCHANGED <<table, arg, survivor, ghostVars, faults>>

Archive(r) ==
    /\ pc[r] = "archive"
    /\ \E x \in seen[r] :
          /\ table' = Upserted("semantic", [x EXCEPT !.heir = survivor[r]])
          /\ stale' = Gone("semantic", x.id)
    /\ Unlock("semantic")
    /\ Goto(r, "done")
    /\ Keep(r, {})
    /\ UNCHANGED <<arg, at, survivor, noted, faults>>

Discard(r) ==
    /\ pc[r] = "discard"
    /\ table' = Deleted("episodic", arg[r].target)
    /\ Goto(r, "done")
    /\ UNCHANGED <<lock, arg, localVars, stale, noted, faults>>
-----------------------------------------------------------------------------
(* update *)

Locate(r) ==
    /\ pc[r] = "locate"
    /\ LET found == With(at[r], arg[r].target)
       IN  \/ \E x \in found :
                 /\ Keep(r, {x})
                 /\ Goto(r, IF arg[r].op = "move" /\ at[r] # arg[r].table
                            THEN "leave" ELSE "edit")
                 /\ UNCHANGED at
           \/ /\ found = {} /\ at[r] = "semantic"
              /\ LookIn(r, "episodic")
              /\ UNCHANGED <<pc, seen>>
           \/ /\ found = {} /\ at[r] = "episodic"
              /\ Goto(r, "refused")
              /\ UNCHANGED <<at, seen>>
    /\ UNCHANGED <<table, lock, arg, survivor, ghostVars, faults>>

\* Broken variant of Edit: the row is read before the lock.
EditUnlocked(r) ==
    /\ pc[r] = "edit"
    /\ \E x \in With(at[r], arg[r].target) : Keep(r, {x}) /\ Goto(r, "save")
    /\ UNCHANGED <<table, lock, arg, at, survivor, ghostVars, faults>>

\* Broken variant of Edit: a row that is gone is answered under the lock.
EditForgetsLock(r) ==
    /\ pc[r] = "edit"
    /\ Lock(r, at[r])
    /\ LET found == With(at[r], arg[r].target)
       IN  \/ found = {} /\ Goto(r, "refused") /\ UNCHANGED seen
           \/ \E x \in found : Keep(r, {x}) /\ Goto(r, "save")
    /\ UNCHANGED <<table, arg, at, survivor, ghostVars, faults>>

\* MemoryStore::update, up to its write.
Edit(r) ==
    /\ pc[r] = "edit"
    /\ lock[at[r]] = None
    /\ LET found == With(at[r], arg[r].target)
       IN  \/ found = {} /\ Goto(r, "refused") /\ UNCHANGED <<lock, seen>>
           \/ \E x \in found : Lock(r, at[r]) /\ Keep(r, {x}) /\ Goto(r, "save")
    /\ UNCHANGED <<table, arg, at, survivor, ghostVars, faults>>

\* MemoryPatch::apply.
Patched(r, x) ==
    CASE arg[r].op = "rewrite" -> [x EXCEPT !.text = arg[r].text]
      [] arg[r].op = "revoice" -> [x EXCEPT !.voice = arg[r].voice]
      [] arg[r].op = "annotate" -> [x EXCEPT !.note = r]
      [] OTHER -> x

Save(r) ==
    /\ pc[r] = "save"
    /\ \E x \in seen[r] :
          LET y == Patched(r, x)
          IN  /\ table' = Upserted(at[r], y)
              /\ stale' = Gone(at[r], x.id)
              /\ noted' = [noted EXCEPT ![x.id] = IF arg[r].op = "annotate" THEN r ELSE @]
    /\ Unlock(at[r])
    /\ Goto(r, "done")
    /\ Keep(r, {})
    /\ UNCHANGED <<arg, at, survivor, faults>>

\* A move between the tables: out of one, and then into the other, as it was read.
Leave(r) ==
    /\ pc[r] = "leave"
    /\ table' = Deleted(at[r], arg[r].target)
    /\ stale' = IF With(at[r], arg[r].target) = seen[r] THEN stale
                ELSE stale \cup {arg[r].target}
    /\ Goto(r, "enter")
    /\ UNCHANGED <<lock, arg, localVars, noted, faults>>

\* Nor does the insert take the lock: who has it may hold the row as it was before
\* it left, and will write that back.
Returned(t, x) ==
    IF lock[t] # None /\ \E y \in seen[lock[t]] : y.id = x.id /\ y # x
    THEN stale \cup {x.id} ELSE stale

Enter(r) ==
    /\ pc[r] = "enter"
    /\ \E x \in seen[r] :
          /\ table' = Inserted(arg[r].table, x)
          /\ stale' = Returned(arg[r].table, x)
    /\ Goto(r, "done")
    /\ Keep(r, {})
    /\ UNCHANGED <<lock, arg, at, survivor, noted, faults>>
-----------------------------------------------------------------------------
(* delete *)

Look(r) ==
    /\ pc[r] = "look"
    /\ LET found == With(at[r], arg[r].target)
       IN  \/ found # {} /\ Goto(r, "remove") /\ UNCHANGED at
           \/ /\ found = {} /\ at[r] = "semantic"
              /\ LookIn(r, "episodic")
              /\ UNCHANGED pc
           \/ found = {} /\ at[r] = "episodic" /\ Goto(r, "done") /\ UNCHANGED at
    /\ UNCHANGED <<table, lock, arg, seen, survivor, ghostVars, faults>>

Remove(r) ==
    /\ pc[r] = "remove"
    /\ table' = Deleted(at[r], arg[r].target)
    /\ LET found == With(at[r], arg[r].target)
       IN  \/ /\ found = {} /\ at[r] = "semantic"
              /\ LookIn(r, "episodic")
              /\ Goto(r, "look")
           \/ /\ found # {} \/ at[r] = "episodic"
              /\ Goto(r, "done")
              /\ UNCHANGED at
    /\ UNCHANGED <<lock, arg, seen, survivor, stale, noted, faults>>
-----------------------------------------------------------------------------
(* restamp: which rows carry the account's stamp is any set *)

List(r) ==
    /\ pc[r] = "list"
    /\ \E rows \in SUBSET table[at[r]] : Keep(r, rows)
    /\ Goto(r, "await")
    /\ UNCHANGED <<table, lock, arg, at, survivor, ghostVars, faults>>

Await(r) ==
    /\ pc[r] = "await"
    /\ Lock(r, at[r])
    /\ Goto(r, "stamp")
    /\ UNCHANGED <<table, arg, localVars, ghostVars, faults>>

\* restamp_account's loop: every row goes back as it was read.
Stamp(r) ==
    /\ pc[r] = "stamp"
    /\ \/ \E x \in seen[r] :
             /\ table' = Upserted(at[r], x)
             /\ stale' = IF With(at[r], x.id) = {x} THEN stale ELSE stale \cup {x.id}
             /\ Keep(r, seen[r] \ {x})
             /\ UNCHANGED <<lock, pc, at>>
       \/ /\ seen[r] = {}
          /\ Unlock(at[r])
          /\ LookIn(r, "episodic")
          /\ Goto(r, IF at[r] = "semantic" THEN "list" ELSE "done")
          /\ UNCHANGED <<table, stale, seen>>
    /\ UNCHANGED <<arg, survivor, noted, faults>>
-----------------------------------------------------------------------------
Freed(rs) == lock' = [t \in Tables |-> IF lock[t] \in rs THEN None ELSE lock[t]]

\* A store call fails.  What apply_replace_ids calls is only reported.
Fail(r) ==
    /\ faults < MaxFaults
    /\ pc[r] \notin Ended \cup {"new"}
    /\ faults' = faults + 1
    /\ Goto(r, CASE pc[r] \in {"expire", "archive"} -> "discard"
                 [] pc[r] = "discard" -> "done"
                 [] OTHER -> "failed")
    /\ Freed({r})
    /\ UNCHANGED <<table, arg, localVars, ghostVars>>

\* The daemon restarts under its requests.
Restart ==
    /\ faults < MaxFaults
    /\ faults' = faults + 1
    /\ pc' = [r \in Requests |->
                IF pc[r] \in Ended \cup {"new"} THEN pc[r] ELSE "failed"]
    /\ Freed(Requests)
    /\ UNCHANGED <<table, arg, localVars, ghostVars>>

Step(r) ==
    \/ Guard(r)
    \/ Find(r) \/ Fill(r) \/ Evict(r) \/ Dedup(r) \/ Write(r) \/ Put(r)
    \/ Expire(r) \/ Archive(r) \/ Discard(r)
    \/ Locate(r) \/ Edit(r) \/ Save(r) \/ Leave(r) \/ Enter(r)
    \/ Look(r) \/ Remove(r)
    \/ List(r) \/ Await(r) \/ Stamp(r)

Next ==
    \/ \E r \in Requests : Begin(r) \/ Step(r) \/ Fail(r)
    \/ Restart

Spec == Init /\ [][Next]_vars

-----------------------------------------------------------------------------
\* The types of the variables.
TypeOK ==
    /\ table \in [Tables -> SUBSET Row]
    /\ lock \in [Tables -> Requests \cup {None}]
    /\ arg \in [Requests -> Args]
    /\ pc \in [Requests -> Steps]
    /\ at \in [Requests -> Tables]
    /\ seen \in [Requests -> SUBSET Row]
    /\ survivor \in [Requests -> Ids \cup {None}]
    /\ stale \in SUBSET Ids
    /\ noted \in [Ids -> Requests \cup {None}]
    /\ faults \in 0 .. MaxFaults

\* memory.rs: the row r was not put into its table through the duplicate check, or
\* another text was put into it there.
Unchecked(id) ==
    \/ id \in stale
    \/ \E q \in Requests :
          \/ arg[q].op = "insert" /\ id = q
          \/ arg[q].op \in {"rewrite", "move"} /\ arg[q].target = id

\* store.rs: without the lock "two concurrent adds of the same (content, type)
\* could both miss the existing row and each insert a fresh copy".  Two live rows
\* of a table share a text only if one was to replace the other, came without the
\* check, or was written back from an old copy.
NoTwins ==
    \A t \in Tables : \A x, y \in table[t] :
        Live(x) /\ Live(y) /\ x.text = y.text /\ x.id # y.id =>
            \/ Unchecked(x.id) \/ Unchecked(y.id)
            \/ x.id \in Requests /\ arg[x.id].target = y.id
            \/ y.id \in Requests /\ arg[y.id].target = x.id

\* store.rs: "a concurrent update+update on one id could lose a patch": what an
\* update was acknowledged for stays in the row, through merges, rewrites, moves
\* and retirements in parallel, but for rows written back from an old copy.
PatchesStick ==
    \A t \in Tables : \A x \in table[t] : x.note = noted[x.id] \/ x.id \in stale

\* A request that may take a text away: it was asked to, or it is between taking a
\* row out and putting it back, or it stopped there.
Takes(q) ==
    \/ arg[q].op \in {"delete", "rewrite"}
    \/ arg[q].op \in {"add", "insert"} /\ arg[q].target # None
    \/ pc[q] \in {"dedup", "write", "enter", "failed"}

\* store.rs: "merging a new write into it left the write invisible": a text that
\* was added, and answered so, is in a live row, unless another request took it
\* away, or merged it into the very row this one was about to replace.
NothingLost ==
    \A r \in Requests :
        arg[r].op \in {"add", "insert"} /\ pc[r] = "done" =>
            \/ \E t \in Tables : \E x \in table[t] : Live(x) /\ x.text = arg[r].text
            \/ \E q \in Requests \ {r} :
                  /\ pc[q] # "new"
                  /\ \/ Takes(q)
                     \/ arg[r].target # None /\ arg[q].text = arg[r].text

\* What can change behind the guard's back: a move takes the row out of the table
\* it looks in next, an update gives a row it has passed the user's voice.
Slips(id) == \E q \in Requests : arg[q].op \in {"move", "revoice"} /\ arg[q].target = id

\* memory.rs: "the daemon guarantees no silent user-voice rewrite reaches the
\* store": a live row in the user's voice is rewritten or retired only by a request
\* that is user_directed or deletes it, or as a staged copy of what is being added,
\* whatever the others do between the guard and the write; but not if it is moved,
\* given that voice or written back from an old copy in between.
UserVoiceKept ==
    [][\A t \in Tables : \A x \in table[t] :
          \/ ~Live(x) \/ x.voice # "user" \/ x.id \in stale' \/ Slips(x.id)
          \/ \E y \in table'[t] : y.id = x.id /\ y.text = x.text /\ Live(y)
          \/ \E r \in Requests :
                /\ pc'[r] # pc[r]
                /\ arg[r].directed \/ pc[r] \in {"remove", "evict"}]_vars

\* store.rs: "Serializes read-modify-write mutations (...) against this table", and
\* "a cross-tier write touching both never self-deadlocks": a request holds the
\* lock of a table exactly while it is between the read and the write of one there;
\* so no two are, and nobody waits for a lock with another in hand.
LocksEnd ==
    \A t \in Tables, r \in Requests :
        lock[t] = r <=> pc[r] \in Locked /\ at[r] = t
=============================================================================
