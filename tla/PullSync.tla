------------------------------- MODULE PullSync -------------------------------
(***************************************************************************)
(* A replica following its primary: the write primitives of                *)
(* src/src/memory/store.rs on the primary's two tables, each a table write *)
(* and, later, a record in the change log; the sync route                  *)
(* (src/src/http/sync.rs) reading a page's rows one table at a time; and   *)
(* the pull (src/src/replica/pull.rs) applying them row by row and then    *)
(* moving its cursor.  Every `await` between two of these is a state.      *)
(*                                                                         *)
(* The log is a set of entries: ChangeLog shows that their numbers are     *)
(* strictly increasing and what damages its file.  Row bodies are members  *)
(* of Bodies.  The store's write lock, which orders upserts of one table,  *)
(* is left out: deletes never take it, and leaving it out only adds        *)
(* interleavings.                                                          *)
(***************************************************************************)
EXTENDS Integers, FiniteSets

CONSTANTS
    Ids,        \* row ids
    Bodies,     \* row bodies
    NoRow,      \* no row of that id in a table
    Writers,    \* requests writing on the primary at the same time
    Limit,      \* entries a page holds at most (PAGE)
    MaxWrites,  \* bound: write primitives started
    MaxFaults   \* bound: deaths and failed pulls

ASSUME PullSyncAssumption ==
    /\ NoRow \notin Bodies
    /\ IsFiniteSet(Ids)
    /\ Limit \in Nat \ {0}
    /\ MaxWrites \in Nat
    /\ MaxFaults \in Nat

Tables == {"semantic", "episodic"}
Other(t) == IF t = "semantic" THEN "episodic" ELSE "semantic"
Row == [id : Ids, table : Tables, body : Bodies]

VARIABLES
    store,      \* the primary's tables: table -> id -> body or NoRow
    log,        \* the change log's entries
    nextSeq,    \* the number of its next entry
    step,       \* writer -> "idle", "listed" (a delete) or "wrote"
    target,     \* writer -> the table its delete runs on
    matching,   \* writer -> the ids its delete's predicate matches
    pending,    \* writer -> the ids it will record
    unlogged,   \* ghost: ids changed by a write that will never record them
    phase,      \* the pull: "idle", "reading" (the route) or "applying"
    pageNext,   \* the page's `next`
    unread,     \* ids of the page whose row is still to be read
    missed,     \* the id whose semantic read came back empty
    rows,       \* the page's rows
    tombstones, \* the page's tombstones
    half,       \* the row or tombstone applied to one table so far
    copy,       \* the replica's tables
    cursor,     \* the replica's cursor
    saved,      \* the cursor in .replica.json
    writes,     \* write primitives started so far
    faults      \* deaths and failed pulls so far

primaryVars == <<store, log, nextSeq, step, target, matching, pending, unlogged>>
pageVars == <<phase, pageNext, unread, missed, rows, tombstones, half>>
replicaVars == <<copy, cursor, saved>>
vars == <<primaryVars, pageVars, replicaVars, writes, faults>>

-----------------------------------------------------------------------------
(* What a reader of two tables sees: long-term memory first. *)
View(tables, id) ==
    IF tables["semantic"][id] # NoRow THEN <<"semantic", tables["semantic"][id]>>
    ELSE IF tables["episodic"][id] # NoRow THEN <<"episodic", tables["episodic"][id]>>
    ELSE <<"none", NoRow>>

Entry == [seq : Nat, id : Ids]

\* An entry for id that a page after cursor c would name.
Late(id, c) == \E e \in log : e.id = id /\ e.seq > c

\* A writer changed id and has yet to record it.
Pending(id) == \E w \in Writers : step[w] = "wrote" /\ id \in pending[w]

\* The replica will hear of id again, or the log never will.
Excused(id, c) == Late(id, c) \/ Pending(id) \/ id \in unlogged

-----------------------------------------------------------------------------
Init ==
    /\ store = [t \in Tables |-> [id \in Ids |-> NoRow]]
    /\ log = {}
    /\ nextSeq = 1
    /\ step = [w \in Writers |-> "idle"]
    /\ target = [w \in Writers |-> "semantic"]
    /\ matching = [w \in Writers |-> {}]
    /\ pending = [w \in Writers |-> {}]
    /\ unlogged = {}
    /\ phase = "idle"
    /\ pageNext = 0
    /\ unread = {}
    /\ missed = {}
    /\ rows = {}
    /\ tombstones = {}
    /\ half = {}
    /\ copy = [t \in Tables |-> [id \in Ids |-> NoRow]]
    /\ cursor = 0
    /\ saved = 0
    /\ writes = 0
    /\ faults = 0

(* Write primitives on the primary *)

\* Broken variant of Put: the primitive returns without its record.
PutUnrecorded(w, t, id, b) ==
    /\ step[w] = "idle"
    /\ writes < MaxWrites
    /\ writes' = writes + 1
    /\ store' = [store EXCEPT ![t][id] = b]
    /\ UNCHANGED <<log, nextSeq, step, target, matching, pending, unlogged>>
    /\ UNCHANGED <<pageVars, replicaVars, faults>>

\* upsert / insert, up to the end of the table write.
Put(w, t, id, b) ==
    /\ step[w] = "idle"
    /\ writes < MaxWrites
    /\ writes' = writes + 1
    /\ store' = [store EXCEPT ![t][id] = b]
    /\ step' = [step EXCEPT ![w] = "wrote"]
    /\ pending' = [pending EXCEPT ![w] = {id}]
    /\ UNCHANGED <<log, nextSeq, target, matching, unlogged>>
    /\ UNCHANGED <<pageVars, replicaVars, faults>>

\* delete_where: count and list what the predicate matches now.
ListDoomed(w, t, P) ==
    /\ step[w] = "idle"
    /\ writes < MaxWrites
    /\ writes' = writes + 1
    /\ step' = [step EXCEPT ![w] = "listed"]
    /\ target' = [target EXCEPT ![w] = t]
    /\ matching' = [matching EXCEPT ![w] = P]
    /\ pending' = [pending EXCEPT ![w] = {id \in P : store[t][id] # NoRow}]
    /\ UNCHANGED <<store, log, nextSeq, unlogged>>
    /\ UNCHANGED <<pageVars, replicaVars, faults>>

\* delete_where: the delete takes whatever matches when it runs.
DeleteMatching(w) ==
    LET t == target[w]
        gone == {id \in matching[w] : store[t][id] # NoRow}
    IN  /\ step[w] = "listed"
        /\ store' = [store EXCEPT ![t] =
                        [id \in Ids |-> IF id \in matching[w] THEN NoRow
                                        ELSE store[t][id]]]
        /\ unlogged' = unlogged \cup (gone \ pending[w])
        /\ step' = [step EXCEPT ![w] = "wrote"]
        /\ UNCHANGED <<log, nextSeq, target, matching, pending>>
        /\ UNCHANGED <<pageVars, replicaVars, writes, faults>>

\* ChangeLog::record of the ids the primitive collected, under the log's mutex.
Record(w) ==
    /\ step[w] = "wrote"
    /\ \E order \in [pending[w] -> nextSeq .. nextSeq + Cardinality(pending[w]) - 1] :
          /\ \A i, j \in pending[w] : i # j => order[i] # order[j]
          /\ log' = log \cup {[seq |-> order[id], id |-> id] : id \in pending[w]}
    /\ nextSeq' = nextSeq + Cardinality(pending[w])
    /\ unlogged' = unlogged \ pending[w]
    /\ step' = [step EXCEPT ![w] = "idle"]
    /\ pending' = [pending EXCEPT ![w] = {}]
    /\ UNCHANGED <<store, target, matching>>
    /\ UNCHANGED <<pageVars, replicaVars, writes, faults>>

\* maybe_compact: only the newest entry of each id stays.
Compact ==
    /\ log' \in SUBSET log
    /\ log' # log
    /\ \A e \in log : \E f \in log' : f.id = e.id /\ f.seq >= e.seq
    /\ \A e, f \in log' : e.id = f.id => e = f
    /\ UNCHANGED <<store, nextSeq, step, target, matching, pending, unlogged>>
    /\ UNCHANGED <<pageVars, replicaVars, writes, faults>>

(* One page of a pull *)

\* The entries of the page after the cursor that ends at number n.
Taken(n) == {e \in log : cursor < e.seq /\ e.seq <= n}

\* The route's log.since: the first Limit entries after the cursor.
Fetch ==
    /\ phase = "idle"
    /\ \E last \in log :
          /\ last.seq > cursor
          /\ Cardinality(Taken(last.seq)) <= Limit
          /\ \/ Cardinality(Taken(last.seq)) = Limit
             \/ \A e \in log : e.seq <= last.seq
          /\ pageNext' = last.seq
          /\ unread' = {e.id : e \in Taken(last.seq)}
    /\ phase' = "reading"
    /\ UNCHANGED <<missed, rows, tombstones, half>>
    /\ UNCHANGED <<primaryVars, replicaVars, writes, faults>>

\* `current`, first half: the semantic table.
ReadSemantic(id) ==
    /\ phase = "reading"
    /\ missed = {}
    /\ id \in unread
    /\ unread' = unread \ {id}
    /\ LET body == store["semantic"][id]
       IN  \/ /\ body # NoRow
              /\ rows' = rows \cup {[id |-> id, table |-> "semantic", body |-> body]}
              /\ UNCHANGED missed
           \/ /\ body = NoRow
              /\ missed' = {id}
              /\ UNCHANGED rows
    /\ UNCHANGED <<phase, pageNext, tombstones, half>>
    /\ UNCHANGED <<primaryVars, replicaVars, writes, faults>>

\* `current`, second half: the episodic table, or a tombstone.
ReadEpisodic(id) ==
    /\ phase = "reading"
    /\ id \in missed
    /\ missed' = {}
    /\ LET body == store["episodic"][id]
       IN  \/ /\ body # NoRow
              /\ rows' = rows \cup {[id |-> id, table |-> "episodic", body |-> body]}
              /\ UNCHANGED tombstones
           \/ /\ body = NoRow
              /\ tombstones' = tombstones \cup {id}
              /\ UNCHANGED rows
    /\ UNCHANGED <<phase, pageNext, unread, half>>
    /\ UNCHANGED <<primaryVars, replicaVars, writes, faults>>

\* The reply arrives at the replica.
Deliver ==
    /\ phase = "reading"
    /\ unread = {}
    /\ missed = {}
    /\ phase' = "applying"
    /\ UNCHANGED <<pageNext, unread, missed, rows, tombstones, half>>
    /\ UNCHANGED <<primaryVars, replicaVars, writes, faults>>

\* `put`: the row into its table ...
PutRow(r) ==
    /\ phase = "applying"
    /\ half = {}
    /\ r \in rows
    /\ copy' = [copy EXCEPT ![r.table][r.id] = r.body]
    /\ half' = {r.id}
    /\ UNCHANGED <<phase, pageNext, unread, missed, rows, tombstones>>
    /\ UNCHANGED <<primaryVars, cursor, saved, writes, faults>>

\* ... and out of the other one.
DropOther(r) ==
    /\ phase = "applying"
    /\ r \in rows
    /\ half = {r.id}
    /\ copy' = [copy EXCEPT ![Other(r.table)][r.id] = NoRow]
    /\ half' = {}
    /\ rows' = rows \ {r}
    /\ UNCHANGED <<phase, pageNext, unread, missed, tombstones>>
    /\ UNCHANGED <<primaryVars, cursor, saved, writes, faults>>

\* Tombstones come after the rows: semantic first ...
EntombSemantic(id) ==
    /\ phase = "applying"
    /\ rows = {}
    /\ half = {}
    /\ id \in tombstones
    /\ copy' = [copy EXCEPT !["semantic"][id] = NoRow]
    /\ half' = {id}
    /\ UNCHANGED <<phase, pageNext, unread, missed, rows, tombstones>>
    /\ UNCHANGED <<primaryVars, cursor, saved, writes, faults>>

\* ... then episodic.
EntombEpisodic(id) ==
    /\ phase = "applying"
    /\ rows = {}
    /\ half = {id}
    /\ id \in tombstones
    /\ copy' = [copy EXCEPT !["episodic"][id] = NoRow]
    /\ half' = {}
    /\ tombstones' = tombstones \ {id}
    /\ UNCHANGED <<phase, pageNext, unread, missed, rows>>
    /\ UNCHANGED <<primaryVars, cursor, saved, writes, faults>>

\* Broken variant of Finish: the cursor takes the reply's `head`.
FinishAtHead ==
    /\ phase = "applying"
    /\ rows = {}
    /\ tombstones = {}
    /\ cursor' = nextSeq - 1
    /\ saved' = cursor'
    /\ phase' = "idle"
    /\ UNCHANGED <<pageNext, unread, missed, rows, tombstones, half>>
    /\ UNCHANGED <<primaryVars, copy, writes, faults>>

\* Broken variant of Finish: the cursor stays where it was.
FinishInPlace ==
    /\ phase = "applying"
    /\ rows = {}
    /\ tombstones = {}
    /\ phase' = "idle"
    /\ UNCHANGED <<pageNext, unread, missed, rows, tombstones, half>>
    /\ UNCHANGED <<primaryVars, replicaVars, writes, faults>>

\* The page is in: the cursor moves, and its save may fail (only logged).
Finish ==
    /\ phase = "applying"
    /\ rows = {}
    /\ tombstones = {}
    /\ cursor' = pageNext
    /\ saved' \in {pageNext, saved}
    /\ phase' = "idle"
    /\ UNCHANGED <<pageNext, unread, missed, rows, tombstones, half>>
    /\ UNCHANGED <<primaryVars, copy, writes, faults>>

(* Faults *)

DropPage ==
    /\ phase' = "idle"
    /\ unread' = {}
    /\ missed' = {}
    /\ rows' = {}
    /\ tombstones' = {}
    /\ half' = {}
    /\ UNCHANGED pageNext

\* A pull ends early: no reply, a refusal, another model, a failed apply.
FailPull ==
    /\ phase # "idle"
    /\ faults < MaxFaults
    /\ faults' = faults + 1
    /\ DropPage
    /\ UNCHANGED <<primaryVars, replicaVars, writes>>

\* The replica restarts from its files.
RestartReplica ==
    /\ faults < MaxFaults
    /\ faults' = faults + 1
    /\ DropPage
    /\ cursor' = saved
    /\ UNCHANGED <<primaryVars, copy, saved, writes>>

\* The primary restarts: its requests are gone, and with them the records they
\* had still to make.  A page on its way may still arrive.
RestartPrimary ==
    /\ faults < MaxFaults
    /\ faults' = faults + 1
    /\ unlogged' = unlogged \cup {id \in Ids : Pending(id)}
    /\ step' = [w \in Writers |-> "idle"]
    /\ pending' = [w \in Writers |-> {}]
    /\ IF phase = "reading" THEN DropPage ELSE UNCHANGED pageVars
    /\ UNCHANGED <<store, log, nextSeq, target, matching, replicaVars, writes>>

Primary ==
    \/ \E w \in Writers, t \in Tables, id \in Ids, b \in Bodies : Put(w, t, id, b)
    \/ \E w \in Writers, t \in Tables, P \in SUBSET Ids : ListDoomed(w, t, P)
    \/ \E w \in Writers : DeleteMatching(w) \/ Record(w)
    \/ Compact

Pull ==
    \/ Fetch
    \/ \E id \in Ids : ReadSemantic(id) \/ ReadEpisodic(id)
    \/ Deliver
    \/ \E r \in rows : PutRow(r) \/ DropOther(r)
    \/ \E id \in Ids : EntombSemantic(id) \/ EntombEpisodic(id)
    \/ Finish

Fault == FailPull \/ RestartReplica \/ RestartPrimary

Next == Primary \/ Pull \/ Fault

Spec == Init /\ [][Next]_vars

\* The pull loop runs for the life of the replica (`spawn`), and a request the
\* primary started goes on while it is up; both are tokio tasks.
FairSpec ==
    /\ Spec
    /\ WF_vars(Pull)
    /\ \A w \in Writers : WF_vars(DeleteMatching(w) \/ Record(w))

-----------------------------------------------------------------------------
TypeOK ==
    /\ store \in [Tables -> [Ids -> Bodies \cup {NoRow}]]
    /\ log \in SUBSET Entry
    /\ nextSeq \in Nat \ {0}
    /\ step \in [Writers -> {"idle", "listed", "wrote"}]
    /\ target \in [Writers -> Tables]
    /\ matching \in [Writers -> SUBSET Ids]
    /\ pending \in [Writers -> SUBSET Ids]
    /\ unlogged \in SUBSET Ids
    /\ phase \in {"idle", "reading", "applying"}
    /\ pageNext \in Nat
    /\ unread \in SUBSET Ids
    /\ missed \in SUBSET Ids
    /\ rows \in SUBSET Row
    /\ tombstones \in SUBSET Ids
    /\ half \in SUBSET Ids
    /\ copy \in [Tables -> [Ids -> Bodies \cup {NoRow}]]
    /\ cursor \in Nat
    /\ saved \in Nat
    /\ writes \in Nat
    /\ faults \in Nat

\* Whatever the replica shows differently from its primary, a page after its
\* cursor will name, or a writer is about to record, or no record will ever
\* name: in no order of writes, reads, applies and deaths does the cursor pass
\* a change the copy does not have.
CursorSound ==
    \A id \in Ids : View(copy, id) # View(store, id) => Excused(id, cursor)

\* The same of the cursor a restart would begin with.
SavedCursorSound ==
    \A id \in Ids : View(copy, id) # View(store, id) => Excused(id, saved)

\* changes.rs: "Every write primitive in store.rs (...) records the row ids it
\* touched here", and a cursor "cannot skip a change": a replica that has
\* applied the whole log while no request runs shows what its primary shows.
LevelWhenCaughtUp ==
    /\ \A w \in Writers : step[w] = "idle"
    /\ phase = "idle"
    /\ \A e \in log : e.seq <= cursor
    => \A id \in Ids : View(copy, id) = View(store, id)

\* Once the primary's requests are over and the pulls stop failing, the copy is
\* the primary's in the end, but for rows no record will ever name.
Converges ==
    <>[](\A id \in Ids : id \in unlogged \/ View(copy, id) = View(store, id))

\* The copy with its debts.
Views == {<<"none", NoRow>>} \cup (Tables \X Bodies)
MirrorSpec ==
    INSTANCE Mirror WITH
        main <- [id \in Ids |-> View(store, id)],
        copy <- [id \in Ids |-> View(copy, id)],
        owed <- {id \in Ids : Excused(id, cursor)}
Mirrors == MirrorSpec!Spec

(* The induction *)

\* The ids of the page that are still to be applied.
Outstanding == unread \cup missed \cup {r.id : r \in rows} \cup tombstones

\* Numbers: nothing is past the log, and nothing saved is past the cursor.
NumbersOK ==
    /\ \A e \in log : e.seq < nextSeq
    /\ saved <= cursor
    /\ cursor < nextSeq
    /\ phase # "idle" => cursor <= pageNext /\ pageNext < nextSeq

\* The page: named by entries after the cursor, read one id at a time
\* before it is applied, one row per id, and a half-applied row is in its table.
PageOK ==
    /\ phase = "idle" => Outstanding = {} /\ half = {}
    /\ phase = "reading" => half = {}
    /\ phase = "applying" => unread = {} /\ missed = {}
    /\ \A id \in Outstanding : Late(id, cursor)
    /\ \A id \in missed : missed = {id} /\ id \notin unread
    /\ \A r \in rows :
          /\ r.id \notin unread \cup missed \cup tombstones
          /\ \A s \in rows : s.id = r.id => s = r
          /\ r.id \in half => copy[r.table][r.id] = r.body
    /\ tombstones \cap (unread \cup missed) = {}
    /\ \A id \in half : half = {id} /\ id \in {r.id : r \in rows} \cup tombstones
    /\ \A id \in half \cap tombstones : copy["semantic"][id] = NoRow

\* What the page says of an id is still so, or the id will be named again
\* after the page.
PageTrue ==
    phase # "idle" =>
        \A id \in Ids : Excused(id, pageNext) \/
            /\ \A r \in rows : r.id = id => View(store, id) = <<r.table, r.body>>
            /\ id \in tombstones => View(store, id) = <<"none", NoRow>>
            /\ id \in missed => store["semantic"][id] = NoRow
            /\ id \notin Outstanding => View(copy, id) = View(store, id)

IInv == TypeOK /\ NumbersOK /\ PageOK /\ PageTrue /\ CursorSound
=============================================================================
