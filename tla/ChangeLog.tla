------------------------------ MODULE ChangeLog ------------------------------
(***************************************************************************)
(* The store's change log, src/src/memory/changes.rs: what a write appends *)
(* under the log's mutex, what reaches the file when the append is cut     *)
(* short, what `open` reads back, the compaction, and the pages `since`    *)
(* gives to a replica.  The seeding of a store that never had a log        *)
(* (src/src/daemon/serve.rs) is the first part of every boot.              *)
(*                                                                         *)
(* Entries are kept in the order of their numbers, no two of which are     *)
(* equal (NumbersUnique), so a log is the set of them; so is the file, but *)
(* for what stands behind its last newline.  The row bodies are abstracted *)
(* to the set `stale`: the ids whose row changed since the follower last   *)
(* copied it.                                                              *)
(***************************************************************************)
EXTENDS Integers, FiniteSets

CONSTANTS
    Semantic,       \* ids of rows the semantic table may hold
    Episodic,       \* ids of rows the episodic table may hold
    Existing,       \* the rows a store has before it ever had a log
    Limit,          \* entries a page holds at most (`limit`)
    CompactMin,     \* COMPACT_MIN
    CompactRatio,   \* COMPACT_RATIO
    MaxSeq,         \* bound: sequence numbers handed out
    MaxCrashes,     \* bound: process deaths
    MaxCuts         \* bound: appends that do not reach the file whole

Ids == Semantic \cup Episodic

ASSUME ChangeLogAssumption ==
    /\ Semantic \cap Episodic = {}
    /\ Existing \subseteq Ids
    /\ IsFiniteSet(Ids)
    /\ Limit \in Nat \ {0}
    /\ CompactMin \in Nat \ {0}
    /\ CompactRatio \in Nat \ {0}
    /\ MaxSeq \in Nat
    /\ MaxCrashes \in Nat
    /\ MaxCuts \in Nat

VARIABLES
    exists,     \* the file is there
    disk,       \* [whole, open, last]: the entries its whole lines parse to; whether it
                \* ends inside a line; the entry that line parses to, if any
    boot,       \* "down", the table to seed next, or "up"
    entries,    \* Inner.entries
    nextSeq,    \* Inner.next_seq
    cursor,     \* the last sequence a follower was given
    known,      \* the ids that have, or had, a row
    stale,      \* the ids whose row the follower has not seen
    torn,       \* ghost: ids of the records whose append was cut
    crashes,    \* deaths so far
    cuts        \* cut appends so far

logVars == <<exists, disk, boot, entries, nextSeq>>
vars == <<logVars, cursor, known, stale, torn, crashes, cuts>>

Entry == [seq : 1..MaxSeq, id : Ids]
File == [whole : SUBSET Entry, open : BOOLEAN, last : SUBSET Entry]

-----------------------------------------------------------------------------
(* Pure parts of changes.rs *)

\* Broken variant of LatestPerId: keeps the oldest entry of an id.
OldestPerId(es) == {e \in es : \A k \in es : k.id = e.id => e.seq <= k.seq}

\* The newest entry for each id.
LatestPerId(es) == {e \in es : \A k \in es : k.id = e.id => k.seq <= e.seq}

\* The entries a file's lines parse to.
Parse(file) == file.whole \cup file.last

\* Broken variant of WholeLines: what this record adds is left out.
LinesBefore(es) == [whole |-> {e \in es : e.seq < nextSeq}, open |-> FALSE, last |-> {}]

WholeLines(es) == [whole |-> es, open |-> FALSE, last |-> {}]

\* Lines added behind a file that ends inside a line: the first continues that
\* line, and the two parse as nothing.
Glue(file, new) ==
    IF ~file.open \/ new = {}
    THEN [file EXCEPT !.whole = @ \cup new]
    ELSE WholeLines(file.whole \cup {e \in new : e.seq # nextSeq})

\* What an append of new leaves in the file when it stops after n whole lines
\* and, behind them, nothing, a piece of the next line, or all of it but its
\* newline.
CutAppend(file, new, n, tail) ==
    LET longer == Glue(file, {e \in new : e.seq < nextSeq + n})
    IN  IF tail = "none" THEN longer
        ELSE [longer EXCEPT !.open = TRUE,
                            !.last = IF tail = "piece" \/ longer.open THEN {}
                                     ELSE {e \in new : e.seq = nextSeq + n}]

\* Where the append of new may stop short of its end.
Cuts(new) == (0 .. Cardinality(new) - 1) \X {"none", "piece", "no_newline"}

\* The entry up to which a page goes: none of a page has a greater number.
Newest(es) == CHOOSE e \in es : \A k \in es : k.seq <= e.seq

\* The first entries of a page.
Taken(page, limit) == {e \in page : Cardinality({k \in page : k.seq <= e.seq}) <= limit}

\* Broken variant of Since: a page that is not full leaves the cursor behind.
SinceFullPages(c, limit) ==
    LET page == {e \in entries : e.seq > c}
        taken == Taken(page, limit)
    IN  [entries |-> LatestPerId(taken),
         next |-> IF Cardinality(taken) < limit THEN c ELSE Newest(taken).seq,
         more |-> page # taken]

\* `since`: the page after c, the cursor to ask from next, whether more remain.
Since(c, limit) ==
    LET page == {e \in entries : e.seq > c}
        taken == Taken(page, limit)
    IN  [entries |-> LatestPerId(taken),
         next |-> IF taken = {} THEN c ELSE Newest(taken).seq,
         more |-> page # taken]

\* The entries `record` may make for ids: numbered from nextSeq on, in the order
\* the caller has them in.
NewEntries(ids) ==
    LET numbers == nextSeq .. nextSeq + Cardinality(ids) - 1
        orders == {f \in [ids -> numbers] : \A i, j \in ids : f[i] = f[j] => i = j}
    IN  {{[seq |-> f[i], id |-> i] : i \in ids} : f \in orders}

CompactionDue(es) ==
    /\ Cardinality(es) >= CompactMin
    /\ Cardinality(es) >= Cardinality(LatestPerId(es)) * CompactRatio

-----------------------------------------------------------------------------
Init ==
    /\ exists = FALSE
    /\ disk = WholeLines({})
    /\ boot = "down"
    /\ entries = {}
    /\ nextSeq = 1
    /\ cursor = 0
    /\ known = Existing
    /\ stale = Existing
    /\ torn = {}
    /\ crashes = 0
    /\ cuts = 0

\* ChangeLog::open, and the decision to seed.
Open ==
    /\ boot = "down"
    /\ LET es == Parse(disk)
       IN  /\ entries' = es
           /\ nextSeq' = IF es = {} THEN 1 ELSE Newest(es).seq + 1
    /\ boot' = IF exists THEN "up" ELSE "semantic"
    /\ UNCHANGED <<exists, disk, cursor, known, stale, torn, crashes, cuts>>

\* maybe_compact: the rewrite goes through a temporary file and a rename, so
\* it happens or it does not.
MaybeCompact(es, lines) ==
    \/ /\ entries' = es
       /\ disk' = lines
    \/ /\ CompactionDue(es)
       /\ entries' = LatestPerId(es)
       /\ disk' = WholeLines(LatestPerId(es))

\* The numbers that `record` of ids hands out.
Numbered(ids) ==
    /\ nextSeq + Cardinality(ids) - 1 <= MaxSeq
    /\ nextSeq' = nextSeq + Cardinality(ids)

\* `record` of a nonempty set of ids whose append reaches the file.
Recorded(ids) ==
    /\ Numbered(ids)
    /\ exists' = TRUE
    /\ \E new \in NewEntries(ids) : MaybeCompact(entries \cup new, Glue(disk, new))
    /\ UNCHANGED <<torn, cuts>>

\* `record` whose append fails part of the way (a full disk): it warns and
\* the daemon goes on.
RecordedInMemory(ids) ==
    /\ cuts < MaxCuts
    /\ cuts' = cuts + 1
    /\ torn' = torn \cup ids
    /\ Numbered(ids)
    /\ exists' = TRUE
    /\ \E new \in NewEntries(ids) : \E cut \in Cuts(new) :
          MaybeCompact(entries \cup new, CutAppend(disk, new, cut[1], cut[2]))

\* The process dies inside the append of `record`: memory is gone.
DiedRecording(ids) ==
    /\ cuts < MaxCuts
    /\ cuts' = cuts + 1
    /\ torn' = torn \cup ids
    /\ crashes < MaxCrashes
    /\ crashes' = crashes + 1
    /\ nextSeq + Cardinality(ids) - 1 <= MaxSeq
    /\ exists' = TRUE
    /\ \E new \in NewEntries(ids) : \E cut \in Cuts(new) :
          disk' = CutAppend(disk, new, cut[1], cut[2])
    /\ boot' = "down"
    /\ entries' = {}
    /\ nextSeq' = 1

SeedIds == known \cap (IF boot = "semantic" THEN Semantic ELSE Episodic)
SeedNext == IF boot = "semantic" THEN "episodic" ELSE "up"

\* attach_change_log: one record per table, the ids of every row it holds.
Seed ==
    /\ boot \in {"semantic", "episodic"}
    /\ \/ /\ SeedIds = {}
          /\ UNCHANGED <<exists, disk, entries, nextSeq, torn, crashes, cuts>>
          /\ boot' = SeedNext
       \/ /\ SeedIds # {}
          /\ Recorded(SeedIds) \/ RecordedInMemory(SeedIds)
          /\ boot' = SeedNext
          /\ UNCHANGED crashes
       \/ SeedIds # {} /\ DiedRecording(SeedIds)
    /\ UNCHANGED <<cursor, known, stale>>

\* A write primitive of store.rs: the rows change, then their ids are recorded.
Write(ids) ==
    /\ boot = "up"
    /\ \/ /\ Recorded(ids) \/ RecordedInMemory(ids)
          /\ UNCHANGED <<boot, crashes>>
       \/ DiedRecording(ids)
    /\ known' = known \cup ids
    /\ stale' = stale \cup ids
    /\ UNCHANGED cursor

\* The process dies outside `record`.
Crash ==
    /\ boot # "down"
    /\ crashes < MaxCrashes
    /\ crashes' = crashes + 1
    /\ boot' = "down"
    /\ entries' = {}
    /\ nextSeq' = 1
    /\ UNCHANGED <<exists, disk, cursor, known, stale, torn, cuts>>

\* A follower asks for the page after its cursor and copies the rows it names.
Follow ==
    /\ boot = "up"
    /\ LET page == Since(cursor, Limit)
       IN  /\ page.next # cursor
           /\ cursor' = page.next
           /\ stale' = stale \ {e.id : e \in page.entries}
    /\ UNCHANGED <<logVars, known, torn, crashes, cuts>>

\* A machine that has nothing yet starts to follow.
NewFollower ==
    /\ boot = "up"
    /\ cursor # 0
    /\ cursor' = 0
    /\ stale' = known
    /\ UNCHANGED <<logVars, known, torn, crashes, cuts>>

Next ==
    \/ Open
    \/ Seed
    \/ \E ids \in (SUBSET Ids) \ {{}} :
          (ids \subseteq Semantic \/ ids \subseteq Episodic) /\ Write(ids)
    \/ Crash
    \/ Follow
    \/ NewFollower

Spec == Init /\ [][Next]_vars

\* A replica's pull loop runs for the life of its daemon (replica/mod.rs
\* `spawn`), so a page that is there is fetched in the end.
FairSpec == Spec /\ WF_vars(Follow)

-----------------------------------------------------------------------------
TypeOK ==
    /\ exists \in BOOLEAN
    /\ disk \in File
    /\ boot \in {"down", "semantic", "episodic", "up"}
    /\ entries \in SUBSET Entry
    /\ nextSeq \in 1 .. MaxSeq + 1
    /\ cursor \in 0 .. MaxSeq
    /\ known \subseteq Ids
    /\ stale \subseteq known
    /\ torn \subseteq Ids
    /\ crashes \in 0 .. MaxCrashes
    /\ cuts \in 0 .. MaxCuts

\* What the log says at this moment: in memory, or what `open` would read.
Log == IF boot = "down" THEN Parse(disk) ELSE entries

\* No two entries of the log have a number, in memory and in whatever a damaged
\* file still parses to: `since` finds its page by partition_point, which a
\* repeated number would break.
NumbersUnique == \A e, k \in Log : e.seq = k.seq => e = k

\* A change the follower has not seen is named by an entry after its cursor:
\* no page, compaction or restart drops the last entry of an id behind it, as
\* long as the file got every append whole.
CursorCovers ==
    boot = "up" /\ cuts = 0 =>
        \A id \in stale : \E e \in entries : e.id = id /\ e.seq > cursor

\* An append cut short costs the file at most its own record and one entry
\* more, the one glued behind it, however many restarts follow.
LossBounded ==
    boot = "up" =>
        LET lost == LatestPerId(entries) \ Parse(disk)
        IN  Cardinality({e \in lost : e.id \notin torn}) <= cuts

\* changes.rs: "under a per-store sequence number that only grows": a cursor
\* that the log handed out is never ahead of the log's head.
CursorWithinHead == boot = "up" => cursor <= nextSeq - 1

\* changes.rs: "the daemon seeds it with one entry per existing row, so
\* `since=0` is a full copy".
FullCopyFromZero ==
    boot = "up" => \A id \in known : \E e \in entries : e.id = id

\* A follower of a log that stays up is level with it in the end, once no new
\* machine takes its place and no append is cut: no page leaves its cursor where
\* it was for ever.
CatchesUp ==
    /\ [](cuts = 0)
    /\ <>[](boot = "up")
    /\ <>[][~NewFollower]_vars
    => <>[](stale = {})
=============================================================================
