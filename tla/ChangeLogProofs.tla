--------------------------- MODULE ChangeLogProofs ---------------------------
(***************************************************************************)
(* What the change log keeps, for any rows, any size of pages and of       *)
(* compaction, and any number of deaths and cut appends.  The file is      *)
(* compared with memory (Filed); what it has lost is counted against the   *)
(* cuts (LossCounted); and as long as every append was whole, each id that *)
(* is stale has an entry after the cursor or is still to seed (Covered).   *)
(*                                                                         *)
(* And, from "Directories" on, what a session files and is answered, for   *)
(* any directories, rows, requests and filters: what the proofs need of    *)
(* paths comes first, then what each step does to the tables, the requests *)
(* and the log (Moved, Begun, Removed), then the theorems: a row is put    *)
(* where its session looks for it (Findable); a bulk delete holds what it  *)
(* found against what changes under it (Held); every row that a read has   *)
(* was admitted by its filter (Wanting).                                   *)
(***************************************************************************)
EXTENDS ChangeLog, Reads, FiniteSetTheorems, WellFoundedInduction, TLAPS

-----------------------------------------------------------------------------
(* Entries *)

\* No two entries have a number.
Uniquely(es) == \A e, k \in es : e.seq = k.seq => e = k

\* Entries with numbers of their own are finitely many: there are MaxSeq numbers.
LEMMA UniqueFinite ==
    ASSUME NEW es, es \subseteq Entry, Uniquely(es)
    PROVE  IsFiniteSet(es)
<1> DEFINE f == [e \in es |-> e.seq]
<1>1. f \in Injection(es, 1 .. MaxSeq)
  <2>1. f \in [es -> 1 .. MaxSeq]  BY DEF Entry
  <2>2. IsInjective(f)  BY DEF IsInjective, Uniquely
  <2> HIDE DEF f
  <2> QED BY <2>1, <2>2 DEF Injection
<1>2. IsFiniteSet(1 .. MaxSeq)
  BY ChangeLogAssumption, FS_Interval
<1> HIDE DEF f
<1> QED BY <1>1, <1>2, FS_Injection

\* Of some entries one is the newest.
LEMMA NewestExists ==
    ASSUME NEW es, es \subseteq Entry, es # {}
    PROVE  Newest(es) \in es /\ \A k \in es : k.seq <= Newest(es).seq
<1> DEFINE ages == {MaxSeq - e.seq : e \in es}
<1>1. ages \in SUBSET Nat /\ ages # {}
  BY ChangeLogAssumption DEF Entry
<1>2. PICK n \in ages : \A m \in ages : n <= m
  <2> HIDE DEF ages
  <2>1. PICK n \in ages : \A m \in ages : <<m, n>> \notin OpToRel(<, Nat)
    BY <1>1, NatLessThanWellFounded, WFMin
  <2>2. \A m \in ages : ~(m < n)  BY <1>1, <2>1 DEF OpToRel
  <2> QED BY <1>1, <2>2
<1>3. PICK e \in es : n = MaxSeq - e.seq
  BY <1>2
<1>4. \A k \in es : k.seq \in Nat /\ k.seq <= MaxSeq
  BY ChangeLogAssumption DEF Entry
<1>5. ASSUME NEW k \in es PROVE k.seq <= e.seq
  <2>1. n <= MaxSeq - k.seq  BY <1>2
  <2> QED BY <1>3, <1>4, <2>1, ChangeLogAssumption
<1> QED BY <1>5 DEF Newest

\* Compaction keeps, for every entry, one of its id that is no older.
LEMMA LatestKept ==
    ASSUME NEW es, es \subseteq Entry
    PROVE  /\ LatestPerId(es) \subseteq es
           /\ \A e \in es : \E k \in LatestPerId(es) : k.id = e.id /\ k.seq >= e.seq
<1>1. LatestPerId(es) \subseteq es  BY DEF LatestPerId
<1>2. ASSUME NEW e \in es
      PROVE  \E k \in LatestPerId(es) : k.id = e.id /\ k.seq >= e.seq
  <2> DEFINE own == {k \in es : k.id = e.id}
  <2>1. own \subseteq Entry /\ e \in own  OBVIOUS
  <2>2. Newest(own) \in own /\ \A k \in own : k.seq <= Newest(own).seq
    BY <2>1, NewestExists
  <2>3. Newest(own) \in LatestPerId(es)  BY <2>2 DEF LatestPerId
  <2>4. e.seq \in Nat /\ Newest(own).seq \in Nat  BY <2>1, <2>2 DEF Entry
  <2> QED BY <2>1, <2>2, <2>3, <2>4
<1> QED BY <1>1, <1>2

\* A page ends before every entry it leaves out.
LEMMA TakenLower ==
    ASSUME NEW page, page \subseteq Entry, IsFiniteSet(page), NEW limit \in Nat,
           NEW e \in page, e \notin Taken(page, limit), NEW k \in Taken(page, limit)
    PROVE  k.seq < e.seq
<1> DEFINE upTo(x) == {j \in page : j.seq <= x.seq}
<1>1. k \in page /\ e.seq \in Nat /\ k.seq \in Nat  BY DEF Taken, Entry
<1> SUFFICES ASSUME e.seq <= k.seq PROVE FALSE
  BY <1>1
<1>2. upTo(e) \in SUBSET upTo(k)  BY <1>1 DEF Entry
<1>3. upTo(k) \in SUBSET page  OBVIOUS
<1>4. IsFiniteSet(upTo(k)) /\ IsFiniteSet(upTo(e))  BY <1>2, <1>3, FS_Subset
<1>5. Cardinality(upTo(e)) <= Cardinality(upTo(k))  BY <1>2, <1>4, FS_Subset
<1>6. Cardinality(upTo(k)) <= limit /\ ~(Cardinality(upTo(e)) <= limit)  BY DEF Taken
<1>7. Cardinality(upTo(e)) \in Nat /\ Cardinality(upTo(k)) \in Nat
  BY <1>4, FS_CardinalityType
<1> QED BY <1>5, <1>6, <1>7

\* What a record makes: an entry for each of its ids, with the next numbers.
LEMMA NewFacts ==
    ASSUME NEW ids, ids \subseteq Ids, nextSeq \in Nat \ {0},
           nextSeq + Cardinality(ids) - 1 <= MaxSeq, NEW new \in NewEntries(ids)
    PROVE  /\ new \subseteq Entry
           /\ \A e \in new : /\ e.id \in ids
                            /\ e.seq >= nextSeq /\ e.seq < nextSeq + Cardinality(ids)
           /\ \A i \in ids : \E e \in new : e.id = i
           /\ Uniquely(new)
           /\ Cardinality(ids) \in Nat
<1> DEFINE numbers == nextSeq .. nextSeq + Cardinality(ids) - 1
<1>1. Cardinality(ids) \in Nat
  <2>1. IsFiniteSet(Ids) /\ ids \in SUBSET Ids  BY ChangeLogAssumption
  <2>2. IsFiniteSet(ids)  BY <2>1, FS_Subset
  <2> QED BY <2>2, FS_CardinalityType
<1>2. PICK f \in [ids -> numbers] :
         /\ \A i, j \in ids : f[i] = f[j] => i = j
         /\ new = {[seq |-> f[i], id |-> i] : i \in ids}
  BY DEF NewEntries
<1>3. \A i \in ids : f[i] \in numbers  BY <1>2
<1>4. \A i \in ids : [seq |-> f[i], id |-> i] \in Entry
  BY <1>1, <1>3, ChangeLogAssumption DEF Entry
<1>5. \A e \in new : \E i \in ids : e = [seq |-> f[i], id |-> i]  BY <1>2
<1>6. \A i \in ids : [seq |-> f[i], id |-> i] \in new  BY <1>2
<1>7. new \subseteq Entry  BY <1>4, <1>5
<1>8. \A e \in new : e.id \in ids /\ e.seq >= nextSeq /\ e.seq < nextSeq + Cardinality(ids)
  BY <1>1, <1>3, <1>5
<1>9. \A i \in ids : \E e \in new : e.id = i  BY <1>6
<1>10. Uniquely(new)
  <2> SUFFICES ASSUME NEW e \in new, NEW k \in new, e.seq = k.seq PROVE e = k
    BY DEF Uniquely
  <2>1. PICK i \in ids : e = [seq |-> f[i], id |-> i]  BY <1>5
  <2>2. PICK j \in ids : k = [seq |-> f[j], id |-> j]  BY <1>5
  <2> QED BY <1>2, <2>1, <2>2
<1> QED BY <1>1, <1>7, <1>8, <1>9, <1>10

-----------------------------------------------------------------------------
(* The inductive invariant *)

\* Numbers below the next one, the file a part of memory, what stands behind the
\* last newline part of a record whose append was cut.
Filed ==
    /\ Uniquely(Log)
    /\ boot = "down" => entries = {} /\ nextSeq = 1
    /\ boot # "down" => Parse(disk) \subseteq entries /\ \A e \in entries : e.seq < nextSeq
    /\ ~disk.open => disk.last = {}
    /\ \A e \in disk.last : e.id \in torn

\* The entries that only memory has, of records that were appended whole.
Lost == {e \in entries \ Parse(disk) : e.id \notin torn}

\* An unfinished line may still cost one entry.
Spoils == IF disk.open THEN 1 ELSE 0
LossCounted == Cardinality(Lost) + Spoils <= cuts

\* The ids that have an entry to come from the seeding.
Unseeded == IF ~exists THEN known ELSE IF boot = "episodic" THEN known \cap Episodic ELSE {}

\* The seeding is over before anything else happens, or nothing is left of it.
Seeding ==
    /\ boot \in {"semantic", "episodic"} => known = Existing
    /\ boot = "semantic" => ~exists
    /\ ~exists => known = Existing /\ Log = {} /\ cursor = 0
    /\ ~exists /\ boot = "episodic" => Existing \cap Semantic = {}
    /\ ~exists /\ boot = "up" => Existing = {}
    /\ exists /\ boot = "episodic" => MaxCrashes = 0 \/ Existing \cap Episodic = {}

\* Every append was whole, so the file is what memory is.
Intact ==
    /\ ~disk.open /\ disk.last = {} /\ torn = {}
    /\ Log = disk.whole

\* Every id has an entry, what is stale one after the cursor, or is still to seed.
Covered ==
    /\ \A id \in known \ Unseeded : \E e \in Log : e.id = id
    /\ \A id \in stale \ Unseeded : \E e \in Log : e.id = id /\ e.seq > cursor
    /\ cursor = 0 \/ \E e \in Log : e.seq >= cursor

WhileWhole == cuts = 0 => Intact /\ Seeding /\ Covered

-----------------------------------------------------------------------------
(* What an append, a page and a record do *)

\* es stands for all of more: for each entry it has one of the id, no older.
Condensed(es, more) ==
    /\ es \subseteq more
    /\ \A e \in more : \E k \in es : k.id = e.id /\ k.seq >= e.seq

\* Lines that were added whole are in the file, but for one that is glued.
LEMMA GlueFacts ==
    ASSUME NEW file \in File, NEW new, new \subseteq Entry
    PROVE  LET g == Glue(file, new)
           IN  /\ g \in File
               /\ file.whole \subseteq g.whole /\ g.whole \subseteq file.whole \cup new
               /\ \A e \in new : file.open /\ e.seq # nextSeq => e \in g.whole
               /\ ~file.open => new \subseteq g.whole /\ g.last = file.last
               /\ g.last \subseteq file.last
               /\ new # {} => ~g.open
               /\ g.open => file.open
               /\ ~g.open => g.last = {} \/ ~file.open
BY DEF Glue, WholeLines, File

\* What a cut append leaves was in the file before or is of its record.
LEMMA CutFacts ==
    ASSUME NEW file \in File, NEW new, new \subseteq Entry, NEW n, NEW tail,
           ~file.open => file.last = {}
    PROVE  LET g == CutAppend(file, new, n, tail)
           IN  /\ g \in File
               /\ file.whole \subseteq g.whole /\ g.whole \subseteq file.whole \cup new
               /\ g.last \subseteq file.last \cup new
               /\ ~g.open => g.last = {}
<1> DEFINE part == {e \in new : e.seq < nextSeq + n}
           longer == Glue(file, part)
           g == CutAppend(file, new, n, tail)
<1>1. part \subseteq Entry /\ part \subseteq new  OBVIOUS
<1>2. /\ longer \in File
      /\ file.whole \subseteq longer.whole /\ longer.whole \subseteq file.whole \cup part
      /\ longer.last \subseteq file.last
      /\ ~longer.open => longer.last = {}
  BY <1>1, GlueFacts
<1>3. CASE tail = "none"
  <2>1. g = longer  BY <1>3 DEF CutAppend
  <2> QED BY <1>1, <1>2, <2>1
<1>4. CASE tail # "none"
  <2>1. PICK last \in {{}, {e \in new : e.seq = nextSeq + n}} :
           g = [longer EXCEPT !.open = TRUE, !.last = last]
    BY <1>4 DEF CutAppend
  <2> HIDE DEF longer
  <2>2. g = [whole |-> longer.whole, open |-> TRUE, last |-> last]
    BY <1>2, <2>1 DEF File
  <2>3. last \subseteq new  OBVIOUS
  <2> HIDE DEF g
  <2>4. g.whole = longer.whole /\ g.open = TRUE /\ g.last = last  BY <2>2
  <2>5. longer.whole \in SUBSET Entry /\ last \in SUBSET Entry  BY <1>2, <2>3 DEF File
  <2>6. g \in File  BY <2>2, <2>5 DEF File
  <2> QED BY <1>1, <1>2, <2>3, <2>4, <2>6 DEF g
<1> QED BY <1>3, <1>4

\* A record that reaches the file.
LEMMA RecordEffect ==
    ASSUME TypeOK, Filed, boot # "down", NEW ids, ids \subseteq Ids, ids # {}, Recorded(ids)
    PROVE  \E new \in NewEntries(ids) :
              /\ Condensed(entries', entries \cup new)
              /\ disk' \in File /\ ~disk'.open /\ disk'.last = {}
              /\ Parse(disk') \subseteq entries'
              /\ \A e \in entries' \ Parse(disk') : e.id \notin torn =>
                    e \in Lost \/ (disk.open /\ e \in new /\ e.seq = nextSeq)
              /\ disk.open = FALSE /\ entries = disk.whole => disk'.whole = entries'
<1> PICK new \in NewEntries(ids) : MaybeCompact(entries \cup new, Glue(disk, new))
  BY DEF Recorded
<1> DEFINE es == entries \cup new
           g == Glue(disk, new)
<1>1. /\ new \subseteq Entry /\ new # {}
  BY NewFacts DEF TypeOK, Recorded, Numbered
<1>2. disk \in File /\ es \subseteq Entry  BY <1>1 DEF TypeOK
<1>3. CASE entries' = es /\ disk' = g
  <2>1. Condensed(entries', es)  BY <1>2, <1>3 DEF Condensed, Entry
  <2>2. /\ g \in File /\ ~g.open
        /\ disk.whole \subseteq g.whole /\ g.whole \subseteq disk.whole \cup new
        /\ \A e \in new : disk.open /\ e.seq # nextSeq => e \in g.whole
        /\ ~disk.open => new \subseteq g.whole /\ g.last = disk.last
        /\ g.last \subseteq disk.last
        /\ g.last = {} \/ ~disk.open
    BY <1>1, <1>2, GlueFacts
  <2>3. g.last = {}  BY <2>2 DEF Filed
  <2>4. Parse(disk) \subseteq entries /\ \A e \in disk.last : e.id \in torn  BY DEF Filed
  <2> HIDE DEF g
  <2>5. Parse(disk') \subseteq entries'  BY <1>3, <2>2, <2>3, <2>4 DEF Parse
  <2>6. \A e \in entries' \ Parse(disk') : e.id \notin torn =>
            e \in Lost \/ (disk.open /\ e \in new /\ e.seq = nextSeq)
    BY <1>2, <1>3, <2>2, <2>3, <2>4 DEF Parse, Lost, File
  <2>7. disk.open = FALSE /\ entries = disk.whole => disk'.whole = entries'
    BY <1>3, <2>2
  <2> QED BY <1>3, <2>1, <2>2, <2>3, <2>5, <2>6, <2>7
<1>4. CASE entries' = LatestPerId(es) /\ disk' = WholeLines(LatestPerId(es))
  <2>1. Condensed(entries', es)  BY <1>2, <1>4, LatestKept DEF Condensed
  <2>2. entries' \subseteq Entry  BY <1>2, <2>1 DEF Condensed
  <2> QED BY <1>4, <2>1, <2>2 DEF WholeLines, Parse, File
<1> QED BY <1>3, <1>4 DEF MaybeCompact

\* A record that only memory has whole.
LEMMA CutEffect ==
    ASSUME TypeOK, Filed, boot # "down", NEW ids, ids \subseteq Ids, ids # {},
           RecordedInMemory(ids)
    PROVE  \E new \in NewEntries(ids) :
              /\ Condensed(entries', entries \cup new)
              /\ disk' \in File /\ (~disk'.open => disk'.last = {})
              /\ Parse(disk') \subseteq entries'
              /\ \A e \in disk'.last : e.id \in torn'
              /\ \A e \in entries' \ Parse(disk') : e.id \notin torn' => e \in Lost
<1> PICK new \in NewEntries(ids) : \E cut \in Cuts(new) :
           MaybeCompact(entries \cup new, CutAppend(disk, new, cut[1], cut[2]))
  BY DEF RecordedInMemory
<1> PICK cut \in Cuts(new) :
           MaybeCompact(entries \cup new, CutAppend(disk, new, cut[1], cut[2]))
  OBVIOUS
<1> DEFINE es == entries \cup new
           g == CutAppend(disk, new, cut[1], cut[2])
<1>1. new \subseteq Entry /\ \A e \in new : e.id \in ids
  BY NewFacts DEF TypeOK, RecordedInMemory, Numbered
<1>2. disk \in File /\ es \subseteq Entry  BY <1>1 DEF TypeOK
<1>3. torn' = torn \cup ids  BY DEF RecordedInMemory
<1>4. CASE entries' = es /\ disk' = g
  <2>1. Condensed(entries', es)  BY <1>2, <1>4 DEF Condensed, Entry
  <2>2. /\ g \in File
        /\ disk.whole \subseteq g.whole /\ g.whole \subseteq disk.whole \cup new
        /\ g.last \subseteq disk.last \cup new
        /\ ~g.open => g.last = {}
    BY <1>1, <1>2, CutFacts DEF Filed
  <2>3. Parse(disk) \subseteq entries /\ \A e \in disk.last : e.id \in torn  BY DEF Filed
  <2> HIDE DEF g
  <2>4. Parse(disk') \subseteq entries'  BY <1>4, <2>2, <2>3 DEF Parse
  <2>5. \A e \in entries' \ Parse(disk') : e.id \notin torn' => e \in Lost
    BY <1>1, <1>3, <1>4, <2>2, <2>3 DEF Parse, Lost
  <2> QED BY <1>1, <1>3, <1>4, <2>1, <2>2, <2>3, <2>4, <2>5
<1>5. CASE entries' = LatestPerId(es) /\ disk' = WholeLines(LatestPerId(es))
  <2>1. Condensed(entries', es)  BY <1>2, <1>5, LatestKept DEF Condensed
  <2>2. entries' \subseteq Entry  BY <1>2, <2>1 DEF Condensed
  <2> QED BY <1>5, <2>1, <2>2 DEF WholeLines, Parse, File
<1> QED BY <1>4, <1>5 DEF MaybeCompact

\* A record the process dies in.
LEMMA DieEffect ==
    ASSUME TypeOK, Filed, boot # "down", NEW ids, ids \subseteq Ids, ids # {},
           DiedRecording(ids)
    PROVE  \E new \in NewEntries(ids) :
              /\ disk' \in File /\ (~disk'.open => disk'.last = {})
              /\ Parse(disk') \subseteq entries \cup new
              /\ \A e \in disk'.last : e.id \in torn'
<1> PICK new \in NewEntries(ids) : \E cut \in Cuts(new) :
           disk' = CutAppend(disk, new, cut[1], cut[2])
  BY DEF DiedRecording
<1> PICK cut \in Cuts(new) : disk' = CutAppend(disk, new, cut[1], cut[2])
  OBVIOUS
<1> DEFINE g == CutAppend(disk, new, cut[1], cut[2])
<1>1. new \subseteq Entry /\ \A e \in new : e.id \in ids
  BY NewFacts DEF TypeOK, DiedRecording
<1>2. disk \in File  BY DEF TypeOK
<1>3. /\ g \in File
      /\ disk.whole \subseteq g.whole /\ g.whole \subseteq disk.whole \cup new
      /\ g.last \subseteq disk.last \cup new
      /\ ~g.open => g.last = {}
  BY <1>1, <1>2, CutFacts DEF Filed
<1>4. Parse(disk) \subseteq entries /\ \A e \in disk.last : e.id \in torn  BY DEF Filed
<1> HIDE DEF g
<1>5. disk' = g  BY DEF g
<1> QED BY <1>1, <1>3, <1>4, <1>5 DEF Parse, DiedRecording

\* A page leaves what it does not name after the cursor, and ends at an entry.
LEMMA FollowEffect ==
    ASSUME TypeOK, Filed, Follow
    PROVE  /\ \E e \in entries : e.seq = cursor'
           /\ stale' \subseteq stale
           /\ \A id \in stale' : \A e \in entries :
                 e.id = id /\ e.seq > cursor => e.seq > cursor'
<1> DEFINE page == {e \in entries : e.seq > cursor}
           taken == Taken(page, Limit)
<1>1. /\ taken # {} /\ cursor' = Newest(taken).seq
      /\ stale' = stale \ {e.id : e \in LatestPerId(taken)}
  BY DEF Follow, Since
<1>2. page \subseteq Entry /\ Uniquely(page)
  BY DEF TypeOK, Filed, Log, Follow, Uniquely
<1>3. IsFiniteSet(page)  BY <1>2, UniqueFinite
<1>4. taken \subseteq page /\ taken \subseteq Entry  BY <1>2 DEF Taken
<1>5. Newest(taken) \in taken  BY <1>1, <1>4, NewestExists
<1>6. ASSUME NEW id \in stale', NEW e \in entries, e.id = id, e.seq > cursor
      PROVE  e.seq > cursor'
  <2>1. e \notin taken
    <3>1. \A k \in LatestPerId(taken) : k.id # id  BY <1>1
    <3> QED BY <1>4, <1>6, <3>1, LatestKept
  <2>2. e \in page /\ Limit \in Nat  BY <1>6, ChangeLogAssumption
  <2> HIDE DEF page
  <2>3. Newest(taken).seq < e.seq  BY <1>2, <1>3, <1>5, <2>1, <2>2, TakenLower
  <2>4. e.seq \in Nat /\ Newest(taken).seq \in Nat  BY <1>2, <1>4, <1>5, <2>2 DEF Entry
  <2> QED BY <1>1, <2>3, <2>4
<1>7. \E e \in entries : e.seq = cursor'
  <2>1. Newest(taken) \in entries  BY <1>4, <1>5
  <2> HIDE DEF taken
  <2> QED BY <1>1, <2>1
<1>8. stale' \subseteq stale
  <2> HIDE DEF taken
  <2> QED BY <1>1
<1> QED BY <1>6, <1>7, <1>8

-----------------------------------------------------------------------------
(* The file and memory *)

Base == TypeOK /\ Filed /\ LossCounted

\* Any part of the log is finite.
LEMMA PartFinite ==
    ASSUME NEW es, es \subseteq Entry, Uniquely(es), NEW part, part \subseteq es
    PROVE  IsFiniteSet(part) /\ Cardinality(part) \in Nat
<1>1. IsFiniteSet(es)  BY UniqueFinite
<1>2. IsFiniteSet(part)  BY <1>1, FS_Subset
<1> QED BY <1>2, FS_CardinalityType

LEMMA LostFinite == TypeOK /\ Filed => IsFiniteSet(Lost) /\ Cardinality(Lost) \in Nat
<1> SUFFICES ASSUME TypeOK, Filed PROVE IsFiniteSet(Lost) /\ Cardinality(Lost) \in Nat
  OBVIOUS
<1>1. Lost \subseteq entries /\ entries \subseteq Entry  BY DEF Lost, TypeOK
<1>2. Uniquely(entries)  BY DEF Filed, Log, Uniquely
<1> HIDE DEF Lost
<1> QED BY <1>1, <1>2, PartFinite

\* Memory and the numbers after a record, whatever the file has of it.
LEMMA Grows ==
    ASSUME TypeOK, Filed, boot # "down", NEW ids, ids \subseteq Ids, Numbered(ids),
           NEW new \in NewEntries(ids), Condensed(entries', entries \cup new)
    PROVE  /\ entries' \in SUBSET Entry
           /\ nextSeq' \in 1 .. MaxSeq + 1
           /\ Uniquely(entries')
           /\ \A e \in entries' : e.seq < nextSeq'
<1>1. /\ nextSeq \in Nat \ {0} /\ nextSeq + Cardinality(ids) - 1 <= MaxSeq
      /\ nextSeq' = nextSeq + Cardinality(ids)
      /\ entries \subseteq Entry
  BY DEF TypeOK, Numbered
<1>2. /\ new \subseteq Entry
      /\ \A e \in new : /\ e.id \in ids
                        /\ e.seq >= nextSeq /\ e.seq < nextSeq + Cardinality(ids)
      /\ Uniquely(new)
      /\ Cardinality(ids) \in Nat
  BY <1>1, NewFacts
<1>3. /\ Uniquely(entries)
      /\ \A e \in entries : e.seq < nextSeq
  BY DEF Filed, Log
<1>4. \A e \in entries \cup new : e.seq \in Nat  BY <1>1, <1>2 DEF Entry
<1>5. entries' \subseteq entries \cup new  BY DEF Condensed
<1>6. \A e \in entries' : e.seq < nextSeq'  BY <1>1, <1>2, <1>3, <1>4, <1>5
<1>7. Uniquely(entries \cup new)
  <2> SUFFICES ASSUME NEW e \in entries \cup new, NEW k \in entries \cup new, e.seq = k.seq
               PROVE  e = k
    BY DEF Uniquely
  <2>1. e \in entries => k \in entries
    BY <1>1, <1>2, <1>3, <1>4
  <2>2. k \in entries => e \in entries
    BY <1>1, <1>2, <1>3, <1>4
  <2> QED BY <1>2, <1>3, <2>1, <2>2 DEF Uniquely
<1>8. Uniquely(entries')  BY <1>5, <1>7 DEF Uniquely
<1>9. nextSeq' \in 1 .. MaxSeq + 1
  BY <1>1, <1>2, ChangeLogAssumption
<1> QED BY <1>1, <1>2, <1>5, <1>6, <1>8, <1>9

\* What a record leaves to the caller.
Around ==
    /\ boot' \in {"episodic", "up"}
    /\ known' \subseteq Ids /\ stale' \subseteq known' /\ cursor' = cursor
    /\ crashes' = crashes

LEMMA BaseRecorded ==
    ASSUME Base, boot # "down", NEW ids, ids \subseteq Ids, ids # {}, Recorded(ids), Around
    PROVE  Base'
<1>1. PICK new \in NewEntries(ids) :
         /\ Condensed(entries', entries \cup new)
         /\ disk' \in File /\ ~disk'.open /\ disk'.last = {}
         /\ Parse(disk') \subseteq entries'
         /\ \A e \in entries' \ Parse(disk') : e.id \notin torn =>
               e \in Lost \/ (disk.open /\ e \in new /\ e.seq = nextSeq)
  BY RecordEffect DEF Base
<1>2. /\ Numbered(ids) /\ exists' = TRUE /\ torn' = torn /\ cuts' = cuts
  BY DEF Recorded
<1>3. /\ entries' \in SUBSET Entry /\ nextSeq' \in 1 .. MaxSeq + 1
      /\ Uniquely(entries') /\ \A e \in entries' : e.seq < nextSeq'
  BY <1>1, <1>2, Grows DEF Base
<1>4. TypeOK'  BY <1>1, <1>2, <1>3 DEF Base, TypeOK, Around
<1>5. Filed'  BY <1>1, <1>3 DEF Filed, Around, Log, Uniquely
<1>6. LossCounted'
  <2>1. Uniquely(new)  BY <1>2, NewFacts DEF Base, TypeOK, Numbered
  <2>2. IsFiniteSet(Lost) /\ Cardinality(Lost) \in Nat
    BY LostFinite DEF Base
  <2>3. IsFiniteSet(Lost') /\ Cardinality(Lost') \in Nat
    <3>1. Lost' \subseteq entries'  BY DEF Lost
    <3> HIDE DEF Lost
    <3> QED BY <1>3, <3>1, PartFinite
  <2>4. \A e \in Lost' : e \in Lost \/ (disk.open /\ e \in new /\ e.seq = nextSeq)
    BY <1>1, <1>2 DEF Lost
  <2>5. cuts \in Nat /\ Cardinality(Lost) + Spoils <= cuts
    BY DEF Base, TypeOK, LossCounted
  <2>6. Spoils' = 0  BY <1>1 DEF Spoils
  <2> HIDE DEF Lost
  <2>7. CASE Lost' \subseteq Lost
    <3>1. Cardinality(Lost') <= Cardinality(Lost)  BY <2>2, <2>7, FS_Subset
    <3> QED BY <1>2, <2>2, <2>3, <2>5, <2>6, <3>1 DEF LossCounted, Spoils
  <2>8. CASE ~(Lost' \subseteq Lost)
    <3>1. PICK e \in Lost' : e \notin Lost  BY <2>8
    <3>2. disk.open /\ e \in new /\ e.seq = nextSeq  BY <2>4, <3>1
    <3>3. Lost' \in SUBSET (Lost \cup {e})  BY <2>1, <2>4, <3>2 DEF Uniquely
    <3>4. /\ IsFiniteSet(Lost \cup {e})
          /\ Cardinality(Lost \cup {e}) = Cardinality(Lost) + 1
      BY <2>2, <3>1, FS_AddElement
    <3>5. Cardinality(Lost') <= Cardinality(Lost) + 1  BY <3>3, <3>4, FS_Subset
    <3>6. Spoils = 1  BY <3>2 DEF Spoils
    <3> QED BY <1>2, <2>2, <2>3, <2>5, <2>6, <3>5, <3>6 DEF LossCounted
  <2> QED BY <2>7, <2>8
<1> QED BY <1>4, <1>5, <1>6 DEF Base

LEMMA BaseInMemory ==
    ASSUME Base, boot # "down", NEW ids, ids \subseteq Ids, ids # {}, RecordedInMemory(ids),
           Around
    PROVE  Base'
<1>1. PICK new \in NewEntries(ids) :
         /\ Condensed(entries', entries \cup new)
         /\ disk' \in File /\ (~disk'.open => disk'.last = {})
         /\ Parse(disk') \subseteq entries'
         /\ \A e \in disk'.last : e.id \in torn'
         /\ \A e \in entries' \ Parse(disk') : e.id \notin torn' => e \in Lost
  BY CutEffect DEF Base
<1>2. /\ Numbered(ids) /\ exists' = TRUE /\ torn' = torn \cup ids
      /\ cuts < MaxCuts /\ cuts' = cuts + 1
  BY DEF RecordedInMemory
<1>3. /\ entries' \in SUBSET Entry /\ nextSeq' \in 1 .. MaxSeq + 1
      /\ Uniquely(entries') /\ \A e \in entries' : e.seq < nextSeq'
  BY <1>1, <1>2, Grows DEF Base
<1>4. TypeOK'
  BY <1>1, <1>2, <1>3, ChangeLogAssumption DEF Base, TypeOK, Around
<1>5. Filed'  BY <1>1, <1>3 DEF Filed, Around, Log, Uniquely
<1>6. LossCounted'
  <2>1. IsFiniteSet(Lost) /\ Cardinality(Lost) \in Nat
    BY LostFinite DEF Base
  <2>2. IsFiniteSet(Lost') /\ Cardinality(Lost') \in Nat
    <3>1. Lost' \subseteq entries'  BY DEF Lost
    <3> HIDE DEF Lost
    <3> QED BY <1>3, <3>1, PartFinite
  <2>3. Lost' \in SUBSET Lost  BY <1>1 DEF Lost
  <2>4. cuts \in Nat /\ Cardinality(Lost) + Spoils <= cuts
    BY DEF Base, TypeOK, LossCounted
  <2> HIDE DEF Lost
  <2>5. Cardinality(Lost') <= Cardinality(Lost)  BY <2>1, <2>3, FS_Subset
  <2> QED BY <1>2, <2>1, <2>2, <2>4, <2>5 DEF LossCounted, Spoils
<1> QED BY <1>4, <1>5, <1>6 DEF Base

\* With memory gone nothing is counted but the unfinished line.
LEMMA NothingLost ==
    ASSUME entries' = {}, cuts' \in Nat, disk'.open => cuts' >= 1
    PROVE  LossCounted'
<1>1. Lost' = {}  BY DEF Lost
<1>2. Cardinality(Lost') = 0  BY <1>1, FS_EmptySet
<1> QED BY <1>2 DEF LossCounted, Spoils

LEMMA BaseDied ==
    ASSUME Base, boot # "down", NEW ids, ids \subseteq Ids, ids # {}, DiedRecording(ids),
           known' \subseteq Ids, stale' \subseteq known', cursor' = cursor
    PROVE  Base'
<1>1. PICK new \in NewEntries(ids) :
         /\ disk' \in File /\ (~disk'.open => disk'.last = {})
         /\ Parse(disk') \subseteq entries \cup new
         /\ \A e \in disk'.last : e.id \in torn'
  BY DieEffect DEF Base
<1>2. /\ nextSeq + Cardinality(ids) - 1 <= MaxSeq
      /\ exists' = TRUE /\ torn' = torn \cup ids
      /\ cuts < MaxCuts /\ cuts' = cuts + 1
      /\ crashes < MaxCrashes /\ crashes' = crashes + 1
      /\ boot' = "down" /\ entries' = {} /\ nextSeq' = 1
  BY DEF DiedRecording
<1>3. /\ new \subseteq Entry /\ Uniquely(new) /\ \A e \in new : e.seq >= nextSeq
  BY <1>2, NewFacts DEF Base, TypeOK
<1>4. /\ Uniquely(entries) /\ \A e \in entries : e.seq < nextSeq
  BY DEF Base, Filed, Log
<1>5. nextSeq \in Nat /\ \A e \in entries \cup new : e.seq \in Nat
  BY <1>3 DEF Base, TypeOK, Entry
<1>6. Uniquely(entries \cup new)
  <2> SUFFICES ASSUME NEW e \in entries \cup new, NEW k \in entries \cup new, e.seq = k.seq
               PROVE  e = k
    BY DEF Uniquely
  <2>1. e \in entries => k \in entries  BY <1>3, <1>4, <1>5
  <2>2. k \in entries => e \in entries  BY <1>3, <1>4, <1>5
  <2> QED BY <1>3, <1>4, <2>1, <2>2 DEF Uniquely
<1>7. Uniquely(Parse(disk'))  BY <1>1, <1>6 DEF Uniquely
<1>8. TypeOK'  BY <1>1, <1>2, ChangeLogAssumption DEF Base, TypeOK
<1>9. Filed'  BY <1>1, <1>2, <1>7 DEF Filed, Log, Uniquely
<1>10. LossCounted'  BY <1>2, NothingLost DEF Base, TypeOK
<1> QED BY <1>8, <1>9, <1>10 DEF Base

LEMMA SeedKeepsBase == Base /\ Seed => Base'
<1> SUFFICES ASSUME Base, Seed PROVE Base'  OBVIOUS
<1>1. /\ known \subseteq Ids /\ stale \subseteq known /\ boot \in {"semantic", "episodic"}
      /\ known' = known /\ stale' = stale /\ cursor' = cursor
  BY DEF Base, TypeOK, Seed
<1>2. SeedIds \subseteq Ids /\ SeedNext \in {"episodic", "up"}
  BY <1>1 DEF SeedIds, SeedNext
<1>3. CASE /\ UNCHANGED <<exists, disk, entries, nextSeq, torn, crashes, cuts>>
           /\ boot' = SeedNext
  <2>1. TypeOK'  BY <1>1, <1>2, <1>3 DEF Base, TypeOK
  <2>2. Filed'  BY <1>1, <1>2, <1>3 DEF Base, Filed, Log, Parse
  <2>3. LossCounted'  BY <1>3 DEF Base, LossCounted, Lost, Spoils, Parse
  <2> QED BY <2>1, <2>2, <2>3 DEF Base
<1>4. CASE /\ SeedIds # {} /\ (Recorded(SeedIds) \/ RecordedInMemory(SeedIds))
           /\ boot' = SeedNext /\ UNCHANGED crashes
  <2>1. Around  BY <1>1, <1>2, <1>4 DEF Around
  <2> QED BY <1>1, <1>2, <1>4, <2>1, BaseRecorded, BaseInMemory
<1>5. CASE SeedIds # {} /\ DiedRecording(SeedIds)
  BY <1>1, <1>2, <1>5, BaseDied
<1> QED BY <1>3, <1>4, <1>5 DEF Seed

LEMMA WriteKeepsBase ==
    ASSUME Base, NEW ids \in (SUBSET Ids) \ {{}}, Write(ids)
    PROVE  Base'
<1>1. /\ boot = "up" /\ known' \subseteq Ids /\ stale' \subseteq known' /\ cursor' = cursor
      /\ boot # "down" /\ ids \subseteq Ids /\ ids # {}
  <2>1. ids \subseteq Ids /\ ids # {}  OBVIOUS
  <2>2. /\ boot = "up" /\ known' = known \cup ids /\ stale' = stale \cup ids
        /\ cursor' = cursor
    BY DEF Write
  <2>3. known \subseteq Ids /\ stale \subseteq known  BY DEF Base, TypeOK
  <2> QED BY <2>1, <2>2, <2>3
<1>2. CASE (Recorded(ids) \/ RecordedInMemory(ids)) /\ UNCHANGED <<boot, crashes>>
  <2>1. Around  BY <1>1, <1>2 DEF Around
  <2> QED BY <1>1, <1>2, <2>1, BaseRecorded, BaseInMemory
<1>3. CASE DiedRecording(ids)
  BY <1>1, <1>3, BaseDied
<1> QED BY <1>2, <1>3 DEF Write

LEMMA OpenKeepsBase == Base /\ Open => Base'
<1> SUFFICES ASSUME Base, Open PROVE Base'  OBVIOUS
<1> DEFINE es == Parse(disk)
<1>1. /\ boot = "down" /\ entries' = es
      /\ nextSeq' = IF es = {} THEN 1 ELSE Newest(es).seq + 1
      /\ boot' \in {"semantic", "up"}
      /\ UNCHANGED <<exists, disk, cursor, known, stale, torn, crashes, cuts>>
  BY DEF Open
<1>2. es \subseteq Entry /\ Uniquely(es) /\ entries = {}
  BY <1>1 DEF Base, TypeOK, Filed, Log, Parse, File
<1>3. es # {} => /\ Newest(es).seq \in 1 .. MaxSeq
                 /\ \A k \in es : k.seq <= Newest(es).seq
  BY <1>2, NewestExists DEF Entry
<1>4. \A e \in es : e.seq \in Nat  BY <1>2 DEF Entry
<1> HIDE DEF es
<1>5. nextSeq' \in 1 .. MaxSeq + 1 /\ \A e \in es : e.seq < nextSeq'
  BY <1>1, <1>3, <1>4, ChangeLogAssumption
<1>6. TypeOK'  BY <1>1, <1>2, <1>5 DEF Base, TypeOK
<1>7. Parse(disk') = es  BY <1>1 DEF es
<1>8. Filed'  BY <1>1, <1>2, <1>5, <1>7 DEF Base, Filed, Log, Uniquely
<1>9. LossCounted'
  <2>1. Lost = {} /\ Lost' = {}  BY <1>1, <1>2, <1>7 DEF Lost
  <2>2. Spoils' = Spoils /\ cuts' = cuts  BY <1>1 DEF Spoils
  <2> QED BY <2>1, <2>2 DEF Base, LossCounted
<1> QED BY <1>6, <1>8, <1>9 DEF Base

LEMMA CrashKeepsBase == Base /\ Crash => Base'
<1> SUFFICES ASSUME Base, Crash PROVE Base'  OBVIOUS
<1>1. TypeOK'  BY ChangeLogAssumption DEF Base, TypeOK, Crash
<1>2. Filed'  BY DEF Base, Filed, Crash, Log, Uniquely, Parse
<1>3. LossCounted'
  <2>1. /\ entries' = {} /\ cuts' = cuts /\ disk' = disk /\ cuts \in Nat
    BY DEF Base, TypeOK, Crash
  <2>2. Cardinality(Lost) \in Nat /\ Cardinality(Lost) + Spoils <= cuts
    BY LostFinite DEF Base, LossCounted
  <2>3. disk.open => cuts >= 1  BY <2>1, <2>2 DEF Spoils
  <2> QED BY <2>1, <2>3, NothingLost
<1> QED BY <1>1, <1>2, <1>3 DEF Base

LEMMA StepKeepsBase == Base /\ [Next]_vars => Base'
<1> SUFFICES ASSUME Base, [Next]_vars PROVE Base'  OBVIOUS
<1>1. CASE Follow
  <2>1. \E e \in entries : e.seq = cursor'  BY <1>1, FollowEffect DEF Base
  <2>2. cursor' \in 0 .. MaxSeq /\ stale' \subseteq stale
    BY <1>1, <2>1, FollowEffect DEF Base, TypeOK, Entry
  <2>3. TypeOK'  BY <1>1, <2>2 DEF Base, TypeOK, Follow, logVars
  <2>4. Filed'  BY <1>1 DEF Base, Filed, Follow, logVars, Log, Parse
  <2>5. LossCounted'  BY <1>1 DEF Base, LossCounted, Follow, logVars, Lost, Spoils, Parse
  <2> QED BY <2>3, <2>4, <2>5 DEF Base
<1>2. CASE NewFollower
  <2>1. TypeOK'  BY <1>2, ChangeLogAssumption DEF Base, TypeOK, NewFollower, logVars
  <2>2. Filed'  BY <1>2 DEF Base, Filed, NewFollower, logVars, Log, Parse
  <2>3. LossCounted'
    BY <1>2 DEF Base, LossCounted, NewFollower, logVars, Lost, Spoils, Parse
  <2> QED BY <2>1, <2>2, <2>3 DEF Base
<1>3. CASE UNCHANGED vars
  <2>1. TypeOK'  BY <1>3 DEF Base, TypeOK, vars, logVars
  <2>2. Filed'  BY <1>3 DEF Base, Filed, vars, logVars, Log, Parse
  <2>3. LossCounted'  BY <1>3 DEF Base, LossCounted, vars, logVars, Lost, Spoils, Parse
  <2> QED BY <2>1, <2>2, <2>3 DEF Base
<1> QED BY <1>1, <1>2, <1>3, OpenKeepsBase, SeedKeepsBase, WriteKeepsBase, CrashKeepsBase
        DEF Next

LEMMA InitBase == Init => Base
<1> SUFFICES ASSUME Init PROVE Base  OBVIOUS
<1>1. TypeOK
  <2>1. disk \in File  BY DEF Init, WholeLines, File
  <2>2. 1 \in 1 .. MaxSeq + 1 /\ 0 \in 0 .. MaxSeq /\ 0 \in 0 .. MaxCrashes
        /\ 0 \in 0 .. MaxCuts
    BY ChangeLogAssumption
  <2>3. Existing \subseteq Ids  BY ChangeLogAssumption
  <2> QED BY <2>1, <2>2, <2>3 DEF Init, TypeOK
<1>2. Filed  BY DEF Init, Filed, WholeLines, Log, Parse, Uniquely
<1>3. LossCounted
  <2>1. Lost = {} /\ Spoils = 0 /\ cuts = 0  BY DEF Init, Lost, WholeLines, Spoils
  <2> QED BY <2>1, FS_EmptySet DEF LossCounted
<1> QED BY <1>1, <1>2, <1>3 DEF Base

THEOREM BaseHolds == Spec => []Base
BY InitBase, StepKeepsBase, PTL DEF Spec

\* Every table, number and count has the shape the code gives it.
THEOREM TypeCorrectness == Spec => []TypeOK
BY BaseHolds, PTL DEF Base

\* Of a log, in memory or in a damaged file, no two entries have a number.
THEOREM NumbersStayUnique == Spec => []NumbersUnique
<1>1. Base => NumbersUnique  BY DEF Base, Filed, Uniquely, NumbersUnique
<1> QED BY <1>1, BaseHolds, PTL

\* However many appends are cut and wherever, and however often the daemon dies,
\* the file is short of at most one change per cut beside the cut records' own.
THEOREM LossStaysBounded == Spec => []LossBounded
<1>1. Base => LossBounded
  <2> SUFFICES ASSUME Base, boot = "up"
               PROVE  LossBounded
    BY DEF LossBounded
  <2> DEFINE counted == {e \in LatestPerId(entries) \ Parse(disk) : e.id \notin torn}
  <2>1. counted \in SUBSET Lost  BY DEF LatestPerId, Lost
  <2>2. IsFiniteSet(Lost) /\ Cardinality(Lost) \in Nat  BY LostFinite DEF Base
  <2> HIDE DEF counted
  <2>3. Cardinality(counted) <= Cardinality(Lost) /\ Cardinality(counted) \in Nat
    BY <2>1, <2>2, FS_Subset, FS_CardinalityType
  <2>4. cuts \in Nat /\ Cardinality(Lost) + Spoils <= cuts
    BY DEF Base, TypeOK, LossCounted
  <2>5. Spoils \in {0, 1}  BY DEF Spoils
  <2> QED BY <2>2, <2>3, <2>4, <2>5 DEF counted, LossBounded
<1> QED BY <1>1, BaseHolds, PTL

-----------------------------------------------------------------------------
(* The cursor *)

\* No seeding is cut in two by a death: the rows of a store that had none of a
\* log are in one table, or the process stays up.
SeedsAtOnce ==
    \/ Existing \subseteq Semantic
    \/ Existing \subseteq Episodic
    \/ MaxCrashes = 0

\* A record that reaches the file whole: nothing is lost from the log, and each
\* of its ids has an entry after the cursor.
LEMMA RecordCovers ==
    ASSUME Base, cuts = 0, Intact, Covered, boot # "down", boot' # "down",
           NEW ids, ids \subseteq Ids, ids # {}, Recorded(ids)
    PROVE  /\ Intact' /\ exists' = TRUE /\ cuts' = 0
           /\ \A e \in Log : \E k \in Log' : k.id = e.id /\ k.seq >= e.seq
           /\ \A id \in ids : \E k \in Log' : k.id = id /\ k.seq > cursor
<1>1. PICK new \in NewEntries(ids) :
         /\ Condensed(entries', entries \cup new)
         /\ disk' \in File /\ ~disk'.open /\ disk'.last = {}
         /\ disk.open = FALSE /\ entries = disk.whole => disk'.whole = entries'
  BY RecordEffect DEF Base
<1>2. /\ Log = entries /\ Log' = entries'
      /\ exists' = TRUE /\ cuts' = cuts /\ torn' = torn /\ Numbered(ids)
  BY DEF Log, Recorded
<1>3. disk.open = FALSE  BY DEF Intact, Base, TypeOK, File
<1>4. Intact'  BY <1>1, <1>2, <1>3 DEF Intact
<1>5. /\ \A i \in ids : \E e \in new : e.id = i
      /\ \A e \in new : e.seq >= nextSeq /\ e.seq \in Nat
      /\ entries' \subseteq Entry
  <2>1. new \subseteq Entry /\ (\A i \in ids : \E e \in new : e.id = i)
        /\ (\A e \in new : e.seq >= nextSeq)
    BY <1>2, NewFacts DEF Base, TypeOK, Numbered
  <2>2. entries' \subseteq Entry  BY <1>1, <1>2, Grows DEF Base
  <2> QED BY <2>1, <2>2 DEF Entry
<1>6. cursor \in Nat /\ nextSeq \in Nat /\ cursor < nextSeq
  <2>1. cursor \in Nat /\ nextSeq \in Nat \ {0}  BY DEF Base, TypeOK
  <2>2. \A e \in entries : e.seq \in Nat /\ e.seq < nextSeq
    BY DEF Base, TypeOK, Filed, Entry
  <2> QED BY <1>2, <2>1, <2>2 DEF Covered
<1>7. ASSUME NEW id \in ids PROVE \E k \in Log' : k.id = id /\ k.seq > cursor
  <2>1. PICK e \in new : e.id = id  BY <1>5
  <2>2. PICK k \in entries' : k.id = e.id /\ k.seq >= e.seq  BY <1>1 DEF Condensed
  <2>3. k.seq \in Nat /\ e.seq >= nextSeq /\ e.seq \in Nat  BY <1>5 DEF Entry
  <2>4. k.seq > cursor  BY <1>6, <2>2, <2>3
  <2> QED BY <1>2, <2>1, <2>2, <2>4
<1>8. \A e \in Log : \E k \in Log' : k.id = e.id /\ k.seq >= e.seq
  BY <1>1, <1>2 DEF Condensed
<1> QED BY <1>2, <1>4, <1>7, <1>8

\* What was covered is covered by a log that has lost nothing.
LEMMA StaysCovered ==
    ASSUME Base, Base', Covered, cursor' = cursor, NEW ids, known' \subseteq known \cup ids,
           stale' \subseteq stale \cup ids, Unseeded \subseteq Unseeded' \cup ids,
           \A e \in Log : \E k \in Log' : k.id = e.id /\ k.seq >= e.seq,
           \A id \in ids : \E k \in Log' : k.id = id /\ k.seq > cursor
    PROVE  Covered'
<1>1. Log \subseteq Entry /\ Log' \subseteq Entry /\ cursor \in Nat
  BY DEF Base, TypeOK, Log, Parse, File
<1>2. /\ \A e \in Log : e.seq \in Nat
      /\ \A e \in Log' : e.seq \in Nat
  BY <1>1 DEF Entry
<1>3. ASSUME NEW id \in known' \ Unseeded' PROVE \E k \in Log' : k.id = id
  <2>1. CASE id \in ids  BY <2>1
  <2>2. CASE id \notin ids
    <3>1. PICK e \in Log : e.id = id  BY <1>3, <2>2 DEF Covered
    <3> QED BY <3>1
  <2> QED BY <2>1, <2>2
<1>4. ASSUME NEW id \in stale' \ Unseeded' PROVE \E k \in Log' : k.id = id /\ k.seq > cursor
  <2>1. CASE id \in ids  BY <2>1
  <2>2. CASE id \notin ids
    <3>1. PICK e \in Log : e.id = id /\ e.seq > cursor  BY <1>4, <2>2 DEF Covered
    <3>2. PICK k \in Log' : k.id = id /\ k.seq >= e.seq  BY <3>1
    <3>3. k.seq > cursor  BY <1>1, <1>2, <3>1, <3>2
    <3> QED BY <3>2, <3>3
  <2> QED BY <2>1, <2>2
<1>5. cursor = 0 \/ \E k \in Log' : k.seq >= cursor
  <2>1. CASE cursor = 0  BY <2>1
  <2>2. CASE cursor # 0
    <3>1. PICK e \in Log : e.seq >= cursor  BY <2>2 DEF Covered
    <3>2. PICK k \in Log' : k.seq >= e.seq  BY <3>1
    <3>3. k.seq >= cursor  BY <1>1, <1>2, <3>1, <3>2
    <3> QED BY <3>2, <3>3
  <2> QED BY <2>1, <2>2
<1> QED BY <1>3, <1>4, <1>5 DEF Covered

Wholly == Intact /\ Seeding /\ Covered

\* A cut append is the only thing that counts.
LEMMA CutsGrow == Base /\ [Next]_vars /\ cuts' = 0 => cuts = 0
BY DEF Base, TypeOK, Next, vars, logVars, Open, Seed, Recorded, RecordedInMemory,
       DiedRecording, Write, Crash, Follow, NewFollower

LEMMA SeedKeepsWhole ==
    ASSUME SeedsAtOnce, Base, Base', cuts = 0, cuts' = 0, Wholly, Seed
    PROVE  Wholly'
<1>1. /\ boot \in {"semantic", "episodic"} /\ known = Existing
      /\ known' = known /\ stale' = stale /\ cursor' = cursor
      /\ boot = "semantic" => ~exists
      /\ ~exists => Log = {} /\ cursor = 0
      /\ known \subseteq Ids /\ stale \subseteq known
  BY DEF Wholly, Seeding, Seed, Base, TypeOK
<1>2. /\ SeedNext \in {"episodic", "up"}
      /\ boot = "semantic" => SeedNext = "episodic" /\ SeedIds = known \cap Semantic
      /\ boot = "episodic" => SeedNext = "up" /\ SeedIds = known \cap Episodic
  BY <1>1 DEF SeedIds, SeedNext
<1>3. CASE /\ SeedIds = {}
           /\ UNCHANGED <<exists, disk, entries, nextSeq, torn, crashes, cuts>>
           /\ boot' = SeedNext
  <2>1. Log' = Log  BY <1>1, <1>2, <1>3 DEF Log
  <2>2. Intact'  BY <1>3, <2>1 DEF Wholly, Intact
  <2>3. Seeding'
    BY <1>1, <1>2, <1>3, <2>1 DEF Wholly, Seeding, Ids
  <2>4. Covered'
    <3>1. Unseeded \subseteq Unseeded'  BY <1>1, <1>2, <1>3 DEF Unseeded, Ids
    <3>2. Log \subseteq Entry  BY DEF Base, TypeOK, Log, Parse, File
    <3>3. \A e \in Log : \E k \in Log' : k.id = e.id /\ k.seq >= e.seq
      BY <2>1, <3>2 DEF Entry
    <3>4. /\ Unseeded \subseteq Unseeded' \cup SeedIds
          /\ \A id \in SeedIds : \E k \in Log' : k.id = id /\ k.seq > cursor
      BY <1>3, <3>1
    <3> QED BY <1>1, <3>3, <3>4, StaysCovered DEF Wholly
  <2> QED BY <2>2, <2>3, <2>4 DEF Wholly
<1>4. CASE SeedIds # {} /\ Recorded(SeedIds) /\ boot' = SeedNext
  <2>1. SeedIds \subseteq Ids /\ boot # "down" /\ boot' # "down"  BY <1>1, <1>2, <1>4
  <2>2. /\ Intact' /\ exists' = TRUE
        /\ \A e \in Log : \E k \in Log' : k.id = e.id /\ k.seq >= e.seq
        /\ \A id \in SeedIds : \E k \in Log' : k.id = id /\ k.seq > cursor
    BY <1>4, <2>1, RecordCovers DEF Wholly
  <2>3. Seeding'
    BY <1>1, <1>2, <1>4, <2>2, ChangeLogAssumption DEF Seeding, SeedsAtOnce, Ids
  <2>4. Unseeded \subseteq Unseeded' \cup SeedIds
    BY <1>1, <1>2, <1>4, <2>2 DEF Unseeded, Ids, Wholly, Seeding
  <2>5. Covered'
    BY <1>1, <2>2, <2>4, StaysCovered DEF Wholly
  <2> QED BY <2>2, <2>3, <2>5 DEF Wholly
<1>5. ~RecordedInMemory(SeedIds) /\ ~DiedRecording(SeedIds)
  BY DEF RecordedInMemory, DiedRecording
<1> QED BY <1>3, <1>4, <1>5 DEF Seed

LEMMA WriteKeepsWhole ==
    ASSUME Base, Base', cuts = 0, cuts' = 0, Wholly,
           NEW ids \in (SUBSET Ids) \ {{}}, Write(ids)
    PROVE  Wholly'
<1>1. /\ boot = "up" /\ known' = known \cup ids /\ stale' = stale \cup ids
      /\ cursor' = cursor
  BY DEF Write
<1>2. ids \subseteq Ids /\ ids # {}  OBVIOUS
<1>3. ~RecordedInMemory(ids) /\ ~DiedRecording(ids)
  BY DEF RecordedInMemory, DiedRecording
<1>4. Recorded(ids) /\ boot' = "up"  BY <1>1, <1>3 DEF Write
<1>5. /\ Intact' /\ exists' = TRUE
      /\ \A e \in Log : \E k \in Log' : k.id = e.id /\ k.seq >= e.seq
      /\ \A id \in ids : \E k \in Log' : k.id = id /\ k.seq > cursor
  BY <1>1, <1>2, <1>4, RecordCovers DEF Wholly
<1>6. Unseeded = {}  BY <1>1 DEF Wholly, Seeding, Unseeded
<1>7. Covered'  BY <1>1, <1>5, <1>6, StaysCovered DEF Wholly
<1>8. Seeding'  BY <1>4, <1>5 DEF Seeding
<1> QED BY <1>5, <1>7, <1>8 DEF Wholly

LEMMA OpenKeepsWhole ==
    ASSUME Base, Base', cuts = 0, Wholly, Open
    PROVE  Wholly'
<1>1. /\ boot = "down" /\ entries' = Parse(disk)
      /\ boot' = IF exists THEN "up" ELSE "semantic"
      /\ UNCHANGED <<exists, disk, cursor, known, stale, torn>>
  BY DEF Open
<1>2. Log' = Log  BY <1>1 DEF Log
<1>3. Intact'  BY <1>1, <1>2 DEF Wholly, Intact
<1>4. Seeding'  BY <1>1, <1>2 DEF Wholly, Seeding
<1>5. Unseeded' = Unseeded  BY <1>1 DEF Unseeded
<1>6. Covered'  BY <1>1, <1>2, <1>5 DEF Wholly, Covered
<1> QED BY <1>3, <1>4, <1>6 DEF Wholly

LEMMA CrashKeepsWhole ==
    ASSUME Base, Base', cuts = 0, Wholly, Crash
    PROVE  Wholly'
<1>1. /\ boot # "down" /\ boot' = "down" /\ MaxCrashes # 0
      /\ UNCHANGED <<exists, disk, cursor, known, stale, torn>>
  BY ChangeLogAssumption DEF Crash, Base, TypeOK
<1>2. Log' = Log  BY <1>1 DEF Log, Wholly, Intact, Parse
<1>3. Intact'  BY <1>1, <1>2 DEF Wholly, Intact
<1>4. Seeding'  BY <1>1, <1>2 DEF Wholly, Seeding
<1>5. Unseeded' = Unseeded
  BY <1>1 DEF Unseeded, Wholly, Seeding
<1>6. Covered'  BY <1>1, <1>2, <1>5 DEF Wholly, Covered
<1> QED BY <1>3, <1>4, <1>6 DEF Wholly

LEMMA FollowKeepsWhole ==
    ASSUME Base, Base', cuts = 0, Wholly, Follow \/ NewFollower
    PROVE  Wholly'
<1>1. /\ boot = "up" /\ UNCHANGED <<exists, disk, boot, entries, nextSeq, known, torn>>
  BY DEF Follow, NewFollower, logVars
<1>2. Log' = Log /\ Log = entries  BY <1>1 DEF Log
<1>3. Intact'  BY <1>1, <1>2 DEF Wholly, Intact
<1>4. Unseeded = {} /\ Unseeded' = {}  BY <1>1 DEF Wholly, Seeding, Unseeded
<1>5. \A e \in entries : e.seq \in Nat /\ e.seq > 0  BY DEF Base, TypeOK, Entry
<1>6. CASE Follow
  <2>1. /\ \E e \in entries : e.seq = cursor'
        /\ stale' \subseteq stale
        /\ \A id \in stale' : \A e \in entries :
              e.id = id /\ e.seq > cursor => e.seq > cursor'
    BY <1>6, FollowEffect DEF Base
  <2>2. Seeding'  BY <1>1, <1>2, <2>1 DEF Wholly, Seeding
  <2>3. Covered'  BY <1>1, <1>2, <1>4, <1>5, <2>1 DEF Wholly, Covered
  <2> QED BY <1>3, <2>2, <2>3 DEF Wholly
<1>7. CASE NewFollower
  <2>1. cursor' = 0 /\ stale' = known  BY <1>7 DEF NewFollower
  <2>2. Seeding'  BY <1>1, <1>2, <2>1 DEF Wholly, Seeding
  <2>3. Covered'  BY <1>1, <1>2, <1>4, <1>5, <2>1 DEF Wholly, Covered
  <2> QED BY <1>3, <2>2, <2>3 DEF Wholly
<1> QED BY <1>6, <1>7

LEMMA StepKeepsWhole ==
    ASSUME SeedsAtOnce
    PROVE  Base /\ Base' /\ WhileWhole /\ [Next]_vars => WhileWhole'
<1> SUFFICES ASSUME Base, Base', WhileWhole, [Next]_vars, cuts' = 0 PROVE Wholly'
  BY DEF WhileWhole, Wholly
<1>1. cuts = 0 /\ Wholly  BY CutsGrow DEF WhileWhole, Wholly
<1>2. CASE UNCHANGED vars
  BY <1>1, <1>2 DEF vars, logVars, Wholly, Intact, Seeding, Covered, Log, Unseeded, Parse
<1> QED BY <1>1, <1>2, SeedKeepsWhole, WriteKeepsWhole, OpenKeepsWhole, CrashKeepsWhole,
           FollowKeepsWhole
        DEF Next

\* As long as the file got every append whole, a change a follower has not seen
\* is named after its cursor, whatever pages were cut, the log compacted and the
\* daemon restarted; FullCopyFromZero shows what a seeding cut in two does.
THEOREM CursorAlwaysCovers ==
    ASSUME SeedsAtOnce
    PROVE  Spec => []CursorCovers
<1>1. Init => WhileWhole
  <2> SUFFICES ASSUME Init PROVE Wholly  BY DEF WhileWhole, Wholly
  <2> USE DEF Init, WholeLines
  <2>1. Log = {} /\ Unseeded = known  BY DEF Log, Parse, Unseeded
  <2> QED BY <2>1 DEF Wholly, Intact, Seeding, Covered
<1>2. Base /\ WhileWhole => CursorCovers
  BY DEF WhileWhole, CursorCovers, Covered, Seeding, Unseeded, Log, Base, TypeOK
<1> QED BY <1>1, <1>2, BaseHolds, StepKeepsWhole, PTL DEF Spec

-----------------------------------------------------------------------------
(* Directories *)

\* Of paths that are not ever longer, one is longest.
LEMMA LongestExists ==
    ASSUME NEW S, S \subseteq Seq(Names), S # {}, NEW b \in Nat, \A s \in S : Len(s) <= b
    PROVE  \E s \in S : \A r \in S : Len(r) <= Len(s)
<1> DEFINE short == {b - Len(s) : s \in S}
<1>1. short \in SUBSET Nat /\ short # {}
  OBVIOUS
<1>2. PICK n \in short : \A m \in short : n <= m
  <2> HIDE DEF short
  <2>1. PICK n \in short : \A m \in short : <<m, n>> \notin OpToRel(<, Nat)
    BY <1>1, NatLessThanWellFounded, WFMin
  <2>2. \A m \in short : ~(m < n)  BY <1>1, <2>1 DEF OpToRel
  <2> QED BY <1>1, <2>2
<1>3. PICK s \in S : n = b - Len(s)
  BY <1>2
<1>4. ASSUME NEW r \in S PROVE Len(r) <= Len(s)
  <2>1. n <= b - Len(r)  BY <1>2
  <2> QED BY <1>3, <2>1
<1> QED BY <1>4

\* To be below a directory is to begin with its names.
LEMMA UnderMeans ==
    ASSUME NEW p \in Seq(Names), NEW d \in Seq(Names)
    PROVE  Under(p, d) <=> Len(d) <= Len(p) /\ \A i \in 1 .. Len(d) : d[i] = p[i]
<1>1. ASSUME Len(d) <= Len(p), NEW i \in 1 .. Len(d)
      PROVE  SubSeq(d, 1, Len(d))[i] = d[i] /\ SubSeq(p, 1, Len(d))[i] = p[i]
  BY <1>1
<1>2. ASSUME Under(p, d) PROVE Len(d) <= Len(p) /\ \A i \in 1 .. Len(d) : d[i] = p[i]
  BY <1>1, <1>2 DEF Under, IsPrefix
<1>3. ASSUME Len(d) <= Len(p), \A i \in 1 .. Len(d) : d[i] = p[i] PROVE Under(p, d)
  <2>1. SubSeq(d, 1, Len(d)) \in Seq(Names) /\ SubSeq(p, 1, Len(d)) \in Seq(Names)
    BY <1>3
  <2>2. Len(SubSeq(d, 1, Len(d))) = Len(d) /\ Len(SubSeq(p, 1, Len(d))) = Len(d)
    BY <1>3
  <2>3. SubSeq(d, 1, Len(d)) = SubSeq(p, 1, Len(d))
    BY <1>1, <1>3, <2>1, <2>2
  <2> QED BY <1>3, <2>3 DEF Under, IsPrefix
<1> QED BY <1>2, <1>3

LEMMA UnderItself == \A p \in Seq(Names) : Under(p, p)
BY UnderMeans

LEMMA UnderTransitive ==
    ASSUME NEW p \in Seq(Names), NEW d \in Seq(Names), NEW e \in Seq(Names),
           Under(p, d), Under(d, e)
    PROVE  Under(p, e)
<1>1. Len(e) <= Len(p)  BY UnderMeans
<1>2. ASSUME NEW i \in 1 .. Len(e) PROVE e[i] = p[i]
  BY UnderMeans
<1> QED BY <1>1, <1>2, UnderMeans

\* Two directories with one below both: one of them is below the other.
LEMMA UnderCompares ==
    ASSUME NEW p \in Seq(Names), NEW d \in Seq(Names), NEW e \in Seq(Names),
           Under(p, d), Under(p, e)
    PROVE  Under(d, e) \/ Under(e, d)
<1>1. CASE Len(e) <= Len(d)
  <2>1. ASSUME NEW i \in 1 .. Len(e) PROVE e[i] = d[i]
    BY <1>1, UnderMeans
  <2> QED BY <1>1, <2>1, UnderMeans
<1>2. CASE Len(d) <= Len(e)
  <2>1. ASSUME NEW i \in 1 .. Len(d) PROVE e[i] = d[i]
    BY <1>2, UnderMeans
  <2> QED BY <1>2, <2>1, UnderMeans
<1> QED BY <1>1, <1>2

LEMMA SameLengthSame ==
    ASSUME NEW p \in Seq(Names), NEW d \in Seq(Names), Under(p, d), Len(p) <= Len(d)
    PROVE  p = d
<1>1. Len(p) = Len(d) /\ \A i \in 1 .. Len(d) : p[i] = d[i]
  BY UnderMeans
<1> QED BY <1>1

\* A path's beginnings are above it, and are directories if it is one.
LEMMA BeginsAbove ==
    ASSUME NEW p \in Seq(Names), NEW n \in 0 .. Len(p)
    PROVE  /\ SubSeq(p, 1, n) \in Seq(Names) /\ Len(SubSeq(p, 1, n)) = n
           /\ Under(p, SubSeq(p, 1, n))
           /\ p \in Dirs => SubSeq(p, 1, n) \in Dirs
<1>1. SubSeq(p, 1, n) \in Seq(Names) /\ Len(SubSeq(p, 1, n)) = n
  OBVIOUS
<1>2. \A i \in 1 .. n : SubSeq(p, 1, n)[i] = p[i]
  OBVIOUS
<1>3. Under(p, SubSeq(p, 1, n))
  <2> DEFINE a == SubSeq(p, 1, n)
  <2>1. a \in Seq(Names) /\ Len(a) <= Len(p)  BY <1>1
  <2>2. \A i \in 1 .. Len(a) : a[i] = p[i]  BY <1>1, <1>2
  <2> HIDE DEF a
  <2>3. Under(p, a)  BY <2>1, <2>2, UnderMeans
  <2> QED BY <2>3 DEF a
<1>4. ASSUME p \in Dirs PROVE SubSeq(p, 1, n) \in Dirs
  <2>1. CASE n = Len(p)
    <3>1. SubSeq(p, 1, n) = p  BY <1>1, <1>3, <2>1, SameLengthSame
    <3> QED BY <1>4, <3>1
  <2>2. CASE n # Len(p)
    <3>1. n \in 0 .. Len(p) - 1  BY <2>2
    <3>2. SubSeq(p, 1, n) \in Above(p)  BY <3>1, Zenon DEF Above
    <3> QED BY <1>4, <3>2, ScopeAssumption
  <2> QED BY <2>1, <2>2
<1> QED BY <1>1, <1>3, <1>4

LEMMA AboveMeans ==
    ASSUME NEW p \in Seq(Names), NEW a \in Above(p)
    PROVE  a \in Seq(Names) /\ Under(p, a) /\ a # p /\ Len(a) <= Len(p)
<1>1. PICK n \in 0 .. Len(p) - 1 : a = SubSeq(p, 1, n)  BY DEF Above
<1> QED BY <1>1, BeginsAbove

\* The engine's own directory and its skills, below home.
LEMMA EnginePlace ==
    /\ Home \in Seq(Names) /\ Engine \in Seq(Names) /\ Skills \in Seq(Names)
    /\ Len(Engine) = Len(Home) + 1 /\ Len(Skills) = Len(Home) + 2
    /\ Under(Engine, Home) /\ Under(Skills, Engine)
<1>1. Home \in Seq(Names)  BY ScopeAssumption
<1>2. Engine \in Seq(Names) /\ Len(Engine) = Len(Home) + 1
  <2>1. ".linggen" \in Names  BY ScopeAssumption
  <2>2. Append(Home, ".linggen") \in Seq(Names)  BY <1>1, <2>1
  <2>3. Len(Append(Home, ".linggen")) = Len(Home) + 1  BY <1>1
  <2> QED BY <2>2, <2>3 DEF Engine
<1>3. Skills \in Seq(Names) /\ Len(Skills) = Len(Home) + 2
  <2>1. "skills" \in Names  BY ScopeAssumption
  <2>2. Append(Engine, "skills") \in Seq(Names)  BY <1>2, <2>1
  <2>3. Len(Append(Engine, "skills")) = Len(Engine) + 1  BY <1>2
  <2>4. Len(Home) \in Nat  BY <1>1
  <2> QED BY <1>2, <2>2, <2>3, <2>4 DEF Skills
<1>4. Under(Engine, Home)
  <2>1. \A i \in 1 .. Len(Home) : Engine[i] = Home[i]  BY <1>1 DEF Engine
  <2> QED BY <1>1, <1>2, <2>1, UnderMeans
<1>5. Under(Skills, Engine)
  <2>1. \A i \in 1 .. Len(Engine) : Skills[i] = Engine[i]  BY <1>2 DEF Skills
  <2> QED BY <1>2, <1>3, <2>1, UnderMeans
<1> QED BY <1>1, <1>2, <1>3, <1>4, <1>5

\* A skill's directory is one, above what is in the skill.
LEMMA SkillDirFacts ==
    ASSUME NEW p \in Dirs
    PROVE  /\ InSkill(p) <=> Under(p, Skills) /\ p # Skills
           /\ InSkill(p) => /\ SkillDir(p) \in Dirs /\ Under(p, SkillDir(p))
                            /\ Under(SkillDir(p), Skills) /\ SkillDir(p) # Skills
<1>1. p \in Seq(Names) /\ NoDir \notin Dirs  BY ScopeAssumption
<1>2. ASSUME Under(p, Skills), p # Skills
      PROVE  /\ SkillDir(p) \in Dirs /\ Under(p, SkillDir(p))
             /\ Under(SkillDir(p), Skills) /\ SkillDir(p) # Skills
  <2>1. Len(Skills) + 1 \in 0 .. Len(p)
    <3>1. Len(Skills) <= Len(p)  BY <1>1, <1>2, EnginePlace, UnderMeans
    <3>2. ~(Len(p) <= Len(Skills))  BY <1>1, <1>2, EnginePlace, SameLengthSame
    <3> QED BY <1>1, <3>1, <3>2, EnginePlace
  <2>2. SkillDir(p) = SubSeq(p, 1, Len(Skills) + 1)  BY <1>2 DEF SkillDir
  <2>3. /\ SkillDir(p) \in Dirs /\ Under(p, SkillDir(p))
        /\ SkillDir(p) \in Seq(Names) /\ Len(SkillDir(p)) = Len(Skills) + 1
    BY <1>1, <2>1, <2>2, BeginsAbove
  <2>4. Under(SkillDir(p), Skills)
    <3>1. Under(SkillDir(p), Skills) \/ Under(Skills, SkillDir(p))
      BY <1>1, <1>2, <2>3, EnginePlace, UnderCompares
    <3>2. ~Under(Skills, SkillDir(p))
      BY <2>3, EnginePlace, UnderMeans
    <3> QED BY <3>1, <3>2
  <2> QED BY <2>3, <2>4, EnginePlace
<1>3. ASSUME ~(Under(p, Skills) /\ p # Skills) PROVE ~InSkill(p)
  BY <1>3 DEF InSkill, SkillDir
<1>4. ASSUME Under(p, Skills), p # Skills PROVE InSkill(p)
  BY <1>1, <1>2, <1>4 DEF InSkill
<1> QED BY <1>2, <1>3, <1>4

\* The directory that directories share is one.
LEMMA SharedIsThere ==
    ASSUME NEW scopes, scopes \subseteq {NoDir} \cup Dirs, scopes # {}
    PROVE  Common(scopes) \in {NoDir} \cup Dirs
<1>1. CASE NoDir \in scopes
  BY <1>1 DEF Common
<1>2. CASE NoDir \notin scopes
  <2> DEFINE shared == CommonPrefixes(scopes)
  <2>1. scopes \subseteq Dirs /\ Dirs \subseteq Seq(Names)
    BY <1>2, ScopeAssumption
  <2>2. ASSUME NEW a \in shared PROVE a \in Dirs
    <3>1. PICK s \in scopes : a \in Prefixes(s)
      BY Zenon DEF CommonPrefixes
    <3>2. PICK n \in 0 .. Len(s) : a = SubSeq(s, 1, n)
      BY <2>1, <3>1 DEF Prefixes
    <3> QED BY <2>1, <3>2, BeginsAbove
  <2>3. PICK d \in scopes : TRUE
    OBVIOUS
  <2>4. \A a \in shared : Len(a) <= Len(d)
    <3> TAKE a \in shared
    <3>1. IsPrefix(a, d)  BY <2>3 DEF CommonPrefixes
    <3> QED BY <3>1 DEF IsPrefix
  <2>5. shared # {}
    <3>1. <<>> \in Prefixes(d)
      <4>1. 0 \in 0 .. Len(d) /\ SubSeq(d, 1, 0) = <<>>  BY <2>1, <2>3
      <4> QED BY <4>1 DEF Prefixes
    <3>2. \A s \in scopes : IsPrefix(<<>>, s)
      <4> TAKE s \in scopes
      <4>1. s \in Seq(Names) /\ <<>> \in Seq(Names) /\ Len(<<>>) = 0  BY <2>1
      <4>2. SubSeq(<<>>, 1, 0) = <<>>  OBVIOUS
      <4>3. SubSeq(s, 1, 0) = <<>>  BY <4>1
      <4> QED BY <4>1, <4>2, <4>3 DEF IsPrefix
    <3>3. <<>> \in UNION {Prefixes(s) : s \in scopes}
      BY <2>3, <3>1, Zenon
    <3>4. <<>> \in CommonPrefixes(scopes)
      BY <3>2, <3>3, Zenon DEF CommonPrefixes
    <3> QED BY <3>4, Zenon
  <2>6. shared \subseteq Seq(Names) /\ Len(d) \in Nat
    BY <2>1, <2>2, <2>3
  <2> HIDE DEF shared
  <2>7. \E s \in shared : \A r \in shared : Len(r) <= Len(s)
    BY <2>4, <2>5, <2>6, LongestExists
  <2>8. LongestCommonPrefix(scopes) \in shared
    BY <2>7, Zenon DEF LongestCommonPrefix, shared
  <2>9. LongestCommonPrefix(scopes) \in Dirs
    BY <2>2, <2>8
  <2> QED BY <1>2, <2>9 DEF Common
<1> QED BY <1>1, <1>2

\* A repository's root is a directory, and the session's root.
LEMMA GitRootIsThere == \A d \in Dirs : GitRoot(d) \in {NoDir} \cup Dirs
<1> TAKE d \in Dirs
<1> DEFINE repos == {a \in Above(d) \cup {d} : a # <<>> /\ a \in GitRoots}
<1>1. CASE repos = {}
  BY <1>1 DEF GitRoot
<1>2. CASE repos # {}
  <2>1. repos \subseteq Dirs /\ d \in Seq(Names) /\ Dirs \subseteq Seq(Names)
    BY ScopeAssumption
  <2>2. \A a \in repos : Len(a) <= Len(d)
    BY <2>1, AboveMeans
  <2>3. repos \subseteq Seq(Names) /\ Len(d) \in Nat
    BY <2>1
  <2>4. GitRoot(d) = CHOOSE a \in repos : \A b \in repos : Len(b) <= Len(a)
    BY <1>2 DEF GitRoot
  <2> HIDE DEF repos
  <2>5. \E a \in repos : \A b \in repos : Len(b) <= Len(a)
    BY <1>2, <2>2, <2>3, LongestExists
  <2>6. GitRoot(d) \in repos
    BY <2>4, <2>5, Zenon
  <2> QED BY <2>1, <2>6
<1> QED BY <1>1, <1>2

LEMMA RootIsThere ==
    ASSUME NEW from \in {NoDir} \cup Dirs, NEW at \in Dirs
    PROVE  MemoryRoot(from, at) \in Dirs /\ SessionRoot(from, at) \in Dirs
<1>1. ASSUME NEW s \in {NoDir} \cup Dirs, NEW d \in Dirs PROVE MemoryRoot(s, d) \in Dirs
  <2>1. GitRoot(d) \in {NoDir} \cup Dirs  BY GitRootIsThere
  <2>2. InSkill(d) => SkillDir(d) \in Dirs  BY SkillDirFacts
  <2> QED BY <2>1, <2>2 DEF MemoryRoot
<1>2. from # NoDir => MemoryRoot(from, from) \in Dirs
  BY <1>1
<1> QED BY <1>1, <1>2 DEF SessionRoot

-----------------------------------------------------------------------------
(* What is read and written *)

\* Of rows that are replaced, one has the highest tier.
LEMMA TierIsOne ==
    ASSUME NEW asked \in {Unset} \cup DOMAIN Rank, NEW losers \in SUBSET Row,
           NEW indexed \in BOOLEAN
    PROVE  ResolveTier(asked, losers, indexed) \in DOMAIN Rank
<1> DEFINE tiers == {x.tier : x \in losers}
           Highest(t) == \A x \in losers : Rank[x.tier] <= Rank[t]
<1>1. DOMAIN Rank = {"core", "semantic", "episodic"}
      /\ Rank["core"] = 2 /\ Rank["semantic"] = 1 /\ Rank["episodic"] = 0
  BY DEF Rank
<1>2. \A x \in losers : x.tier \in DOMAIN Rank
  BY DEF Row
<1>3. CASE asked = Unset /\ losers # {}
  <2>1. \E t \in tiers : Highest(t)
    <3>1. CASE "core" \in tiers
      <4>1. Highest("core")  BY <1>1, <1>2
      <4> QED BY <3>1, <4>1
    <3>2. CASE "core" \notin tiers /\ "semantic" \in tiers
      <4>1. Highest("semantic")  BY <1>1, <1>2, <3>2
      <4> QED BY <3>2, <4>1
    <3>3. CASE "core" \notin tiers /\ "semantic" \notin tiers
      <4>1. \A x \in losers : x.tier = "episodic"  BY <1>1, <1>2, <3>3
      <4>2. Highest("episodic") /\ "episodic" \in tiers  BY <1>1, <1>3, <4>1
      <4> QED BY <4>2
    <3> QED BY <3>1, <3>2, <3>3
  <2>2. ResolveTier(asked, losers, indexed) = CHOOSE t \in tiers : Highest(t)
    BY <1>3, Zenon DEF ResolveTier
  <2>3. ResolveTier(asked, losers, indexed) \in tiers
    <3> HIDE DEF tiers, Highest
    <3> QED BY <2>1, <2>2, Zenon
  <2> QED BY <1>2, <2>3
<1>4. CASE ~(asked = Unset /\ losers # {})
  BY <1>1, <1>4 DEF ResolveTier
<1> QED BY <1>3, <1>4

LEMMA ScopeIsOne ==
    ASSUME NEW named, NEW c \in {NoDir} \cup Dirs, NEW r, NEW losers \in SUBSET Row,
           NEW global, NEW tier
    PROVE  ResolveScope(named, c, r, losers, global, tier) \in {NoDir} \cup Dirs
<1>1. losers # {} => Common({x.scope : x \in losers}) \in {NoDir} \cup Dirs
  <2>1. {x.scope : x \in losers} \subseteq {NoDir} \cup Dirs  BY DEF Row
  <2> QED BY <2>1, SharedIsThere
<1>2. \A d, e : IsValidFor(d, e) => d \in Dirs
  BY DEF IsValidFor
<1> QED BY <1>1, <1>2 DEF ResolveScope

LEMMA MergedIsRow ==
    ASSUME NEW x \in Row, NEW new \in Row
    PROVE  Merged(x, new) \in Row /\ MergedAcross(x, new) \in Row
<1>1. Merged(x, new) \in Row
  BY DEF Row, Merged
<1> QED BY <1>1 DEF Row, MergedAcross

\* What a list from this root is to show of this row.
Listed(root, x) ==
    (InSkill(root) \/ IsScopeDir(root)) /\ x.tier # "core" => ScopeAdmits(root, x.scope)

\* The scope a session's row takes is one that a list from its root admits.
LEMMA TakenIsListed ==
    ASSUME NEW root \in Dirs, NEW at \in Dirs, Under(at, root),
           InSkill(root) \/ IsScopeDir(root), NEW tier, tier # "core", NEW named
    PROVE  ScopeAdmits(root, ResolveScope(named, at, root, {}, FALSE, tier))
<1> DEFINE dir == Resolve(named, root)
           session == IF at # NoDir /\ IsScopeDir(at) THEN at ELSE NoDir
           scope == ResolveScope(named, at, root, {}, FALSE, tier)
<1>1. root # NoDir /\ at # NoDir /\ Dirs \subseteq Seq(Names)  BY ScopeAssumption
<1>2. (scope = dir /\ IsValidFor(dir, root)) \/ scope = session
  BY <1>1, Zenon DEF ResolveScope
<1>3. CASE InSkill(root)
  <2> DEFINE skill == SkillDir(root)
  <2>1. RecallScope(root) = [kind |-> "skill", dir |-> skill]
    BY <1>1, <1>3, Zenon DEF RecallScope, IsScopeDir
  <2>2. skill \in Dirs /\ Under(root, skill) /\ Under(skill, Skills) /\ skill # Skills
    BY <1>3, SkillDirFacts
  <2>3. Under(at, skill)
    BY <1>1, <2>2, UnderTransitive
  <2>4. InSkill(at)
    <3>1. Under(at, Skills)
      BY <1>1, <2>2, <2>3, EnginePlace, UnderTransitive
    <3>2. at # Skills
      BY <1>1, <2>2, <2>3, EnginePlace, UnderMeans, SameLengthSame
    <3> QED BY <3>1, <3>2, SkillDirFacts
  <2>5. session = at
    BY <1>1, <2>4 DEF IsScopeDir
  <2>6. scope \in Dirs /\ Under(scope, skill)
    BY <1>2, <1>3, <2>3, <2>5, Zenon DEF IsValidFor
  <2>7. scope # NoDir
    BY <2>6, ScopeAssumption
  <2> HIDE DEF scope, skill
  <2>8. ScopeAdmits(root, scope)
    BY <2>1, <2>6, <2>7 DEF ScopeAdmits
  <2> QED BY <2>8 DEF scope
<1>4. CASE ~InSkill(root)
  <2>1. RecallScope(root) = [kind |-> "owner", root |-> root, ancestors |-> Ancestors(root)]
    BY <1>1, <1>4, Zenon DEF RecallScope
  <2>2. scope = NoDir \/ Under(scope, root) \/ scope \in Ancestors(root)
    BY <1>2, <1>4, Zenon DEF IsValidFor
  <2> HIDE DEF scope
  <2>3. ScopeAdmits(root, scope)
    BY <2>1, <2>2 DEF ScopeAdmits
  <2> QED BY <2>3 DEF scope
<1> QED BY <1>3, <1>4

\* Where the session is, and what its host sends for it.
LEMMA SessionIsThere ==
    ASSUME ReadsTypes
    PROVE  cwd \in Dirs /\ Root \in Dirs
<1>1. start \in {NoDir} \cup Dirs /\ cwd \in Dirs
  BY ReadsAssumption DEF ReadsTypes
<1>2. Root = SessionRoot(start, cwd)
  BY Zenon DEF ReadsTypes, Root, Roots
<1> QED BY <1>1, <1>2, RootIsThere

\* The row that an add makes is one, and is listed where it will be sought.
LEMMA SaidIsRow ==
    ASSUME ReadsTypes, NEW s \in Saying, NEW replaced \in SUBSET Row, NEW tier \in DOMAIN Rank,
           NEW named
    PROVE  Said(s, named, replaced, tier) \in Row
<1> DEFINE sent(d) == IF s.stamped THEN d ELSE NoDir
           scope == ResolveScope(named, sent(cwd), sent(Root), replaced, s.global, tier)
<1>1. sent(cwd) \in {NoDir} \cup Dirs
  BY SessionIsThere
<1>2. scope \in {NoDir} \cup Dirs
  <2> HIDE DEF sent
  <2> QED BY <1>1, ScopeIsOne
<1>3. Said(s, named, replaced, tier) =
        [text |-> s.text, type |-> s.type, from |-> s.from, account |-> s.account,
         old |-> s.old, indexed |-> s.indexed /\ tier # "core", tier |-> tier,
         scope |-> scope]
  BY Zenon DEF Said
<1> HIDE DEF scope
<1> QED BY <1>2, <1>3 DEF Row, Saying

LEMMA SaidIsListed ==
    ASSUME ReadsTypes, NEW s \in Saying, NEW tier, NEW named, Sought(s, {}) # NoDir
    PROVE  Listed(Sought(s, {}), Said(s, named, {}, tier))
<1> DEFINE x == Said(s, named, {}, tier)
<1>1. s.stamped /\ ~s.global /\ Under(cwd, Root) /\ Sought(s, {}) = Root
  BY DEF Sought
<1>2. s.global = FALSE
  BY <1>1 DEF Saying
<1>3. x.tier = tier /\ x.scope = ResolveScope(named, IF s.stamped THEN cwd ELSE NoDir,
                             IF s.stamped THEN Root ELSE NoDir, {}, s.global, tier)
  BY DEF Said
<1>4. x.tier = tier /\ x.scope = ResolveScope(named, cwd, Root, {}, FALSE, tier)
  BY <1>1, <1>2, <1>3
<1> HIDE DEF x
<1>5. (InSkill(Root) \/ IsScopeDir(Root)) /\ tier # "core" => ScopeAdmits(Root, x.scope)
  BY <1>1, <1>4, SessionIsThere, TakenIsListed
<1> QED BY <1>1, <1>4, <1>5 DEF Listed, x

\* An add leaves a row where it was or gives a new one its place, a place where
\* the session that said so finds it.
Places(t, id, x, gone, root) ==
    /\ Becomes(t, id, x, gone, root)
    /\ \/ id \in In(t) /\ root = NoDir
       \/ id \in Fresh /\ (root # NoDir => Listed(root, x))

Placed ==
    \E t \in Tables, id \in RowIds, x \in Row, gone \in SUBSET RowIds,
       root \in {NoDir} \cup Dirs : Places(t, id, x, gone, root)

LEMMA EnterEffect ==
    ASSUME ReadsTypes, NEW new \in Row, NEW losers \in SUBSET RowIds,
           NEW root \in {NoDir} \cup Dirs, root # NoDir => Listed(root, new),
           Enter(new, losers, root)
    PROVE  Placed
<1> DEFINE t == TableOf(new.tier)
           across == Twins(Other(t), new, losers)
           lower == {id \in across : Rank[table[Other(t)][id].tier] < Rank[new.tier]}
           beside == Twins(t, new, losers)
<1>1. t \in Tables /\ Other(t) \in Tables
  BY DEF TableOf, Other, Tables
<1>2. across \subseteq In(Other(t)) /\ beside \subseteq In(t) /\ lower \subseteq RowIds
  BY DEF Twins, In
<1>3. \/ \E id \in across \ lower :
            Becomes(Other(t), id, MergedAcross(table[Other(t)][id], new), losers, NoDir)
      \/ \E drop \in IF across = {} THEN {{}} ELSE {{id} : id \in lower} :
            \/ \E id \in beside :
                 Becomes(t, id, Merged(table[t][id], new), drop \cup losers, NoDir)
            \/ /\ beside = {}
               /\ \E id \in Fresh : Becomes(t, id, new, drop \cup losers, root)
  BY Zenon DEF Enter
<1>4. (IF across = {} THEN {{}} ELSE {{id} : id \in lower}) \subseteq SUBSET RowIds
  BY <1>2
<1>5. \A u \in Tables : \A id \in In(u) : id \in RowIds /\ table[u][id] \in Row
  BY DEF In, ReadsTypes
<1> HIDE DEF t, across, lower, beside
<1>6. ASSUME NEW u \in Tables, NEW id \in In(u), NEW x \in Row, NEW gone \in SUBSET RowIds,
             Becomes(u, id, x, gone, NoDir)
      PROVE  Placed
  <2>1. Places(u, id, x, gone, NoDir)
    BY <1>6 DEF Places
  <2> QED BY <1>5, <2>1 DEF Placed
<1>7. ASSUME NEW id \in across \ lower,
             Becomes(Other(t), id, MergedAcross(table[Other(t)][id], new), losers, NoDir)
      PROVE  Placed
  <2>1. MergedAcross(table[Other(t)][id], new) \in Row
    BY <1>1, <1>2, <1>5, MergedIsRow
  <2> QED BY <1>1, <1>2, <1>6, <1>7, <2>1
<1>8. ASSUME NEW drop \in SUBSET RowIds, NEW id \in beside,
             Becomes(t, id, Merged(table[t][id], new), drop \cup losers, NoDir)
      PROVE  Placed
  <2>1. Merged(table[t][id], new) \in Row
    BY <1>1, <1>2, <1>5, MergedIsRow
  <2> QED BY <1>1, <1>2, <1>6, <1>8, <2>1
<1>9. ASSUME NEW drop \in SUBSET RowIds, NEW id \in Fresh,
             Becomes(t, id, new, drop \cup losers, root)
      PROVE  Placed
  <2>1. id \in RowIds /\ drop \cup losers \in SUBSET RowIds
    BY DEF Fresh
  <2>2. Places(t, id, new, drop \cup losers, root)
    BY <1>9 DEF Places
  <2> QED BY <1>1, <2>1, <2>2 DEF Placed
<1> QED BY <1>3, <1>4, <1>7, <1>8, <1>9

LEMMA AddEffect == ReadsTypes /\ Adding => Placed
<1> SUFFICES ASSUME ReadsTypes, Adding PROVE Placed
  OBVIOUS
<1> DEFINE names == {Blank} \cup {ShownFor(d) : d \in ShownDirs} \cup Named
<1>1. PICK s \in Sayings, losers \in SUBSET Stored : Add(s, names, losers)
  BY Zenon DEF Adding
<1> HIDE DEF names
<1> DEFINE replaced == {table[t][id] : t \in Tables, id \in losers} \ {NoRow}
           tier == ResolveTier(s.tier, replaced, s.indexed)
           new(named) == Said(s, named, replaced, tier)
           root == Sought(s, losers)
<1>2. s \in Saying /\ losers \in SUBSET RowIds
  BY <1>1, ReadsAssumption DEF Stored, In
<1>3. replaced \in SUBSET Row
  BY <1>2 DEF ReadsTypes
<1>4. PICK named \in names : Enter(new(named), losers, root)
  BY <1>1 DEF Add
<1>5. tier \in DOMAIN Rank
  <2>1. s.tier \in {Unset} \cup DOMAIN Rank /\ s.indexed \in BOOLEAN  BY <1>2 DEF Saying
  <2> HIDE DEF replaced
  <2> QED BY <1>3, <2>1, TierIsOne
<1>6. losers = {} => replaced = {}
  OBVIOUS
<1> HIDE DEF replaced, tier
<1>7. new(named) \in Row
  BY <1>2, <1>3, <1>5, SaidIsRow
<1>8. root # NoDir => Listed(root, new(named))
  <2>1. root # NoDir => losers = {}
    BY DEF Sought
  <2> QED BY <1>2, <1>6, <2>1, SaidIsListed
<1>9. root \in {NoDir} \cup Dirs
  BY SessionIsThere DEF Sought
<1> HIDE DEF new, root
<1> QED BY <1>2, <1>4, <1>7, <1>8, <1>9, EnterEffect

-----------------------------------------------------------------------------
(* What a step does *)

\* A request under which rows change.
Warned(a, ids) ==
    IF a.op \notin {"forget", "forgot"} THEN a ELSE [a EXCEPT !.touched = @ \cup ids]

LEMMA TouchedFacts ==
    ASSUME ReadsTypes, NEW ids \in SUBSET RowIds
    PROVE  /\ Touched(ids) \in [Calls -> Request]
           /\ \A c \in Calls : Touched(ids)[c] = Warned(call[c], ids)
<1>1. ASSUME NEW a \in Request PROVE Warned(a, ids) \in Request
  BY DEF Warned, Request
<1>2. Touched(ids) = [c \in Calls |-> Warned(call[c], ids)]
  BY DEF Touched, Warned
<1>3. \A c \in Calls : call[c] \in Request
  BY DEF ReadsTypes
<1> QED BY <1>1, <1>2, <1>3

LEMMA IdleFacts ==
    /\ Idle \in Request /\ Idle.op = "idle" /\ Idle.got = {}
    /\ Idle.touched = {} /\ Idle.cut = {}
BY DEF Idle, Request, Plain, Filter, Tables

\* Rows leave the store.
LEMMA WithoutFacts ==
    ASSUME ReadsTypes, NEW ids \in SUBSET RowIds
    PROVE  /\ Without(table, ids) \in [Tables -> [RowIds -> {NoRow} \cup Row]]
           /\ \A t \in Tables : \A id \in RowIds :
                 Without(table, ids)[t][id] = IF id \in ids THEN NoRow ELSE table[t][id]
           /\ Unfiled(ids) \in [RowIds -> {NoDir} \cup Dirs]
           /\ \A id \in RowIds : Unfiled(ids)[id] = IF id \in ids THEN NoDir ELSE filed[id]
BY DEF ReadsTypes, Without, Unfiled

\* A row takes its place, and others leave.
Moved(t, id, x, gone, root) ==
    /\ \A u \in Tables : \A i \in RowIds :
          table'[u][i] = IF i \in gone THEN NoRow
                         ELSE IF u = t /\ i = id THEN x ELSE table[u][i]
    /\ \A i \in RowIds :
          filed'[i] = IF i = id THEN root ELSE IF i \in gone THEN NoDir ELSE filed[i]

LEMMA BecomesFacts ==
    ASSUME ReadsTypes, NEW t \in Tables, NEW id \in RowIds, NEW x \in Row,
           NEW gone \in SUBSET RowIds, NEW root \in {NoDir} \cup Dirs,
           Becomes(t, id, x, gone, root)
    PROVE  /\ ReadsTypes' /\ Moved(t, id, x, gone, root)
           /\ call' = Touched({id} \cup gone)
           /\ UNCHANGED <<start, cwd, unlogged>>
<1>1. table' = Without(Put(t, id, x), gone) /\ call' = Touched({id} \cup gone)
      /\ filed' = [Unfiled(gone) EXCEPT ![id] = root] /\ UNCHANGED <<start, cwd, unlogged>>
  BY DEF Becomes
<1>2. Put(t, id, x) \in [Tables -> [RowIds -> {NoRow} \cup Row]]
  BY DEF Put, ReadsTypes
<1>3. \A u \in Tables : \A i \in RowIds :
          Put(t, id, x)[u][i] = IF u = t /\ i = id THEN x ELSE table[u][i]
  BY DEF Put, ReadsTypes
<1> DEFINE put == Put(t, id, x)
<1> HIDE DEF put
<1>4. table' = [u \in Tables |-> [i \in RowIds |-> IF i \in gone THEN NoRow ELSE put[u][i]]]
  BY <1>1 DEF Without, put
<1>5. table' \in [Tables -> [RowIds -> {NoRow} \cup Row]]
  BY <1>2, <1>4 DEF put
<1>6. \A u \in Tables : \A i \in RowIds :
          table'[u][i] = IF i \in gone THEN NoRow
                         ELSE IF u = t /\ i = id THEN x ELSE table[u][i]
  BY <1>3, <1>4 DEF put
<1>7. filed' \in [RowIds -> {NoDir} \cup Dirs]
      /\ \A i \in RowIds :
            filed'[i] = IF i = id THEN root ELSE IF i \in gone THEN NoDir ELSE filed[i]
  BY <1>1, WithoutFacts
<1>8. call' \in [Calls -> Request]
  BY <1>1, TouchedFacts
<1>9. start' \in Starts /\ cwd' \in Stands \cup (Starts \ {NoDir}) /\ unlogged' \subseteq RowIds
  BY <1>1 DEF ReadsTypes
<1>10. Moved(t, id, x, gone, root)
  BY <1>6, <1>7 DEF Moved
<1> QED BY <1>1, <1>5, <1>7, <1>8, <1>9, <1>10 DEF ReadsTypes

\* A request begins with nothing in hand.
Begun(c, op, ask, left) ==
    call' = [call EXCEPT ![c] = [Idle EXCEPT !.op = op, !.ask = ask, !.left = left]]

LEMMA BeginEffect ==
    ASSUME ReadsTypes, NEW c \in Calls, NEW op \in {"list", "search", "count", "index", "forget"},
           NEW ask \in Filter({Unset, "here"}) \cup Filter(Dirs), Begin(c, op, ask)
    PROVE  /\ ReadsTypes'
           /\ \E a \in Filter({Unset} \cup Dirs), left \in SUBSET Tables :
                 /\ Begun(c, op, a, left)
                 /\ a.table = ask.table /\ (op = "forget" => left = Among(ask))
           /\ UNCHANGED <<table, start, cwd, unlogged, filed>>
<1> DEFINE a == IF ask.root = "here" THEN [ask EXCEPT !.root = Root] ELSE ask
           left == IF op = "list" THEN ListTables(ask) ELSE Among(ask)
<1>1. Begun(c, op, a, left) /\ UNCHANGED <<table, start, cwd, unlogged, filed>>
  BY DEF Begin, Begun
<1>2. a \in Filter({Unset} \cup Dirs) /\ a.table = ask.table
  <2>1. Root \in Dirs  BY SessionIsThere
  <2> QED BY <2>1 DEF Filter
<1>3. left \in SUBSET Tables
  <2>1. ask.table \in {"both"} \cup Tables  BY DEF Filter
  <2> QED BY <2>1 DEF ListTables, Among, Tables
<1>4. [Idle EXCEPT !.op = op, !.ask = a, !.left = left] \in Request
  <2> HIDE DEF a, left
  <2> QED BY <1>2, <1>3, IdleFacts DEF Request
<1>5. ReadsTypes'
  <2> HIDE DEF a, left
  <2> QED BY <1>1, <1>4 DEF ReadsTypes, Begun
<1>6. op = "forget" => left = Among(ask)
  OBVIOUS
<1> HIDE DEF a, left
<1> QED BY <1>1, <1>2, <1>3, <1>5, <1>6

LEMMA BeginKeepsTypes ==
    ASSUME ReadsTypes, NEW c \in Calls,
           \/ \E op \in {"list", "search", "count"}, ask \in Asks : Begin(c, op, ask)
           \/ BeginIndex(c)
           \/ \E ask \in Purges : BeginForget(c, ask)
    PROVE  ReadsTypes'
<1>1. Asks \cup Purges \subseteq Filter({Unset, "here"})
  BY ReadsAssumption
<1>2. ASSUME NEW op \in {"list", "search", "count"}, NEW ask \in Asks, Begin(c, op, ask)
      PROVE  ReadsTypes'
  BY <1>1, <1>2, BeginEffect
<1>3. ASSUME BeginIndex(c) PROVE ReadsTypes'
  <2>1. [Plain EXCEPT !.root = cwd] \in Filter(Dirs)
    BY SessionIsThere DEF Plain, Filter
  <2>2. Begin(c, "index", [Plain EXCEPT !.root = cwd])
    BY <1>3 DEF BeginIndex
  <2> QED BY <2>1, <2>2, BeginEffect
<1>4. ASSUME NEW ask \in Purges, BeginForget(c, ask) PROVE ReadsTypes'
  BY <1>1, <1>4, BeginEffect DEF BeginForget
<1> QED BY <1>2, <1>3, <1>4

LEMMA ReadKeepsTypes ==
    ASSUME ReadsTypes, NEW c \in Calls, Read(c)
    PROVE  ReadsTypes'
<1>1. PICK t \in call[c].left :
        call' = [call EXCEPT ![c].left = @ \ {t}, ![c].got = @ \cup Found(call[c], t)]
  BY DEF Read
<1>2. call[c] \in Request /\ t \in Tables
  BY DEF ReadsTypes, Request
<1>3. Found(call[c], t) \subseteq [id : RowIds, table : Tables, row : Row]
  BY <1>2 DEF Found, Hit, In, ReadsTypes
<1>4. [call[c] EXCEPT !.left = @ \ {t}, !.got = @ \cup Found(call[c], t)] \in Request
  BY <1>2, <1>3 DEF Request
<1>5. call' = [call EXCEPT ![c] = [call[c] EXCEPT !.left = @ \ {t},
                                                  !.got = @ \cup Found(call[c], t)]]
  BY <1>1, <1>2 DEF Request, ReadsTypes
<1>6. call' \in [Calls -> Request]
  BY <1>4, <1>5 DEF ReadsTypes
<1> QED BY <1>6 DEF ReadsTypes, Read

\* A request that wiped: what it found gone is what it cut.
LEMMA WipeEffect ==
    ASSUME ReadsTypes, NEW c \in Calls, Wipe(c)
    PROVE  LET ask == call[c].ask
               gone == {id \in In(ask.table) : SqlAdmits(Ageless(ask), table[ask.table][id])}
           IN  /\ ReadsTypes'
               /\ gone \in SUBSET RowIds
               /\ call[c].op = "forget" /\ call[c].left = {} /\ ask.from = Unset
               /\ table' = Without(table, gone) /\ filed' = Unfiled(gone)
               /\ call'[c] = [call[c] EXCEPT !.op = "forgot", !.cut = gone]
               /\ \A d \in Calls \ {c} : call'[d] = Warned(call[d], gone)
               /\ unlogged' = unlogged \cup (gone \ {h.id : h \in call[c].got})
<1> DEFINE ask == call[c].ask
           gone == {id \in In(ask.table) : SqlAdmits(Ageless(ask), table[ask.table][id])}
           mine == [call[c] EXCEPT !.op = "forgot", !.cut = gone]
<1>1. gone \in SUBSET RowIds
  BY DEF In
<1>2. /\ call[c].op = "forget" /\ call[c].left = {} /\ ask.from = Unset
      /\ table' = Without(table, gone) /\ filed' = Unfiled(gone)
      /\ call' = [Touched(gone) EXCEPT ![c] = mine]
      /\ unlogged' = unlogged \cup (gone \ {h.id : h \in call[c].got})
      /\ UNCHANGED <<start, cwd>>
  BY DEF Wipe
<1> HIDE DEF gone
<1>3. mine \in Request
  BY <1>1 DEF ReadsTypes, Request
<1> HIDE DEF mine
<1>4. /\ call' \in [Calls -> Request] /\ call'[c] = mine
      /\ \A d \in Calls \ {c} : call'[d] = Warned(call[d], gone)
  <2>1. /\ Touched(gone) \in [Calls -> Request]
        /\ \A d \in Calls : Touched(gone)[d] = Warned(call[d], gone)
    BY <1>1, TouchedFacts
  <2> QED BY <1>2, <1>3, <2>1
<1>5. table' \in [Tables -> [RowIds -> {NoRow} \cup Row]]
      /\ filed' \in [RowIds -> {NoDir} \cup Dirs]
  BY <1>1, <1>2, WithoutFacts
<1>6. start' \in Starts /\ cwd' \in Stands \cup (Starts \ {NoDir}) /\ unlogged' \subseteq RowIds
  BY <1>1, <1>2 DEF ReadsTypes
<1>7. ReadsTypes'
  BY <1>4, <1>5, <1>6 DEF ReadsTypes
<1> QED BY <1>1, <1>2, <1>4, <1>7 DEF gone, mine

\* A request that forgets takes a row of those it found, or is done.
Removed(c, h) ==
    /\ \A t \in Tables : \A id \in RowIds :
          table'[t][id] = IF t = h.table /\ id = h.id THEN NoRow ELSE table[t][id]
    /\ \A id \in RowIds : filed'[id] = IF id = h.id THEN NoDir ELSE filed[id]
    /\ call'[c] = [call[c] EXCEPT !.cut = @ \cup {h.id}]
    /\ \A d \in Calls \ {c} : call'[d] = Warned(call[d], {h.id})

LEMMA VictimEffect ==
    ASSUME ReadsTypes, NEW c \in Calls, RemoveVictim(c)
    PROVE  /\ ReadsTypes'
           /\ call[c].op = "forget" /\ call[c].left = {} /\ call[c].ask.from # Unset
           /\ unlogged' = unlogged
           /\ \/ \E h \in call[c].got : h.id \notin call[c].cut /\ Removed(c, h)
              \/ /\ \A h \in call[c].got : h.id \in call[c].cut
                 /\ call' = [call EXCEPT ![c].op = "forgot"]
                 /\ UNCHANGED <<table, filed>>
<1>1. /\ call[c].op = "forget" /\ call[c].left = {} /\ call[c].ask.from # Unset
      /\ UNCHANGED <<start, cwd, unlogged>>
  BY DEF RemoveVictim
<1>2. call[c] \in Request
  BY DEF ReadsTypes
<1>3. ASSUME NEW h \in call[c].got, h.id \notin call[c].cut,
             table' = Put(h.table, h.id, NoRow), filed' = Unfiled({h.id}),
             call' = [Touched({h.id}) EXCEPT ![c] = [call[c] EXCEPT !.cut = @ \cup {h.id}]]
      PROVE  ReadsTypes' /\ Removed(c, h)
  <2>1. h.id \in RowIds /\ h.table \in Tables
    BY <1>2 DEF Request
  <2>2. /\ table' \in [Tables -> [RowIds -> {NoRow} \cup Row]]
        /\ \A t \in Tables : \A id \in RowIds :
              table'[t][id] = IF t = h.table /\ id = h.id THEN NoRow ELSE table[t][id]
    BY <1>3, <2>1 DEF Put, ReadsTypes
  <2>3. /\ filed' \in [RowIds -> {NoDir} \cup Dirs]
        /\ \A id \in RowIds : filed'[id] = IF id = h.id THEN NoDir ELSE filed[id]
    BY <1>3, <2>1, WithoutFacts
  <2> DEFINE mine == [call[c] EXCEPT !.cut = @ \cup {h.id}]
  <2>4. mine \in Request
    BY <1>2, <2>1 DEF Request
  <2> HIDE DEF mine
  <2>5. /\ call' \in [Calls -> Request] /\ call'[c] = mine
        /\ \A d \in Calls \ {c} : call'[d] = Warned(call[d], {h.id})
    <3>1. /\ Touched({h.id}) \in [Calls -> Request]
          /\ \A d \in Calls : Touched({h.id})[d] = Warned(call[d], {h.id})
      BY <2>1, TouchedFacts
    <3>2. call' = [Touched({h.id}) EXCEPT ![c] = mine]
      BY <1>3 DEF mine
    <3> QED BY <2>4, <3>1, <3>2
  <2>6. ReadsTypes'
    BY <1>1, <2>2, <2>3, <2>5 DEF ReadsTypes
  <2> QED BY <2>2, <2>3, <2>5, <2>6 DEF mine, Removed
<1>4. ASSUME \A h \in call[c].got : h.id \in call[c].cut,
             call' = [call EXCEPT ![c].op = "forgot"], UNCHANGED <<table, filed>>
      PROVE  ReadsTypes'
  <2>1. [call[c] EXCEPT !.op = "forgot"] \in Request
    BY <1>2 DEF Request
  <2>2. call' = [call EXCEPT ![c] = [call[c] EXCEPT !.op = "forgot"]]
    BY <1>4, <1>2 DEF ReadsTypes, Request
  <2> QED BY <1>1, <1>4, <2>1, <2>2 DEF ReadsTypes
<1>5. \/ \E h \in call[c].got :
            /\ h.id \notin call[c].cut /\ table' = Put(h.table, h.id, NoRow)
            /\ filed' = Unfiled({h.id})
            /\ call' = [Touched({h.id}) EXCEPT ![c] = [call[c] EXCEPT !.cut = @ \cup {h.id}]]
      \/ /\ \A h \in call[c].got : h.id \in call[c].cut
         /\ call' = [call EXCEPT ![c].op = "forgot"]
         /\ UNCHANGED <<table, filed>>
  BY DEF RemoveVictim
<1> QED BY <1>1, <1>3, <1>4, <1>5

LEMMA DeleteEffect ==
    ASSUME ReadsTypes, NEW id \in RowIds, Delete(id)
    PROVE  /\ ReadsTypes'
           /\ table' = Without(table, {id}) /\ filed' = Unfiled({id})
           /\ call' = Touched({id}) /\ unlogged' = unlogged
<1>1. /\ table' = Without(table, {id}) /\ filed' = Unfiled({id})
      /\ call' = Touched({id}) /\ UNCHANGED <<start, cwd, unlogged>>
  BY DEF Delete
<1>2. table' \in [Tables -> [RowIds -> {NoRow} \cup Row]]
      /\ filed' \in [RowIds -> {NoDir} \cup Dirs]
  BY <1>1, WithoutFacts
<1>3. call' \in [Calls -> Request]
  BY <1>1, TouchedFacts
<1> QED BY <1>1, <1>2, <1>3 DEF ReadsTypes

LEMMA InitReads == ReadsInit => ReadsTypes
<1> SUFFICES ASSUME ReadsInit PROVE ReadsTypes
  OBVIOUS
<1>1. cwd \in Stands \cup (Starts \ {NoDir}) /\ start \in Starts
  BY DEF ReadsInit
<1>2. call \in [Calls -> Request]
  BY IdleFacts DEF ReadsInit
<1> QED BY <1>1, <1>2 DEF ReadsInit, ReadsTypes

LEMMA StepKeepsReads == ReadsTypes /\ [ReadsNext]_readsVars => ReadsTypes'
<1> SUFFICES ASSUME ReadsTypes, [ReadsNext]_readsVars PROVE ReadsTypes'
  OBVIOUS
<1>1. CASE Cd
  BY <1>1 DEF Cd, ReadsTypes
<1>2. CASE Adding
  BY <1>2, AddEffect, BecomesFacts DEF Placed, Places
<1>3. ASSUME NEW id \in RowIds, Delete(id) PROVE ReadsTypes'
  BY <1>3, DeleteEffect
<1>4. ASSUME NEW c \in Calls,
             \/ \E op \in {"list", "search", "count"}, ask \in Asks : Begin(c, op, ask)
             \/ BeginIndex(c)
             \/ \E ask \in Purges : BeginForget(c, ask)
      PROVE  ReadsTypes'
  BY <1>4, BeginKeepsTypes
<1>5. ASSUME NEW c \in Calls, Read(c) PROVE ReadsTypes'
  BY <1>5, ReadKeepsTypes
<1>6. ASSUME NEW c \in Calls, Reply(c) PROVE ReadsTypes'
  BY <1>6, IdleFacts DEF Reply, ReadsTypes
<1>7. ASSUME NEW c \in Calls, Wipe(c) PROVE ReadsTypes'
  BY <1>7, WipeEffect
<1>8. ASSUME NEW c \in Calls, RemoveVictim(c) PROVE ReadsTypes'
  BY <1>8, VictimEffect
<1>9. CASE UNCHANGED readsVars
  BY <1>9 DEF readsVars, ReadsTypes
<1> QED BY <1>1, <1>2, <1>3, <1>4, <1>5, <1>6, <1>7, <1>8, <1>9 DEF ReadsNext

\* The session stands where it may, every row and every request in progress is
\* one, and a directory that is filed or asked for is there.
THEOREM SessionTypes == ReadsSpec => []ReadsTypes
BY InitReads, StepKeepsReads, PTL DEF ReadsSpec

-----------------------------------------------------------------------------
(* What was written is listed *)

Findable ==
    \A t \in Tables : \A id \in RowIds :
        table[t][id] # NoRow /\ filed[id] # NoDir => Listed(filed[id], table[t][id])

LEMMA LeavingKeepsFindable ==
    ASSUME Findable,
           \A t \in Tables : \A id \in RowIds : table'[t][id] \in {NoRow, table[t][id]},
           \A id \in RowIds : filed'[id] \in {NoDir, filed[id]}
    PROVE  Findable'
BY DEF Findable

LEMMA AddKeepsFindable ==
    ASSUME ReadsTypes, Findable, Adding
    PROVE  Findable'
<1>1. PICK t \in Tables, id \in RowIds, x \in Row, gone \in SUBSET RowIds,
           root \in {NoDir} \cup Dirs : Places(t, id, x, gone, root)
  BY AddEffect DEF Placed
<1>2. Moved(t, id, x, gone, root)
  <2>1. Becomes(t, id, x, gone, root)  BY <1>1 DEF Places
  <2> QED BY <2>1, BecomesFacts
<1>3. \/ id \in In(t) /\ root = NoDir
      \/ id \in Fresh /\ (root # NoDir => Listed(root, x))
  BY <1>1 DEF Places
<1>4. id \in Fresh => \A u \in Tables : table[u][id] = NoRow
  BY DEF Fresh, Stored, In, Tables
<1> SUFFICES ASSUME NEW u \in Tables, NEW i \in RowIds,
                    table'[u][i] # NoRow, filed'[i] # NoDir
             PROVE  Listed(filed'[i], table'[u][i])
  BY DEF Findable, Listed
<1>5. CASE i = id
  <2>1. root # NoDir /\ id \in Fresh /\ Listed(root, x)
    BY <1>2, <1>3, <1>5 DEF Moved
  <2>2. u = t /\ table'[u][i] = x /\ filed'[i] = root
    BY <1>2, <1>4, <1>5, <2>1 DEF Moved
  <2> QED BY <2>1, <2>2
<1>6. CASE i # id
  BY <1>2, <1>6 DEF Findable, Moved
<1> QED BY <1>5, <1>6

LEMMA StepKeepsFindable ==
    ReadsTypes /\ Findable /\ [ReadsNext]_readsVars => Findable'
<1> SUFFICES ASSUME ReadsTypes, Findable, [ReadsNext]_readsVars PROVE Findable'
  OBVIOUS
<1>1. CASE UNCHANGED <<table, filed>>
  BY <1>1, LeavingKeepsFindable
<1>2. CASE Adding
  BY <1>2, AddKeepsFindable
<1>3. ASSUME NEW gone \in SUBSET RowIds, table' = Without(table, gone), filed' = Unfiled(gone)
      PROVE  Findable'
  <2>1. /\ \A t \in Tables : \A id \in RowIds :
              table'[t][id] = IF id \in gone THEN NoRow ELSE table[t][id]
        /\ \A id \in RowIds : filed'[id] = IF id \in gone THEN NoDir ELSE filed[id]
    BY <1>3, WithoutFacts
  <2> QED BY <2>1, LeavingKeepsFindable
<1>4. ASSUME NEW id \in RowIds, Delete(id) PROVE Findable'
  BY <1>3, <1>4, DeleteEffect
<1>5. ASSUME NEW c \in Calls, Wipe(c) PROVE Findable'
  <2>1. PICK gone \in SUBSET RowIds : table' = Without(table, gone) /\ filed' = Unfiled(gone)
    BY <1>5, WipeEffect
  <2> QED BY <1>3, <2>1
<1>6. ASSUME NEW c \in Calls, RemoveVictim(c) PROVE Findable'
  <2>1. CASE UNCHANGED <<table, filed>>
    BY <2>1, LeavingKeepsFindable
  <2>2. CASE ~UNCHANGED <<table, filed>>
    <3>1. PICK h \in call[c].got : Removed(c, h)
      BY <1>6, <2>2, VictimEffect
    <3> QED BY <3>1, LeavingKeepsFindable DEF Removed
  <2> QED BY <2>1, <2>2
<1>7. ASSUME NEW c \in Calls,
             \/ \E op \in {"list", "search", "count"}, ask \in Asks : Begin(c, op, ask)
             \/ BeginIndex(c)
             \/ \E ask \in Purges : BeginForget(c, ask)
             \/ Read(c) \/ Reply(c)
      PROVE  Findable'
  BY <1>1, <1>7 DEF Begin, BeginIndex, BeginForget, Read, Reply
<1>8. CASE Cd
  BY <1>1, <1>8 DEF Cd
<1>9. CASE UNCHANGED readsVars
  BY <1>1, <1>9 DEF readsVars
<1> QED BY <1>2, <1>4, <1>5, <1>6, <1>7, <1>8, <1>9 DEF ReadsNext

\* What a session wrote of its own accord, a list from its root shows, however it
\* moved, whatever was merged into it and went: a place a row may take is one
\* that the root admits.
THEOREM WrittenStaysListed == ReadsSpec => []WrittenIsListed
<1>1. ReadsInit => Findable
  BY DEF ReadsInit, Findable
<1>2. Findable => WrittenIsListed
  BY DEF Findable, WrittenIsListed, Listed, In
<1> QED BY <1>1, <1>2, StepKeepsFindable, SessionTypes, PTL DEF ReadsSpec

-----------------------------------------------------------------------------
(* A bulk delete *)

\* Is this row of those that are to go?
Asked(ask, x) == SqlAdmits(Ageless(ask), x) /\ (ask.from # Unset => x.from = ask.from)

IdsOf(hits) == {h.id : h \in hits}

\* What a bulk delete has read, beside the rows as they are: it found every row
\* that was asked for, and as it is; at its end it has cut them all.
HasFound(a, rows) ==
    /\ \A h \in a.got : h.id \notin a.touched \cup a.cut => rows[h.id] = h.row
    /\ \A id \in RowIds \ a.touched :
          rows[id] # NoRow /\ Asked(a.ask, rows[id]) => id \in IdsOf(a.got)

HasCut(a, rows) ==
    /\ \A h \in a.got : h.id \in a.touched \cup a.cut
    /\ \A id \in RowIds \ a.touched : rows[id] # NoRow => ~Asked(a.ask, rows[id])

\* And what it cut is gone, recorded, and of what it found.
Held(a, tb, un) ==
    a.op \in {"forget", "forgot"} =>
        /\ a.ask.table \in Tables /\ a.left \subseteq {a.ask.table}
        /\ \A h \in a.got : h.table = a.ask.table /\ Asked(a.ask, h.row)
        /\ \A id \in a.cut \ a.touched :
              id \in IdsOf(a.got) /\ id \notin un /\ \A t \in Tables : tb[t][id] = NoRow
        /\ a.op = "forget" /\ (a.left # {} \/ a.ask.from = Unset) => a.cut = {}
        /\ a.op = "forget" /\ a.left # {} => a.got = {}
        /\ a.op = "forget" /\ a.left = {} => HasFound(a, tb[a.ask.table])
        /\ a.op = "forgot" => HasCut(a, tb[a.ask.table])

\* An id is of one row; none that left unlogged is there.
Single ==
    \A id \in RowIds :
        /\ table["semantic"][id] = NoRow \/ table["episodic"][id] = NoRow
        /\ id \in unlogged => \A t \in Tables : table[t][id] = NoRow

Exactly == ReadsTypes /\ Single /\ \A c \in Calls : Held(call[c], table, unlogged)

\* A request is told of the rows that change under it.
LEMMA WarnedHeld ==
    ASSUME NEW a \in Request, NEW tb, NEW now, NEW un, NEW after, NEW ids \in SUBSET RowIds,
           Held(a, tb, un), after \subseteq un \cup ids,
           \A t \in Tables : \A id \in RowIds \ ids : now[t][id] = tb[t][id]
    PROVE  Held(Warned(a, ids), now, after)
<1>1. CASE a.op \notin {"forget", "forgot"}
  BY <1>1 DEF Held, Warned
<1>2. CASE a.op \in {"forget", "forgot"}
  <2> DEFINE b == Warned(a, ids)
  <2>1. /\ b.op = a.op /\ b.ask = a.ask /\ b.left = a.left /\ b.got = a.got /\ b.cut = a.cut
        /\ b.touched = a.touched \cup ids
    BY <1>2 DEF Warned, Request
  <2>2. a.ask.table \in Tables /\ a.cut \subseteq RowIds
    BY <1>2 DEF Held, Request
  <2>3. \A h \in a.got : h.id \in RowIds
    BY DEF Request
  <2> HIDE DEF b
  <2>4. HasFound(a, tb[a.ask.table]) => HasFound(b, now[a.ask.table])
    BY <2>1, <2>2, <2>3 DEF HasFound
  <2>5. HasCut(a, tb[a.ask.table]) => HasCut(b, now[a.ask.table])
    BY <2>1, <2>2 DEF HasCut
  <2>6. \A id \in b.cut \ b.touched :
           id \in IdsOf(b.got) /\ id \notin after /\ \A t \in Tables : now[t][id] = NoRow
    BY <1>2, <2>1, <2>2 DEF Held
  <2>7. Held(b, now, after)
    BY <1>2, <2>1, <2>4, <2>5, <2>6 DEF Held
  <2> QED BY <2>7 DEF b
<1> QED BY <1>1, <1>2

\* What a bulk delete's query asks is what was asked for.
LEMMA AdmitsAsked ==
    ASSUME NEW f \in Filter({Unset} \cup Dirs), NEW x \in Row
    PROVE  /\ Admits(Ageless(f), x) <=> Asked(f, x)
           /\ f.from = Unset => (SqlAdmits(Ageless(f), x) <=> Asked(f, x))
<1>1. Ageless(f).from = f.from
  BY DEF Ageless, Filter
<1>2. OriginAdmits(Ageless(f), x) <=> (f.from # Unset => x.from = f.from)
  BY <1>1 DEF OriginAdmits
<1> QED BY <1>2 DEF Admits, Asked

LEMMA AddKeepsExactly ==
    ASSUME Exactly, Adding
    PROVE  Exactly'
<1>0. ReadsTypes /\ Single /\ \A c \in Calls : Held(call[c], table, unlogged)
  BY DEF Exactly
<1>1. PICK t \in Tables, id \in RowIds, x \in Row, gone \in SUBSET RowIds,
           root \in {NoDir} \cup Dirs : Places(t, id, x, gone, root)
  BY <1>0, AddEffect DEF Placed
<1>2. /\ Moved(t, id, x, gone, root) /\ ReadsTypes'
      /\ call' = Touched({id} \cup gone) /\ unlogged' = unlogged
  <2>1. Becomes(t, id, x, gone, root)  BY <1>1 DEF Places
  <2> QED BY <1>0, <2>1, BecomesFacts
<1>3. /\ id \notin unlogged
      /\ \A u \in Tables : u # t => table[u][id] = NoRow
  <2>1. CASE id \in In(t)
    <3>1. table[t][id] # NoRow  BY <2>1 DEF In
    <3> QED BY <1>0, <3>1 DEF Single, Tables
  <2>2. CASE id \in Fresh
    BY <2>2 DEF Fresh, Stored, In, Tables
  <2> QED BY <1>1, <2>1, <2>2 DEF Places
<1>4. Single'
  <2> SUFFICES ASSUME NEW i \in RowIds
               PROVE  /\ table'["semantic"][i] = NoRow \/ table'["episodic"][i] = NoRow
                      /\ i \in unlogged' => \A u \in Tables : table'[u][i] = NoRow
    BY Zenon DEF Single
  <2>1. "semantic" \in Tables /\ "episodic" \in Tables
    BY DEF Tables
  <2>2. CASE i = id
    BY <1>2, <1>3, <2>1, <2>2 DEF Moved
  <2>3. CASE i # id
    <3>1. \A u \in Tables : table'[u][i] \in {NoRow, table[u][i]}
      BY <1>2, <2>3 DEF Moved
    <3> QED BY <1>0, <1>2, <2>1, <3>1 DEF Single
  <2> QED BY <2>2, <2>3
<1>5. ASSUME NEW c \in Calls PROVE Held(call'[c], table', unlogged')
  <2>1. call[c] \in Request /\ {id} \cup gone \in SUBSET RowIds
    BY <1>0 DEF ReadsTypes
  <2>2. call'[c] = Warned(call[c], {id} \cup gone)
    BY <1>0, <1>2, <2>1, TouchedFacts
  <2>3. \A u \in Tables : \A i \in RowIds \ ({id} \cup gone) : table'[u][i] = table[u][i]
    BY <1>2 DEF Moved
  <2> QED BY <1>0, <1>2, <2>1, <2>2, <2>3, WarnedHeld
<1> QED BY <1>2, <1>4, <1>5 DEF Exactly

LEMMA DeleteKeepsExactly ==
    ASSUME Exactly, NEW id \in RowIds, Delete(id)
    PROVE  Exactly'
<1>0. ReadsTypes /\ Single /\ \A c \in Calls : Held(call[c], table, unlogged)
  BY DEF Exactly
<1>1. ReadsTypes' /\ table' = Without(table, {id}) /\ call' = Touched({id}) /\ unlogged' = unlogged
  BY <1>0, DeleteEffect
<1>2. \A t \in Tables : \A i \in RowIds :
        table'[t][i] = IF i \in {id} THEN NoRow ELSE table[t][i]
  BY <1>0, <1>1, WithoutFacts
<1>3. Single'
  BY <1>0, <1>1, <1>2 DEF Single, Tables
<1>4. ASSUME NEW c \in Calls PROVE Held(call'[c], table', unlogged')
  <2>1. call[c] \in Request
    BY <1>0 DEF ReadsTypes
  <2>2. call'[c] = Warned(call[c], {id})
    BY <1>0, <1>1, TouchedFacts
  <2>3. \A t \in Tables : \A i \in RowIds \ {id} : table'[t][i] = table[t][i]
    BY <1>2
  <2>4. {id} \in SUBSET RowIds /\ unlogged' \subseteq unlogged \cup {id}
    BY <1>1
  <2> DEFINE ids == {id}
  <2> HIDE DEF ids
  <2>5. Held(Warned(call[c], ids), table', unlogged')
    BY <1>0, <2>1, <2>3, <2>4, WarnedHeld DEF ids
  <2> QED BY <2>2, <2>5 DEF ids
<1> QED BY <1>1, <1>3, <1>4 DEF Exactly

\* A request that has not to do with bulk deletes holds, and one that begins.
LEMMA OthersHold ==
    ASSUME NEW a, a.op \notin {"forget", "forgot"}, NEW tb, NEW un
    PROVE  Held(a, tb, un)
BY DEF Held

LEMMA BeginKeepsExactly ==
    ASSUME Exactly, NEW c \in Calls,
           \/ \E op \in {"list", "search", "count"}, ask \in Asks : Begin(c, op, ask)
           \/ BeginIndex(c)
           \/ \E ask \in Purges : BeginForget(c, ask)
    PROVE  Exactly'
<1>0. ReadsTypes /\ Single /\ \A d \in Calls : Held(call[d], table, unlogged)
  BY DEF Exactly
<1>1. PICK op \in {"list", "search", "count", "index", "forget"},
           ask \in Filter({Unset, "here"}) \cup Filter(Dirs) :
           Begin(c, op, ask) /\ (op = "forget" => ask.table # "both")
  <2>1. Asks \cup Purges \subseteq Filter({Unset, "here"})
    BY ReadsAssumption
  <2>2. ASSUME BeginIndex(c) PROVE Begin(c, "index", [Plain EXCEPT !.root = cwd])
    BY <2>2 DEF BeginIndex
  <2>3. [Plain EXCEPT !.root = cwd] \in Filter(Dirs)
    BY <1>0, SessionIsThere DEF Plain, Filter
  <2>4. ASSUME NEW ask \in Purges, BeginForget(c, ask)
        PROVE  Begin(c, "forget", ask) /\ ask.table # "both"
    BY <2>4 DEF BeginForget
  <2> QED BY <2>1, <2>2, <2>3, <2>4
<1>2. ReadsTypes' /\ UNCHANGED <<table, start, cwd, unlogged, filed>>
  BY <1>0, <1>1, BeginEffect
<1>3. PICK a \in Filter({Unset} \cup Dirs), left \in SUBSET Tables :
        /\ Begun(c, op, a, left)
        /\ a.table = ask.table /\ (op = "forget" => left = Among(ask))
  BY <1>0, <1>1, BeginEffect
<1> DEFINE new == [Idle EXCEPT !.op = op, !.ask = a, !.left = left]
<1>4. /\ new.op = op /\ new.ask = a /\ new.left = left /\ new.got = {} /\ new.touched = {}
      /\ new.cut = {}
  BY IdleFacts DEF Request
<1>5. call' = [call EXCEPT ![c] = new]
  BY <1>3 DEF Begun
<1> HIDE DEF new
<1>6. Held(new, table, unlogged)
  <2>1. CASE op # "forget"
    BY <1>1, <1>4, <2>1, OthersHold
  <2>2. CASE op = "forget"
    <3>1. a.table \in Tables /\ left = {a.table}
      BY <1>1, <1>3, <2>2 DEF Filter, Among
    <3> QED BY <1>4, <2>2, <3>1 DEF Held
  <2> QED BY <2>1, <2>2
<1>7. \A d \in Calls : Held(call'[d], table', unlogged')
  BY <1>0, <1>2, <1>5, <1>6 DEF ReadsTypes
<1>8. Single'
  BY <1>0, <1>2 DEF Single
<1> QED BY <1>2, <1>7, <1>8 DEF Exactly

LEMMA ReadKeepsExactly ==
    ASSUME Exactly, NEW c \in Calls, Read(c)
    PROVE  Exactly'
<1>0. ReadsTypes /\ Single /\ \A d \in Calls : Held(call[d], table, unlogged)
  BY DEF Exactly
<1>1. ReadsTypes' /\ UNCHANGED <<table, unlogged>>
  BY <1>0, ReadKeepsTypes DEF Read
<1> DEFINE a == call[c]
<1>2. PICK t \in a.left :
        call' = [call EXCEPT ![c].left = @ \ {t}, ![c].got = @ \cup Found(a, t)]
  BY DEF Read
<1>3. a \in Request /\ a.op \in {"list", "search", "count", "index", "forget"}
  BY <1>0 DEF ReadsTypes, Read
<1> DEFINE b == [a EXCEPT !.left = @ \ {t}, !.got = @ \cup Found(a, t)]
<1>4. /\ b.op = a.op /\ b.ask = a.ask /\ b.left = a.left \ {t} /\ b.got = a.got \cup Found(a, t)
      /\ b.touched = a.touched /\ b.cut = a.cut
  BY <1>3 DEF Request
<1>5. call' = [call EXCEPT ![c] = b]
  BY <1>0, <1>2, <1>3 DEF ReadsTypes, Request
<1> HIDE DEF b
<1>6. Held(b, table, unlogged)
  <2>1. CASE a.op # "forget"
    BY <1>3, <1>4, <2>1, OthersHold
  <2>2. CASE a.op = "forget"
    <3>1. /\ t = a.ask.table /\ t \in Tables /\ a.got = {} /\ a.cut = {} /\ b.left = {}
      BY <1>0, <1>2, <1>4, <2>2 DEF Held
    <3>2. \A id \in RowIds : table[t][id] # NoRow => table[t][id] \in Row
      BY <1>0, <3>1 DEF ReadsTypes
    <3>3. a.ask \in Filter({Unset} \cup Dirs)
      BY <1>3 DEF Request
    <3>4. \A x : Wants(a, x) <=> Admits(Ageless(a.ask), x)
      BY <2>2 DEF Wants
    <3>5. b.got = {Hit(t, id) : id \in {i \in RowIds : table[t][i] # NoRow /\ Asked(a.ask, table[t][i])}}
      <4>1. \A i \in RowIds : table[t][i] # NoRow =>
               (Wants(a, table[t][i]) <=> Asked(a.ask, table[t][i]))
        BY <3>2, <3>3, <3>4, AdmitsAsked
      <4>2. {i \in In(t) : Wants(a, table[t][i])}
              = {i \in RowIds : table[t][i] # NoRow /\ Asked(a.ask, table[t][i])}
        BY <4>1 DEF In
      <4>3. b.got = Found(a, t)
        BY <1>4, <3>1
      <4> QED BY <4>2, <4>3 DEF Found
    <3>6. \A h \in b.got : h.table = t /\ Asked(a.ask, h.row) /\ table[t][h.id] = h.row
      BY <3>5 DEF Hit
    <3>7. ASSUME NEW id \in RowIds, table[t][id] # NoRow, Asked(a.ask, table[t][id])
          PROVE  id \in IdsOf(b.got)
      <4>1. Hit(t, id) \in b.got
        BY <3>5, <3>7
      <4>2. Hit(t, id).id = id
        BY DEF Hit
      <4> QED BY <4>1, <4>2 DEF IdsOf
    <3>8. HasFound(b, table[t])
      BY <1>4, <3>6, <3>7 DEF HasFound
    <3> QED BY <1>4, <2>2, <3>1, <3>6, <3>8 DEF Held
  <2> QED BY <2>1, <2>2
<1>7. \A d \in Calls : Held(call'[d], table', unlogged')
  BY <1>0, <1>1, <1>5, <1>6 DEF ReadsTypes
<1>8. Single'
  BY <1>0, <1>1 DEF Single
<1> QED BY <1>1, <1>7, <1>8 DEF Exactly

LEMMA WipeKeepsExactly ==
    ASSUME Exactly, NEW c \in Calls, Wipe(c)
    PROVE  Exactly'
<1>0. ReadsTypes /\ Single /\ \A d \in Calls : Held(call[d], table, unlogged)
  BY DEF Exactly
<1> DEFINE a == call[c]
           t == a.ask.table
           gone == {id \in In(t) : SqlAdmits(Ageless(a.ask), table[t][id])}
<1>1. /\ ReadsTypes' /\ gone \in SUBSET RowIds
      /\ a.op = "forget" /\ a.left = {} /\ a.ask.from = Unset
      /\ table' = Without(table, gone)
      /\ call'[c] = [a EXCEPT !.op = "forgot", !.cut = gone]
      /\ \A d \in Calls \ {c} : call'[d] = Warned(call[d], gone)
      /\ unlogged' = unlogged \cup (gone \ {h.id : h \in a.got})
  BY <1>0, WipeEffect
<1>2. a \in Request /\ a.ask \in Filter({Unset} \cup Dirs)
  BY <1>0 DEF ReadsTypes, Request
<1>3. /\ t \in Tables /\ a.cut = {} /\ HasFound(a, table[t])
      /\ \A h \in a.got : h.table = t /\ Asked(a.ask, h.row)
  BY <1>0, <1>1 DEF Held
<1>4. \A id \in RowIds : table[t][id] # NoRow => table[t][id] \in Row
  BY <1>0, <1>3 DEF ReadsTypes
<1>5. \A id \in RowIds : id \in gone <=> table[t][id] # NoRow /\ Asked(a.ask, table[t][id])
  <2> TAKE id \in RowIds
  <2>1. table[t][id] # NoRow =>
          (SqlAdmits(Ageless(a.ask), table[t][id]) <=> Asked(a.ask, table[t][id]))
    BY <1>1, <1>2, <1>4, AdmitsAsked
  <2> QED BY <2>1 DEF In
<1> DEFINE b == [a EXCEPT !.op = "forgot", !.cut = gone]
<1> HIDE DEF gone
<1>6. /\ b.op = "forgot" /\ b.ask = a.ask /\ b.left = a.left /\ b.got = a.got
      /\ b.touched = a.touched /\ b.cut = gone
  BY <1>2 DEF Request
<1> HIDE DEF b
<1>7. \A u \in Tables : \A i \in RowIds :
        table'[u][i] = IF i \in gone THEN NoRow ELSE table[u][i]
  BY <1>0, <1>1, WithoutFacts
<1>8. \A id \in gone : id \notin unlogged
  BY <1>0, <1>1, <1>3, <1>5 DEF Single
<1>9. Single'
  <2> SUFFICES ASSUME NEW i \in RowIds
               PROVE  /\ table'["semantic"][i] = NoRow \/ table'["episodic"][i] = NoRow
                      /\ i \in unlogged' => \A u \in Tables : table'[u][i] = NoRow
    BY Zenon DEF Single
  <2>1. "semantic" \in Tables /\ "episodic" \in Tables
    BY DEF Tables
  <2>2. CASE i \in gone
    BY <1>7, <2>1, <2>2
  <2>3. CASE i \notin gone
    <3>1. i \in unlogged' => i \in unlogged
      BY <1>1, <2>3
    <3> QED BY <1>0, <1>7, <2>1, <2>3, <3>1 DEF Single
  <2> QED BY <2>2, <2>3
<1>10. Held(b, table', unlogged')
  <2>1. \A h \in a.got : h.id \in a.touched \cup gone
    <3> TAKE h \in a.got
    <3>1. h.id \in RowIds /\ h.row \in Row
      BY <1>2 DEF Request
    <3>2. CASE h.id \notin a.touched
      <4>1. table[t][h.id] = h.row /\ Asked(a.ask, h.row)
        BY <1>3, <3>2 DEF HasFound
      <4> QED BY <1>5, <3>1, <4>1, ReadsAssumption
    <3> QED BY <3>2
  <2>2. \A id \in RowIds \ a.touched : table'[t][id] # NoRow => ~Asked(a.ask, table'[t][id])
    BY <1>3, <1>5, <1>7
  <2>3. HasCut(b, table'[t])
    BY <1>6, <2>1, <2>2 DEF HasCut
  <2>4. \A id \in gone \ a.touched :
           id \in IdsOf(a.got) /\ id \notin unlogged' /\ \A u \in Tables : table'[u][id] = NoRow
    <3> TAKE id \in gone \ a.touched
    <3>1. id \in RowIds
      BY <1>1
    <3>2. id \in IdsOf(a.got)
      BY <1>3, <1>5, <3>1 DEF HasFound
    <3>3. id \notin unlogged'
      BY <1>1, <1>8, <3>2 DEF IdsOf
    <3> QED BY <1>7, <3>1, <3>2, <3>3
  <2> QED BY <1>1, <1>3, <1>6, <2>3, <2>4 DEF Held
<1>11. ASSUME NEW d \in Calls PROVE Held(call'[d], table', unlogged')
  <2>1. CASE d = c
    BY <1>1, <1>10, <2>1 DEF b
  <2>2. CASE d # c
    <3>1. call[d] \in Request
      BY <1>0 DEF ReadsTypes
    <3>2. call'[d] = Warned(call[d], gone)
      BY <1>1, <2>2
    <3>3. unlogged' \subseteq unlogged \cup gone
      BY <1>1
    <3>4. \A u \in Tables : \A i \in RowIds \ gone : table'[u][i] = table[u][i]
      BY <1>7
    <3> QED BY <1>0, <1>1, <3>1, <3>2, <3>3, <3>4, WarnedHeld
  <2> QED BY <2>1, <2>2
<1> QED BY <1>1, <1>9, <1>11 DEF Exactly

LEMMA RemoveKeepsExactly ==
    ASSUME Exactly, NEW c \in Calls, RemoveVictim(c)
    PROVE  Exactly'
<1>0. ReadsTypes /\ Single /\ \A d \in Calls : Held(call[d], table, unlogged)
  BY DEF Exactly
<1> DEFINE a == call[c]
           t == a.ask.table
<1>1. /\ ReadsTypes' /\ unlogged' = unlogged
      /\ a.op = "forget" /\ a.left = {} /\ a.ask.from # Unset
      /\ \/ \E h \in a.got : h.id \notin a.cut /\ Removed(c, h)
         \/ /\ \A h \in a.got : h.id \in a.cut
            /\ call' = [call EXCEPT ![c].op = "forgot"]
            /\ UNCHANGED <<table, filed>>
  BY <1>0, VictimEffect
<1>2. a \in Request
  BY <1>0 DEF ReadsTypes
<1>3. /\ t \in Tables /\ HasFound(a, table[t])
      /\ \A h \in a.got : h.table = t /\ Asked(a.ask, h.row)
      /\ \A id \in a.cut \ a.touched :
            id \in IdsOf(a.got) /\ id \notin unlogged /\ \A u \in Tables : table[u][id] = NoRow
  BY <1>0, <1>1 DEF Held
<1>4. ASSUME NEW h \in a.got, h.id \notin a.cut, Removed(c, h)
      PROVE  Exactly'
  <2>1. h.id \in RowIds /\ h.row \in Row /\ h.table = t
    BY <1>2, <1>3 DEF Request
  <2>2. \A u \in Tables : \A i \in RowIds :
          table'[u][i] = IF u = t /\ i = h.id THEN NoRow ELSE table[u][i]
    BY <1>4, <2>1 DEF Removed
  <2>3. Single'
    <3>1. \A u \in Tables : \A i \in RowIds : table'[u][i] \in {NoRow, table[u][i]}
      BY <2>2
    <3> QED BY <1>0, <1>1, <3>1 DEF Single, Tables
  <2> DEFINE b == [a EXCEPT !.cut = @ \cup {h.id}]
  <2>4. /\ b.op = a.op /\ b.ask = a.ask /\ b.left = a.left /\ b.got = a.got
        /\ b.touched = a.touched /\ b.cut = a.cut \cup {h.id}
    BY <1>2 DEF Request
  <2> HIDE DEF b
  <2>5. h.id \notin a.touched =>
          h.id \in IdsOf(a.got) /\ h.id \notin unlogged /\ \A u \in Tables : table'[u][h.id] = NoRow
    <3> SUFFICES ASSUME h.id \notin a.touched
                 PROVE  /\ h.id \in IdsOf(a.got) /\ h.id \notin unlogged
                        /\ \A u \in Tables : table'[u][h.id] = NoRow
      OBVIOUS
    <3>1. table[t][h.id] = h.row /\ h.row # NoRow
      BY <1>3, <1>4, <2>1, ReadsAssumption DEF HasFound
    <3>2. h.id \notin unlogged
      BY <1>0, <1>3, <2>1, <3>1 DEF Single
    <3>3. \A u \in Tables : u # t => table[u][h.id] = NoRow
      BY <1>0, <1>3, <2>1, <3>1 DEF Single, Tables
    <3>4. h.id \in IdsOf(a.got)
      BY DEF IdsOf
    <3> QED BY <2>1, <2>2, <3>2, <3>3, <3>4
  <2>6. HasFound(b, table'[t])
    <3>1. \A g \in b.got : g.id \notin b.touched \cup b.cut => table'[t][g.id] = g.row
      <4> TAKE g \in b.got
      <4>1. g.id \in RowIds
        BY <1>2, <2>4 DEF Request
      <4> QED BY <1>3, <2>2, <2>4, <4>1 DEF HasFound
    <3>2. ASSUME NEW id \in RowIds \ b.touched, table'[t][id] # NoRow, Asked(b.ask, table'[t][id])
          PROVE  id \in IdsOf(b.got)
      <4>1. table'[t][id] = table[t][id]
        BY <1>3, <2>2, <3>2
      <4> QED BY <1>3, <2>4, <3>2, <4>1 DEF HasFound
    <3> QED BY <3>1, <3>2 DEF HasFound
  <2>7. \A id \in b.cut \ b.touched :
          id \in IdsOf(b.got) /\ id \notin unlogged' /\ \A u \in Tables : table'[u][id] = NoRow
    <3> TAKE id \in b.cut \ b.touched
    <3>1. CASE id = h.id
      BY <1>1, <2>4, <2>5, <3>1
    <3>2. CASE id # h.id
      <4>1. id \in a.cut \ a.touched /\ id \in RowIds
        BY <1>2, <2>4, <3>2 DEF Request
      <4> QED BY <1>1, <1>3, <2>2, <2>4, <4>1
    <3> QED BY <3>1, <3>2
  <2>8. Held(b, table', unlogged')
    BY <1>1, <1>3, <2>4, <2>6, <2>7 DEF Held
  <2>9. ASSUME NEW d \in Calls PROVE Held(call'[d], table', unlogged')
    <3>1. CASE d = c
      BY <1>4, <2>8, <3>1 DEF Removed, b
    <3>2. CASE d # c
      <4> DEFINE ids == {h.id}
      <4>1. call[d] \in Request
        BY <1>0 DEF ReadsTypes
      <4>2. call'[d] = Warned(call[d], ids)
        BY <1>4, <3>2 DEF Removed
      <4>3. ids \in SUBSET RowIds /\ unlogged' \subseteq unlogged \cup ids
        BY <1>1, <2>1
      <4>4. \A u \in Tables : \A i \in RowIds \ ids : table'[u][i] = table[u][i]
        BY <2>2
      <4> HIDE DEF ids
      <4> QED BY <1>0, <4>1, <4>2, <4>3, <4>4, WarnedHeld
    <3> QED BY <3>1, <3>2
  <2> QED BY <1>1, <2>3, <2>9 DEF Exactly
<1>5. ASSUME \A h \in a.got : h.id \in a.cut, call' = [call EXCEPT ![c].op = "forgot"],
             UNCHANGED <<table, filed>>
      PROVE  Exactly'
  <2> DEFINE b == [a EXCEPT !.op = "forgot"]
  <2>1. /\ b.op = "forgot" /\ b.ask = a.ask /\ b.left = a.left /\ b.got = a.got
        /\ b.touched = a.touched /\ b.cut = a.cut
    BY <1>2 DEF Request
  <2>2. call' = [call EXCEPT ![c] = b]
    BY <1>0, <1>2, <1>5 DEF ReadsTypes, Request
  <2> HIDE DEF b
  <2>3. \A id \in RowIds \ a.touched : table[t][id] # NoRow => ~Asked(a.ask, table[t][id])
    <3> SUFFICES ASSUME NEW id \in RowIds \ a.touched, table[t][id] # NoRow,
                        Asked(a.ask, table[t][id])
                 PROVE  FALSE
      OBVIOUS
    <3>1. id \in IdsOf(a.got)
      BY <1>3 DEF HasFound
    <3>2. id \in a.cut
      BY <1>5, <3>1 DEF IdsOf
    <3> QED BY <1>3, <3>2
  <2>4. HasCut(b, table[t])
    BY <1>5, <2>1, <2>3 DEF HasCut
  <2>5. Held(b, table, unlogged)
    BY <1>1, <1>3, <2>1, <2>4 DEF Held
  <2>6. \A d \in Calls : Held(call'[d], table', unlogged')
    BY <1>0, <1>1, <1>5, <2>2, <2>5 DEF ReadsTypes
  <2>7. Single'
    BY <1>0, <1>1, <1>5 DEF Single
  <2> QED BY <1>1, <2>6, <2>7 DEF Exactly
<1> QED BY <1>1, <1>4, <1>5

LEMMA StepKeepsExactly == Exactly /\ [ReadsNext]_readsVars => Exactly'
<1> SUFFICES ASSUME Exactly, [ReadsNext]_readsVars PROVE Exactly'
  OBVIOUS
<1>0. ReadsTypes /\ Single /\ \A d \in Calls : Held(call[d], table, unlogged)
  BY DEF Exactly
<1>1. CASE UNCHANGED <<table, call, unlogged>>
  <2>1. ReadsTypes'
    BY <1>0, StepKeepsReads
  <2> QED BY <1>0, <1>1, <2>1 DEF Exactly, Single
<1>2. CASE Adding
  BY <1>2, AddKeepsExactly
<1>3. ASSUME NEW id \in RowIds, Delete(id) PROVE Exactly'
  BY <1>3, DeleteKeepsExactly
<1>4. ASSUME NEW c \in Calls,
             \/ \E op \in {"list", "search", "count"}, ask \in Asks : Begin(c, op, ask)
             \/ BeginIndex(c)
             \/ \E ask \in Purges : BeginForget(c, ask)
      PROVE  Exactly'
  BY <1>4, BeginKeepsExactly
<1>5. ASSUME NEW c \in Calls, Read(c) PROVE Exactly'
  BY <1>5, ReadKeepsExactly
<1>6. ASSUME NEW c \in Calls, Reply(c) PROVE Exactly'
  <2>1. call' = [call EXCEPT ![c] = Idle] /\ UNCHANGED <<table, unlogged>>
    BY <1>6 DEF Reply
  <2>2. Held(Idle, table, unlogged)
    BY IdleFacts, OthersHold
  <2>3. \A d \in Calls : Held(call'[d], table', unlogged')
    BY <1>0, <2>1, <2>2 DEF ReadsTypes
  <2>4. ReadsTypes' /\ Single'
    BY <1>0, <2>1, StepKeepsReads DEF Single
  <2> QED BY <2>3, <2>4 DEF Exactly
<1>7. ASSUME NEW c \in Calls, Wipe(c) PROVE Exactly'
  BY <1>7, WipeKeepsExactly
<1>8. ASSUME NEW c \in Calls, RemoveVictim(c) PROVE Exactly'
  BY <1>8, RemoveKeepsExactly
<1>9. CASE Cd
  BY <1>1, <1>9 DEF Cd
<1>10. CASE UNCHANGED readsVars
  BY <1>1, <1>10 DEF readsVars
<1> QED BY <1>2, <1>3, <1>4, <1>5, <1>6, <1>7, <1>8, <1>9, <1>10 DEF ReadsNext

LEMMA ExactlySuffices == Exactly => ForgetExact
<1> SUFFICES ASSUME Exactly, NEW c \in Calls, call[c].op = "forgot"
             PROVE  LET a == call[c]
                        asked(x) == SqlAdmits(Ageless(a.ask), x)
                                      /\ (a.ask.from # Unset => x.from = a.ask.from)
                    IN  /\ \A h \in a.got : h.id \notin a.touched => h.id \in a.cut /\ asked(h.row)
                        /\ \A id \in In(a.ask.table) \ a.touched : ~asked(table[a.ask.table][id])
                        /\ a.cut \ a.touched \subseteq {h.id : h \in a.got} \ unlogged
  BY Zenon DEF ForgetExact
<1> DEFINE a == call[c]
<1>1. Held(a, table, unlogged)
  BY DEF Exactly
<1>2. \A h \in a.got : h.id \notin a.touched => h.id \in a.cut /\ Asked(a.ask, h.row)
  BY <1>1 DEF Held, HasCut
<1>3. \A id \in In(a.ask.table) \ a.touched : ~Asked(a.ask, table[a.ask.table][id])
  BY <1>1 DEF Held, HasCut, In
<1>4. a.cut \ a.touched \subseteq {h.id : h \in a.got} \ unlogged
  BY <1>1 DEF Held, IdsOf
<1> QED BY <1>2, <1>3, <1>4 DEF Asked

\* A bulk delete cuts what was asked for and nothing else, and each row it cut
\* has its line in the change log, whatever was added, merged and deleted between
\* its queries and its removals: of the rows that nobody else changed meanwhile.
THEOREM ForgetStaysExact == ReadsSpec => []ForgetExact
<1>1. ReadsInit => Exactly
  <2> SUFFICES ASSUME ReadsInit PROVE Exactly
    OBVIOUS
  <2>1. ReadsTypes
    BY InitReads
  <2>2. Single
    BY DEF ReadsInit, Single, Tables
  <2>3. \A c \in Calls : call[c] = Idle
    BY DEF ReadsInit
  <2>4. \A c \in Calls : Held(call[c], table, unlogged)
    BY <2>3, IdleFacts, OthersHold
  <2> QED BY <2>1, <2>2, <2>4 DEF Exactly
<1> QED BY <1>1, StepKeepsExactly, ExactlySuffices, PTL DEF ReadsSpec

-----------------------------------------------------------------------------
(* Apps stay apart *)

\* What a read has found is what it is after.
Wanting(a) ==
    a.op \in {"list", "search", "index"} => \A h \in a.got : Wants(a, h.row)

AllWanting == \A c \in Calls : Wanting(call[c])

LEMMA WarnedWanting ==
    ASSUME NEW a \in Request, Wanting(a), NEW ids
    PROVE  Wanting(Warned(a, ids))
<1>1. CASE a.op \in {"forget", "forgot"}
  <2>1. Warned(a, ids).op = a.op
    BY <1>1 DEF Warned, Request
  <2> QED BY <1>1, <2>1 DEF Wanting
<1>2. CASE a.op \notin {"forget", "forgot"}
  BY <1>2 DEF Warned
<1> QED BY <1>1, <1>2

LEMMA ReadKeepsWanting ==
    ASSUME ReadsTypes, AllWanting, NEW c \in Calls, Read(c)
    PROVE  AllWanting'
<1> DEFINE a == call[c]
<1>1. PICK t \in a.left :
        call' = [call EXCEPT ![c].left = @ \ {t}, ![c].got = @ \cup Found(a, t)]
  BY DEF Read
<1>2. a \in Request
  BY DEF ReadsTypes
<1> DEFINE b == [a EXCEPT !.left = @ \ {t}, !.got = @ \cup Found(a, t)]
<1>3. b.op = a.op /\ b.ask = a.ask /\ b.got = a.got \cup Found(a, t)
  BY <1>2 DEF Request
<1>4. call' = [call EXCEPT ![c] = b]
  BY <1>1, <1>2 DEF ReadsTypes, Request
<1> HIDE DEF b
<1>5. \A x : Wants(b, x) <=> Wants(a, x)
  BY <1>3 DEF Wants
<1>6. \A h \in Found(a, t) : Wants(a, h.row)
  BY DEF Found, Hit
<1>7. Wanting(b)
  BY <1>3, <1>5, <1>6 DEF Wanting, AllWanting
<1> QED BY <1>4, <1>7 DEF AllWanting, ReadsTypes

LEMMA StepKeepsWanting ==
    ReadsTypes /\ AllWanting /\ [ReadsNext]_readsVars => AllWanting'
<1> SUFFICES ASSUME ReadsTypes, AllWanting, [ReadsNext]_readsVars PROVE AllWanting'
  OBVIOUS
<1>0. \A c \in Calls : call[c] \in Request
  BY DEF ReadsTypes
<1>1. ASSUME NEW ids, \A c \in Calls : call'[c] = Warned(call[c], ids) PROVE AllWanting'
  BY <1>0, <1>1, WarnedWanting DEF AllWanting
<1>2. CASE Adding
  <2>1. PICK t \in Tables, id \in RowIds, x \in Row, gone \in SUBSET RowIds,
             root \in {NoDir} \cup Dirs : Places(t, id, x, gone, root)
    BY <1>2, AddEffect DEF Placed
  <2>2. call' = Touched({id} \cup gone)
    BY <2>1 DEF Places, Becomes
  <2>3. \A c \in Calls : call'[c] = Warned(call[c], {id} \cup gone)
    BY <2>2, TouchedFacts
  <2> QED BY <1>1, <2>3
<1>3. ASSUME NEW id \in RowIds, Delete(id) PROVE AllWanting'
  <2>1. call' = Touched({id})
    BY <1>3, DeleteEffect
  <2>2. \A c \in Calls : call'[c] = Warned(call[c], {id})
    BY <2>1, TouchedFacts
  <2> QED BY <1>1, <2>2
<1>4. ASSUME NEW c \in Calls, NEW op, NEW ask, Begin(c, op, ask) PROVE AllWanting'
  <2>1. PICK a, left : call' = [call EXCEPT ![c] = [Idle EXCEPT !.op = op, !.ask = a, !.left = left]]
    BY <1>4, Zenon DEF Begin
  <2> DEFINE new == [Idle EXCEPT !.op = op, !.ask = a, !.left = left]
  <2>2. new.got = {}
    BY DEF Idle
  <2> HIDE DEF new
  <2>3. Wanting(new)
    BY <2>2 DEF Wanting
  <2>4. call' = [call EXCEPT ![c] = new]
    BY <2>1 DEF new
  <2> QED BY <2>3, <2>4 DEF AllWanting, ReadsTypes
<1>5. ASSUME NEW c \in Calls, Read(c) PROVE AllWanting'
  BY <1>5, ReadKeepsWanting
<1>6. ASSUME NEW c \in Calls, Reply(c) PROVE AllWanting'
  <2>1. call' = [call EXCEPT ![c] = Idle] /\ Wanting(Idle)
    BY <1>6, IdleFacts DEF Reply, Wanting
  <2> QED BY <2>1 DEF AllWanting, ReadsTypes
<1>7. ASSUME NEW c \in Calls, NEW ids \in SUBSET RowIds, call'[c].op \in {"forget", "forgot"},
             \A d \in Calls \ {c} : call'[d] = Warned(call[d], ids)
      PROVE  AllWanting'
  <2>1. Wanting(call'[c])
    BY <1>7 DEF Wanting
  <2>2. \A d \in Calls \ {c} : Wanting(call'[d])
    BY <1>0, <1>7, WarnedWanting DEF AllWanting
  <2> QED BY <2>1, <2>2 DEF AllWanting
<1>8. ASSUME NEW c \in Calls, Wipe(c) PROVE AllWanting'
  <2>1. PICK gone \in SUBSET RowIds :
                    /\ call'[c] = [call[c] EXCEPT !.op = "forgot", !.cut = gone]
                    /\ \A d \in Calls \ {c} : call'[d] = Warned(call[d], gone)
    BY <1>8, WipeEffect
  <2>2. call'[c].op = "forgot"
    BY <1>0, <2>1 DEF Request
  <2> QED BY <1>7, <2>1, <2>2
<1>9. ASSUME NEW c \in Calls, RemoveVictim(c) PROVE AllWanting'
  <2>0. call[c].op = "forget"
    BY <1>9, VictimEffect
  <2>1. ASSUME NEW h \in call[c].got, Removed(c, h) PROVE AllWanting'
    <3>1. call'[c].op = "forget"
      BY <1>0, <2>0, <2>1 DEF Removed, Request
    <3>2. h.id \in RowIds /\ \A d \in Calls \ {c} : call'[d] = Warned(call[d], {h.id})
      BY <1>0, <2>1 DEF Removed, Request
    <3> QED BY <1>7, <3>1, <3>2
  <2>2. ASSUME call' = [call EXCEPT ![c].op = "forgot"] PROVE AllWanting'
    <3>1. call'[c].op = "forgot" /\ \A d \in Calls \ {c} : call'[d] = call[d]
      BY <1>0, <2>2 DEF ReadsTypes, Request
    <3> QED BY <3>1 DEF AllWanting, Wanting
  <2> QED BY <1>9, <2>1, <2>2, VictimEffect
<1>10. CASE UNCHANGED call
  BY <1>10 DEF AllWanting
<1>11. CASE Cd
  BY <1>10, <1>11 DEF Cd
<1>12. CASE UNCHANGED readsVars
  BY <1>10, <1>12 DEF readsVars
<1>13. ASSUME NEW c \in Calls,
              \/ \E op \in {"list", "search", "count"}, ask \in Asks : Begin(c, op, ask)
              \/ BeginIndex(c)
              \/ \E ask \in Purges : BeginForget(c, ask)
       PROVE  AllWanting'
  <2>1. \E op, ask : Begin(c, op, ask)
    BY <1>13, Zenon DEF BeginIndex, BeginForget
  <2> QED BY <1>4, <2>1
<1> QED BY <1>2, <1>3, <1>5, <1>6, <1>8, <1>9, <1>11, <1>12, <1>13 DEF ReadsNext

\* A skill's session may see its own rows only.
LEMMA SkillSeesItsOwn ==
    ASSUME NEW root \in Dirs, InSkill(root), NEW scope \in {NoDir} \cup Dirs,
           ScopeAdmits(root, scope) \/ scope \in IndexChain(root)
    PROVE  scope # NoDir /\ Under(scope, SkillDir(root))
<1>1. root # NoDir /\ root \in Seq(Names)  BY ScopeAssumption
<1>2. CASE ScopeAdmits(root, scope)
  <2>1. RecallScope(root) = [kind |-> "skill", dir |-> SkillDir(root)]
    BY <1>1, Zenon DEF RecallScope, IsScopeDir
  <2> QED BY <1>2, <2>1 DEF ScopeAdmits
<1>3. CASE scope \in IndexChain(root)
  <2>1. scope \in Above(root) \cup {root} /\ Under(scope, SkillDir(root))
    BY <1>3, Zenon DEF IndexChain
  <2>2. scope \in Dirs
    BY <2>1, ScopeAssumption
  <2> QED BY <2>1, <2>2, ScopeAssumption
<1> QED BY <1>2, <1>3

\* A directory that is in a skill's, or is one's, is below the engine's.
LEMMA SkillsAreEngine ==
    ASSUME NEW p \in Seq(Names), Under(p, Skills)
    PROVE  Under(p, Engine)
BY EnginePlace, UnderTransitive

\* Where a row may be, above a directory that is no skill's, there is no app's row.
LEMMA NoAppAbove ==
    ASSUME NEW root \in Dirs, ~InSkill(root), NEW a \in Above(root) \cup {root}, IsScopeDir(a)
    PROVE  ~Under(a, Skills)
<1>1. root \in Seq(Names) /\ Dirs \subseteq Seq(Names)  BY ScopeAssumption
<1>2. a \in Dirs /\ Under(root, a)
  <2>1. CASE a = root
    BY <1>1, <2>1, UnderItself
  <2>2. CASE a \in Above(root)
    BY <1>1, <2>2, AboveMeans, ScopeAssumption
  <2> QED BY <2>1, <2>2
<1> SUFFICES ASSUME Under(a, Skills) PROVE FALSE
  OBVIOUS
<1>3. InSkill(a)
  BY <1>1, <1>2, SkillsAreEngine DEF IsScopeDir
<1>4. a # Skills
  BY <1>2, <1>3, SkillDirFacts
<1>5. Under(root, Skills)
  BY <1>1, <1>2, EnginePlace, UnderTransitive
<1>6. root # Skills
  BY <1>1, <1>2, <1>4, EnginePlace, UnderMeans, SameLengthSame
<1> QED BY <1>5, <1>6, SkillDirFacts

\* Any other session sees an app's row only from a root that has home below it.
LEMMA AppSeenFromAbove ==
    ASSUME NEW root \in Dirs, ~InSkill(root), NEW scope \in Dirs, Under(scope, Skills),
           ScopeAdmits(root, scope)
    PROVE  Under(Home, root)
<1>1. root # NoDir /\ scope # NoDir /\ root \in Seq(Names) /\ scope \in Seq(Names)
  BY ScopeAssumption
<1>2. IsScopeDir(root)
  <2> SUFFICES ASSUME ~IsScopeDir(root) PROVE FALSE
    OBVIOUS
  <2>1. RecallScope(root) = [kind |-> "none"]
    BY <1>1, Zenon DEF RecallScope
  <2>2. RecallScope(root).kind = "none"
    BY <2>1
  <2>3. scope = NoDir
    BY <2>2 DEF ScopeAdmits
  <2> QED BY <1>1, <2>3
<1>3. RecallScope(root) = [kind |-> "owner", root |-> root, ancestors |-> Ancestors(root)]
  BY <1>1, <1>2, Zenon DEF RecallScope
<1>4. Under(scope, root) \/ scope \in Ancestors(root)
  BY <1>1, <1>3 DEF ScopeAdmits
<1>5. scope \notin Ancestors(root)
  BY NoAppAbove DEF Ancestors
<1>6. Under(Skills, root)
  <2>1. Under(Skills, root) \/ Under(root, Skills)
    BY <1>1, <1>4, <1>5, EnginePlace, UnderCompares
  <2>2. ~Under(root, Skills)
    BY <1>2, NoAppAbove
  <2> QED BY <2>1, <2>2
<1>7. ~Under(root, Engine)
  BY <1>2 DEF IsScopeDir
<1>8. Len(root) <= Len(Home)
  <2>1. Under(Engine, root)
    BY <1>1, <1>6, <1>7, EnginePlace, UnderCompares
  <2>2. Len(root) # Len(Engine)
    BY <1>1, <1>7, <2>1, EnginePlace, SameLengthSame, UnderItself
  <2> QED BY <1>1, <2>1, <2>2, EnginePlace, UnderMeans
<1>9. Under(Skills, Home)
  BY EnginePlace, UnderTransitive
<1>10. Under(Home, root) \/ Under(root, Home)
  BY <1>1, <1>6, <1>9, EnginePlace, UnderCompares
<1> QED BY <1>1, <1>8, <1>10, EnginePlace, SameLengthSame, UnderItself

LEMMA PoolIsFound ==
    ASSUME NEW got, \A h \in got : h.table \in Tables
    PROVE  Pool(got) \subseteq got
<1> DEFINE Best(h, same) == h.table = "semantic" \/ \A g \in same : g.table = "episodic"
           kept(same) == CHOOSE h \in same : Best(h, same)
<1>1. ASSUME NEW g \in got PROVE kept({h \in got : h.row.text = g.row.text}) \in got
  <2> DEFINE same == {h \in got : h.row.text = g.row.text}
  <2>1. \E h \in same : Best(h, same)
    <3>1. g \in same /\ \A h \in same : h.table \in {"semantic", "episodic"}
      BY DEF Tables
    <3> QED BY <3>1
  <2>2. same \subseteq got
    OBVIOUS
  <2> HIDE DEF same, Best
  <2>3. kept(same) \in same
    BY <2>1, Zenon
  <2> QED BY <2>2, <2>3 DEF same
<1>2. Pool(got) = {kept({h \in got : h.row.text = x}) : x \in {h.row.text : h \in got}}
  BY Zenon DEF Pool
<1> HIDE DEF kept
<1> QED BY <1>1, <1>2

\* What a row of an answer is to be, of the request's root.
LEMMA AnswersApart ==
    ASSUME NEW a \in Request, Wanting(a), a.op \in {"list", "search", "index"},
           a.ask.root \in Dirs, a.ask.root # Unset, NEW h \in a.got
    PROVE  IF InSkill(a.ask.root)
           THEN h.row.scope # NoDir /\ Under(h.row.scope, SkillDir(a.ask.root))
           ELSE OfAnApp(h.row) => a.op = "list" /\ Under(Home, a.ask.root)
<1> DEFINE root == a.ask.root
           x == h.row
<1>1. x \in Row /\ x.scope \in {NoDir} \cup Dirs /\ root # NoDir
  BY ScopeAssumption DEF Request, Row
<1>2. Wants(a, x)
  BY DEF Wanting
<1>3. Ageless(a.ask).root = root
  BY DEF Request, Filter, Ageless
<1>4. CASE a.op = "list"
  <2>1. ScopeAdmits(root, x.scope)
    BY <1>2, <1>4 DEF Wants, Admits, SqlAdmits
  <2>2. InSkill(root) => x.scope # NoDir /\ Under(x.scope, SkillDir(root))
    BY <1>1, <2>1, SkillSeesItsOwn
  <2>3. ~InSkill(root) /\ OfAnApp(x) => Under(Home, root)
    BY <1>1, <2>1, AppSeenFromAbove DEF OfAnApp
  <2> QED BY <1>4, <2>2, <2>3
<1>5. CASE a.op = "index"
  <2>1. x.scope \in IndexChain(root)
    BY <1>2, <1>5 DEF Wants
  <2>2. InSkill(root) => x.scope # NoDir /\ Under(x.scope, SkillDir(root))
    BY <1>1, <2>1, SkillSeesItsOwn
  <2>3. ~InSkill(root) => ~OfAnApp(x)
    <3> SUFFICES ASSUME ~InSkill(root), x.scope # NoDir PROVE ~Under(x.scope, Skills)
      BY DEF OfAnApp
    <3>1. x.scope \in Above(root) \cup {root}
      BY <2>1 DEF IndexChain
    <3>2. Under(x.scope, x.scope)
      BY <1>1, ScopeAssumption, UnderItself
    <3>3. IsScopeDir(x.scope)
      BY <2>1, <3>1, <3>2, Zenon DEF IndexChain
    <3> QED BY <3>1, <3>3, NoAppAbove
  <2> QED BY <2>2, <2>3
<1>6. CASE a.op = "search"
  <2>1. SearchAdmits(Ageless(a.ask), x)
    BY <1>2, <1>6 DEF Wants
  <2>2. CASE InSkill(root)
    <3>1. RecallScope(root) = [kind |-> "skill", dir |-> SkillDir(root)]
      BY <1>1, <2>2, Zenon DEF RecallScope, IsScopeDir
    <3>2. Admits(Ageless(a.ask), x)
      BY <1>3, <2>1, <3>1 DEF SearchAdmits
    <3>3. ScopeAdmits(root, x.scope)
      BY <1>3, <3>2 DEF Admits, SqlAdmits
    <3> QED BY <1>1, <2>2, <3>3, SkillSeesItsOwn
  <2>3. CASE ~InSkill(root)
    <3>1. RecallScope(root).kind # "skill"
      <4>1. CASE IsScopeDir(root)
        <5>1. RecallScope(root) = [kind |-> "owner", root |-> root, ancestors |-> Ancestors(root)]
          BY <1>1, <2>3, <4>1, Zenon DEF RecallScope
        <5> QED BY <5>1
      <4>2. CASE ~IsScopeDir(root)
        <5>1. RecallScope(root) = [kind |-> "none"]
          BY <1>1, <2>3, <4>2, Zenon DEF RecallScope
        <5> QED BY <5>1
      <4> QED BY <4>1, <4>2
    <3>2. ~OfAnApp(x)
      BY <1>3, <2>1, <3>1 DEF SearchAdmits
    <3> QED BY <2>3, <3>2
  <2> QED BY <2>2, <2>3
<1> QED BY <1>4, <1>5, <1>6

LEMMA WantingSuffices == ReadsTypes /\ AllWanting => Apart
<1> SUFFICES ASSUME ReadsTypes, AllWanting, NEW c \in Calls,
                    Done(c), call[c].op \in {"list", "search", "index"},
                    call[c].ask.root # Unset, call[c].ask.root # NoDir,
                    NEW h \in Answer(call[c], call[c].got)
             PROVE  LET skill == SkillDir(call[c].ask.root)
                    IN  IF skill # NoDir THEN h.row.scope # NoDir /\ Under(h.row.scope, skill)
                        ELSE OfAnApp(h.row) => call[c].op = "list" /\ Under(Home, call[c].ask.root)
  BY Zenon DEF Apart
<1> DEFINE a == call[c]
<1>1. a \in Request /\ a.ask.root \in Dirs /\ Wanting(a)
  BY DEF ReadsTypes, Request, Filter, AllWanting
<1>2. \A g \in a.got : g.table \in Tables
  BY <1>1 DEF Request
<1>3. Answer(a, a.got) \subseteq a.got
  BY <1>2, PoolIsFound DEF Answer
<1>4. h \in a.got
  BY <1>3
<1> QED BY <1>1, <1>4, AnswersApart DEF InSkill

\* A skill's session is answered with its own rows only, and any other session
\* with no app's, but in a list from a root that has home below it: whatever the
\* tables hold, for any directories, and however a read and the writes interleave.
THEOREM AppsStayApart == ReadsSpec => []Apart
<1>1. ReadsInit => AllWanting
  BY IdleFacts DEF ReadsInit, AllWanting, Wanting
<1> QED BY <1>1, StepKeepsWanting, WantingSuffices, SessionTypes, PTL DEF ReadsSpec

-----------------------------------------------------------------------------
(* What a session is shown *)

\* A path is what it begins with and the rest.
LEMMA JoinedAgain ==
    ASSUME NEW p \in Seq(Names), NEW n \in 0 .. Len(p)
    PROVE  SubSeq(p, 1, n) \o SubSeq(p, n + 1, Len(p)) = p
<1>1. n \in Nat /\ Len(p) \in Nat /\ n <= Len(p)
  OBVIOUS
<1>2. /\ SubSeq(p, 1, n) \in Seq(Names) /\ Len(SubSeq(p, 1, n)) = n
      /\ \A i \in 1 .. n : SubSeq(p, 1, n)[i] = p[i]
  OBVIOUS
<1>3. /\ SubSeq(p, n + 1, Len(p)) \in Seq(Names) /\ Len(SubSeq(p, n + 1, Len(p))) = Len(p) - n
      /\ \A i \in 1 .. Len(p) - n : SubSeq(p, n + 1, Len(p))[i] = p[n + i]
  OBVIOUS
<1>4. ASSUME NEW a \in Seq(Names), NEW b \in Seq(Names), Len(a) = n, Len(b) = Len(p) - n,
             \A i \in 1 .. n : a[i] = p[i], \A i \in 1 .. Len(p) - n : b[i] = p[n + i]
      PROVE  a \o b = p
  <2>1. a \o b \in Seq(Names) /\ Len(a \o b) = Len(p)
    BY <1>1, <1>4
  <2>2. ASSUME NEW i \in 1 .. Len(p) PROVE (a \o b)[i] = p[i]
    <3>1. CASE i <= n
      <4>1. (a \o b)[i] = a[i]
        BY <1>1, <1>4, <3>1
      <4> QED BY <1>4, <3>1, <4>1
    <3>2. CASE ~(i <= n)
      <4>1. (a \o b)[i] = b[i - n]
        BY <1>1, <1>4, <3>2
      <4>2. i - n \in 1 .. Len(p) - n /\ n + (i - n) = i
        BY <1>1, <3>2
      <4> QED BY <1>4, <4>1, <4>2
    <3> QED BY <3>1, <3>2
  <2>3. ASSUME NEW c \in Seq(Names), Len(c) = Len(p), \A i \in 1 .. Len(p) : c[i] = p[i]
        PROVE  c = p
    BY <2>3
  <2> QED BY <2>1, <2>2, <2>3
<1> QED BY <1>2, <1>3, <1>4

\* A path without `..` leads where it says: its walk, defined by recursion, is
\* that of its beginnings.
LEMMA WalkSteps ==
    ASSUME NEW p \in Seq(Names)
    PROVE  \A n \in 0 .. Len(p) : Walk(p)[n] = IF n = 0 THEN <<>> ELSE Into(Walk(p)[n - 1], p[n])
<1> DEFINE g == [n \in 0 .. Len(p) |-> SubSeq(p, 1, n)]
<1>1. ASSUME NEW n \in 0 .. Len(p)
      PROVE  g[n] = IF n = 0 THEN <<>> ELSE Into(g[n - 1], p[n])
  <2>1. CASE n = 0
    BY <2>1
  <2>2. CASE n # 0
    <3>1. n \in 1 .. Len(p) /\ n - 1 \in 0 .. Len(p) /\ p[n] \in Names
      BY <2>2
    <3>2. p[n] # ".."
      BY <3>1, ScopeAssumption
    <3>3. Append(SubSeq(p, 1, n - 1), p[n]) = SubSeq(p, 1, n)
      BY <3>1
    <3> QED BY <2>2, <3>1, <3>2, <3>3 DEF Into
  <2> QED BY <2>1, <2>2
<1>2. g = [n \in 0 .. Len(p) |-> g[n]]
  OBVIOUS
<1> HIDE DEF g
<1>3. g = [n \in 0 .. Len(p) |-> IF n = 0 THEN <<>> ELSE Into(g[n - 1], p[n])]
  BY <1>1, <1>2
<1>4. \E f : f = [n \in 0 .. Len(p) |-> IF n = 0 THEN <<>> ELSE Into(f[n - 1], p[n])]
  BY <1>3, Zenon
<1>5. Walk(p) = [n \in 0 .. Len(p) |-> IF n = 0 THEN <<>> ELSE Into(Walk(p)[n - 1], p[n])]
  BY <1>4, Zenon DEF Walk
<1> QED BY <1>5, Zenon

LEMMA NormalStays ==
    ASSUME NEW p \in Seq(Names)
    PROVE  Normalize(p) = p
<1> DEFINE bad == {n \in 0 .. Len(p) : Walk(p)[n] # SubSeq(p, 1, n)}
<1>1. ASSUME bad # {} PROVE FALSE
  <2>1. bad \in SUBSET Nat
    OBVIOUS
  <2>2. PICK n \in bad : \A m \in bad : n <= m
    <3> HIDE DEF bad
    <3>1. PICK n \in bad : \A m \in bad : <<m, n>> \notin OpToRel(<, Nat)
      BY <1>1, <2>1, NatLessThanWellFounded, WFMin
    <3>2. \A m \in bad : ~(m < n)  BY <2>1, <3>1 DEF OpToRel
    <3> QED BY <2>1, <3>2
  <2>3. n # 0
    <3>1. Walk(p)[0] = <<>> /\ SubSeq(p, 1, 0) = <<>>
      BY WalkSteps
    <3> QED BY <3>1
  <2>4. n \in 1 .. Len(p) /\ n - 1 \in 0 .. Len(p) /\ p[n] \in Names
    BY <2>3
  <2>5. Walk(p)[n - 1] = SubSeq(p, 1, n - 1)
    <3>1. n - 1 \notin bad
      <4> HIDE DEF bad
      <4> QED BY <2>2, <2>4
    <3> QED BY <2>4, <3>1
  <2>6. Walk(p)[n] = Append(SubSeq(p, 1, n - 1), p[n])
    <3>1. p[n] # ".."
      BY <2>4, ScopeAssumption
    <3>2. Walk(p)[n] = Into(Walk(p)[n - 1], p[n])
      BY <2>3, WalkSteps
    <3> QED BY <2>5, <3>1, <3>2 DEF Into
  <2>7. Append(SubSeq(p, 1, n - 1), p[n]) = SubSeq(p, 1, n)
    BY <2>4
  <2> QED BY <2>6, <2>7
<1>2. Walk(p)[Len(p)] = SubSeq(p, 1, Len(p))
  BY <1>1
<1>3. SubSeq(p, 1, Len(p)) = p
  OBVIOUS
<1> QED BY <1>2, <1>3 DEF Normalize

\* What a directory below is, from one above it.
LEMMA BeginsWith ==
    ASSUME NEW p \in Seq(Names), NEW d \in Seq(Names), Under(p, d)
    PROVE  \A n \in 0 .. Len(d) : SubSeq(d, 1, n) = SubSeq(p, 1, n)
<1> TAKE n \in 0 .. Len(d)
<1>1. Len(d) <= Len(p) /\ \A i \in 1 .. Len(d) : d[i] = p[i]
  BY UnderMeans
<1> QED BY <1>1

\* A directory is what it reads as, read against the same root.
LEMMA DisplayResolves ==
    ASSUME NEW d \in Dirs, d # <<>>, NEW root \in Dirs
    PROVE  Resolve(Display(d, root), root) = d /\ Display(d, root) # Blank
<1>1. /\ d \in Seq(Names) /\ root \in Seq(Names) /\ root # NoDir
      /\ Len(d) \in Nat \ {0} /\ Len(root) \in Nat
  BY ScopeAssumption
<1>2. CASE Under(d, root) /\ Len(root) > 1
  <2> DEFINE names == SubSeq(d, Len(root), Len(d))
             t == Text("", names)
  <2>1. Display(d, root) = t
    BY <1>2 DEF Display
  <2>2. Len(root) <= Len(d)
    BY <1>1, <1>2, UnderMeans
  <2>3. names \in Seq(Names) /\ Len(names) = Len(d) - Len(root) + 1
    BY <1>1, <1>2, <2>2
  <2>4. names # <<>>
    <3>1. Len(names) \in Nat \ {0}
      BY <1>1, <2>2, <2>3
    <3> HIDE DEF names
    <3> QED BY <3>1
  <2>5. Front(root) \o names = d
    <3>1. Len(root) - 1 \in 0 .. Len(root) /\ Len(root) - 1 \in 0 .. Len(d)
      BY <1>1, <1>2, <2>2
    <3>2. SubSeq(root, 1, Len(root) - 1) = SubSeq(d, 1, Len(root) - 1)
      BY <1>1, <1>2, <3>1, BeginsWith
    <3>3. Front(root) = SubSeq(d, 1, Len(root) - 1)
      BY <3>2 DEF Front
    <3>4. SubSeq(d, 1, Len(root) - 1) \o SubSeq(d, (Len(root) - 1) + 1, Len(d)) = d
      BY <1>1, <3>1, JoinedAgain
    <3>5. (Len(root) - 1) + 1 = Len(root)
      BY <1>1
    <3> QED BY <3>3, <3>4, <3>5
  <2>6. t.from = "" /\ t.names = names
    BY DEF Text
  <2>7. t \notin {Blank, Text("/", <<>>)}
    BY <2>4, <2>6 DEF Blank, Text
  <2>8. root # <<>>
    BY <1>2
  <2> HIDE DEF names, t
  <2>9. Normalize(Front(root) \o t.names) = d
    BY <1>1, <2>5, <2>6, NormalStays
  <2>10. Resolve(t, root) = d
    BY <1>1, <1>2, <2>6, <2>7, <2>8, <2>9 DEF Resolve
  <2> QED BY <2>1, <2>7, <2>10
<1>3. CASE ~(Under(d, root) /\ Len(root) > 1) /\ Under(d, Home) /\ d # Home
  <2> DEFINE names == SubSeq(d, Len(Home) + 1, Len(d))
             t == Text("~", names)
  <2>1. Display(d, root) = t
    BY <1>3 DEF Display
  <2>2. Home \o names = d
    <3>1. Len(Home) \in 0 .. Len(d) /\ Home \in Seq(Names)
      BY <1>1, <1>3, EnginePlace, UnderMeans
    <3>2. SubSeq(Home, 1, Len(Home)) = SubSeq(d, 1, Len(Home))
      BY <1>1, <1>3, <3>1, BeginsWith
    <3>3. SubSeq(Home, 1, Len(Home)) = Home
      BY <3>1
    <3> QED BY <1>1, <3>1, <3>2, <3>3, JoinedAgain
  <2>3. t.from = "~" /\ t.names = names
    BY DEF Text
  <2>4. t \notin {Blank, Text("/", <<>>)}
    BY <2>3 DEF Blank, Text
  <2> HIDE DEF names, t
  <2>5. Expand(t) = d
    BY <1>1, <2>2, <2>3, NormalStays DEF Expand
  <2>6. Resolve(t, root) = d
    BY <2>3, <2>4, <2>5 DEF Resolve
  <2> QED BY <2>1, <2>4, <2>6
<1>4. CASE ~(Under(d, root) /\ Len(root) > 1) /\ ~(Under(d, Home) /\ d # Home)
  <2> DEFINE t == Text("/", d)
  <2>1. Display(d, root) = t
    BY <1>4 DEF Display
  <2>2. t.from = "/" /\ t.names = d
    BY DEF Text
  <2>3. t \notin {Blank, Text("/", <<>>)}
    BY <2>2 DEF Blank, Text
  <2> HIDE DEF t
  <2>4. Expand(t) = d
    BY <1>1, <2>2, NormalStays DEF Expand
  <2>5. Resolve(t, root) = d
    BY <2>2, <2>3, <2>4 DEF Resolve
  <2> QED BY <2>1, <2>3, <2>5
<1> QED BY <1>2, <1>3, <1>4

\* Below a directory of a skill everything is that skill's.
LEMMA SkillOfBelow ==
    ASSUME NEW p \in Dirs, NEW d \in Dirs, Under(p, d), InSkill(d)
    PROVE  InSkill(p) /\ SkillDir(p) = SkillDir(d)
<1>1. p \in Seq(Names) /\ d \in Seq(Names)
  BY ScopeAssumption
<1>2. Under(d, Skills) /\ d # Skills
  BY SkillDirFacts
<1>3. Under(p, Skills)
  BY <1>1, <1>2, EnginePlace, UnderTransitive
<1>4. Len(Skills) <= Len(d) /\ ~(Len(d) <= Len(Skills)) /\ Len(d) <= Len(p)
  BY <1>1, <1>2, EnginePlace, UnderMeans, SameLengthSame
<1>5. p # Skills
  BY <1>1, <1>4, EnginePlace
<1>6. Len(Skills) + 1 \in 0 .. Len(d)
  BY <1>1, <1>4, EnginePlace
<1>7. SubSeq(d, 1, Len(Skills) + 1) = SubSeq(p, 1, Len(Skills) + 1)
  BY <1>1, <1>6, BeginsWith
<1>8. SkillDir(p) = SkillDir(d)
  BY <1>2, <1>3, <1>5, <1>7 DEF SkillDir
<1> QED BY <1>8 DEF InSkill

\* A row can be about no directory at the top.
LEMMA TopIsNone == ~IsScopeDir(<<>>)
<1>1. ~InSkill(<<>>)
  <2>1. SUFFICES ASSUME InSkill(<<>>) PROVE FALSE
    OBVIOUS
  <2>2. <<>> \in Seq(Names) /\ Len(<<>>) = 0
    OBVIOUS
  <2>3. Under(<<>>, Skills)
    BY <2>1, Zenon DEF InSkill, SkillDir
  <2>4. Len(Skills) <= 0
    BY <2>2, <2>3, EnginePlace, UnderMeans
  <2> QED BY <2>4, EnginePlace
<1> QED BY <1>1 DEF IsScopeDir

\* A row may be filed at any directory that is offered.
LEMMA OfferedIsValid ==
    ASSUME NEW root \in Dirs, NEW at \in Dirs, NEW d \in Candidates(root, at)
    PROVE  IsValidFor(d, root) /\ d # <<>>
<1> DEFINE downTo == {a \in Above(at) \cup {at} : Under(a, root)}
<1>1. root \in Seq(Names) /\ at \in Seq(Names) /\ Dirs \subseteq Seq(Names) /\ Marked \subseteq Dirs
  BY ScopeAssumption
<1>2. \/ d \in {root} \cup downTo \cup MarkedBelow(root) /\ IsScopeDir(d)
      \/ d \in Ancestors(root)
  BY Zenon DEF Candidates
<1>3. CASE d \in {root} \cup downTo \cup MarkedBelow(root) /\ IsScopeDir(d)
  <2>1. d \in Dirs /\ Under(d, root)
    <3>1. CASE d = root
      BY <1>1, <3>1, UnderItself
    <3>2. CASE d \in downTo
      BY <3>2, ScopeAssumption
    <3>3. CASE d \in MarkedBelow(root)
      BY <1>1, <3>3 DEF MarkedBelow
    <3> QED BY <1>3, <3>1, <3>2, <3>3
  <2>2. InSkill(root) => Under(d, SkillDir(root))
    <3>1. SUFFICES ASSUME InSkill(root) PROVE Under(d, SkillDir(root))
      OBVIOUS
    <3>2. SkillDir(root) \in Dirs /\ Under(root, SkillDir(root))
      BY <3>1, SkillDirFacts
    <3> QED BY <1>1, <2>1, <3>2, UnderTransitive
  <2> QED BY <1>3, <2>1, <2>2, TopIsNone DEF IsValidFor
<1>4. CASE d \in Ancestors(root)
  <2>1. ~InSkill(root) /\ d \in Above(root) /\ IsScopeDir(d)
    BY <1>4 DEF Ancestors
  <2>2. d \in Dirs
    BY <2>1, ScopeAssumption
  <2> QED BY <1>4, <2>1, <2>2, TopIsNone DEF IsValidFor
<1> QED BY <1>2, <1>3, <1>4

\* What a session is shown, and where: candidates of the root it started with.
LEMMA ShownIsOffered ==
    ASSUME ReadsTypes, NEW d \in ShownDirs
    PROVE  /\ start \in Dirs /\ SessionRoot(start, start) \in Dirs
           /\ IsScopeDir(SessionRoot(start, start))
           /\ d \in Candidates(SessionRoot(start, start), start)
<1> DEFINE first == SessionRoot(start, start)
<1>1. start \in Starts /\ Starts \subseteq {NoDir} \cup Dirs
  BY ReadsAssumption DEF ReadsTypes
<1>2. ShownDirs = IF start = NoDir \/ RecallScope(first).kind = "none" THEN {}
                  ELSE Candidates(first, start)
  BY <1>1, Zenon DEF ShownDirs, ShownFrom
<1>3. start # NoDir /\ RecallScope(first).kind # "none" /\ d \in Candidates(first, start)
  BY <1>2
<1>4. start \in Dirs /\ first \in Dirs /\ first # NoDir
  BY <1>1, <1>3, RootIsThere, ScopeAssumption
<1> HIDE DEF first
<1>5. IsScopeDir(first)
  BY <1>3, <1>4 DEF RecallScope, IsScopeDir
<1> QED BY <1>3, <1>4, <1>5 DEF first

\* It can be named in the words it was shown in.
LEMMA ShownIsNamed ==
    ASSUME ReadsTypes, NEW d \in ShownDirs, Under(cwd, SessionRoot(start, start))
    PROVE  ResolveScope(ShownFor(d), cwd, Root, {}, FALSE, "semantic") = d
<1> DEFINE first == SessionRoot(start, start)
           named == Display(d, first)
<1>1. /\ start \in Dirs /\ start # NoDir /\ first \in Dirs /\ first # NoDir
      /\ IsScopeDir(first) /\ d \in Candidates(first, start)
  BY ShownIsOffered, ScopeAssumption
<1>2. IsValidFor(d, first) /\ d # <<>> /\ d \in Dirs /\ d # NoDir
  BY <1>1, OfferedIsValid, ScopeAssumption DEF IsValidFor
<1>3. Resolve(named, first) = d /\ named # Blank
  BY <1>1, <1>2, DisplayResolves
<1>4. Root = first
  <2>1. first = MemoryRoot(start, start)
    BY Zenon DEF SessionRoot
  <2>2. Root = SessionRoot(start, cwd)
    BY Zenon DEF ReadsTypes, Root, Roots
  <2>3. IsProjectDir(MemoryRoot(start, start)) /\ Under(cwd, MemoryRoot(start, start))
    BY <1>1, <2>1 DEF IsProjectDir
  <2> QED BY <1>1, <2>1, <2>2, <2>3 DEF SessionRoot
<1>5. ShownFor(d) = named
  <2>1. <<start, start>> \in Starts \X (Stands \cup (Starts \ {NoDir}))
    BY <1>1 DEF ReadsTypes
  <2>2. Roots[<<start, start>>] = first
    BY <2>1, Zenon DEF Roots
  <2> QED BY <2>2 DEF ShownFor
<1> HIDE DEF first, named
<1>6. ResolveScope(named, cwd, first, {}, FALSE, "semantic") = d
  BY <1>1, <1>2, <1>3 DEF ResolveScope
<1> QED BY <1>4, <1>5, <1>6

\* A directory at or above another that can hold a row is in the index of what
\* stands there, but at home and for what no row can be about.
LEMMA AboveIsLoaded ==
    ASSUME NEW at \in Dirs, NEW d \in Dirs, IsScopeDir(d), Under(at, d), ~Under(Home, d),
           SkillDir(at) = SkillDir(d), ~IsTemp(at)
    PROVE  d \in IndexChain(at)
<1>1. at \in Seq(Names) /\ d \in Seq(Names) /\ Dirs \subseteq Seq(Names)
  BY ScopeAssumption
<1>2. d \in Above(at) \cup {at}
  <2>1. Len(d) <= Len(at)
    BY <1>1, UnderMeans
  <2>2. CASE Len(at) <= Len(d)
    BY <1>1, <2>2, SameLengthSame
  <2>3. CASE ~(Len(at) <= Len(d))
    <3>1. Len(d) \in 0 .. Len(at) - 1 /\ Len(d) \in 0 .. Len(d)
      BY <1>1, <2>3
    <3>2. SubSeq(d, 1, Len(d)) = SubSeq(at, 1, Len(d))
      BY <1>1, <3>1, BeginsWith
    <3>3. SubSeq(d, 1, Len(d)) = d
      BY <1>1
    <3> QED BY <3>1, <3>2, <3>3 DEF Above
  <2> QED BY <2>2, <2>3
<1>3. CASE InSkill(at)
  <2>1. Under(d, SkillDir(at))
    BY <1>3, SkillDirFacts DEF InSkill
  <2> QED BY <1>2, <1>3, <2>1 DEF IndexChain
<1>4. CASE ~InSkill(at)
  <2>1. ~InSkill(d)
    BY <1>4 DEF InSkill
  <2>2. d # Home /\ d # <<>> /\ ~Under(d, Engine)
    BY <2>1 DEF IsScopeDir
  <2>3. ~Under(Engine, d)
    <3>1. SUFFICES ASSUME Under(Engine, d) PROVE FALSE
      OBVIOUS
    <3>2. Under(d, Home)
      BY <1>1, <3>1, EnginePlace, UnderCompares
    <3>3. Len(d) <= Len(Home) + 1 /\ ~(Len(d) <= Len(Home))
      BY <1>1, <2>2, <3>1, <3>2, EnginePlace, UnderMeans, SameLengthSame
    <3>4. Len(Engine) <= Len(d)
      BY <1>1, <3>3, EnginePlace
    <3>5. Engine = d
      BY <1>1, <3>1, <3>4, EnginePlace, SameLengthSame
    <3> QED BY <1>1, <2>2, <3>5, UnderItself
  <2>4. ASSUME NEW b \in Above(at) \cup {at}, Under(b, d)
        PROVE  b # Home /\ IsScopeDir(b)
    <3>1. b \in Dirs /\ b \in Seq(Names) /\ Under(at, b)
      BY <1>1, AboveMeans, UnderItself, ScopeAssumption
    <3>2. b # Home
      BY <2>4
    <3>3. b # <<>>
      <4>1. Len(d) <= Len(b) /\ Len(d) # 0
        BY <1>1, <2>2, <2>4, <3>1, UnderMeans
      <4> QED BY <1>1, <4>1
    <3>4. ~Under(b, Engine)
      BY <1>1, <2>2, <2>3, <2>4, <3>1, EnginePlace, UnderCompares
    <3>5. ~IsTemp(b)
      <4>1. SUFFICES ASSUME NEW t \in Temp, Under(b, t) PROVE FALSE
        BY DEF IsTemp
      <4>2. t \in Seq(Names)
        BY <1>1, ScopeAssumption
      <4>3. Under(at, t)
        BY <1>1, <3>1, <4>1, <4>2, UnderTransitive
      <4> QED BY <4>3 DEF IsTemp
    <3> QED BY <3>2, <3>3, <3>4, <3>5 DEF IsScopeDir
  <2> QED BY <1>2, <1>4, <2>4 DEF IndexChain
<1> QED BY <1>3, <1>4

LEMMA TypesSuffice == ReadsTypes => ShownIsUsable
<1>1. SUFFICES ASSUME ReadsTypes PROVE ShownIsUsable
  OBVIOUS
<1>2. ShownIsTaken
  BY <1>1, ShownIsNamed DEF ShownIsTaken
<1>3. ShownIsLoaded
  <2>1. SUFFICES ASSUME NEW d \in ShownDirs, Under(cwd, d), ~Under(Home, d),
                        SkillDir(cwd) = SkillDir(d), ~IsTemp(cwd)
                 PROVE  d \in IndexChain(cwd)
    BY DEF ShownIsLoaded
  <2>2. d \in Dirs /\ IsScopeDir(d)
    BY <1>1, ShownIsOffered, OfferedIsValid DEF IsValidFor
  <2> QED BY <1>1, <2>1, <2>2, SessionIsThere, AboveIsLoaded
<1> QED BY <1>2, <1>3 DEF ShownIsUsable

\* A directory that a session was shown can be named, in those words, wherever
\* below its root the session goes, and what is filed there is in the index of a
\* session that stands there: for any directories, and whatever was written.
THEOREM ShownStaysUsable == ReadsSpec => []ShownIsUsable
<1> QED BY TypesSuffice, SessionTypes, PTL
=============================================================================
