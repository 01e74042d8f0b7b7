------------------------- MODULE ReplicaWritesProofs -------------------------
(***************************************************************************)
(* What the copy, the outbox and the order of writes keep, for any rows,   *)
(* writes, faults and lengths of the queue.                                *)
(***************************************************************************)
EXTENDS ReplicaWrites, FiniteSetTheorems, TLAPS

-----------------------------------------------------------------------------
\* The queue without the entries of a number.

\* A finite set of positions has an increasing enumeration.
LEMMA Enumerable ==
    ASSUME NEW S, \A s \in S : s \in Nat, IsFiniteSet(S)
    PROVE  \E f \in [1 .. Cardinality(S) -> S] : \A i, j \in DOMAIN f : i < j => f[i] < f[j]
<1> DEFINE upTo(i) == {j \in S : j <= i}
           rank == [i \in S |-> Cardinality(upTo(i))]
           n == Cardinality(S)
<1>1. n \in Nat  BY FS_CardinalityType
<1>2. \A i \in S : /\ IsFiniteSet(upTo(i)) /\ rank[i] \in 1 .. n
  <2> TAKE i \in S
  <2>1. upTo(i) \in SUBSET S /\ i \in upTo(i)  OBVIOUS
  <2>2. IsFiniteSet(upTo(i)) /\ Cardinality(upTo(i)) <= n  BY <2>1, FS_Subset
  <2>3. Cardinality(upTo(i)) \in Nat /\ Cardinality(upTo(i)) # 0
    BY <2>1, <2>2, FS_CardinalityType, FS_EmptySet
  <2> QED BY <1>1, <2>2, <2>3
<1>3. \A i, j \in S : i < j => rank[i] < rank[j]
  <2> TAKE i, j \in S
  <2> HAVE i < j
  <2>1. upTo(i) \in SUBSET upTo(j) /\ j \in upTo(j) /\ j \notin upTo(i)
    OBVIOUS
  <2>2. Cardinality(upTo(i)) <= Cardinality(upTo(j)) /\ Cardinality(upTo(i)) # Cardinality(upTo(j))
    BY <1>2, <2>1, FS_Subset
  <2>3. rank[i] \in Nat /\ rank[j] \in Nat  BY <1>1, <1>2
  <2> QED BY <2>2, <2>3
<1>4. rank \in Surjection(S, 1 .. n)
  <2>1. rank \in [S -> 1 .. n]  BY <1>2
  <2>2. \A i, j \in S : rank[i] = rank[j] => i = j
    <3> TAKE i, j \in S
    <3>1. i \in Nat /\ j \in Nat /\ rank[i] \in Nat /\ rank[j] \in Nat  BY <1>1, <1>2
    <3> QED BY <1>3, <3>1
  <2>3. rank \in Injection(S, 1 .. n)  BY <2>1, <2>2 DEF Injection, IsInjective
  <2>4. IsFiniteSet(1 .. n) /\ Cardinality(1 .. n) = n  BY <1>1, FS_Interval
  <2> HIDE DEF rank
  <2> QED BY <2>3, <2>4, FS_Injection
<1> HIDE DEF rank
<1> DEFINE f == [m \in 1 .. n |-> CHOOSE i \in S : rank[i] = m]
<1>5. \A m \in 1 .. n : f[m] \in S /\ rank[f[m]] = m  BY <1>4 DEF Surjection
<1>6. \A i, j \in 1 .. n : i < j => f[i] < f[j]
  <2> TAKE i, j \in 1 .. n
  <2> HAVE i < j
  <2>1. f[i] \in S /\ f[j] \in S /\ rank[f[i]] = i /\ rank[f[j]] = j  BY <1>5
  <2> HIDE DEF f
  <2>2. f[i] \in Nat /\ f[j] \in Nat /\ i \in Nat /\ j \in Nat  BY <1>1, <2>1
  <2> QED BY <1>3, <2>1, <2>2
<1>7. f \in [1 .. n -> S] /\ DOMAIN f = 1 .. n  BY <1>5
<1> HIDE DEF f
<1> QED BY <1>6, <1>7

LEMMA EnumeratesAll ==
    ASSUME NEW S, \A s \in S : s \in Nat, IsFiniteSet(S), NEW f \in [1 .. Cardinality(S) -> S],
           \A i, j \in DOMAIN f : i < j => f[i] < f[j]
    PROVE  \A s \in S : \E i \in DOMAIN f : f[i] = s
<1> DEFINE n == Cardinality(S)
<1>1. n \in Nat  BY FS_CardinalityType
<1> HIDE DEF n
<1>2. f \in [1 .. n -> S] /\ DOMAIN f = 1 .. n  BY DEF n
<1>3. \A i, j \in 1 .. n : f[i] = f[j] => i = j
  <2> TAKE i, j \in 1 .. n
  <2>0. f[i] \in S /\ f[j] \in S  BY <1>2
  <2>1. i \in Nat /\ j \in Nat /\ f[i] \in Nat /\ f[j] \in Nat  BY <1>1, <2>0
  <2> QED BY <1>2, <2>1
<1>4. f \in Injection(1 .. n, S)  BY <1>2, <1>3 DEF Injection, IsInjective
<1>5. IsFiniteSet(1 .. n) /\ Cardinality(1 .. n) = n  BY <1>1, FS_Interval
<1>6. f \in Surjection(1 .. n, S)  BY <1>4, <1>5, FS_Injection DEF n
<1> QED BY <1>2, <1>6 DEF Surjection

\* What stays is every entry of another number, in the order of the queue.
LEMMA WithoutKeeps ==
    ASSUME NEW q \in Seq(Entry), NEW seq
    PROVE  LET p == Without(q, seq)
           IN  /\ p \in Seq(Entry)
               /\ \E f \in [DOMAIN p -> DOMAIN q] :
                     /\ \A i \in DOMAIN p : p[i] = q[f[i]] /\ q[f[i]].seq # seq
                     /\ \A i, j \in DOMAIN p : i < j => f[i] < f[j]
                     /\ \A k \in DOMAIN q : q[k].seq # seq => \E i \in DOMAIN p : f[i] = k
<1> DEFINE kept == {i \in DOMAIN q : q[i].seq # seq}
           Ordered(f) == \A i, j \in DOMAIN f : i < j => f[i] < f[j]
           order == CHOOSE f \in [1 .. Cardinality(kept) -> kept] : Ordered(f)
           p == [i \in DOMAIN order |-> q[order[i]]]
           n == Cardinality(kept)
<1>1. Len(q) \in Nat /\ DOMAIN q = 1 .. Len(q)  OBVIOUS
<1>2. IsFiniteSet(DOMAIN q)  BY <1>1, FS_Interval
<1>3. kept \in SUBSET Nat /\ kept \subseteq DOMAIN q /\ IsFiniteSet(kept)
  <2>1. kept \in SUBSET (DOMAIN q)  OBVIOUS
  <2>2. kept \in SUBSET Nat  BY <1>1
  <2> QED BY <1>2, <2>1, <2>2, FS_Subset
<1>4. n \in Nat  BY <1>3, FS_CardinalityType
<1>a. \A k \in kept : q[k].seq # seq /\ q[k] \in Entry  BY <1>1
<1>b. \A k \in DOMAIN q : q[k].seq # seq => k \in kept  OBVIOUS
<1> HIDE DEF kept
<1>5. \E f \in [1 .. Cardinality(kept) -> kept] : Ordered(f)  BY <1>3, Enumerable
<1>6. order \in [1 .. n -> kept] /\ Ordered(order)  BY <1>5
<1>7. \A s \in kept : \E i \in DOMAIN order : order[i] = s
  <2> HIDE DEF order
  <2> QED BY <1>3, <1>6, EnumeratesAll
<1> HIDE DEF order
<1>8. DOMAIN order = 1 .. n  BY <1>6
<1>9. p \in [1 .. n -> Entry]  BY <1>6, <1>8, <1>a
<1>10. p \in Seq(Entry)  BY <1>4, <1>9
<1>11. DOMAIN p = 1 .. n  BY <1>8
<1>12. order \in [DOMAIN p -> DOMAIN q]  BY <1>3, <1>6, <1>11
<1>13. /\ \A i \in DOMAIN p : p[i] = q[order[i]] /\ q[order[i]].seq # seq
       /\ \A i, j \in DOMAIN p : i < j => order[i] < order[j]
       /\ \A k \in DOMAIN q : q[k].seq # seq => \E i \in DOMAIN p : order[i] = k
  BY <1>6, <1>7, <1>8, <1>11, <1>a, <1>b
<1>14. Without(q, seq) = p  BY DEF Without, order, kept
<1> HIDE DEF p
<1> QED BY <1>10, <1>12, <1>13, <1>14
-----------------------------------------------------------------------------
\* The inductive invariant.

Queued == {w \in Writes : pc[w] = "queued"}

Settled == landed \cup filed \cup strayed \cup unheard

\* The stages at which an entry is being replayed.
Trying == {"check", "post", "file", "drop", "dropRefused", "restore", "list", "save"}

\* Everything a queue, or a copy of one, names was queued; nothing is known of
\* a request before it came.
Known ==
    /\ WritesOf(outbox) \cup WritesOf(rest) \cup WritesOf(head) \subseteq Queued
    /\ \A w \in Writes : WritesOf(loaded[w]) \cup ahead[w] \subseteq Queued
    /\ filed \cup unheard \subseteq Queued
    /\ \A w \in landed \cup late \cup strayed : pc[w] # "new"
    /\ holder \in Writes => pc[holder] \in {"draining", "pulling"}

\* What the replay has learnt of the entry it is at.
Verdict ==
    /\ stage \in Trying => Len(head) = 1
    /\ stage = "drop" => Current \in landed
    /\ stage \in {"dropRefused", "restore"} => Current \in filed \cup unheard
    /\ stage \in {"list", "save"} => Current \in landed \cup filed \cup unheard

\* A write that leaves its rows changed here.
Standing(w) == Unsettled(w) \/ w \in strayed

\* Explained of one row, by some of the writes.
Likewise(id, W) ==
    \/ copy[id] = main[id]
    \/ id \in owed
    \/ \E w \in W : id \in Touches(w) /\ Standing(w)

\* Before the entry leaves the file, its rows need it no more.
Matched ==
    /\ \A w \in Writes : main[Local(w)] = None
    /\ \A id \in Ids : Likewise(id, Writes)
    /\ stage = "post" => \A id \in Targets(Current) : main[id] # None \/ id \in owed
    /\ stage = "drop" => Targets(Current) \subseteq owed
    /\ stage = "restore" /\ Creates(Current) => Likewise(Local(Current), Writes \ {Current})
    /\ stage \in {"list", "save"} => \A id \in Touches(Current) : Likewise(id, Writes \ {Current})

\* Each entry of a queue once, behind all that its request found queued.
Orderly(q) ==
    \A i \in DOMAIN q :
        /\ ahead[q[i].write] \subseteq Settled \cup {q[j].write : j \in 1 .. (i - 1)}
        /\ \A j \in DOMAIN q : q[i].write = q[j].write => i = j

Ordered ==
    /\ Orderly(outbox) /\ Orderly(rest) /\ \A w \in Writes : Orderly(loaded[w])
    /\ \A w \in landed \cup late : ahead[w] \subseteq Settled
    /\ \A w \in Writes :
          /\ pc[w] = "sending" => ahead[w] \subseteq Settled
          /\ pc[w] = "saving" => ahead[w] \subseteq Settled \cup WritesOf(loaded[w])
    /\ stage \in Trying => ahead[Current] \subseteq Settled

IInv == TypeOK /\ Known /\ Verdict /\ Accounted /\ Matched /\ Ordered
-----------------------------------------------------------------------------
\* Types.

LEMMA WritesOfTypes ==
    ASSUME NEW q \in Seq(Entry)
    PROVE  /\ WritesOf(q) \subseteq Writes
           /\ \A i \in DOMAIN q : q[i] \in Entry /\ q[i].write \in WritesOf(q)
<1>1. \A i \in DOMAIN q : q[i] \in Entry  OBVIOUS
<1> QED BY <1>1 DEF WritesOf, Entry

LEMMA IdsTypes ==
    /\ \A w \in Writes : Local(w) \in Ids /\ Fresh(w) \in Ids
    /\ None \in Bodies /\ Base \in Bodies
    /\ \A w \in Writes : w \in Bodies
  BY DEF Ids, Bodies

LEMMA AppliedTypes ==
    ASSUME NEW rows \in [Ids -> Bodies], NEW w \in Writes, NEW own
    PROVE  Applied(rows, w, own) \in [Ids -> Bodies]
  BY IdsTypes DEF Applied

LEMMA TakesTypes ==
    ASSUME TypeOK, NEW w \in Writes, Takes(w)
    PROVE  /\ main' \in [Ids -> Bodies] /\ copy' \in [Ids -> Bodies]
           /\ owed' \in SUBSET Ids /\ after' \in [Ids -> SUBSET Writes]
           /\ landed' \in SUBSET Writes
<1>1. main' \in [Ids -> Bodies]  BY AppliedTypes DEF Takes, TypeOK
<1>2. Targets(w) \subseteq Ids  BY DEF Targets, TypeOK
<1>3. owed' \in SUBSET Ids  BY <1>2, IdsTypes DEF Takes, TypeOK
<1>4. after' \in [Ids -> SUBSET Writes]  BY DEF Takes, TypeOK
<1> QED BY <1>1, <1>3, <1>4 DEF Takes, TypeOK

LEMMA CurrentTypes ==
    ASSUME TypeOK, Verdict, stage \in Trying
    PROVE  /\ head[1] \in Entry /\ Current \in Writes /\ Current \in WritesOf(head)
           /\ WritesOf(head) = {Current}
<1>1. head \in Seq(Entry) /\ Len(head) = 1 /\ DOMAIN head = {1}  BY DEF TypeOK, Verdict
<1>2. head[1] \in Entry  BY <1>1
<1> QED BY <1>1, <1>2 DEF Current, Entry, WritesOf

LEMMA InitTypes == Init => TypeOK
<1> SUFFICES ASSUME Init  PROVE TypeOK
  OBVIOUS
<1>1. <<>> \in Seq(Entry)  OBVIOUS
<1>2. main \in [Ids -> Bodies]  BY IdsTypes DEF Init
<1>3. target \in [Writes -> Ids]  BY IdsTypes DEF Init
<1> QED BY <1>1, <1>2, <1>3 DEF Init, TypeOK

LEMMA RequestTypes ==
    ASSUME TypeOK, NEW w \in Writes,
           Request(w) \/ (\E kind \in Ops[w], id \in Ids : Arrive(w, kind, id)) \/ Land(w)
    PROVE  TypeOK'
<1> USE DEF linkVars, syncVars, fateVars, dataVars, requestVars
<1>1. ASSUME NEW kind \in Ops[w], NEW id \in Ids, Arrive(w, kind, id)  PROVE TypeOK'
  <2>1. kind \in Operations  BY ReplicaWritesAssumption
  <2>2. WritesOf(outbox) \in SUBSET Writes  BY WritesOfTypes DEF TypeOK
  <2>3. op' \in [Writes -> Operations \cup {"none"}] /\ \A v \in Writes : op'[v] \in Ops[v] \cup {"none"}
    BY <1>1, <2>1 DEF Arrive, TypeOK
  <2> QED BY <1>1, <2>2, <2>3 DEF Arrive, Goto, TypeOK
<1>2. CASE Recheck(w)  BY <1>2 DEF Recheck, Goto, TypeOK
<1>3. CASE ForwardAnswered(w)
  <2>1. CASE Takes(w)  BY <1>3, <2>1, TakesTypes DEF ForwardAnswered, Goto, TypeOK
  <2>2. CASE Refuses(w)  BY <1>3, <2>2 DEF ForwardAnswered, Refuses, Goto, TypeOK
  <2> QED BY <1>3, <2>1, <2>2 DEF ForwardAnswered
<1>4. CASE ForwardUnanswered(w)  BY <1>4 DEF ForwardUnanswered, Goto, TypeOK
<1>5. CASE ApplyLocal(w)
  <2>0. copy \in [Ids -> Bodies] /\ Applied(copy, w, Local(w)) \in [Ids -> Bodies]
    BY AppliedTypes DEF TypeOK
  <2>1. copy' \in [Ids -> Bodies]  BY <1>5, <2>0 DEF ApplyLocal
  <2> QED BY <1>5, <2>1 DEF ApplyLocal, Goto, TypeOK
<1>6. CASE PushLoad(w)  BY <1>6 DEF PushLoad, Goto, TypeOK
<1>7. CASE PushSave(w)
  <2>1. loaded[w] \in Seq(Entry) /\ outbox \in Seq(Entry)  BY DEF TypeOK
  <2>2. NextSeq(loaded[w]) \in Nat \ {0}
    <3>1. CASE loaded[w] = <<>>  BY <3>1 DEF NextSeq
    <3>2. CASE loaded[w] # <<>>
      <4>1. Len(loaded[w]) \in DOMAIN loaded[w]  BY <2>1, <3>2
      <4>2. loaded[w][Len(loaded[w])].seq \in Nat  BY <2>1, <4>1, WritesOfTypes DEF Entry
      <4> QED BY <3>2, <4>2 DEF NextSeq
    <3> QED BY <3>1, <3>2
  <2>3. outbox' \in Seq(Entry)  BY <1>7, <2>1, <2>2 DEF PushSave, Entry
  <2>4. strayed' \in SUBSET Writes  BY <1>7, <2>1, WritesOfTypes DEF PushSave, TypeOK
  <2>5. loaded' \in [Writes -> Seq(Entry)]  BY <1>7 DEF PushSave, TypeOK
  <2> QED BY <1>7, <2>3, <2>4, <2>5 DEF PushSave, Goto, TypeOK
<1>8. CASE PushFails(w)
  <2>1. loaded' \in [Writes -> Seq(Entry)]  BY <1>8 DEF PushFails, TypeOK
  <2> QED BY <1>8, <2>1 DEF PushFails, Goto, TypeOK
<1>9. CASE Land(w)  BY <1>9, TakesTypes DEF Land, TypeOK
<1> QED BY <1>1, <1>2, <1>3, <1>4, <1>5, <1>6, <1>7, <1>8, <1>9 DEF Request

LEMMA SyncTypes ==
    ASSUME TypeOK, Verdict, Sync \/ \E p \in Writes \cup {Loop} : Acquire(p)
    PROVE  TypeOK'
<1> USE DEF linkVars, syncVars, fateVars, dataVars, requestVars
<1>0. stage \in Trying => Current \in Writes  BY CurrentTypes
<1>1. ASSUME NEW p \in Writes \cup {Loop}, Acquire(p)  PROVE TypeOK'
  BY <1>1 DEF Acquire, TypeOK
<1>2. CASE TakeFirst
  <2>1. outbox # <<>> => <<outbox[1]>> \in Seq(Entry)  BY DEF TypeOK
  <2> QED BY <1>2, <2>1 DEF TakeFirst, TypeOK
<1>3. CASE CheckTargets  BY <1>3 DEF CheckTargets, TypeOK
<1>4. CASE Post
  <2>1. Current \in Writes  BY <1>0, <1>4 DEF Post, Trying
  <2>2. CASE Takes(Current)  BY <1>4, <2>1, <2>2, TakesTypes DEF Post, TypeOK
  <2>3. CASE Refuses(Current)  BY <1>4, <2>3 DEF Post, Refuses, TypeOK
  <2> QED BY <1>4, <2>2, <2>3 DEF Post
<1>5. CASE FileIssue  BY <1>0, <1>5 DEF FileIssue, TypeOK, Trying
<1>6. CASE DropLocal
  <2>1. copy' \in [Ids -> Bodies]  BY <1>6, IdsTypes DEF DropLocal, TypeOK
  <2> QED BY <1>6, <2>1 DEF DropLocal, TypeOK
<1>7. CASE Restore
  <2>1. copy' \in [Ids -> Bodies]  BY <1>7 DEF Restore, TypeOK
  <2> QED BY <1>7, <2>1 DEF Restore, TypeOK
<1>8. CASE ListRest
  <2>1. rest' \in Seq(Entry)  BY <1>8, WithoutKeeps DEF ListRest, TypeOK
  <2>2. strayed' \in SUBSET Writes  BY <1>8, WritesOfTypes DEF ListRest, TypeOK
  <2> QED BY <1>8, <2>1, <2>2 DEF ListRest, TypeOK
<1>9. CASE SaveRest
  <2>1. strayed' \in SUBSET Writes  BY <1>9, WritesOfTypes DEF SaveRest, TypeOK
  <2>2. <<>> \in Seq(Entry)  OBVIOUS
  <2> QED BY <1>9, <2>1, <2>2 DEF SaveRest, TypeOK
<1>10. CASE ReplayUnanswered
  <2>1. late' \in SUBSET Writes  BY <1>0, <1>10 DEF ReplayUnanswered, TypeOK, Trying
  <2>2. <<>> \in Seq(Entry)  OBVIOUS
  <2> QED BY <1>10, <2>1, <2>2 DEF ReplayUnanswered, TypeOK
<1>11. ASSUME NEW id \in Ids, PullRow(id)  PROVE TypeOK'
  <2>1. copy' \in [Ids -> Bodies]  BY <1>11 DEF PullRow, TypeOK
  <2> QED BY <1>11, <2>1 DEF PullRow, TypeOK
<1>12. CASE EndPull
  <2>1. <<>> \in Seq(Entry)  OBVIOUS
  <2>2. pc' \in [Writes -> {"new", "draining", "drained", "sending", "pulling",
                            "applying", "loading", "saving", "queued",
                            "forwarded", "refused", "gone"}]
    BY <1>12 DEF EndPull, Release, TypeOK
  <2> QED BY <1>12, <2>1, <2>2 DEF EndPull, Release, TypeOK
<1> QED BY <1>1, <1>2, <1>3, <1>4, <1>5, <1>6, <1>7, <1>8, <1>9, <1>10, <1>11, <1>12 DEF Sync, Replay, Pull

LEMMA PrimaryTypes ==
    ASSUME TypeOK, Primary \/ Restart \/ UNCHANGED vars
    PROVE  TypeOK'
<1> USE DEF linkVars, syncVars, fateVars, dataVars, requestVars
<1>1. ASSUME NEW id \in Ids, NEW u \in UserEdits, UserEdit(id, u)  PROVE TypeOK'
  <2>1. main' \in [Ids -> Bodies]  BY <1>1 DEF UserEdit, TypeOK, Bodies
  <2>2. after' \in [Ids -> SUBSET Writes]  BY <1>1 DEF UserEdit, TypeOK
  <2> QED BY <1>1, <2>1, <2>2 DEF UserEdit, TypeOK
<1>2. ASSUME NEW id \in Ids, UserDelete(id)  PROVE TypeOK'
  <2>1. main' \in [Ids -> Bodies]  BY <1>2, IdsTypes DEF UserDelete, TypeOK
  <2> QED BY <1>2, <2>1 DEF UserDelete, TypeOK
<1>3. CASE Revoke  BY <1>3 DEF Revoke, TypeOK
<1>4. CASE GoDown
  <2>1. up' \in BOOLEAN  BY <1>4 DEF GoDown
  <2>2. faults' \in Nat  BY <1>4 DEF GoDown, TypeOK
  <2> QED BY <1>4, <2>1, <2>2 DEF GoDown, TypeOK
<1>7. CASE ComeBack
  <2>1. up' \in BOOLEAN  BY <1>7 DEF ComeBack
  <2> QED BY <1>7, <2>1, SMTT(30) DEF ComeBack, TypeOK
<1>5. CASE Restart
  <2>1. <<>> \in Seq(Entry)  OBVIOUS
  <2>2. pc' \in [Writes -> {"new", "draining", "drained", "sending", "pulling",
                            "applying", "loading", "saving", "queued",
                            "forwarded", "refused", "gone"}]
    BY <1>5 DEF Restart, TypeOK
  <2>3. loaded' \in [Writes -> Seq(Entry)]  BY <1>5, <2>1 DEF Restart
  <2> QED BY <1>5, <2>1, <2>2, <2>3 DEF Restart, TypeOK
<1>6. CASE UNCHANGED vars  BY <1>6 DEF vars, TypeOK
<1> QED BY <1>1, <1>2, <1>3, <1>4, <1>5, <1>6, <1>7 DEF Primary

-----------------------------------------------------------------------------
\* What no step undoes.

\* A request that came has come, and keeps what it is; a queued one stays queued;
\* what is settled stays settled.
LEMMA Stays ==
    ASSUME TypeOK, Known, [Next]_vars
    PROVE  /\ \A w \in Writes :
                /\ pc[w] # "new" => /\ pc'[w] # "new"
                                    /\ op'[w] = op[w] /\ target'[w] = target[w] /\ ahead'[w] = ahead[w]
                /\ pc[w] = "queued" => pc'[w] = "queued"
           /\ landed \subseteq landed' /\ filed \subseteq filed'
           /\ strayed \subseteq strayed' /\ unheard \subseteq unheard'
<1> USE DEF linkVars, syncVars, fateVars, dataVars, requestVars
<1> DEFINE Same == op' = op /\ target' = target /\ ahead' = ahead
           Grows == /\ landed \subseteq landed' /\ filed \subseteq filed'
                    /\ strayed \subseteq strayed' /\ unheard \subseteq unheard'
           Goes == \A w \in Writes : /\ pc[w] # "new" => pc'[w] # "new"
                                     /\ pc[w] = "queued" => pc'[w] = "queued"
<1>0. pc \in [Writes -> {"new", "draining", "drained", "sending", "pulling",
                         "applying", "loading", "saving", "queued",
                         "forwarded", "refused", "gone"}]
  BY DEF TypeOK
<1>1. ASSUME NEW w \in Writes, NEW kind \in Ops[w], NEW id \in Ids, Arrive(w, kind, id)
      PROVE  /\ Grows
             /\ Goes
             /\ \A v \in Writes : pc[v] # "new" =>
                   op'[v] = op[v] /\ target'[v] = target[v] /\ ahead'[v] = ahead[v]
  BY <1>0, <1>1 DEF Arrive, Goto, TypeOK
<1>2. ASSUME NEW w \in Writes, Request(w)  PROVE Same /\ Grows /\ Goes
  <2>1. CASE Recheck(w)  BY <1>0, <2>1 DEF Recheck, Goto
  <2>2. CASE ForwardAnswered(w)  BY <1>0, <2>2 DEF ForwardAnswered, Takes, Refuses, Goto
  <2>3. CASE ForwardUnanswered(w)  BY <1>0, <2>3 DEF ForwardUnanswered, Goto
  <2>4. CASE ApplyLocal(w)  BY <1>0, <2>4 DEF ApplyLocal, Goto
  <2>5. CASE PushLoad(w)  BY <1>0, <2>5 DEF PushLoad, Goto
  <2>6. CASE PushSave(w)  BY <1>0, <2>6 DEF PushSave, Goto
  <2>7. CASE PushFails(w)  BY <1>0, <2>7 DEF PushFails, Goto
  <2> QED BY <1>2, <2>1, <2>2, <2>3, <2>4, <2>5, <2>6, <2>7 DEF Request
<1>3. ASSUME NEW w \in Writes, Land(w)  PROVE Same /\ Grows /\ pc' = pc
  BY <1>3 DEF Land, Takes
<1>4. ASSUME NEW p \in Writes \cup {Loop}, Acquire(p)  PROVE Same /\ Grows /\ pc' = pc
  BY <1>4 DEF Acquire
<1>5. CASE Replay
  <2>1. CASE TakeFirst  BY <2>1 DEF TakeFirst
  <2>2. CASE CheckTargets  BY <2>2 DEF CheckTargets
  <2>3. CASE Post  BY <2>3 DEF Post, Takes, Refuses
  <2>4. CASE FileIssue  BY <2>4 DEF FileIssue
  <2>5. CASE DropLocal  BY <2>5 DEF DropLocal
  <2>6. CASE Restore  BY <2>6 DEF Restore
  <2>7. CASE ListRest  BY <2>7 DEF ListRest
  <2>8. CASE SaveRest  BY <2>8 DEF SaveRest
  <2>9. CASE ReplayUnanswered  BY <2>9 DEF ReplayUnanswered
  <2> QED BY <1>5, <2>1, <2>2, <2>3, <2>4, <2>5, <2>6, <2>7, <2>8, <2>9 DEF Replay
<1>6. CASE Pull
  <2>1. ASSUME NEW id \in Ids, PullRow(id)  PROVE Same /\ Grows /\ pc' = pc
    BY <2>1 DEF PullRow
  <2>2. CASE EndPull
    <3>1. Same /\ Grows  BY <2>2 DEF EndPull
    <3>2. Goes  BY <1>0, <2>2 DEF EndPull, Release, Known
    <3> QED BY <3>1, <3>2
  <2> QED BY <1>6, <2>1, <2>2 DEF Pull
<1>7. CASE Primary
  <2>1. ASSUME NEW id \in Ids, NEW u \in UserEdits, UserEdit(id, u)  PROVE Same /\ Grows /\ pc' = pc
    BY <2>1 DEF UserEdit
  <2>2. ASSUME NEW id \in Ids, UserDelete(id)  PROVE Same /\ Grows /\ pc' = pc
    BY <2>2 DEF UserDelete
  <2>3. CASE Revoke  BY <2>3 DEF Revoke
  <2>4. CASE GoDown  BY <2>4 DEF GoDown
  <2>5. CASE ComeBack  BY <2>5 DEF ComeBack
  <2> QED BY <1>7, <2>1, <2>2, <2>3, <2>4, <2>5 DEF Primary
<1>8. CASE Restart
  <2>1. Same /\ Grows  BY <1>8 DEF Restart
  <2>2. Goes  BY <1>0, <1>8 DEF Restart
  <2> QED BY <2>1, <2>2
<1>9. CASE UNCHANGED vars  BY <1>9 DEF vars
<1>10. CASE \E w \in Writes : \E kind \in Ops[w], id \in Ids : Arrive(w, kind, id)
  BY <1>1, <1>10
<1>11. CASE \E w \in Writes : Request(w) \/ Land(w)
  BY <1>2, <1>3, <1>11
<1>12. CASE \E p \in Writes \cup {Loop} : Acquire(p)
  BY <1>4, <1>12
<1> HIDE DEF Same, Grows, Goes
<1> QED BY <1>5, <1>6, <1>7, <1>8, <1>9, <1>10, <1>11, <1>12 DEF Next, Sync

\* What the queues name after a push, and after a replay.
LEMMA QueueWrites ==
    /\ WritesOf(<<>>) = {}
    /\ \A e \in Entry : WritesOf(<<e>>) = {e.write}
    /\ \A q \in Seq(Entry), e \in Entry : WritesOf(Append(q, e)) = WritesOf(q) \cup {e.write}
    /\ \A q \in Seq(Entry), n \in Nat : WritesOf(Without(q, n)) \subseteq WritesOf(q)
<1>1. WritesOf(<<>>) = {}  BY DEF WritesOf
<1>2. ASSUME NEW e \in Entry  PROVE WritesOf(<<e>>) = {e.write}
  BY DEF WritesOf
<1>3. ASSUME NEW q \in Seq(Entry), NEW e \in Entry
      PROVE  WritesOf(Append(q, e)) = WritesOf(q) \cup {e.write}
  <2> DEFINE p == Append(q, e)
  <2>1. /\ DOMAIN p = DOMAIN q \cup {Len(q) + 1} /\ p[Len(q) + 1] = e
        /\ \A i \in DOMAIN q : p[i] = q[i]
    OBVIOUS
  <2> HIDE DEF p
  <2>2. \A i \in DOMAIN p : p[i].write \in WritesOf(q) \cup {e.write}
    BY <2>1 DEF WritesOf
  <2>3. \A w \in WritesOf(q) \cup {e.write} : \E i \in DOMAIN p : p[i].write = w
    BY <2>1 DEF WritesOf
  <2>4. WritesOf(p) = WritesOf(q) \cup {e.write}  BY <2>2, <2>3 DEF WritesOf
  <2> QED BY <2>4 DEF p
<1>4. ASSUME NEW q \in Seq(Entry), NEW n \in Nat
      PROVE  WritesOf(Without(q, n)) \subseteq WritesOf(q)
  <2> DEFINE p == Without(q, n)
  <2>1. PICK f \in [DOMAIN p -> DOMAIN q] : \A i \in DOMAIN p : p[i] = q[f[i]]
    BY WithoutKeeps
  <2> HIDE DEF p
  <2>2. WritesOf(p) \subseteq WritesOf(q)  BY <2>1 DEF WritesOf
  <2> QED BY <2>2 DEF p
<1> QED BY <1>1, <1>2, <1>3, <1>4

\* push's entry is an entry.
LEMMA PushedEntry ==
    ASSUME TypeOK, NEW w \in Writes
    PROVE  [seq |-> NextSeq(loaded[w]), write |-> w] \in Entry
<1>1. loaded[w] \in Seq(Entry)  BY DEF TypeOK
<1>2. NextSeq(loaded[w]) \in Nat \ {0}
  <2>1. CASE loaded[w] = <<>>  BY <2>1 DEF NextSeq
  <2>2. CASE loaded[w] # <<>>
    <3>1. Len(loaded[w]) \in DOMAIN loaded[w]  BY <1>1, <2>2
    <3>2. loaded[w][Len(loaded[w])].seq \in Nat  BY <1>1, <3>1, WritesOfTypes DEF Entry
    <3> QED BY <2>2, <3>2 DEF NextSeq
  <2> QED BY <2>1, <2>2
<1> QED BY <1>2 DEF Entry

\* The variables of the queue, and the steps that change them.
LEMMA QueueSteps ==
    ASSUME [Next]_vars
    PROVE  /\ outbox' = outbox \/ SaveRest \/ \E w \in Writes : PushSave(w)
           /\ rest' = rest \/ ListRest \/ SaveRest \/ EndPull \/ Restart
           /\ head' = head \/ TakeFirst \/ SaveRest \/ ReplayUnanswered \/ EndPull \/ Restart
           /\ loaded' = loaded \/ (\E w \in Writes : PushLoad(w) \/ PushSave(w) \/ PushFails(w)) \/ Restart
           /\ ahead' = ahead \/ \E w \in Writes : \E kind \in Ops[w], id \in Ids : Arrive(w, kind, id)
           /\ filed' \cup unheard' = filed \cup unheard \/ FileIssue
           /\ landed' = landed \/ (\E w \in Writes : ForwardAnswered(w) \/ Land(w)) \/ Post
           /\ late' = late \/ late' \subseteq late
                \/ (\E w \in Writes : ForwardUnanswered(w)) \/ ReplayUnanswered
           /\ strayed' = strayed \/ (\E w \in Writes : PushSave(w) \/ PushFails(w))
                \/ ListRest \/ SaveRest \/ Restart
           /\ holder' = holder \/ (\E p \in Writes \cup {Loop} : Acquire(p)) \/ EndPull \/ Restart
           /\ \/ pc' = pc \/ EndPull \/ Restart
              \/ \E w \in Writes : /\ pc[w] \notin {"draining", "pulling"}
                                   /\ \E s : pc' = [pc EXCEPT ![w] = s]
           /\ stage' = stage \/ Replay \/ (\E p \in Writes \cup {Loop} : Acquire(p)) \/ EndPull \/ Restart
<1> USE DEF linkVars, syncVars, fateVars, dataVars, requestVars
<1>1. CASE \E w \in Writes : \E kind \in Ops[w], id \in Ids : Arrive(w, kind, id)
  BY <1>1 DEF Arrive, Goto
<1>2. CASE \E w \in Writes : Request(w) \/ Land(w)
  <2>1. PICK w \in Writes : Request(w) \/ Land(w)  BY <1>2
  <2>2. CASE Recheck(w)  BY <2>2 DEF Recheck, Goto
  <2>3. CASE ForwardAnswered(w)  BY <2>3 DEF ForwardAnswered, Goto
  <2>4. CASE ForwardUnanswered(w)  BY <2>4 DEF ForwardUnanswered, Goto
  <2>5. CASE ApplyLocal(w)  BY <2>5 DEF ApplyLocal, Goto
  <2>6. CASE PushLoad(w)  BY <2>6 DEF PushLoad, Goto
  <2>7. CASE PushSave(w)  BY <2>7 DEF PushSave, Goto
  <2>8. CASE PushFails(w)  BY <2>8 DEF PushFails, Goto
  <2>9. CASE Land(w)  BY <2>9 DEF Land
  <2> QED BY <2>1, <2>2, <2>3, <2>4, <2>5, <2>6, <2>7, <2>8, <2>9 DEF Request
<1>3. CASE \E p \in Writes \cup {Loop} : Acquire(p)  BY <1>3 DEF Acquire
<1>4. CASE Replay
  <2>1. CASE TakeFirst  BY <1>4, <2>1 DEF TakeFirst
  <2>2. CASE CheckTargets  BY <1>4, <2>2 DEF CheckTargets
  <2>3. CASE Post  BY <1>4, <2>3 DEF Post
  <2>4. CASE FileIssue  BY <1>4, <2>4 DEF FileIssue
  <2>5. CASE DropLocal  BY <1>4, <2>5 DEF DropLocal
  <2>6. CASE Restore  BY <1>4, <2>6 DEF Restore
  <2>7. CASE ListRest  BY <1>4, <2>7 DEF ListRest
  <2>8. CASE SaveRest  BY <1>4, <2>8 DEF SaveRest
  <2>9. CASE ReplayUnanswered  BY <1>4, <2>9 DEF ReplayUnanswered
  <2> QED BY <1>4, <2>1, <2>2, <2>3, <2>4, <2>5, <2>6, <2>7, <2>8, <2>9 DEF Replay
<1>5. CASE \E id \in Ids : PullRow(id)  BY <1>5 DEF PullRow
<1>6. CASE EndPull  BY <1>6 DEF EndPull
<1>7. CASE Primary
  <2>1. CASE \E id \in Ids, u \in UserEdits : UserEdit(id, u)  BY <2>1 DEF UserEdit
  <2>2. CASE \E id \in Ids : UserDelete(id)  BY <2>2 DEF UserDelete
  <2>3. CASE Revoke  BY <2>3 DEF Revoke
  <2>4. CASE GoDown  BY <2>4 DEF GoDown
  <2>5. CASE ComeBack  BY <2>5 DEF ComeBack
  <2> QED BY <1>7, <2>1, <2>2, <2>3, <2>4, <2>5 DEF Primary
<1>8. CASE Restart  BY <1>8 DEF Restart
<1>9. CASE UNCHANGED vars  BY <1>9 DEF vars
<1> QED BY <1>1, <1>2, <1>3, <1>4, <1>5, <1>6, <1>7, <1>8, <1>9 DEF Next, Sync, Pull
-----------------------------------------------------------------------------
\* Known.

LEMMA KnownInit == Init => Known
<1> SUFFICES ASSUME Init  PROVE Known
  OBVIOUS
<1>1. holder \notin Writes  BY ReplicaWritesAssumption DEF Init
<1> QED BY <1>1, QueueWrites DEF Init, Known

LEMMA KnownStep ==
    ASSUME TypeOK, Known, Verdict, [Next]_vars
    PROVE  Known'
<1> USE DEF linkVars, syncVars, fateVars, dataVars, requestVars
<1>0. /\ Queued \subseteq Queued'
      /\ \A w \in Writes : pc[w] # "new" => pc'[w] # "new"
      /\ \A w \in Writes : pc[w] # "new" => ahead'[w] = ahead[w]
  BY Stays DEF Queued
<1>t. /\ outbox \in Seq(Entry) /\ rest \in Seq(Entry) /\ head \in Seq(Entry)
      /\ \A w \in Writes : loaded[w] \in Seq(Entry)
      /\ pc \in [Writes -> {"new", "draining", "drained", "sending", "pulling",
                            "applying", "loading", "saving", "queued",
                            "forwarded", "refused", "gone"}]
      /\ loaded \in [Writes -> Seq(Entry)] /\ ahead \in [Writes -> SUBSET Writes]
  BY DEF TypeOK
<1>1. WritesOf(outbox') \subseteq Queued'
  <2>1. CASE outbox' = outbox  BY <1>0, <2>1 DEF Known
  <2>2. CASE SaveRest  BY <1>0, <2>2 DEF Known, SaveRest
  <2>3. ASSUME NEW w \in Writes, PushSave(w)  PROVE WritesOf(outbox') \subseteq Queued'
    <3>1. WritesOf(outbox') = WritesOf(loaded[w]) \cup {w}
      BY <1>t, <2>3, PushedEntry, QueueWrites DEF PushSave
    <3>2. w \in Queued'  BY <1>t, <2>3 DEF PushSave, Goto, Queued
    <3> QED BY <1>0, <3>1, <3>2 DEF Known
  <2> QED BY <2>1, <2>2, <2>3, QueueSteps
<1>2. WritesOf(rest') \subseteq Queued'
  <2>1. CASE rest' = rest  BY <1>0, <2>1 DEF Known
  <2>2. CASE ListRest
    <3>1. head[1].seq \in Nat  BY <2>2, CurrentTypes DEF ListRest, Trying, Entry
    <3> QED BY <1>0, <1>t, <2>2, <3>1, QueueWrites DEF Known, ListRest
  <2>3. CASE rest' = <<>>  BY <2>3, QueueWrites
  <2> QED BY <2>1, <2>2, <2>3, QueueSteps DEF SaveRest, EndPull, Release, Restart
<1>3. WritesOf(head') \subseteq Queued'
  <2>1. CASE head' = head  BY <1>0, <2>1 DEF Known
  <2>2. CASE outbox # <<>> /\ head' = <<outbox[1]>>
    <3>1. outbox[1] \in Entry /\ outbox[1].write \in WritesOf(outbox)
      BY <1>t, <2>2, WritesOfTypes
    <3>2. WritesOf(head') = {outbox[1].write}  BY <2>2, <3>1, QueueWrites
    <3> QED BY <1>0, <3>1, <3>2 DEF Known
  <2>3. CASE head' = <<>>  BY <2>3, QueueWrites
  <2> QED BY <2>1, <2>2, <2>3, QueueSteps DEF TakeFirst, SaveRest, ReplayUnanswered, EndPull, Release, Restart
<1>4. \A w \in Writes : WritesOf(loaded'[w]) \subseteq Queued'
  <2> TAKE w \in Writes
  <2>1. CASE loaded'[w] = loaded[w]  BY <1>0, <2>1 DEF Known
  <2>2. CASE loaded'[w] = <<>>  BY <2>2, QueueWrites
  <2>3. CASE loaded'[w] = outbox  BY <1>0, <2>3 DEF Known
  <2>4. CASE \E v \in Writes : PushLoad(v) \/ PushSave(v) \/ PushFails(v)
    BY <1>t, <2>1, <2>2, <2>3, <2>4 DEF PushLoad, PushSave, PushFails
  <2> QED BY <2>1, <2>2, <2>4, QueueSteps DEF Restart
<1>5. \A w \in Writes : ahead'[w] \subseteq Queued'
  <2> TAKE w \in Writes
  <2>1. CASE ahead'[w] = ahead[w]  BY <1>0, <2>1 DEF Known
  <2>2. ASSUME NEW v \in Writes, NEW kind, NEW id, Arrive(v, kind, id)
        PROVE  ahead'[w] = ahead[w] \/ ahead'[w] = WritesOf(outbox)
    BY <1>t, <2>2 DEF Arrive
  <2> QED BY <1>0, <2>1, <2>2, QueueSteps DEF Known
<1>6. filed' \cup unheard' \subseteq Queued'
  <2>1. CASE FileIssue
    <3>1. Current \in Queued  BY <2>1, CurrentTypes DEF FileIssue, Trying, Known
    <3> QED BY <1>0, <2>1, <3>1 DEF FileIssue, Known
  <2> QED BY <1>0, <2>1, QueueSteps DEF Known
<1>7. \A w \in landed' : pc'[w] # "new"
  <2>1. CASE landed' = landed  BY <1>0, <2>1 DEF Known, TypeOK
  <2>2. ASSUME NEW w \in Writes, ForwardAnswered(w) \/ Land(w)  PROVE \A v \in landed' : pc'[v] # "new"
    <3>1. landed' \subseteq landed \cup {w}
      BY <2>2 DEF ForwardAnswered, Land, Takes, Refuses
    <3>2. pc[w] # "new"  BY <2>2 DEF ForwardAnswered, Land, Known
    <3> QED BY <1>0, <3>1, <3>2 DEF Known, TypeOK
  <2>3. CASE Post
    <3>1. Current \in Queued  BY <2>3, CurrentTypes DEF Post, Trying, Known
    <3>2. landed' \subseteq landed \cup {Current}  BY <2>3 DEF Post, Takes, Refuses
    <3> QED BY <1>0, <3>1, <3>2 DEF Known, TypeOK, Queued
  <2> QED BY <2>1, <2>2, <2>3, QueueSteps
<1>8. \A w \in late' : pc'[w] # "new"
  <2>1. CASE late' \subseteq late  BY <1>0, <2>1 DEF Known, TypeOK
  <2>2. ASSUME NEW w \in Writes, ForwardUnanswered(w)  PROVE \A v \in late' : pc'[v] # "new"
    BY <1>0, <2>2 DEF ForwardUnanswered, Known, TypeOK
  <2>3. CASE ReplayUnanswered
    <3>1. stage \in Trying  BY <2>3 DEF ReplayUnanswered, Trying
    <3>2. Current \in Queued  BY <3>1, CurrentTypes DEF Known
    <3>3. late' \subseteq late \cup {Current}  BY <2>3 DEF ReplayUnanswered
    <3> QED BY <1>0, <3>2, <3>3 DEF Known, TypeOK, Queued
  <2> QED BY <2>1, <2>2, <2>3, QueueSteps
<1>9. \A w \in strayed' : pc'[w] # "new"
  <2>1. CASE strayed' = strayed  BY <1>0, <2>1 DEF Known, TypeOK
  <2>2. CASE strayed' \subseteq strayed \cup WritesOf(outbox)
    BY <1>0, <2>2 DEF Known, TypeOK, Queued
  <2>3. ASSUME NEW w \in Writes, PushFails(w)  PROVE \A v \in strayed' : pc'[v] # "new"
    BY <1>0, <2>3 DEF PushFails, Known, TypeOK
  <2>4. CASE Restart
    BY <1>0, <2>4 DEF Restart, Known, TypeOK
  <2>5. ASSUME NEW w \in Writes, PushSave(w)  PROVE strayed' \subseteq strayed \cup WritesOf(outbox)
    BY <2>5 DEF PushSave
  <2> QED BY <2>1, <2>2, <2>3, <2>4, <2>5, QueueSteps DEF ListRest, SaveRest
<1>10. holder' \in Writes => pc'[holder'] \in {"draining", "pulling"}
  <2>1. CASE \E p \in Writes \cup {Loop} : Acquire(p)
    BY <2>1 DEF Acquire
  <2>2. CASE holder' = Nobody  BY <2>2, ReplicaWritesAssumption
  <2>3. CASE holder' = holder /\ ~(EndPull \/ Restart)
    <3>1. CASE pc' = pc  BY <2>3, <3>1 DEF Known
    <3>2. ASSUME NEW w \in Writes, NEW s, pc[w] \notin {"draining", "pulling"}, pc' = [pc EXCEPT ![w] = s]
          PROVE  holder \in Writes => pc'[holder] = pc[holder]
      BY <1>t, <3>2 DEF Known
    <3> QED BY <2>3, <3>1, <3>2, QueueSteps DEF Known
  <2> QED BY <2>1, <2>2, <2>3, QueueSteps DEF EndPull, Release, Restart
<1> QED BY <1>1, <1>2, <1>3, <1>4, <1>5, <1>6, <1>7, <1>8, <1>9, <1>10 DEF Known
-----------------------------------------------------------------------------
\* Verdict and Accounted.

LEMMA VerdictInit == Init => Verdict
  BY DEF Init, Verdict, Trying

LEMMA VerdictStep ==
    ASSUME TypeOK, Known, Verdict, [Next]_vars
    PROVE  Verdict'
<1>0. /\ landed \subseteq landed' /\ filed \subseteq filed'
      /\ strayed \subseteq strayed' /\ unheard \subseteq unheard'
  BY Stays
<1>1. CASE stage' = stage /\ head' = head
  BY <1>0, <1>1 DEF Verdict, Current
<1>2. CASE stage' \in {"idle", "first", "pull"}
  BY <1>2 DEF Verdict, Trying
<1>3. CASE TakeFirst
  <2>1. CASE outbox # <<>>
    <3>1. Len(head') = 1  BY <1>3, <2>1 DEF TakeFirst, TypeOK
    <3>2. stage' \in {"post", "check"}  BY <1>3, <2>1 DEF TakeFirst
    <3> QED BY <3>1, <3>2 DEF Verdict
  <2>2. CASE outbox = <<>>  BY <1>2, <1>3, <2>2 DEF TakeFirst
  <2> QED BY <2>1, <2>2
<1>4. CASE head' = head /\ stage \in Trying /\ (CheckTargets \/ Post \/ FileIssue \/ DropLocal \/ Restore \/ ListRest)
  <2>1. Len(head') = 1 /\ Current' = Current  BY <1>4 DEF Verdict, Current
  <2>2. CASE CheckTargets  BY <2>1, <2>2 DEF CheckTargets, Verdict
  <2>3. CASE Post  BY <2>1, <2>3 DEF Post, Takes, Verdict
  <2>4. CASE FileIssue  BY <2>1, <2>4 DEF FileIssue, Verdict
  <2>5. CASE DropLocal
    <3>1. Current \in landed' \cup filed' \cup unheard'  BY <1>0, <2>5 DEF DropLocal, Verdict
    <3>2. stage = "dropRefused" => Current \in filed' \cup unheard'  BY <1>0, <2>5 DEF Verdict
    <3>3. stage' = "list" \/ (stage = "dropRefused" /\ stage' = "restore")  BY <2>5 DEF DropLocal
    <3> QED BY <2>1, <3>1, <3>2, <3>3 DEF Verdict
  <2>6. CASE Restore
    <3>1. Current \in filed' \cup unheard'  BY <1>0, <2>6 DEF Restore, Verdict
    <3>2. stage' \in {"list", "pull"}  BY <2>6 DEF Restore
    <3> QED BY <2>1, <3>1, <3>2 DEF Verdict
  <2>7. CASE ListRest
    <3>1. Current \in landed' \cup filed' \cup unheard'  BY <1>0, <2>7 DEF ListRest, Verdict
    <3>2. stage' = "save"  BY <2>7 DEF ListRest
    <3> QED BY <2>1, <3>1, <3>2 DEF Verdict
  <2> QED BY <1>4, <2>2, <2>3, <2>4, <2>5, <2>6, <2>7
<1>5. CheckTargets \/ Post \/ FileIssue \/ DropLocal \/ Restore \/ ListRest
        => head' = head /\ stage \in Trying
  BY DEF CheckTargets, Post, FileIssue, DropLocal, Restore, ListRest, Trying
<1>6. SaveRest \/ ReplayUnanswered \/ EndPull \/ Restart \/ (\E p \in Writes \cup {Loop} : Acquire(p))
        => stage' \in {"idle", "first", "pull"}
  BY DEF SaveRest, ReplayUnanswered, EndPull, Release, Restart, Acquire
<1> QED BY <1>1, <1>2, <1>3, <1>4, <1>5, <1>6, QueueSteps DEF Replay

\* Only push, done or failed, tells the caller that the write is queued; only the
\* local apply begins a push, and what a push began it ends, or a restart.
LEMMA PushSteps ==
    ASSUME TypeOK, Known, [Next]_vars, NEW w \in Writes
    PROVE  /\ pc'[w] = "queued" => pc[w] = "queued" \/ PushSave(w) \/ PushFails(w)
           /\ pc[w] \in {"loading", "saving"} =>
                 pc'[w] \in {"loading", "saving"} \/ PushSave(w) \/ PushFails(w) \/ Restart
           /\ pc'[w] = "saving" => (pc[w] = "saving" /\ loaded'[w] = loaded[w]) \/ PushLoad(w)
           /\ pc'[w] = "sending" =>
                 \/ pc[w] = "sending" \/ Recheck(w)
                 \/ \E kind \in Ops[w], id \in Ids : Arrive(w, kind, id)
<1> USE DEF linkVars, syncVars, fateVars, dataVars, requestVars
<1> DEFINE Goal ==
      /\ pc'[w] = "queued" => pc[w] = "queued" \/ PushSave(w) \/ PushFails(w)
      /\ pc[w] \in {"loading", "saving"} =>
            pc'[w] \in {"loading", "saving"} \/ PushSave(w) \/ PushFails(w) \/ Restart
      /\ pc'[w] = "saving" => (pc[w] = "saving" /\ loaded'[w] = loaded[w]) \/ PushLoad(w)
      /\ pc'[w] = "sending" =>
            \/ pc[w] = "sending" \/ Recheck(w)
            \/ \E kind \in Ops[w], id \in Ids : Arrive(w, kind, id)
<1> SUFFICES Goal
  OBVIOUS
<1>t. /\ pc \in [Writes -> {"new", "draining", "drained", "sending", "pulling",
                            "applying", "loading", "saving", "queued",
                            "forwarded", "refused", "gone"}]
      /\ loaded \in [Writes -> Seq(Entry)]
  BY DEF TypeOK
<1>0. pc'[w] = pc[w] /\ loaded'[w] = loaded[w] => Goal  OBVIOUS
<1>1. ASSUME NEW v \in Writes, NEW kind \in Ops[v], NEW id \in Ids, Arrive(v, kind, id)
      PROVE  Goal
  <2>1. CASE v # w
    <3>1. pc'[w] = pc[w] /\ loaded' = loaded  BY <1>t, <1>1, <2>1 DEF Arrive, Goto
    <3> QED BY <1>0, <3>1
  <2>2. CASE v = w
    <3>1. pc[w] = "new" /\ pc'[w] \in {"sending", "draining"}  BY <1>t, <1>1, <2>2 DEF Arrive, Goto
    <3> QED BY <1>1, <2>2, <3>1
  <2> QED BY <2>1, <2>2
<1>2. ASSUME NEW v \in Writes, v # w, Request(v)  PROVE Goal
  <2>1. pc'[w] = pc[w]
    BY <1>t, <1>2 DEF Request, Recheck, ForwardAnswered, ForwardUnanswered, ApplyLocal,
                      PushLoad, PushSave, PushFails, Goto
  <2>2. loaded'[w] = loaded[w]
    BY <1>t, <1>2 DEF Request, Recheck, ForwardAnswered, ForwardUnanswered, ApplyLocal,
                      PushLoad, PushSave, PushFails
  <2> QED BY <1>0, <2>1, <2>2
<1>3. CASE Request(w)
  <2>1. CASE Recheck(w)
    <3>1. pc[w] = "drained" /\ pc'[w] \in {"sending", "applying"}  BY <1>t, <2>1 DEF Recheck, Goto
    <3> QED BY <2>1, <3>1
  <2>2. CASE ForwardAnswered(w)
    <3>1. pc[w] = "sending" /\ pc'[w] \in {"pulling", "refused"}
      BY <1>t, <2>2 DEF ForwardAnswered, Goto
    <3> QED BY <3>1
  <2>3. CASE ForwardUnanswered(w)
    <3>1. pc[w] = "sending" /\ pc'[w] = "applying"  BY <1>t, <2>3 DEF ForwardUnanswered, Goto
    <3> QED BY <3>1
  <2>4. CASE ApplyLocal(w)
    <3>1. pc[w] = "applying" /\ pc'[w] \in {"loading", "refused"}  BY <1>t, <2>4 DEF ApplyLocal, Goto
    <3> QED BY <3>1
  <2>5. CASE PushLoad(w)
    <3>1. pc[w] = "loading" /\ pc'[w] = "saving"  BY <1>t, <2>5 DEF PushLoad, Goto
    <3> QED BY <2>5, <3>1
  <2>6. CASE PushSave(w)
    <3>1. pc[w] = "saving" /\ pc'[w] = "queued"  BY <1>t, <2>6 DEF PushSave, Goto
    <3> QED BY <2>6, <3>1
  <2>7. CASE PushFails(w)
    <3>1. pc[w] = "saving" /\ pc'[w] = "queued"  BY <1>t, <2>7 DEF PushFails, Goto
    <3> QED BY <2>7, <3>1
  <2> QED BY <1>3, <2>1, <2>2, <2>3, <2>4, <2>5, <2>6, <2>7 DEF Request
<1>4. CASE \E v \in Writes : Land(v)  BY <1>0, <1>4 DEF Land
<1>5. CASE \E p \in Writes \cup {Loop} : Acquire(p)  BY <1>0, <1>5 DEF Acquire
<1>6. CASE Replay
  <2>1. pc' = pc /\ loaded' = loaded
    BY <1>6 DEF Replay, TakeFirst, CheckTargets, Post, FileIssue, DropLocal, Restore,
                ListRest, SaveRest, ReplayUnanswered
  <2> QED BY <1>0, <2>1
<1>7. CASE \E id \in Ids : PullRow(id)  BY <1>0, <1>7 DEF PullRow
<1>8. CASE EndPull
  <2>1. CASE w = holder
    <3>1. pc[w] \in {"draining", "pulling"} /\ pc'[w] \in {"drained", "forwarded"}
      BY <1>8, <2>1 DEF EndPull, Release, Known
    <3> QED BY <3>1
  <2>2. CASE w # holder
    <3>1. pc'[w] = pc[w] /\ loaded' = loaded  BY <1>8, <2>2 DEF EndPull, Release
    <3> QED BY <1>0, <3>1
  <2> QED BY <2>1, <2>2
<1>9. CASE Primary
  <2>1. pc' = pc /\ loaded' = loaded
    BY <1>9 DEF Primary, UserEdit, UserDelete, Revoke, GoDown, ComeBack
  <2> QED BY <1>0, <2>1
<1>10. CASE Restart
  <2>1. pc'[w] = pc[w] \/ pc'[w] = "gone"  BY <1>10 DEF Restart
  <2>2. pc[w] = "saving" \/ pc[w] = "sending" => pc'[w] = "gone"  BY <1>10 DEF Restart
  <2> QED BY <1>10, <2>1, <2>2
<1>11. CASE UNCHANGED vars  BY <1>0, <1>11 DEF vars
<1> HIDE DEF Goal
<1> QED BY <1>1, <1>2, <1>3, <1>4, <1>5, <1>6, <1>7, <1>8, <1>9, <1>10, <1>11 DEF Next, Sync, Pull

LEMMA AccountedInit == Init => Accounted
  BY DEF Init, Accounted

LEMMA AccountedStep ==
    ASSUME TypeOK, Known, Verdict, Accounted, [Next]_vars
    PROVE  Accounted'
<1> SUFFICES ASSUME NEW w \in Writes, pc'[w] = "queued"
             PROVE  w \in WritesOf(outbox') \/ w \in landed' \cup filed' \cup strayed' \cup unheard'
  BY DEF Accounted
<1>0. /\ landed \subseteq landed' /\ filed \subseteq filed'
      /\ strayed \subseteq strayed' /\ unheard \subseteq unheard'
  BY Stays
<1>t. /\ pc \in [Writes -> {"new", "draining", "drained", "sending", "pulling",
                            "applying", "loading", "saving", "queued",
                            "forwarded", "refused", "gone"}]
      /\ outbox \in Seq(Entry) /\ \A v \in Writes : loaded[v] \in Seq(Entry)
  BY DEF TypeOK
<1>1. CASE pc[w] = "queued"
  <2>1. w \in WritesOf(outbox) \/ w \in landed \cup filed \cup strayed \cup unheard
    BY <1>1 DEF Accounted
  <2>2. CASE outbox' = outbox  BY <1>0, <2>1, <2>2
  <2>3. CASE \E v \in Writes : PushSave(v)
    BY <1>0, <2>1, <2>3 DEF PushSave
  <2>4. CASE SaveRest
    <3>1. Current \in landed \cup filed \cup unheard  BY <2>4 DEF SaveRest, Verdict
    <3> QED BY <1>0, <2>1, <2>4, <3>1 DEF SaveRest
  <2> QED BY <2>2, <2>3, <2>4, QueueSteps
<1>2. CASE pc[w] # "queued"
  <2>1. \/ PushSave(w) \/ PushFails(w)
    BY <1>2, PushSteps
  <2>2. CASE PushSave(w)
    <3>1. WritesOf(outbox') = WritesOf(loaded[w]) \cup {w}
      BY <1>t, <2>2, PushedEntry, QueueWrites DEF PushSave
    <3> QED BY <3>1
  <2>3. CASE PushFails(w)  BY <2>3 DEF PushFails
  <2> QED BY <2>1, <2>2, <2>3
<1> QED BY <1>1, <1>2
-----------------------------------------------------------------------------
\* Matched.

LEMMA TouchesTypes ==
    ASSUME TypeOK, NEW w \in Writes
    PROVE  Targets(w) \subseteq Ids /\ Touches(w) \subseteq Ids
  BY IdsTypes DEF TypeOK, Targets, Touches

\* A write that stands has come, so the rows it touches stay the same.
LEMMA SameRows ==
    ASSUME TypeOK, Known, [Next]_vars, NEW w \in Writes, pc[w] # "new"
    PROVE  /\ Targets(w)' = Targets(w) /\ Creates(w)' = Creates(w)
           /\ Touches(w)' = Touches(w)
<1>1. op'[w] = op[w] /\ target'[w] = target[w]  BY Stays
<1>2. Targets(w)' = Targets(w) /\ Creates(w)' = Creates(w)  BY <1>1 DEF Targets, Creates
<1> QED BY <1>2 DEF Touches, Local

\* A write goes on standing until its own replay saves the queue without it.
LEMMA StandingStays ==
    ASSUME TypeOK, Known, Verdict, [Next]_vars, NEW w \in Writes, Standing(w)
    PROVE  /\ pc[w] # "new"
           /\ Standing(w)' \/ (SaveRest /\ w = Current)
<1>t. outbox \in Seq(Entry) /\ \A v \in Writes : loaded[v] \in Seq(Entry)  BY DEF TypeOK
<1>0. strayed \subseteq strayed'  BY Stays
<1>1. pc[w] # "new"  BY DEF Standing, Unsettled, Known, Queued
<1>2. CASE w \in strayed  BY <1>0, <1>1, <1>2 DEF Standing
<1>3. CASE w \in WritesOf(outbox)
  <2>1. CASE outbox' = outbox  BY <1>1, <1>3, <2>1 DEF Standing, Unsettled, WritesOf
  <2>2. CASE \E v \in Writes : PushSave(v)
    <3>1. w \in WritesOf(outbox') \/ w \in strayed'  BY <1>3, <2>2 DEF PushSave
    <3> QED BY <1>1, <3>1 DEF Standing, Unsettled, WritesOf
  <2>3. CASE SaveRest
    <3>1. w \in WritesOf(outbox') \/ w \in strayed' \/ w = Current  BY <1>3, <2>3 DEF SaveRest
    <3> QED BY <1>1, <2>3, <3>1 DEF Standing, Unsettled, WritesOf
  <2> QED BY <2>1, <2>2, <2>3, QueueSteps
<1>4. CASE pc[w] \in {"loading", "saving"}
  <2>1. CASE pc'[w] \in {"loading", "saving"}  BY <1>1, <2>1 DEF Standing, Unsettled
  <2>2. CASE PushSave(w)
    <3>1. WritesOf(outbox') = WritesOf(loaded[w]) \cup {w}
      BY <1>t, <2>2, PushedEntry, QueueWrites DEF PushSave
    <3> QED BY <1>1, <3>1 DEF Standing, Unsettled, WritesOf
  <2>3. CASE PushFails(w)  BY <1>1, <2>3 DEF PushFails, Standing
  <2>4. CASE Restart  BY <1>1, <1>4, <2>4 DEF Restart, Standing
  <2> QED BY <1>4, <2>1, <2>2, <2>3, <2>4, PushSteps
<1> QED BY <1>2, <1>3, <1>4 DEF Standing, Unsettled

\* What a handler's effect on the primary leaves to the pull.
LEMMA TakesOwes ==
    ASSUME TypeOK, NEW w \in Writes, Takes(w), \A v \in Writes : main[Local(v)] = None
    PROVE  /\ \A id \in Ids : main'[id] = main[id] \/ id \in owed'
           /\ \A id \in Targets(w) : main'[id] # main[id] \/ main'[id] # None => id \in owed'
           /\ \A v \in Writes : main'[Local(v)] = None
           /\ owed \subseteq owed' /\ copy' = copy
<1>1. /\ \A id \in Ids : main'[id] = main[id] \/ id \in owed'
      /\ \A id \in Targets(w) : main'[id] # None => id \in owed'
      /\ owed \subseteq owed' /\ copy' = copy
  BY DEF Takes
<1>2. Targets(w) \subseteq Ids  BY TouchesTypes
<1>3. \A v \in Writes : main'[Local(v)] = None
  <2> TAKE v \in Writes
  <2>1. Local(v) \in Ids /\ Local(v) # Fresh(w)  BY IdsTypes DEF Local, Fresh
  <2>2. main' = Applied(main, w, Fresh(w))  BY DEF Takes
  <2>3. main'[Local(v)] = main[Local(v)]  BY <2>1, <2>2 DEF Applied
  <2> QED BY <2>3
<1> QED BY <1>1, <1>2, <1>3

\* How one step moves the rows of the two machines.
RowsMove ==
    /\ \A id \in Ids :
         /\ main'[id] = main[id] \/ id \in owed'
         /\ \/ copy'[id] = copy[id]
            \/ copy'[id] = main'[id]
            \/ \E w \in Writes : pc[w] = "applying" /\ id \in Touches(w)' /\ Standing(w)'
         /\ id \in owed => id \in owed' \/ copy'[id] = main'[id]
    /\ \A w \in Writes : main'[Local(w)] = None
    /\ owed \subseteq owed' \/ stage = "pull"

LEMMA RowsSteps ==
    ASSUME TypeOK, Known, Verdict, \A w \in Writes : main[Local(w)] = None, [Next]_vars
    PROVE  RowsMove
<1> USE DEF linkVars, syncVars, fateVars, dataVars, requestVars
<1>t. /\ main \in [Ids -> Bodies] /\ copy \in [Ids -> Bodies] /\ owed \subseteq Ids
      /\ pc \in [Writes -> {"new", "draining", "drained", "sending", "pulling",
                            "applying", "loading", "saving", "queued",
                            "forwarded", "refused", "gone"}]
  BY DEF TypeOK
<1>0. main' = main /\ copy' = copy /\ owed \subseteq owed' => RowsMove  BY DEF RowsMove
<1>a. ASSUME NEW w \in Writes, Takes(w)  PROVE RowsMove
  BY <1>a, TakesOwes DEF RowsMove
<1>1. CASE \E w \in Writes : \E kind \in Ops[w], id \in Ids : Arrive(w, kind, id)
  BY <1>0, <1>1 DEF Arrive
<1>2. ASSUME NEW w \in Writes, Request(w)  PROVE RowsMove
  <2>1. CASE ForwardAnswered(w)  BY <1>0, <1>a, <2>1 DEF ForwardAnswered, Refuses
  <2>2. CASE ApplyLocal(w)
    <3>1. CASE copy' = copy  BY <1>0, <2>2, <3>1 DEF ApplyLocal
    <3>2. CASE copy' = Applied(copy, w, Local(w)) /\ Goto(w, "loading")
      <4>1. pc[w] = "applying" /\ pc'[w] = "loading"  BY <1>t, <2>2, <3>2 DEF ApplyLocal, Goto
      <4>2. Standing(w)'  BY <4>1 DEF Standing, Unsettled
      <4>3. Touches(w)' = Touches(w)  BY <4>1, SameRows
      <4>4. \A id \in Ids : copy'[id] = copy[id] \/ id \in Touches(w)
        BY <3>2 DEF Applied, Touches
      <4>5. main' = main /\ owed' = owed  BY <2>2 DEF ApplyLocal
      <4> QED BY <4>1, <4>2, <4>3, <4>4, <4>5 DEF RowsMove
    <3> QED BY <2>2, <3>1, <3>2 DEF ApplyLocal
  <2>3. CASE Recheck(w) \/ ForwardUnanswered(w) \/ PushLoad(w) \/ PushSave(w) \/ PushFails(w)
    BY <1>0, <2>3 DEF Recheck, ForwardUnanswered, PushLoad, PushSave, PushFails
  <2> QED BY <1>2, <2>1, <2>2, <2>3 DEF Request
<1>3. ASSUME NEW w \in Writes, Land(w)  PROVE RowsMove
  BY <1>a, <1>3 DEF Land
<1>4. CASE \E p \in Writes \cup {Loop} : Acquire(p)  BY <1>0, <1>4 DEF Acquire
<1>5. CASE Replay
  <2>0. stage \in Trying => Current \in Writes  BY CurrentTypes
  <2>1. CASE Post  BY <1>0, <1>a, <2>0, <2>1 DEF Post, Refuses, Trying
  <2>2. CASE DropLocal
    <3>1. Current \in Writes  BY <2>0, <2>2 DEF DropLocal, Trying
    <3>2. Local(Current) \in Ids /\ main[Local(Current)] = None  BY <3>1, IdsTypes
    <3>3. main' = main /\ owed' = owed  BY <2>2 DEF DropLocal
    <3>4. \A id \in Ids : copy'[id] = copy[id] \/ copy'[id] = main'[id]
      BY <1>t, <2>2, <3>2, <3>3 DEF DropLocal
    <3> QED BY <3>3, <3>4 DEF RowsMove
  <2>3. CASE Restore
    <3>1. main' = main /\ owed' = owed  BY <2>3 DEF Restore
    <3>2. \A id \in Ids : copy'[id] = copy[id] \/ copy'[id] = main'[id]
      BY <2>3, <3>1 DEF Restore
    <3> QED BY <3>1, <3>2 DEF RowsMove
  <2>4. CASE TakeFirst \/ CheckTargets \/ FileIssue \/ ListRest \/ SaveRest \/ ReplayUnanswered
    BY <1>0, <2>4 DEF TakeFirst, CheckTargets, FileIssue, ListRest, SaveRest, ReplayUnanswered
  <2> QED BY <1>5, <2>1, <2>2, <2>3, <2>4 DEF Replay
<1>6. ASSUME NEW id \in Ids, PullRow(id)  PROVE RowsMove
  <2>1. main' = main /\ stage = "pull" /\ owed' = owed \ {id}  BY <1>6 DEF PullRow
  <2>2. copy'[id] = main'[id] /\ \A i \in Ids : copy'[i] = copy[i] \/ copy'[i] = main'[i]
    BY <1>t, <1>6, <2>1 DEF PullRow
  <2> QED BY <2>1, <2>2 DEF RowsMove
<1>7. CASE EndPull  BY <1>0, <1>7 DEF EndPull
<1>8. ASSUME NEW id \in Ids, main[id] # None, \A i \in Ids : main'[i] = main[i] \/ i = id,
             owed' = owed \cup {id}, copy' = copy
      PROVE  RowsMove
  <2>1. \A w \in Writes : Local(w) \in Ids /\ Local(w) # id  BY <1>8, IdsTypes
  <2> QED BY <1>8, <2>1 DEF RowsMove
<1>9. CASE Primary
  <2>1. ASSUME NEW id \in Ids, NEW u \in UserEdits, UserEdit(id, u)  PROVE RowsMove
    <3>1. main[id] # None /\ owed' = owed \cup {id} /\ copy' = copy  BY <2>1 DEF UserEdit
    <3>2. \A i \in Ids : main'[i] = main[i] \/ i = id  BY <1>t, <2>1 DEF UserEdit
    <3> QED BY <1>8, <3>1, <3>2
  <2>2. ASSUME NEW id \in Ids, UserDelete(id)  PROVE RowsMove
    <3>1. main[id] # None /\ owed' = owed \cup {id} /\ copy' = copy  BY <2>2 DEF UserDelete
    <3>2. \A i \in Ids : main'[i] = main[i] \/ i = id  BY <1>t, <2>2 DEF UserDelete
    <3> QED BY <1>8, <3>1, <3>2
  <2>3. CASE Revoke \/ GoDown \/ ComeBack  BY <1>0, <2>3 DEF Revoke, GoDown, ComeBack
  <2> QED BY <1>9, <2>1, <2>2, <2>3 DEF Primary
<1>10. CASE Restart
  <2>1. main' = main /\ copy' = copy /\ owed' \in {owed, Ids}  BY <1>10 DEF Restart
  <2> QED BY <1>0, <1>t, <2>1
<1>11. CASE UNCHANGED vars  BY <1>0, <1>11 DEF vars
<1> QED BY <1>1, <1>2, <1>3, <1>4, <1>5, <1>6, <1>7, <1>9, <1>10, <1>11 DEF Next, Sync, Pull

\* A row that is alike, or accounted for by some writes, stays so, as long as what
\* is being applied is one of them and the entry being replayed, should it leave
\* the file, is not.
LEMMA LikewiseStays ==
    ASSUME TypeOK, Known, Verdict, [Next]_vars, RowsMove,
           NEW id \in Ids, NEW W \in SUBSET Writes, Likewise(id, W),
           \A w \in Writes : pc[w] = "applying" => w \in W,
           ~SaveRest \/ Current \notin W
    PROVE  \/ copy'[id] = main'[id]
           \/ id \in owed'
           \/ \E w \in W : id \in Touches(w)' /\ Standing(w)'
<1>1. CASE id \in owed  BY <1>1 DEF RowsMove
<1>2. CASE copy[id] = main[id]  BY <1>2 DEF RowsMove
<1>3. CASE \E w \in W : id \in Touches(w) /\ Standing(w)
  <2>1. PICK w \in W : id \in Touches(w) /\ Standing(w)  BY <1>3
  <2>2. w \in Writes /\ ~(SaveRest /\ w = Current)  BY <2>1
  <2>3. Standing(w)' /\ pc[w] # "new"  BY <2>1, <2>2, StandingStays
  <2>4. Touches(w)' = Touches(w)  BY <2>2, <2>3, SameRows
  <2> QED BY <2>1, <2>3, <2>4
<1> QED BY <1>1, <1>2, <1>3 DEF Likewise

\* What replays an entry goes on with it, or has just taken it.
LEMMA GoesOn ==
    ASSUME [Next]_vars, stage' \in Trying
    PROVE  \/ TakeFirst /\ outbox # <<>>
           \/ /\ stage \in Trying /\ head' = head /\ ~SaveRest
              /\ \/ stage' = stage
                 \/ CheckTargets \/ Post \/ FileIssue \/ DropLocal \/ Restore \/ ListRest
<1>1. ~SaveRest /\ ~ReplayUnanswered /\ ~EndPull /\ ~Restart
      /\ ~(\E p \in Writes \cup {Loop} : Acquire(p))
  BY DEF SaveRest, ReplayUnanswered, EndPull, Release, Restart, Acquire, Trying
<1>2. CASE TakeFirst  BY <1>2 DEF TakeFirst, Trying
<1>3. CASE ~TakeFirst
  <2>1. head' = head  BY <1>1, <1>3, QueueSteps
  <2>2. CheckTargets \/ Post \/ FileIssue \/ DropLocal \/ Restore \/ ListRest => stage \in Trying
    BY DEF CheckTargets, Post, FileIssue, DropLocal, Restore, ListRest, Trying
  <2>3. stage' = stage \/ CheckTargets \/ Post \/ FileIssue \/ DropLocal \/ Restore \/ ListRest
    BY <1>1, <1>3, QueueSteps DEF Replay
  <2> QED BY <1>1, <2>1, <2>2, <2>3
<1> QED BY <1>2, <1>3

LEMMA MatchedInit == Init => Matched
<1> SUFFICES ASSUME Init  PROVE Matched
  OBVIOUS
<1>1. \A w \in Writes : Local(w) \in Ids /\ Local(w) \notin Rows
  BY ReplicaWritesAssumption, IdsTypes DEF Local
<1>2. \A w \in Writes : main[Local(w)] = None  BY <1>1 DEF Init
<1>3. copy = main /\ stage = "idle"  BY DEF Init
<1> QED BY <1>2, <1>3 DEF Matched, Likewise

LEMMA MatchedStep ==
    ASSUME TypeOK, Known, Verdict, Matched, [Next]_vars
    PROVE  Matched'
<1>0. RowsMove  BY RowsSteps DEF Matched
<1>c. stage \in Trying => /\ Current \in Writes /\ Current \in Queued /\ pc[Current] = "queued"
                          /\ Targets(Current) \subseteq Ids /\ Touches(Current) \subseteq Ids
                          /\ Local(Current) \in Ids
  <2>1. stage \in Trying => Current \in Writes /\ Current \in Queued
    BY CurrentTypes DEF Known
  <2> QED BY <2>1, TouchesTypes, IdsTypes DEF Queued
\* Of one write, the one being replayed.
<1>d. ASSUME NEW w \in Writes, stage \in Trying, head' = head, w = Current
      PROVE  /\ Current' = w /\ Targets(Current)' = Targets(w) /\ Creates(Current)' = Creates(w)
             /\ Touches(Current)' = Touches(w) /\ Local(Current') = Local(w)
  <2>1. Current' = w  BY <1>d DEF Current
  <2>2. pc[w] # "new"  BY <1>c, <1>d
  <2>3. op'[w] = op[w] /\ target'[w] = target[w]  BY <2>2, Stays
  <2>4. Targets(Current)' = Targets(w) /\ Creates(Current)' = Creates(w)
    BY <2>1, <2>3 DEF Targets, Creates
  <2> QED BY <2>1, <2>4 DEF Touches, Local
<1>1. \A w \in Writes : main'[Local(w)] = None  BY <1>0 DEF RowsMove
<1>2. \A id \in Ids : Likewise(id, Writes)'
  <2> TAKE id \in Ids
  <2>0. Likewise(id, Writes)  BY DEF Matched
  <2>1. CASE ~SaveRest \/ id \notin Touches(Current)
    <3>1. CASE ~SaveRest  BY <1>0, <2>0, <3>1, LikewiseStays DEF Likewise
    <3>2. CASE SaveRest /\ id \notin Touches(Current)
      <4>1. main' = main /\ copy' = copy /\ owed' = owed  BY <3>2 DEF SaveRest, dataVars
      <4>2. ASSUME NEW w \in Writes, id \in Touches(w), Standing(w)
            PROVE  id \in Touches(w)' /\ Standing(w)'
        <5>1. w # Current  BY <3>2, <4>2
        <5>2. Standing(w)' /\ pc[w] # "new"  BY <4>2, <5>1, StandingStays
        <5> QED BY <4>2, <5>2, SameRows
      <4> QED BY <2>0, <4>1, <4>2 DEF Likewise
    <3> QED BY <2>1, <3>1, <3>2
  <2>2. CASE SaveRest /\ id \in Touches(Current)
    <3>1. stage = "save" /\ stage \in Trying  BY <2>2 DEF SaveRest, Trying
    <3>2. Likewise(id, Writes \ {Current})  BY <2>2, <3>1 DEF Matched
    <3>3. \A w \in Writes : pc[w] = "applying" => w \in Writes \ {Current}
      BY <1>c, <3>1
    <3>4. \/ copy'[id] = main'[id]
          \/ id \in owed'
          \/ \E w \in Writes \ {Current} : id \in Touches(w)' /\ Standing(w)'
      BY <1>0, <3>2, <3>3, LikewiseStays
    <3> QED BY <3>4 DEF Likewise
  <2> QED BY <2>1, <2>2
\* The row of a write, but for that write.
<1>3. ASSUME stage \in Trying, ~SaveRest, NEW id \in Ids, Likewise(id, Writes \ {Current})
      PROVE  \/ copy'[id] = main'[id]
             \/ id \in owed'
             \/ \E w \in Writes \ {Current} : id \in Touches(w)' /\ Standing(w)'
  <2>1. \A w \in Writes : pc[w] = "applying" => w \in Writes \ {Current}
    BY <1>c, <1>3
  <2> QED BY <1>0, <1>3, <2>1, LikewiseStays
<1>f. stage # "pull" => owed \subseteq owed'  BY <1>0 DEF RowsMove
<1>4. ASSUME stage' = "post", NEW id \in Targets(Current)'
      PROVE  main'[id] # None \/ id \in owed'
  <2>1. CASE TakeFirst /\ outbox # <<>>
    <3>1. head' = <<outbox[1]>> /\ Targets(outbox[1].write) = {} /\ op' = op /\ target' = target
      BY <1>4, <2>1 DEF TakeFirst, requestVars
    <3>2. Targets(Current)' = {}  BY <3>1 DEF Current, Targets
    <3> QED BY <1>4, <3>2
  <2>2. CASE stage = "post" /\ stage \in Trying /\ head' = head
    <3>1. id \in Targets(Current) /\ id \in Ids  BY <1>c, <1>d, <1>4, <2>2
    <3>2. main[id] # None \/ id \in owed  BY <2>2, <3>1 DEF Matched
    <3> QED BY <1>0, <1>f, <2>2, <3>1, <3>2 DEF RowsMove
  <2>3. CASE CheckTargets /\ stage \in Trying /\ head' = head
    <3>1. id \in Targets(Current)  BY <1>c, <1>d, <1>4, <2>3
    <3> QED BY <1>4, <2>3, <3>1 DEF CheckTargets, dataVars
  <2>4. stage' \in Trying  BY <1>4 DEF Trying
  <2>5. (Post \/ FileIssue \/ DropLocal \/ Restore \/ ListRest) => stage' # "post"
    BY DEF Post, FileIssue, DropLocal, Restore, ListRest
  <2> QED BY <1>4, GoesOn, <2>1, <2>2, <2>3, <2>4, <2>5
<1>5. ASSUME stage' = "drop"  PROVE Targets(Current)' \subseteq owed'
  <2>1. stage' \in Trying /\ ~TakeFirst /\ ~CheckTargets /\ ~FileIssue /\ ~DropLocal /\ ~Restore /\ ~ListRest
    BY <1>5 DEF Trying, TakeFirst, CheckTargets, FileIssue, DropLocal, Restore, ListRest
  <2>2. stage \in Trying /\ head' = head /\ (stage' = stage \/ Post)  BY GoesOn, <2>1
  <2>3. Targets(Current)' = Targets(Current)  BY <1>c, <1>d, <2>2
  <2>4. CASE stage' = stage
    BY <1>5, <1>f, <2>3, <2>4 DEF Matched
  <2>5. CASE Post
    <3>1. Takes(Current) /\ stage = "post"  BY <1>5, <2>5 DEF Post
    <3>2. \A id \in Targets(Current) : main'[id] # main[id] \/ main'[id] # None => id \in owed'
      BY <1>c, <2>2, <3>1, TakesOwes DEF Matched
    <3>3. \A id \in Targets(Current) : main[id] # None \/ id \in owed'
      BY <1>f, <3>1 DEF Matched
    <3> QED BY <2>3, <3>2, <3>3
  <2> QED BY <2>2, <2>4, <2>5
<1>6. ASSUME stage' = "restore", Creates(Current)'
      PROVE  Likewise(Local(Current), Writes \ {Current})'
  <2>1. stage' \in Trying /\ ~TakeFirst /\ ~CheckTargets /\ ~FileIssue /\ ~Post /\ ~Restore /\ ~ListRest
    BY <1>6 DEF Trying, TakeFirst, CheckTargets, FileIssue, Post, Restore, ListRest
  <2>2. stage \in Trying /\ head' = head /\ ~SaveRest /\ (stage' = stage \/ DropLocal)  BY GoesOn, <2>1
  <2>3. Creates(Current) /\ Local(Current') = Local(Current) /\ Current' = Current
    BY <1>c, <1>d, <1>6, <2>2
  <2>4. CASE stage' = stage
    <3>1. Likewise(Local(Current), Writes \ {Current})  BY <1>6, <2>3, <2>4 DEF Matched
    <3> QED BY <1>3, <1>c, <2>2, <2>3, <3>1 DEF Likewise
  <2>5. CASE DropLocal
    <3>1. copy'[Local(Current)] = None  BY <1>c, <2>2, <2>3, <2>5 DEF DropLocal, TypeOK
    <3>2. main'[Local(Current)] = None  BY <1>1, <1>c, <2>2
    <3> QED BY <2>3, <3>1, <3>2 DEF Likewise
  <2> QED BY <2>2, <2>4, <2>5
<1>7. ASSUME stage' \in {"list", "save"}, NEW id \in Touches(Current)'
      PROVE  Likewise(id, Writes \ {Current})'
  <2>1. stage' \in Trying /\ ~TakeFirst /\ ~CheckTargets /\ ~FileIssue /\ ~Post
    BY <1>7 DEF Trying, TakeFirst, CheckTargets, FileIssue, Post
  <2>2. stage \in Trying /\ head' = head /\ ~SaveRest
        /\ (stage' = stage \/ DropLocal \/ Restore \/ ListRest)
    BY GoesOn, <2>1
  <2>3. id \in Touches(Current) /\ id \in Ids /\ Current' = Current
    BY <1>c, <1>d, <1>7, <2>2
  <2>4. Likewise(id, Writes \ {Current}) => Likewise(id, Writes \ {Current})'
    BY <1>3, <2>2, <2>3 DEF Likewise
  <2>5. CASE stage' = stage \/ ListRest
    <3>1. stage \in {"list", "save"}  BY <1>7, <2>5 DEF ListRest
    <3> QED BY <2>3, <2>4, <3>1 DEF Matched
  <2>6. CASE DropLocal
    <3>1. CASE id = Local(Current) /\ Creates(Current)
      <4>1. copy'[Local(Current)] = None  BY <1>c, <2>2, <2>6, <3>1 DEF DropLocal, TypeOK
      <4>2. main'[Local(Current)] = None  BY <1>1, <1>c, <2>2
      <4> QED BY <3>1, <4>1, <4>2 DEF Likewise
    <3>2. CASE id \in Targets(Current)
      <4>1. stage = "drop"
        BY <1>7, <2>6, <3>2 DEF DropLocal, ToRestore
      <4>2. id \in owed'  BY <1>f, <3>2, <4>1 DEF Matched
      <4> QED BY <4>2 DEF Likewise
    <3> QED BY <2>3, <3>1, <3>2 DEF Touches
  <2>7. CASE Restore
    <3>0. stage = "restore" /\ main' = main
          /\ copy' = [i \in Ids |-> IF i \in ToRestore(Current) THEN main[i] ELSE copy[i]]
      BY <1>7, <2>7 DEF Restore
    <3>1. CASE id \in Targets(Current)
      <4>1. copy'[id] = main'[id]  BY <2>3, <3>0, <3>1 DEF ToRestore
      <4> QED BY <4>1 DEF Likewise
    <3>2. CASE id = Local(Current) /\ Creates(Current)
      BY <2>4, <3>0, <3>2 DEF Matched
    <3> QED BY <2>3, <3>1, <3>2 DEF Touches
  <2> QED BY <2>2, <2>5, <2>6, <2>7
<1> QED BY <1>1, <1>2, <1>4, <1>5, <1>6, <1>7 DEF Matched
-----------------------------------------------------------------------------
\* Ordered.

\* A queue of writes that have come stays in order while what is settled grows.
LEMMA OrderlyStays ==
    ASSUME TypeOK, Known, [Next]_vars, NEW q \in Seq(Entry), Orderly(q), WritesOf(q) \subseteq Queued
    PROVE  \A i \in DOMAIN q :
              /\ ahead'[q[i].write] \subseteq Settled' \cup {q[j].write : j \in 1 .. (i - 1)}
              /\ \A j \in DOMAIN q : q[i].write = q[j].write => i = j
<1> SUFFICES ASSUME NEW i \in DOMAIN q
             PROVE  /\ ahead'[q[i].write] \subseteq Settled' \cup {q[j].write : j \in 1 .. (i - 1)}
                    /\ \A j \in DOMAIN q : q[i].write = q[j].write => i = j
  OBVIOUS
<1>1. Settled \subseteq Settled'  BY Stays DEF Settled
<1>2. q[i].write \in Queued /\ q[i].write \in Writes  BY WritesOfTypes
<1>3. ahead'[q[i].write] = ahead[q[i].write]  BY <1>2, Stays DEF Queued
<1> QED BY <1>1, <1>3 DEF Orderly

\* All of the queue that a new write was put behind is settled or still queued.
LEMMA QueuedOrSettled ==
    ASSUME Known, Accounted
    PROVE  \A w \in Writes : ahead[w] \subseteq Settled \cup WritesOf(outbox)
<1> SUFFICES ASSUME NEW w \in Writes, NEW v \in ahead[w]  PROVE v \in Settled \cup WritesOf(outbox)
  OBVIOUS
<1>1. v \in Writes /\ pc[v] = "queued"  BY DEF Known, Queued
<1> QED BY <1>1 DEF Accounted, Settled

LEMMA OrderedInit == Init => Ordered
  BY DEF Init, Ordered, Orderly, Trying

LEMMA OrderedStep ==
    ASSUME TypeOK, Known, Verdict, Accounted, Ordered, [Next]_vars
    PROVE  Ordered'
<1> USE DEF linkVars, syncVars, fateVars, dataVars, requestVars
<1>t. /\ outbox \in Seq(Entry) /\ rest \in Seq(Entry)
      /\ loaded \in [Writes -> Seq(Entry)] /\ ahead \in [Writes -> SUBSET Writes]
      /\ pc \in [Writes -> {"new", "draining", "drained", "sending", "pulling",
                            "applying", "loading", "saving", "queued",
                            "forwarded", "refused", "gone"}]
  BY DEF TypeOK
<1>0. Settled \subseteq Settled'  BY Stays DEF Settled
<1>a. \A w \in Writes : pc[w] # "new" => ahead'[w] = ahead[w]  BY Stays
<1>q. \A q \in Seq(Entry) : Orderly(q) /\ WritesOf(q) \subseteq Queued =>
         \A i \in DOMAIN q :
            /\ ahead'[q[i].write] \subseteq Settled' \cup {q[j].write : j \in 1 .. (i - 1)}
            /\ \A j \in DOMAIN q : q[i].write = q[j].write => i = j
  BY OrderlyStays
<1>o. ASSUME outbox' = outbox  PROVE Orderly(outbox)'
  <2>1. outbox \in Seq(Entry) /\ Orderly(outbox) /\ WritesOf(outbox) \subseteq Queued
    BY <1>t DEF Ordered, Known
  <2> QED BY <1>o, <1>q, <2>1 DEF Orderly
<1>r. ASSUME rest' = rest  PROVE Orderly(rest)'
  <2>1. rest \in Seq(Entry) /\ Orderly(rest) /\ WritesOf(rest) \subseteq Queued
    BY <1>t DEF Ordered, Known
  <2> QED BY <1>r, <1>q, <2>1 DEF Orderly
<1>1. Orderly(outbox)'
  <2>1. CASE SaveRest
    <3>1. outbox' = rest  BY <2>1 DEF SaveRest
    <3>2. rest \in Seq(Entry) /\ Orderly(rest) /\ WritesOf(rest) \subseteq Queued
      BY <1>t DEF Ordered, Known
    <3> QED BY <1>q, <3>1, <3>2 DEF Orderly
  <2>2. ASSUME NEW w \in Writes, PushSave(w)  PROVE Orderly(outbox)'
    <3> DEFINE q == loaded[w]
               e == [seq |-> NextSeq(q), write |-> w]
    <3>0. q \in Seq(Entry) /\ Orderly(q) /\ WritesOf(q) \subseteq Queued /\ pc[w] = "saving"
      BY <1>t, <2>2 DEF Ordered, Known, PushSave
    <3>1. outbox' = Append(q, e)  BY <2>2 DEF PushSave
    <3>2. /\ Len(q) \in Nat /\ DOMAIN q = 1 .. Len(q)
          /\ DOMAIN outbox' = DOMAIN q \cup {Len(q) + 1} /\ outbox'[Len(q) + 1].write = w
          /\ \A i \in DOMAIN q : outbox'[i] = q[i]
      BY <3>0, <3>1
    <3>3. \A i \in DOMAIN q :
             /\ ahead'[q[i].write] \subseteq Settled' \cup {q[j].write : j \in 1 .. (i - 1)}
             /\ \A j \in DOMAIN q : q[i].write = q[j].write => i = j
      BY <1>q, <3>0
    <3>4. ahead'[w] \subseteq Settled' \cup WritesOf(q)
      BY <1>0, <1>a, <3>0 DEF Ordered
    <3>5. w \notin WritesOf(q)  BY <3>0 DEF Queued
    <3> HIDE DEF q, e
    <3>6. \A i \in DOMAIN q : {q[j].write : j \in 1 .. (i - 1)} = {outbox'[j].write : j \in 1 .. (i - 1)}
      <4> TAKE i \in DOMAIN q
      <4>1. \A j \in 1 .. (i - 1) : j \in DOMAIN q  BY <3>2
      <4> QED BY <3>2, <4>1
    <3>7. WritesOf(q) = {outbox'[j].write : j \in 1 .. ((Len(q) + 1) - 1)}
      <4>1. (Len(q) + 1) - 1 = Len(q)  BY <3>2
      <4> QED BY <3>2, <4>1 DEF WritesOf
    <3>8. \A i \in DOMAIN outbox' :
             ahead'[outbox'[i].write] \subseteq Settled' \cup {outbox'[j].write : j \in 1 .. (i - 1)}
      <4> TAKE i \in DOMAIN outbox'
      <4>1. CASE i \in DOMAIN q  BY <3>2, <3>3, <3>6, <4>1
      <4>2. CASE i = Len(q) + 1  BY <3>2, <3>4, <3>7, <4>2
      <4> QED BY <3>2, <4>1, <4>2
    <3>9. \A i, j \in DOMAIN outbox' : outbox'[i].write = outbox'[j].write => i = j
      <4>1. \A i \in DOMAIN q : outbox'[i].write \in WritesOf(q)  BY <3>2 DEF WritesOf
      <4> QED BY <3>2, <3>3, <3>5, <4>1
    <3> QED BY <3>8, <3>9 DEF Orderly
  <2> QED BY <1>o, <2>1, <2>2, QueueSteps
<1>2. Orderly(rest)'
  <2>1. CASE rest' = <<>>  BY <2>1 DEF Orderly
  <2>2. CASE ListRest
    <3> DEFINE q == outbox
               p == Without(outbox, head[1].seq)
    <3>0. q \in Seq(Entry) /\ Orderly(q) /\ WritesOf(q) \subseteq Queued
      BY <1>t DEF Ordered, Known
    <3>1. p \in Seq(Entry)  BY <1>t, WithoutKeeps
    <3>2. PICK f \in [DOMAIN p -> DOMAIN q] :
             /\ \A i \in DOMAIN p : p[i] = q[f[i]] /\ q[f[i]].seq # head[1].seq
             /\ \A i, j \in DOMAIN p : i < j => f[i] < f[j]
             /\ \A k \in DOMAIN q : q[k].seq # head[1].seq => \E i \in DOMAIN p : f[i] = k
      BY <3>0, WithoutKeeps
    <3>3. rest' = p /\ strayed' = strayed \cup (WritesOf(q) \ (WritesOf(p) \cup {Current}))
      BY <2>2 DEF ListRest
    <3>4. Current \in Settled  BY <2>2 DEF ListRest, Verdict, Settled
    <3>5. \A i \in DOMAIN q :
             /\ ahead'[q[i].write] \subseteq Settled' \cup {q[j].write : j \in 1 .. (i - 1)}
             /\ \A j \in DOMAIN q : q[i].write = q[j].write => i = j
      BY <1>q, <3>0
    <3>6. strayed' \subseteq Settled'  BY DEF Settled
    <3>n. /\ Len(p) \in Nat /\ DOMAIN p = 1 .. Len(p) /\ Len(q) \in Nat /\ DOMAIN q = 1 .. Len(q)
      BY <3>0, <3>1
    <3> HIDE DEF p
    <3>7. \A i, j \in DOMAIN p : p[i].write = p[j].write => i = j
      <4> TAKE i, j \in DOMAIN p
      <4> HAVE p[i].write = p[j].write
      <4>1. f[i] \in DOMAIN q /\ f[j] \in DOMAIN q /\ f[i] = f[j]  BY <3>2, <3>5
      <4>2. ~(f[i] < f[j]) /\ ~(f[j] < f[i])  BY <3>n, <4>1
      <4>3. ~(i < j) /\ ~(j < i)  BY <3>2, <4>2
      <4> QED BY <3>n, <4>3
\*  What stood before an entry and is gone was settled or strays now.
    <3>8. ASSUME NEW i \in DOMAIN p, NEW k \in 1 .. (f[i] - 1)
          PROVE  q[k].write \in Settled' \cup {p[j].write : j \in 1 .. (i - 1)}
      <4>1. f[i] \in DOMAIN q  BY <3>2
      <4>2. k \in DOMAIN q /\ k < f[i]  BY <3>n, <3>8, <4>1
      <4>3. CASE q[k].seq # head[1].seq
        <5>1. PICK j \in DOMAIN p : f[j] = k  BY <3>2, <4>2, <4>3
        <5>2. i \in Nat /\ j \in Nat /\ f[i] \in Nat /\ k \in Nat  BY <3>n, <4>1, <4>2
        <5>3. j # i  BY <4>2, <5>1, <5>2
        <5>4. ~(i < j)  BY <3>2, <4>2, <5>1, <5>2
        <5>5. j \in 1 .. (i - 1)  BY <3>n, <5>2, <5>3, <5>4
        <5>6. p[j].write = q[k].write  BY <3>2, <5>1
        <5> QED BY <5>5, <5>6
      <4>4. CASE q[k].seq = head[1].seq
        <5>1. q[k].write \in WritesOf(q)  BY <4>2 DEF WritesOf
        <5>2. q[k].write \notin WritesOf(p)
          <6> SUFFICES ASSUME NEW j \in DOMAIN p, p[j].write = q[k].write  PROVE FALSE
            BY DEF WritesOf
          <6>1. f[j] \in DOMAIN q /\ p[j] = q[f[j]] /\ q[f[j]].seq # head[1].seq  BY <3>2
          <6>2. f[j] = k  BY <3>5, <4>2, <6>1
          <6> QED BY <4>4, <6>1, <6>2
        <5>3. q[k].write = Current \/ q[k].write \in strayed'  BY <3>3, <5>1, <5>2
        <5> QED BY <1>0, <3>4, <3>6, <5>3
      <4> QED BY <4>3, <4>4
    <3>9. \A i \in DOMAIN p : ahead'[p[i].write] \subseteq Settled' \cup {p[j].write : j \in 1 .. (i - 1)}
      <4> TAKE i \in DOMAIN p
      <4>1. f[i] \in DOMAIN q /\ p[i].write = q[f[i]].write  BY <3>2
      <4>2. ahead'[p[i].write] \subseteq Settled' \cup {q[k].write : k \in 1 .. (f[i] - 1)}
        BY <3>5, <4>1
      <4> QED BY <3>8, <4>2
    <3> QED BY <3>3, <3>7, <3>9 DEF Orderly
  <2> QED BY <1>r, <2>1, <2>2, QueueSteps DEF SaveRest, EndPull, Release, Restart
<1>3. \A w \in Writes : Orderly(loaded[w])'
  <2> TAKE w \in Writes
  <2>1. CASE loaded'[w] = loaded[w]
    <3>1. loaded[w] \in Seq(Entry) /\ Orderly(loaded[w]) /\ WritesOf(loaded[w]) \subseteq Queued
      BY <1>t DEF Ordered, Known
    <3> QED BY <1>q, <2>1, <3>1 DEF Orderly
  <2>2. CASE loaded'[w] = <<>>  BY <2>2 DEF Orderly
  <2>3. CASE loaded'[w] = outbox
    <3>1. outbox \in Seq(Entry) /\ Orderly(outbox) /\ WritesOf(outbox) \subseteq Queued
      BY <1>t DEF Ordered, Known
    <3> QED BY <1>q, <2>3, <3>1 DEF Orderly
  <2>4. CASE \E v \in Writes : PushLoad(v) \/ PushSave(v) \/ PushFails(v)
    BY <1>t, <2>1, <2>2, <2>3, <2>4 DEF PushLoad, PushSave, PushFails
  <2> QED BY <2>1, <2>2, <2>4, QueueSteps DEF Restart
<1>4. \A w \in landed' : ahead'[w] \subseteq Settled'
  <2>0. \A w \in landed : w \in Writes /\ ahead'[w] \subseteq Settled'
    BY <1>0, <1>a DEF Ordered, Known, TypeOK
  <2>1. ASSUME NEW w \in Writes, landed' \subseteq landed \cup {w}, pc[w] # "new", ahead[w] \subseteq Settled
        PROVE  \A v \in landed' : ahead'[v] \subseteq Settled'
    BY <1>0, <1>a, <2>0, <2>1
  <2>2. ASSUME NEW w \in Writes, ForwardAnswered(w) \/ Land(w)
        PROVE  \A v \in landed' : ahead'[v] \subseteq Settled'
    <3>1. landed' \subseteq landed \cup {w}
      BY <2>2 DEF ForwardAnswered, Land, Takes, Refuses
    <3>2. pc[w] # "new" /\ ahead[w] \subseteq Settled
      BY <2>2 DEF ForwardAnswered, Land, Known, Ordered
    <3> QED BY <2>1, <3>1, <3>2
  <2>3. CASE Post
    <3>1. landed' \subseteq landed \cup {Current}  BY <2>3 DEF Post, Takes, Refuses
    <3>2. stage \in Trying  BY <2>3 DEF Post, Trying
    <3>3. Current \in Writes /\ pc[Current] = "queued" /\ ahead[Current] \subseteq Settled
      BY <3>2, CurrentTypes DEF Known, Queued, Ordered
    <3> QED BY <2>1, <3>1, <3>3
  <2> QED BY <2>0, <2>2, <2>3, QueueSteps
<1>5. \A w \in late' : ahead'[w] \subseteq Settled'
  <2>0. \A w \in late : w \in Writes /\ ahead'[w] \subseteq Settled'
    BY <1>0, <1>a DEF Ordered, Known, TypeOK
  <2>1. ASSUME NEW w \in Writes, late' \subseteq late \cup {w}, pc[w] # "new", ahead[w] \subseteq Settled
        PROVE  \A v \in late' : ahead'[v] \subseteq Settled'
    BY <1>0, <1>a, <2>0, <2>1
  <2>2. ASSUME NEW w \in Writes, ForwardUnanswered(w)
        PROVE  \A v \in late' : ahead'[v] \subseteq Settled'
    <3>1. late' \subseteq late \cup {w}  BY <2>2 DEF ForwardUnanswered
    <3>2. pc[w] # "new" /\ ahead[w] \subseteq Settled  BY <2>2 DEF ForwardUnanswered, Ordered
    <3> QED BY <2>1, <3>1, <3>2
  <2>3. CASE ReplayUnanswered
    <3>1. stage \in Trying  BY <2>3 DEF ReplayUnanswered, Trying
    <3>2. Current \in Writes /\ pc[Current] = "queued" /\ ahead[Current] \subseteq Settled
      BY <3>1, CurrentTypes DEF Known, Queued, Ordered
    <3>3. late' \subseteq late \cup {Current}  BY <2>3 DEF ReplayUnanswered
    <3> QED BY <2>1, <3>2, <3>3
  <2> QED BY <2>0, <2>2, <2>3, QueueSteps
<1>6. ASSUME NEW w \in Writes
      PROVE  /\ pc'[w] = "sending" => ahead'[w] \subseteq Settled'
             /\ pc'[w] = "saving" => ahead'[w] \subseteq Settled' \cup WritesOf(loaded'[w])
  <2>1. ASSUME pc'[w] = "sending"  PROVE ahead'[w] \subseteq Settled'
    <3>1. CASE pc[w] = "sending"  BY <1>0, <1>a, <3>1 DEF Ordered
    <3>2. CASE Recheck(w)
      <4>1. pc[w] # "new" /\ outbox = <<>>
        BY <1>t, <2>1, <3>2 DEF Recheck, Goto, ForwardNow
      <4> QED BY <1>0, <1>a, <4>1, QueuedOrSettled, QueueWrites
    <3>3. ASSUME NEW kind, NEW id, Arrive(w, kind, id)  PROVE ahead'[w] \subseteq Settled'
      <4>1. ahead'[w] = WritesOf(outbox) /\ outbox = <<>>
        BY <1>t, <2>1, <3>3 DEF Arrive, Goto
      <4> QED BY <4>1, QueueWrites
    <3> QED BY <2>1, <3>1, <3>2, <3>3, PushSteps
  <2>2. ASSUME pc'[w] = "saving"  PROVE ahead'[w] \subseteq Settled' \cup WritesOf(loaded'[w])
    <3>1. CASE pc[w] = "saving" /\ loaded'[w] = loaded[w]
      BY <1>0, <1>a, <3>1 DEF Ordered, WritesOf
    <3>2. CASE PushLoad(w)
      <4>1. pc[w] # "new" /\ loaded'[w] = outbox  BY <1>t, <3>2 DEF PushLoad
      <4>2. ahead[w] \subseteq Settled \cup WritesOf(outbox)  BY QueuedOrSettled
      <4>3. WritesOf(loaded'[w]) = WritesOf(outbox)  BY <4>1
      <4> QED BY <1>0, <1>a, <4>1, <4>2, <4>3
    <3> QED BY <2>2, <3>1, <3>2, PushSteps
  <2> QED BY <2>1, <2>2
<1>7. ASSUME stage' \in Trying  PROVE ahead'[Current'] \subseteq Settled'
  <2>1. CASE head' = head /\ stage \in Trying
    <3>1. Current' = Current  BY <2>1 DEF Current
    <3>2. Current \in Writes /\ pc[Current] = "queued"  BY <2>1, CurrentTypes DEF Known, Queued
    <3> QED BY <1>0, <1>a, <2>1, <3>1, <3>2 DEF Ordered
  <2>2. CASE TakeFirst /\ outbox # <<>>
    <3>1. Current' = outbox[1].write /\ 1 \in DOMAIN outbox  BY <1>t, <2>2 DEF TakeFirst, Current
    <3>2. Orderly(outbox)'  BY <1>1
    <3>3. outbox' = outbox  BY <2>2 DEF TakeFirst
    <3>4. ahead'[outbox[1].write] \subseteq Settled' \cup {outbox[j].write : j \in 1 .. (1 - 1)}
      BY <3>1, <3>2, <3>3 DEF Orderly
    <3>5. 1 .. (1 - 1) = {}  OBVIOUS
    <3> QED BY <3>1, <3>4, <3>5
  <2> QED BY <1>7, <2>1, <2>2, GoesOn
<1> QED BY <1>1, <1>2, <1>3, <1>4, <1>5, <1>6, <1>7 DEF Ordered
-----------------------------------------------------------------------------
\* The theorems.

LEMMA InitIInv == Init => IInv
  BY InitTypes, KnownInit, VerdictInit, AccountedInit, MatchedInit, OrderedInit DEF IInv

LEMMA StepIInv == IInv /\ [Next]_vars => IInv'
<1> SUFFICES ASSUME IInv, [Next]_vars  PROVE IInv'
  OBVIOUS
<1>1. TypeOK'
  <2>1. TypeOK /\ Verdict  BY DEF IInv
  <2> QED BY <2>1, RequestTypes, SyncTypes, PrimaryTypes DEF Next
<1> QED
  BY <1>1, KnownStep, VerdictStep, AccountedStep, MatchedStep, OrderedStep DEF IInv

LEMMA AlwaysIInv == Spec => []IInv
  BY InitIInv, StepIInv, PTL DEF Spec

\* Every reachable state is well-typed, whatever calls are lost or late.
THEOREM TypeCorrectness == Spec => []TypeOK
<1>1. IInv => TypeOK  BY DEF IInv
<1> QED BY <1>1, AlwaysIInv, PTL

\* Whatever the copy shows differently from the primary, the pull is still to bring,
\* or an unsettled or lost write made (forward.rs, outbox.rs, pull.rs).
THEOREM DifferencesExplained == Spec => []Explained
<1>1. IInv => Explained  BY DEF IInv, Matched, Likewise, Standing, Explained
<1> QED BY <1>1, AlwaysIInv, PTL

\* A write the caller was told is queued is in the file until the primary has
\* answered it, unless the file lost it (outbox.rs).
THEOREM QueuedWritesKept == Spec => []Accounted
<1>1. IInv => Accounted  BY DEF IInv
<1> QED BY <1>1, AlwaysIInv, PTL

\* The primary takes no write while one that its request found queued is neither
\* settled nor lost (forward.rs: "Earlier queued writes always go before a new one").
THEOREM EarlierFirst == Spec => []InOrder
<1>1. IInv => InOrder  BY DEF IInv, Ordered, Settled, InOrder
<1> QED BY <1>1, AlwaysIInv, PTL
=============================================================================
