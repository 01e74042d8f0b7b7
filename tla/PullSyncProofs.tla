---------------------------- MODULE PullSyncProofs ----------------------------
(***************************************************************************)
(* Proofs about PullSync, for any sets of rows, bodies and writers and any *)
(* bounds.                                                                 *)
(***************************************************************************)
EXTENDS PullSync, FiniteSetTheorems, TLAPS

LEMMA PendingFinite ==
    ASSUME TypeOK, NEW w \in Writers
    PROVE  Cardinality(pending[w]) \in Nat
  <1>1. pending[w] \subseteq Ids
    BY DEF TypeOK
  <1>2. IsFiniteSet(pending[w])
    BY <1>1, PullSyncAssumption, FS_Subset
  <1>3. QED
    BY <1>2, FS_CardinalityType

LEMMA TypeInit == Init => TypeOK
  BY PullSyncAssumption DEF Init, TypeOK, Tables, Row, Entry

LEMMA TypePrimary == TypeOK /\ Primary => TypeOK'
  <1> SUFFICES ASSUME TypeOK, Primary PROVE TypeOK'
    OBVIOUS
  <1> USE PullSyncAssumption
  <1>1. CASE \E w \in Writers, t \in Tables, id \in Ids, b \in Bodies : Put(w, t, id, b)
    <2> PICK w \in Writers, t \in Tables, id \in Ids, b \in Bodies : Put(w, t, id, b)
      BY <1>1
    <2> QED
      BY DEF Put, TypeOK, pageVars, replicaVars
  <1>2. CASE \E w \in Writers, t \in Tables, P \in SUBSET Ids : ListDoomed(w, t, P)
    <2> PICK w \in Writers, t \in Tables, P \in SUBSET Ids : ListDoomed(w, t, P)
      BY <1>2
    <2> QED
      BY DEF ListDoomed, TypeOK, pageVars, replicaVars
  <1>3. ASSUME NEW w \in Writers, DeleteMatching(w) PROVE TypeOK'
    BY <1>3 DEF DeleteMatching, TypeOK, pageVars, replicaVars
  <1>4. ASSUME NEW w \in Writers, Record(w) PROVE TypeOK'
    <2>1. Cardinality(pending[w]) \in Nat
      BY PendingFinite
    <2>2. PICK order \in [pending[w] -> nextSeq .. nextSeq + Cardinality(pending[w]) - 1] :
            log' = log \cup {[seq |-> order[id], id |-> id] : id \in pending[w]}
      BY <1>4 DEF Record
    <2>3. \A id \in pending[w] : order[id] \in Nat /\ id \in Ids
      BY <2>1 DEF TypeOK
    <2>4. log' \in SUBSET Entry
      BY <2>2, <2>3 DEF TypeOK, Entry
    <2>5. nextSeq' \in Nat \ {0}
      BY <1>4, <2>1 DEF Record, TypeOK
    <2> QED
      BY <1>4, <2>4, <2>5 DEF Record, TypeOK, pageVars, replicaVars
  <1>5. CASE Compact
    BY <1>5 DEF Compact, TypeOK, pageVars, replicaVars
  <1> QED
    BY <1>1, <1>2, <1>3, <1>4, <1>5 DEF Primary

LEMMA TypePull == TypeOK /\ Pull => TypeOK'
  <1> SUFFICES ASSUME TypeOK, Pull PROVE TypeOK'
    OBVIOUS
  <1>1. CASE Fetch
    BY <1>1 DEF Fetch, Taken, TypeOK, Entry, primaryVars, replicaVars
  <1>2. ASSUME NEW id \in Ids, ReadSemantic(id) PROVE TypeOK'
    BY <1>2 DEF ReadSemantic, TypeOK, Row, Tables, primaryVars, replicaVars
  <1>3. ASSUME NEW id \in Ids, ReadEpisodic(id) PROVE TypeOK'
    BY <1>3 DEF ReadEpisodic, TypeOK, Row, Tables, primaryVars, replicaVars
  <1>4. CASE Deliver
    BY <1>4 DEF Deliver, TypeOK, primaryVars, replicaVars
  <1>5. ASSUME NEW r \in rows, PutRow(r) PROVE TypeOK'
    BY <1>5 DEF PutRow, TypeOK, Row, primaryVars
  <1>6. ASSUME NEW r \in rows, DropOther(r) PROVE TypeOK'
    BY <1>6 DEF DropOther, TypeOK, Row, primaryVars
  <1>7. ASSUME NEW id \in Ids, EntombSemantic(id) PROVE TypeOK'
    BY <1>7 DEF EntombSemantic, TypeOK, primaryVars
  <1>8. ASSUME NEW id \in Ids, EntombEpisodic(id) PROVE TypeOK'
    BY <1>8 DEF EntombEpisodic, TypeOK, primaryVars
  <1>9. CASE Finish
    BY <1>9 DEF Finish, TypeOK, primaryVars
  <1> QED
    BY <1>1, <1>2, <1>3, <1>4, <1>5, <1>6, <1>7, <1>8, <1>9 DEF Pull

LEMMA TypeFault == TypeOK /\ Fault => TypeOK'
  <1> SUFFICES ASSUME TypeOK, Fault PROVE TypeOK'
    OBVIOUS
  <1>1. CASE FailPull
    BY <1>1 DEF FailPull, DropPage, TypeOK, primaryVars, replicaVars
  <1>2. CASE RestartReplica
    BY <1>2 DEF RestartReplica, DropPage, TypeOK, primaryVars
  <1>3. CASE RestartPrimary
    BY <1>3 DEF RestartPrimary, DropPage, TypeOK, replicaVars, pageVars
  <1> QED
    BY <1>1, <1>2, <1>3 DEF Fault

LEMMA TypeStep == TypeOK /\ [Next]_vars => TypeOK'
  <1>1. TypeOK /\ UNCHANGED vars => TypeOK'
    BY DEF TypeOK, vars, primaryVars, pageVars, replicaVars
  <1> QED
    BY <1>1, TypePrimary, TypePull, TypeFault DEF Next

\* Every variable of PullSync keeps its type.
THEOREM TypeCorrectness == Spec => []TypeOK
  BY TypeInit, TypeStep, PTL DEF Spec

-----------------------------------------------------------------------------
(* The induction behind CursorSound *)

LEMMA InitIInv == Init => IInv
  BY TypeInit DEF Init, IInv, NumbersOK, PageOK, PageTrue, CursorSound,
     Outstanding, View, Excused, Late, Tables

LEMMA LateEarlier ==
    ASSUME TypeOK, NEW id \in Ids, NEW c \in Nat, NEW d \in Nat, d <= c, Late(id, c)
    PROVE  Late(id, d)
  BY DEF Late, TypeOK, Entry

\* What a step of the primary does to the excuses of each id, for every cursor
\* the log may have handed out.
ExcusesItsChanges ==
    \A id \in Ids, c \in Nat :
        c < nextSeq => /\ Late(id, c) => Late(id, c)'
                       /\ Excused(id, c) => Excused(id, c)'
                       /\ \/ Excused(id, c)'
                          \/ \A t \in Tables : store'[t][id] = store[t][id]

\* A step of the primary keeps the invariant when it excuses every id it
\* touches and takes no excuse away.
LEMMA PrimaryStep ==
    ASSUME IInv, TypeOK', NumbersOK',
           UNCHANGED <<pageVars, replicaVars>>,
           ExcusesItsChanges
    PROVE  IInv'
  <1> USE DEF ExcusesItsChanges
  <1>1. cursor \in Nat /\ pageNext \in Nat /\ cursor < nextSeq
    BY DEF IInv, TypeOK, NumbersOK
  <1>2. cursor' = cursor /\ pageNext' = pageNext /\ phase' = phase /\ copy' = copy
    BY DEF pageVars, replicaVars
  <1>4. \A id \in Ids : View(copy, id)' = View(copy, id)
    BY <1>2 DEF View
  <1>5. CursorSound'
    <2> SUFFICES ASSUME NEW id \in Ids, (View(copy, id) # View(store, id))',
                        ~Excused(id, cursor)'
                 PROVE  FALSE
      BY <1>2 DEF CursorSound
    <2>1. \A t \in Tables : store'[t][id] = store[t][id]
      BY <1>1, <1>2 DEF Excused
    <2>2. View(store, id)' = View(store, id)
      BY <2>1 DEF View, Tables
    <2>3. ~Excused(id, cursor)
      BY <1>1, <1>2 DEF Excused
    <2> QED
      BY <2>2, <2>3, <1>4 DEF IInv, CursorSound
  <1>6. PageOK'
    <2>1. Outstanding' = Outstanding
      BY DEF Outstanding, pageVars
    <2>2. \A id \in Outstanding : Late(id, cursor)'
      <3> SUFFICES ASSUME NEW id \in Outstanding PROVE Late(id, cursor)'
        OBVIOUS
      <3>1. id \in Ids /\ Late(id, cursor)
        BY DEF IInv, PageOK, Outstanding, TypeOK, Row
      <3> QED
        BY <3>1, <1>1, <1>2
    <2>3. \A id \in Outstanding' : Late(id, cursor)'
      BY <2>1, <2>2
    <2> QED
      BY <2>1, <2>3, <1>2 DEF IInv, PageOK, pageVars, replicaVars, Late
  <1>7. PageTrue'
    <2> SUFFICES ASSUME phase' # "idle", NEW id \in Ids, ~Excused(id, pageNext)'
                 PROVE  /\ \A r \in rows' : r.id = id => View(store, id)' = <<r.table, r.body>>
                        /\ id \in tombstones' => View(store, id)' = <<"none", NoRow>>
                        /\ id \in missed' => store'["semantic"][id] = NoRow
                        /\ id \notin Outstanding' => (View(copy, id) = View(store, id))'
      BY <1>2 DEF PageTrue, View
    <2>0. pageNext < nextSeq
      BY <1>2 DEF IInv, NumbersOK
    <2>1. ~Excused(id, pageNext) /\ \A t \in Tables : store'[t][id] = store[t][id]
      BY <1>1, <1>2, <2>0 DEF Excused
    <2>2. View(store, id)' = View(store, id)
      BY <2>1 DEF View, Tables
    <2>3. store'["semantic"][id] = store["semantic"][id]
      BY <2>1 DEF Tables
    <2>4. /\ \A r \in rows : r.id = id => View(store, id) = <<r.table, r.body>>
          /\ id \in tombstones => View(store, id) = <<"none", NoRow>>
          /\ id \in missed => store["semantic"][id] = NoRow
          /\ id \notin Outstanding => View(copy, id) = View(store, id)
      BY <2>1, <1>2 DEF IInv, PageTrue
    <2>5. Outstanding' = Outstanding
      BY DEF Outstanding, pageVars
    <2> QED
      BY <2>2, <2>3, <2>4, <2>5, <1>4 DEF pageVars
  <1> QED
    BY <1>5, <1>6, <1>7 DEF IInv

LEMMA PutKeeps ==
    ASSUME IInv, NEW w \in Writers, NEW t \in Tables, NEW id \in Ids, NEW b \in Bodies,
           Put(w, t, id, b)
    PROVE  IInv'
  <1>1. TypeOK /\ TypeOK'
    BY TypePrimary DEF Primary, IInv
  <1>2. NumbersOK'
    BY DEF IInv, Put, NumbersOK, pageVars, replicaVars
  <1>3. ExcusesItsChanges
    <2> SUFFICES ASSUME NEW i \in Ids, NEW c \in Nat
                 PROVE  /\ Late(i, c) => Late(i, c)'
                        /\ Excused(i, c) => Excused(i, c)'
                        /\ \/ Excused(i, c)'
                           \/ \A u \in Tables : store'[u][i] = store[u][i]
      BY DEF ExcusesItsChanges
    <2>1. Late(i, c) = Late(i, c)'
      BY DEF Late, Put
    <2>2. Pending(i) => Pending(i)'
      BY <1>1 DEF Pending, Put, TypeOK
    <2>3. i = id => Pending(i)'
      BY <1>1 DEF Pending, Put, TypeOK
    <2>4. i # id => \A u \in Tables : store'[u][i] = store[u][i]
      BY <1>1 DEF Put, TypeOK
    <2>5. unlogged' = unlogged
      BY DEF Put
    <2> QED
      BY <2>1, <2>2, <2>3, <2>4, <2>5 DEF Excused
  <1> QED
    BY <1>1, <1>2, <1>3, PrimaryStep DEF Put

LEMMA ListDoomedKeeps ==
    ASSUME IInv, NEW w \in Writers, NEW t \in Tables, NEW P \in SUBSET Ids,
           ListDoomed(w, t, P)
    PROVE  IInv'
  <1>1. TypeOK /\ TypeOK'
    BY TypePrimary DEF Primary, IInv
  <1>2. NumbersOK'
    BY DEF IInv, ListDoomed, NumbersOK, pageVars, replicaVars
  <1>3. ExcusesItsChanges
    <2>1. \A i \in Ids : Pending(i) => Pending(i)'
      BY <1>1 DEF Pending, ListDoomed, TypeOK
    <2> QED
      BY <2>1 DEF ExcusesItsChanges, Excused, Late, ListDoomed
  <1> QED
    BY <1>1, <1>2, <1>3, PrimaryStep DEF ListDoomed

LEMMA DeleteMatchingKeeps ==
    ASSUME IInv, NEW w \in Writers, DeleteMatching(w)
    PROVE  IInv'
  <1>1. TypeOK /\ TypeOK'
    BY TypePrimary DEF Primary, IInv
  <1>2. NumbersOK'
    BY DEF IInv, DeleteMatching, NumbersOK, pageVars, replicaVars
  <1>3. ExcusesItsChanges
    <2> SUFFICES ASSUME NEW i \in Ids, NEW c \in Nat
                 PROVE  /\ Late(i, c) => Late(i, c)'
                        /\ Excused(i, c) => Excused(i, c)'
                        /\ \/ Excused(i, c)'
                           \/ \A u \in Tables : store'[u][i] = store[u][i]
      BY DEF ExcusesItsChanges
    <2>1. Late(i, c) = Late(i, c)'
      BY DEF Late, DeleteMatching
    <2>2. Pending(i) => Pending(i)'
      BY <1>1 DEF Pending, DeleteMatching, TypeOK
    <2>3. unlogged \subseteq unlogged'
      BY DEF DeleteMatching
    <2>4. CASE i \in matching[w] /\ store[target[w]][i] # NoRow
      <3>1. i \in pending[w] => Pending(i)'
        BY <1>1 DEF Pending, DeleteMatching, TypeOK
      <3>2. i \notin pending[w] => i \in unlogged'
        BY <2>4 DEF DeleteMatching
      <3> QED
        BY <3>1, <3>2, <2>1, <2>2, <2>3 DEF Excused
    <2>5. CASE ~(i \in matching[w] /\ store[target[w]][i] # NoRow)
      <3>1. \A u \in Tables : store'[u][i] = store[u][i]
        BY <1>1, <2>5 DEF DeleteMatching, TypeOK
      <3> QED
        BY <3>1, <2>1, <2>2, <2>3 DEF Excused
    <2> QED
      BY <2>4, <2>5
  <1> QED
    BY <1>1, <1>2, <1>3, PrimaryStep DEF DeleteMatching

LEMMA RecordKeeps ==
    ASSUME IInv, NEW w \in Writers, Record(w)
    PROVE  IInv'
  <1>1. TypeOK /\ TypeOK'
    BY TypePrimary DEF Primary, IInv
  <1>2. Cardinality(pending[w]) \in Nat
    BY <1>1, PendingFinite
  <1>3. PICK order \in [pending[w] -> nextSeq .. nextSeq + Cardinality(pending[w]) - 1] :
          log' = log \cup {[seq |-> order[id], id |-> id] : id \in pending[w]}
    BY DEF Record
  <1>4. /\ nextSeq \in Nat
        /\ nextSeq' = nextSeq + Cardinality(pending[w])
        /\ \A id \in pending[w] :
              order[id] \in Nat /\ order[id] >= nextSeq /\ order[id] < nextSeq'
    BY <1>1, <1>2 DEF Record, TypeOK
  <1>5. NumbersOK'
    <2>1. \A e \in log' : e.seq < nextSeq'
      <3> SUFFICES ASSUME NEW e \in log' PROVE e.seq < nextSeq'
        OBVIOUS
      <3>1. CASE e \in log
        <4>1. e.seq \in Nat /\ e.seq < nextSeq
          BY <1>1, <3>1 DEF IInv, NumbersOK, TypeOK, Entry
        <4> QED
          BY <4>1, <1>2, <1>4
      <3>2. CASE \E id \in pending[w] : e = [seq |-> order[id], id |-> id]
        BY <3>2, <1>4
      <3> QED
        BY <1>3, <3>1, <3>2
    <2> QED
      BY <1>1, <1>2, <1>4, <2>1 DEF IInv, NumbersOK, Record, TypeOK, pageVars, replicaVars
  <1>6. ExcusesItsChanges
    <2> SUFFICES ASSUME NEW i \in Ids, NEW c \in Nat, c < nextSeq
                 PROVE  /\ Late(i, c) => Late(i, c)'
                        /\ Excused(i, c) => Excused(i, c)'
                        /\ \A u \in Tables : store'[u][i] = store[u][i]
      BY DEF ExcusesItsChanges
    <2>1. Late(i, c) => Late(i, c)'
      BY <1>3 DEF Late
    <2>2. i \in pending[w] => Late(i, c)'
      <3> SUFFICES ASSUME i \in pending[w] PROVE Late(i, c)'
        OBVIOUS
      <3>1. [seq |-> order[i], id |-> i] \in log'
        BY <1>3
      <3>2. order[i] > c
        BY <1>4
      <3> QED
        BY <3>1, <3>2 DEF Late
    <2>3. Pending(i) => i \in pending[w] \/ Pending(i)'
      BY <1>1 DEF Pending, Record, TypeOK
    <2>4. i \in unlogged => i \in pending[w] \/ i \in unlogged'
      BY DEF Record
    <2> QED
      BY <2>1, <2>2, <2>3, <2>4 DEF Excused, Record
  <1> QED
    BY <1>1, <1>5, <1>6, PrimaryStep DEF Record

LEMMA CompactKeeps ==
    ASSUME IInv, Compact
    PROVE  IInv'
  <1>1. TypeOK /\ TypeOK'
    BY TypePrimary DEF Primary, IInv
  <1>2. NumbersOK'
    BY <1>1 DEF IInv, Compact, NumbersOK, pageVars, replicaVars
  <1>3. \A i \in Ids, c \in Nat : Late(i, c) => Late(i, c)'
    <2> SUFFICES ASSUME NEW i \in Ids, NEW c \in Nat, Late(i, c)
                 PROVE  Late(i, c)'
      OBVIOUS
    <2>1. PICK e \in log : e.id = i /\ e.seq > c
      BY DEF Late
    <2>2. PICK f \in log' : f.id = e.id /\ f.seq >= e.seq
      BY DEF Compact
    <2>3. e.seq \in Nat /\ f.seq \in Nat
      BY <1>1, <2>1, <2>2 DEF TypeOK, Entry
    <2> QED
      BY <2>1, <2>2, <2>3 DEF Late
  <1>4. ExcusesItsChanges
    <2>1. \A i \in Ids : Pending(i)' = Pending(i)
      BY DEF Pending, Compact
    <2> QED
      BY <1>3, <2>1 DEF ExcusesItsChanges, Excused, Compact
  <1> QED
    BY <1>1, <1>2, <1>4, PrimaryStep DEF Compact

-----------------------------------------------------------------------------
(* The pull *)

LEMMA FetchKeeps ==
    ASSUME IInv, Fetch
    PROVE  IInv'
  <1>1. TypeOK /\ TypeOK'
    BY TypePull DEF Pull, IInv
  <1> USE DEF primaryVars, replicaVars
  <1>2. PICK last \in log : /\ last.seq > cursor
                            /\ pageNext' = last.seq
                            /\ unread' = {e.id : e \in Taken(last.seq)}
    BY DEF Fetch
  <1>3. last.seq \in Nat /\ last.seq < nextSeq /\ cursor \in Nat
    BY <1>1, <1>2 DEF IInv, NumbersOK, TypeOK, Entry
  <1>4. /\ UNCHANGED <<missed, rows, tombstones, half, primaryVars, replicaVars>>
        /\ phase = "idle" /\ phase' = "reading"
        /\ missed = {} /\ rows = {} /\ tombstones = {} /\ half = {}
    BY DEF Fetch, IInv, PageOK, Outstanding
  <1>5. NumbersOK'
    BY <1>2, <1>3, <1>4 DEF IInv, NumbersOK
  <1>6. Outstanding' = unread'
    BY <1>4 DEF Outstanding
  <1>7. \A id \in unread' : id \in Ids /\ Late(id, cursor)'
    BY <1>1, <1>2, <1>4 DEF Taken, Late, TypeOK, Entry
  <1>8. PageOK'
    BY <1>4, <1>6, <1>7 DEF PageOK
  <1>9. PageTrue'
    <2> SUFFICES ASSUME NEW id \in Ids, ~Excused(id, pageNext)', id \notin unread'
                 PROVE  (View(copy, id) = View(store, id))'
      BY <1>4, <1>6 DEF PageTrue
    <2>1. ~Late(id, last.seq) /\ ~Pending(id) /\ id \notin unlogged
      BY <1>2, <1>4 DEF Excused, Late, Pending
    <2>2. ~Late(id, cursor)
      <3> SUFFICES ASSUME NEW e \in log, e.id = id, e.seq > cursor PROVE FALSE
        BY DEF Late
      <3>1. e.seq \in Nat
        BY <1>1 DEF TypeOK, Entry
      <3>2. e.seq <= last.seq
        BY <2>1, <1>3, <3>1 DEF Late
      <3> QED
        BY <1>2, <3>2 DEF Taken
    <2>3. View(copy, id) = View(store, id)
      BY <2>1, <2>2 DEF Excused, IInv, CursorSound
    <2> QED
      BY <2>3, <1>4 DEF View
  <1>10. CursorSound'
    BY <1>4 DEF IInv, CursorSound, View, Excused, Late, Pending
  <1> QED
    BY <1>1, <1>5, <1>8, <1>9, <1>10 DEF IInv

LEMMA ReadSemanticKeeps ==
    ASSUME IInv, NEW id \in Ids, ReadSemantic(id)
    PROVE  IInv'
  <1>1. TypeOK /\ TypeOK'
    BY TypePull DEF Pull, IInv
  <1> USE DEF primaryVars, replicaVars
  <1>2. /\ UNCHANGED <<phase, pageNext, tombstones, half, primaryVars, replicaVars>>
        /\ phase = "reading" /\ half = {} /\ missed = {}
        /\ id \in unread /\ unread' = unread \ {id}
    BY DEF ReadSemantic, IInv, PageOK
  <1>3. /\ NumbersOK'
        /\ CursorSound'
    BY <1>2 DEF IInv, NumbersOK, CursorSound, View, Excused, Late, Pending
  <1>4. \A i \in Ids : /\ Excused(i, pageNext)' = Excused(i, pageNext)
                       /\ View(store, i)' = View(store, i)
                       /\ View(copy, i)' = View(copy, i)
    BY <1>2 DEF View, Excused, Late, Pending
  <1>5. \A i \in Outstanding : Late(i, cursor)'
    BY <1>2 DEF IInv, PageOK, Late
  <1>6. id \notin tombstones /\ \A r \in rows : r.id # id
    BY <1>2 DEF IInv, PageOK
  <1>7. CASE store["semantic"][id] # NoRow
    <2> DEFINE new == [id |-> id, table |-> "semantic", body |-> store["semantic"][id]]
    <2>1. rows' = rows \cup {new} /\ missed' = {}
      BY <1>2, <1>7 DEF ReadSemantic
    <2>2. Outstanding' = Outstanding
      <3>1. new.id = id
        OBVIOUS
      <3> HIDE DEF new
      <3>2. {r.id : r \in rows'} = {r.id : r \in rows} \cup {id}
        BY <2>1, <3>1
      <3> QED
        BY <1>2, <2>1, <3>2 DEF Outstanding
    <2>3. PageOK'
      <3>1. new.id = id
        OBVIOUS
      <3>2. \A r \in rows' : /\ r.id \notin unread' \cup missed' \cup tombstones'
                             /\ \A q \in rows' : q.id = r.id => q = r
        BY <1>2, <1>6, <2>1, <3>1 DEF IInv, PageOK
      <3>3. /\ \A i \in missed' : missed' = {i} /\ i \notin unread'
            /\ tombstones' \cap (unread' \cup missed') = {}
        BY <1>2, <2>1 DEF IInv, PageOK
      <3> HIDE DEF new
      <3> QED
        BY <1>2, <1>5, <2>2, <3>2, <3>3 DEF PageOK
    <2>4. View(store, id) = <<new.table, new.body>>
      BY <1>7 DEF View
    <2>5. PageTrue'
      BY <1>2, <1>4, <2>1, <2>2, <2>4 DEF IInv, PageTrue
    <2> QED
      BY <1>1, <1>3, <2>3, <2>5 DEF IInv
  <1>8. CASE store["semantic"][id] = NoRow
    <2>1. rows' = rows /\ missed' = {id}
      BY <1>2, <1>8 DEF ReadSemantic
    <2>2. Outstanding' = Outstanding
      BY <1>2, <2>1 DEF Outstanding
    <2>3. PageOK'
      BY <1>2, <1>5, <1>6, <2>1, <2>2 DEF IInv, PageOK
    <2>4. PageTrue'
      BY <1>2, <1>4, <1>8, <2>1, <2>2 DEF IInv, PageTrue
    <2> QED
      BY <1>1, <1>3, <2>3, <2>4 DEF IInv
  <1> QED
    BY <1>7, <1>8

LEMMA ReadEpisodicKeeps ==
    ASSUME IInv, NEW id \in Ids, ReadEpisodic(id)
    PROVE  IInv'
  <1>1. TypeOK /\ TypeOK'
    BY TypePull DEF Pull, IInv
  <1> USE DEF primaryVars, replicaVars
  <1>2. /\ UNCHANGED <<phase, pageNext, unread, half, primaryVars, replicaVars>>
        /\ phase = "reading" /\ half = {} /\ missed' = {}
        /\ id \in missed
    BY DEF ReadEpisodic, IInv, PageOK
  <1>3. /\ NumbersOK'
        /\ CursorSound'
    BY <1>2 DEF IInv, NumbersOK, CursorSound, View, Excused, Late, Pending
  <1>4. \A i \in Ids : /\ Excused(i, pageNext)' = Excused(i, pageNext)
                       /\ View(store, i)' = View(store, i)
                       /\ View(copy, i)' = View(copy, i)
    BY <1>2 DEF View, Excused, Late, Pending
  <1>5. \A i \in Outstanding : Late(i, cursor)'
    BY <1>2 DEF IInv, PageOK, Late
  <1>6. id \notin tombstones /\ id \notin unread /\ \A r \in rows : r.id # id
    BY <1>2 DEF IInv, PageOK
  <1>7. Excused(id, pageNext) \/ store["semantic"][id] = NoRow
    BY <1>2 DEF IInv, PageTrue
  <1>8. missed \subseteq Ids
    BY <1>1 DEF TypeOK
  <1>9. missed = {id}
    BY <1>2 DEF IInv, PageOK
  <1>10. CASE store["episodic"][id] # NoRow
    <2> DEFINE new == [id |-> id, table |-> "episodic", body |-> store["episodic"][id]]
    <2>1. rows' = rows \cup {new} /\ tombstones' = tombstones
      BY <1>2, <1>10 DEF ReadEpisodic
    <2>2. Outstanding' = Outstanding
      <3>1. new.id = id
        OBVIOUS
      <3> HIDE DEF new
      <3>2. {r.id : r \in rows'} = {r.id : r \in rows} \cup {id}
        BY <2>1, <3>1
      <3> QED
        BY <1>2, <1>9, <2>1, <3>2 DEF Outstanding
    <2>3. PageOK'
      <3>1. new.id = id
        OBVIOUS
      <3>2. \A r \in rows' : /\ r.id \notin unread' \cup missed' \cup tombstones'
                             /\ \A q \in rows' : q.id = r.id => q = r
        BY <1>2, <1>6, <2>1, <3>1 DEF IInv, PageOK
      <3>3. /\ \A i \in missed' : missed' = {i} /\ i \notin unread'
            /\ tombstones' \cap (unread' \cup missed') = {}
        BY <1>2, <2>1 DEF IInv, PageOK
      <3> HIDE DEF new
      <3> QED
        BY <1>2, <1>5, <2>2, <3>2, <3>3 DEF PageOK
    <2>4. Excused(id, pageNext) \/ View(store, id) = <<new.table, new.body>>
      BY <1>7, <1>10 DEF View
    <2>5. PageTrue'
      BY <1>2, <1>4, <2>1, <2>2, <2>4 DEF IInv, PageTrue
    <2> QED
      BY <1>1, <1>3, <2>3, <2>5 DEF IInv
  <1>11. CASE store["episodic"][id] = NoRow
    <2>1. rows' = rows /\ tombstones' = tombstones \cup {id}
      BY <1>2, <1>11 DEF ReadEpisodic
    <2>2. Outstanding' = Outstanding
      BY <1>2, <1>9, <2>1 DEF Outstanding
    <2>3. PageOK'
      BY <1>2, <1>5, <1>6, <2>1, <2>2 DEF IInv, PageOK
    <2>4. Excused(id, pageNext) \/ View(store, id) = <<"none", NoRow>>
      BY <1>7, <1>11 DEF View
    <2>5. PageTrue'
      BY <1>2, <1>4, <2>1, <2>2, <2>4 DEF IInv, PageTrue
    <2> QED
      BY <1>1, <1>3, <2>3, <2>5 DEF IInv
  <1> QED
    BY <1>10, <1>11

LEMMA DeliverKeeps ==
    ASSUME IInv, Deliver
    PROVE  IInv'
  <1>1. TypeOK /\ TypeOK'
    BY TypePull DEF Pull, IInv
  <1> USE DEF primaryVars
  <1>2. Outstanding' = Outstanding
    BY DEF Deliver, Outstanding
  <1>3. /\ NumbersOK'
        /\ CursorSound'
    BY DEF IInv, Deliver, replicaVars, NumbersOK, CursorSound, View, Excused, Late, Pending
  <1>4. PageOK'
    BY <1>2 DEF IInv, Deliver, replicaVars, PageOK, Late
  <1>5. PageTrue'
    BY <1>2 DEF IInv, Deliver, replicaVars, PageTrue, View, Excused, Late, Pending
  <1> QED
    BY <1>1, <1>3, <1>4, <1>5 DEF IInv

LEMMA PutRowKeeps ==
    ASSUME IInv, NEW r \in rows, PutRow(r)
    PROVE  IInv'
  <1>1. TypeOK /\ TypeOK'
    BY TypePull DEF Pull, IInv
  <1> USE DEF primaryVars
  <1>2. /\ UNCHANGED <<phase, pageNext, unread, missed, rows, tombstones>>
        /\ UNCHANGED <<primaryVars, cursor, saved>>
        /\ phase = "applying" /\ half = {} /\ half' = {r.id}
        /\ copy' = [copy EXCEPT ![r.table][r.id] = r.body]
    BY DEF PutRow
  <1>3. r \in Row /\ r.id \in Ids /\ r.table \in Tables
    BY <1>1 DEF TypeOK, Row
  <1>4. r.id \in Outstanding /\ Late(r.id, cursor) /\ Outstanding' = Outstanding
    BY <1>2 DEF IInv, PageOK, Outstanding
  <1>5. \A i \in Ids : i # r.id => View(copy, i)' = View(copy, i)
    BY <1>1, <1>2, <1>3 DEF View, TypeOK, Tables
  <1>6. \A i \in Ids : /\ View(store, i)' = View(store, i)
                       /\ Excused(i, pageNext)' = Excused(i, pageNext)
                       /\ Excused(i, cursor)' = Excused(i, cursor)
                       /\ Late(i, cursor)' = Late(i, cursor)
    BY <1>2 DEF View, Excused, Late, Pending
  <1>7. NumbersOK'
    BY <1>2 DEF IInv, NumbersOK
  <1>8. CursorSound'
    BY <1>4, <1>5, <1>6 DEF IInv, CursorSound, Excused
  <1>9. PageOK'
    <2>1. copy'[r.table][r.id] = r.body
      BY <1>1, <1>2, <1>3 DEF TypeOK
    <2>2. \A q \in rows : q.id = r.id => q = r
      BY DEF IInv, PageOK
    <2>3. r.id \notin tombstones
      BY DEF IInv, PageOK
    <2>4. \A i \in Outstanding' : Late(i, cursor)'
      BY <1>1, <1>4, <1>2 DEF IInv, PageOK, Late
    <2> QED
      BY <1>2, <1>4, <2>1, <2>2, <2>3, <2>4 DEF IInv, PageOK
  <1>10. PageTrue'
    BY <1>2, <1>4, <1>5, <1>6 DEF IInv, PageTrue
  <1> QED
    BY <1>1, <1>7, <1>8, <1>9, <1>10 DEF IInv

LEMMA DropOtherKeeps ==
    ASSUME IInv, NEW r \in rows, DropOther(r)
    PROVE  IInv'
  <1>1. TypeOK /\ TypeOK'
    BY TypePull DEF Pull, IInv
  <1> USE DEF primaryVars
  <1>2. /\ UNCHANGED <<phase, pageNext, unread, missed, tombstones>>
        /\ UNCHANGED <<primaryVars, cursor, saved>>
        /\ phase = "applying" /\ half = {r.id} /\ half' = {}
        /\ rows' = rows \ {r}
        /\ copy' = [copy EXCEPT ![Other(r.table)][r.id] = NoRow]
    BY DEF DropOther
  <1>3. r \in Row /\ r.id \in Ids /\ r.table \in Tables /\ r.body \in Bodies
    BY <1>1 DEF TypeOK, Row
  <1>4. r.id \in Outstanding /\ Late(r.id, cursor)
    BY <1>2 DEF IInv, PageOK, Outstanding
  <1>5. Outstanding = Outstanding' \cup {r.id}
    BY <1>2 DEF Outstanding
  <1>6. r.id \notin Outstanding'
    BY <1>2 DEF IInv, PageOK, Outstanding
  <1>7. \A i \in Ids : i # r.id => View(copy, i)' = View(copy, i)
    BY <1>1, <1>2, <1>3 DEF View, TypeOK, Tables, Other
  <1>8. \A i \in Ids : /\ View(store, i)' = View(store, i)
                       /\ Excused(i, pageNext)' = Excused(i, pageNext)
                       /\ Excused(i, cursor)' = Excused(i, cursor)
                       /\ Late(i, cursor)' = Late(i, cursor)
    BY <1>2 DEF View, Excused, Late, Pending
  <1>9. View(copy, r.id)' = <<r.table, r.body>>
    <2>1. copy[r.table][r.id] = r.body
      BY <1>2 DEF IInv, PageOK
    <2>2. r.body # NoRow
      BY <1>3, PullSyncAssumption
    <2> QED
      BY <1>1, <1>2, <1>3, <2>1, <2>2 DEF View, TypeOK, Tables, Other
  <1>10. NumbersOK'
    BY <1>2 DEF IInv, NumbersOK
  <1>11. CursorSound'
    BY <1>4, <1>7, <1>8 DEF IInv, CursorSound, Excused
  <1>12. PageOK'
    BY <1>2, <1>5, <1>8 DEF IInv, PageOK, Late
  <1>13. PageTrue'
    <2>1. Excused(r.id, pageNext) \/ View(store, r.id) = <<r.table, r.body>>
      BY <1>2, <1>3 DEF IInv, PageTrue
    <2> QED
      BY <1>2, <1>5, <1>7, <1>8, <1>9, <2>1 DEF IInv, PageTrue
  <1> QED
    BY <1>1, <1>10, <1>11, <1>12, <1>13 DEF IInv

LEMMA EntombSemanticKeeps ==
    ASSUME IInv, NEW id \in Ids, EntombSemantic(id)
    PROVE  IInv'
  <1>1. TypeOK /\ TypeOK'
    BY TypePull DEF Pull, IInv
  <1> USE DEF primaryVars
  <1>2. /\ UNCHANGED <<phase, pageNext, unread, missed, rows, tombstones>>
        /\ UNCHANGED <<primaryVars, cursor, saved>>
        /\ phase = "applying" /\ half = {} /\ half' = {id} /\ rows = {}
        /\ id \in tombstones
        /\ copy' = [copy EXCEPT !["semantic"][id] = NoRow]
    BY DEF EntombSemantic
  <1>3. id \in Outstanding /\ Late(id, cursor) /\ Outstanding' = Outstanding
    BY <1>2 DEF IInv, PageOK, Outstanding
  <1>4. \A i \in Ids : i # id => View(copy, i)' = View(copy, i)
    BY <1>1, <1>2 DEF View, TypeOK, Tables
  <1>5. \A i \in Ids : /\ View(store, i)' = View(store, i)
                       /\ Excused(i, pageNext)' = Excused(i, pageNext)
                       /\ Excused(i, cursor)' = Excused(i, cursor)
                       /\ Late(i, cursor)' = Late(i, cursor)
    BY <1>2 DEF View, Excused, Late, Pending
  <1>6. NumbersOK'
    BY <1>2 DEF IInv, NumbersOK
  <1>7. CursorSound'
    BY <1>3, <1>4, <1>5 DEF IInv, CursorSound, Excused
  <1>8. PageOK'
    <2>1. copy'["semantic"][id] = NoRow
      BY <1>1, <1>2 DEF TypeOK, Tables
    <2> QED
      BY <1>2, <1>3, <1>5, <2>1 DEF IInv, PageOK, Late
  <1>9. PageTrue'
    BY <1>2, <1>3, <1>4, <1>5 DEF IInv, PageTrue
  <1> QED
    BY <1>1, <1>6, <1>7, <1>8, <1>9 DEF IInv

LEMMA EntombEpisodicKeeps ==
    ASSUME IInv, NEW id \in Ids, EntombEpisodic(id)
    PROVE  IInv'
  <1>1. TypeOK /\ TypeOK'
    BY TypePull DEF Pull, IInv
  <1> USE DEF primaryVars
  <1>2. /\ UNCHANGED <<phase, pageNext, unread, missed, rows>>
        /\ UNCHANGED <<primaryVars, cursor, saved>>
        /\ phase = "applying" /\ half = {id} /\ half' = {} /\ rows = {}
        /\ id \in tombstones /\ tombstones' = tombstones \ {id}
        /\ copy' = [copy EXCEPT !["episodic"][id] = NoRow]
    BY DEF EntombEpisodic
  <1>3. /\ id \in Outstanding /\ Late(id, cursor)
        /\ Outstanding = Outstanding' \cup {id}
    BY <1>2 DEF IInv, PageOK, Outstanding
  <1>4. \A i \in Ids : i # id => View(copy, i)' = View(copy, i)
    BY <1>1, <1>2 DEF View, TypeOK, Tables
  <1>5. \A i \in Ids : /\ View(store, i)' = View(store, i)
                       /\ Excused(i, pageNext)' = Excused(i, pageNext)
                       /\ Excused(i, cursor)' = Excused(i, cursor)
                       /\ Late(i, cursor)' = Late(i, cursor)
    BY <1>2 DEF View, Excused, Late, Pending
  <1>6. View(copy, id)' = <<"none", NoRow>>
    <2>1. copy["semantic"][id] = NoRow
      BY <1>2 DEF IInv, PageOK
    <2> QED
      BY <1>1, <1>2, <2>1 DEF View, TypeOK, Tables
  <1>7. NumbersOK'
    BY <1>2 DEF IInv, NumbersOK
  <1>8. CursorSound'
    BY <1>3, <1>4, <1>5 DEF IInv, CursorSound, Excused
  <1>9. PageOK'
    BY <1>2, <1>3, <1>5 DEF IInv, PageOK, Late
  <1>10. PageTrue'
    <2>1. Excused(id, pageNext) \/ View(store, id) = <<"none", NoRow>>
      BY <1>2 DEF IInv, PageTrue
    <2> QED
      BY <1>2, <1>3, <1>4, <1>5, <1>6, <2>1 DEF IInv, PageTrue
  <1> QED
    BY <1>1, <1>7, <1>8, <1>9, <1>10 DEF IInv

LEMMA FinishKeeps ==
    ASSUME IInv, Finish
    PROVE  IInv'
  <1>1. TypeOK /\ TypeOK'
    BY TypePull DEF Pull, IInv
  <1> USE DEF primaryVars
  <1>2. /\ UNCHANGED <<pageNext, unread, missed, rows, tombstones, half>>
        /\ UNCHANGED <<primaryVars, copy>>
        /\ phase = "applying" /\ phase' = "idle"
        /\ cursor' = pageNext /\ saved' \in {pageNext, saved}
        /\ cursor <= pageNext /\ saved <= cursor
        /\ rows = {} /\ tombstones = {} /\ unread = {} /\ missed = {}
    BY DEF Finish, IInv, PageOK, NumbersOK
  <1>3. Outstanding = {} /\ Outstanding' = {}
    BY <1>2 DEF Outstanding
  <1>4. NumbersOK'
    BY <1>1, <1>2 DEF IInv, NumbersOK, TypeOK
  <1>5. half = {}
    BY <1>2 DEF IInv, PageOK
  <1>6. PageOK'
    BY <1>2, <1>3, <1>5 DEF PageOK
  <1>7. CursorSound'
    <2>1. \A i \in Ids : View(copy, i) # View(store, i) => Excused(i, pageNext)
      BY <1>2, <1>3 DEF IInv, PageTrue
    <2> QED
      BY <1>2, <2>1 DEF CursorSound, View, Excused, Late, Pending
  <1> QED
    BY <1>1, <1>2, <1>4, <1>6, <1>7 DEF IInv, PageTrue

\* A page that is dropped leaves nothing behind but rows it already applied,
\* and those were named after the cursor the pull began with.
LEMMA DropPageKeeps ==
    ASSUME IInv, TypeOK', DropPage, UNCHANGED <<store, log, nextSeq, copy, saved>>,
           cursor' \in {cursor, saved},
           \A i \in Ids : i \in unlogged \/ Pending(i) => i \in unlogged' \/ Pending(i)'
    PROVE  IInv'
  <1>1. TypeOK
    BY DEF IInv
  <1>2. Outstanding' = {} /\ phase' = "idle" /\ half' = {}
    BY DEF DropPage, Outstanding
  <1>3. NumbersOK'
    BY <1>1, <1>2 DEF IInv, NumbersOK, TypeOK
  <1>4. PageOK' /\ PageTrue'
    BY <1>2 DEF DropPage, PageOK, PageTrue
  <1>5. cursor' <= cursor /\ cursor \in Nat /\ cursor' \in Nat
    BY <1>1 DEF IInv, NumbersOK, TypeOK
  <1>6. CursorSound'
    <2> SUFFICES ASSUME NEW i \in Ids, View(copy, i) # View(store, i)
                 PROVE  Excused(i, cursor)'
      BY DEF CursorSound, View
    <2>1. Excused(i, cursor)
      BY DEF IInv, CursorSound
    <2>2. CASE Late(i, cursor)
      <3>1. Late(i, cursor')
        BY <1>1, <1>5, <2>2, LateEarlier
      <3> QED
        BY <3>1 DEF Excused, Late
    <2>3. CASE i \in unlogged \/ Pending(i)
      BY <2>3 DEF Excused
    <2> QED
      BY <2>1, <2>2, <2>3 DEF Excused
  <1> QED
    BY <1>3, <1>4, <1>6 DEF IInv

LEMMA FaultKeeps ==
    ASSUME IInv, Fault
    PROVE  IInv'
  <1>1. TypeOK /\ TypeOK'
    BY TypeFault DEF IInv
  <1> USE DEF primaryVars, replicaVars
  <1>2. CASE FailPull
    BY <1>1, <1>2, DropPageKeeps DEF FailPull, Pending
  <1>3. CASE RestartReplica
    BY <1>1, <1>3, DropPageKeeps DEF RestartReplica, Pending
  <1>4. CASE RestartPrimary
    <2>1. UNCHANGED <<store, log, nextSeq, copy, cursor, saved>>
      BY <1>4 DEF RestartPrimary
    <2>2. \A i \in Ids : i \in unlogged \/ Pending(i) => i \in unlogged'
      BY <1>4 DEF RestartPrimary
    <2>3. CASE phase = "reading"
      <3>1. DropPage
        BY <1>4, <2>3 DEF RestartPrimary
      <3> QED
        BY <1>1, <2>1, <2>2, <3>1, DropPageKeeps
    <2>4. CASE phase # "reading"
      <3>1. UNCHANGED pageVars
        BY <1>4, <2>4 DEF RestartPrimary
      <3>2. NumbersOK'
        BY <2>1, <3>1 DEF IInv, NumbersOK, pageVars
      <3>3. ExcusesItsChanges
        BY <2>1, <2>2 DEF ExcusesItsChanges, Excused, Late
      <3> QED
        BY <1>1, <2>1, <3>1, <3>2, <3>3, PrimaryStep
    <2> QED
      BY <2>3, <2>4
  <1> QED
    BY <1>2, <1>3, <1>4 DEF Fault

LEMMA StepKeeps == IInv /\ [Next]_vars => IInv'
  <1> SUFFICES ASSUME IInv, [Next]_vars PROVE IInv'
    OBVIOUS
  <1>1. CASE Primary
    BY <1>1, PutKeeps, ListDoomedKeeps, DeleteMatchingKeeps, RecordKeeps, CompactKeeps
       DEF Primary
  <1>2. CASE Pull
    BY <1>2, FetchKeeps, ReadSemanticKeeps, ReadEpisodicKeeps, DeliverKeeps, PutRowKeeps,
       DropOtherKeeps, EntombSemanticKeeps, EntombEpisodicKeeps, FinishKeeps
       DEF Pull
  <1>3. CASE Fault
    BY <1>3, FaultKeeps
  <1>4. CASE UNCHANGED vars
    <2> USE <1>4 DEF vars, primaryVars, pageVars, replicaVars
    <2>1. TypeOK'
      BY TypeStep DEF IInv
    <2>2. NumbersOK'
      BY DEF IInv, NumbersOK
    <2>3. ExcusesItsChanges
      BY DEF ExcusesItsChanges, Excused, Late, Pending
    <2> QED
      BY <2>1, <2>2, <2>3, PrimaryStep
  <1> QED
    BY <1>1, <1>2, <1>3, <1>4 DEF Next

THEOREM Induction == Spec => []IInv
  BY InitIInv, StepKeeps, PTL DEF Spec

\* In no reachable state has the replica's cursor passed a change that its copy
\* lacks and that a record names or will name (pull_all over sync::changes).
THEOREM CursorSoundness == Spec => []CursorSound
  <1>1. IInv => CursorSound
    BY DEF IInv
  <1> QED
    BY <1>1, Induction, PTL

\* The same of the cursor in .replica.json, with which a restart begins.
THEOREM SavedCursorSoundness == Spec => []SavedCursorSound
  <1>1. IInv => SavedCursorSound
    <2> SUFFICES ASSUME IInv, NEW i \in Ids, View(copy, i) # View(store, i)
                 PROVE  Excused(i, saved)
      BY DEF SavedCursorSound
    <2>1. Excused(i, cursor)
      BY DEF IInv, CursorSound
    <2>2. TypeOK /\ cursor \in Nat /\ saved \in Nat /\ saved <= cursor
      BY DEF IInv, TypeOK, NumbersOK
    <2> QED
      BY <2>1, <2>2, LateEarlier DEF Excused
  <1> QED
    BY <1>1, Induction, PTL

-----------------------------------------------------------------------------
(* PullSync implements Mirror *)

Main == [id \in Ids |-> View(store, id)]
Shown == [id \in Ids |-> View(copy, id)]
Owed == {id \in Ids : Excused(id, cursor)}

LEMMA ViewTyped ==
    ASSUME NEW tables \in [Tables -> [Ids -> Bodies \cup {NoRow}]], NEW id \in Ids
    PROVE  View(tables, id) \in Views
  BY DEF View, Views, Tables

LEMMA ViewsTyped ==
    ASSUME TypeOK
    PROVE  Main \in [Ids -> Views] /\ Shown \in [Ids -> Views] /\ Owed \subseteq Ids
  BY ViewTyped DEF TypeOK, Main, Shown, Owed

LEMMA ViewsTypedNext ==
    ASSUME TypeOK'
    PROVE  Main' \in [Ids -> Views] /\ Shown' \in [Ids -> Views]
  <1>1. \A id \in Ids : View(store', id) \in Views /\ View(copy', id) \in Views
    BY ViewTyped DEF TypeOK
  <1> QED
    BY <1>1 DEF Main, Shown, View

LEMMA InitRefines == Init => MirrorSpec!Init
  <1> SUFFICES ASSUME Init PROVE MirrorSpec!Init
    OBVIOUS
  <1>1. TypeOK
    BY TypeInit
  <1>2. \A id \in Ids : Shown[id] = Main[id]
    BY DEF Init, Shown, Main, View
  <1> QED
    BY <1>1, <1>2, ViewsTyped DEF MirrorSpec!Init, MirrorSpec!TypeOK, Main, Shown, Owed

\* A step of the primary that touches only ids of S and makes exactly them owed.
LEMMA ChangeRefines ==
    ASSUME TypeOK, TypeOK', NEW S \in SUBSET Ids,
           Shown' = Shown,
           \A id \in Ids \ S : Main'[id] = Main[id],
           Owed' = Owed \cup S
    PROVE  MirrorSpec!Next
  <1>1. Main' \in [Ids -> Views]
    BY ViewsTypedNext
  <1>2. MirrorSpec!Change
    BY <1>1 DEF MirrorSpec!Change, Main, Shown, Owed
  <1> QED
    BY <1>2 DEF MirrorSpec!Next

\* A step of the pull that rewrites one row the replica is owed.
LEMMA CopyRefines ==
    ASSUME TypeOK, TypeOK', NEW i \in Ids, i \in Owed,
           Main' = Main, Owed' = Owed,
           \A id \in Ids : id # i => Shown'[id] = Shown[id]
    PROVE  MirrorSpec!Next
  <1>1. Shown' \in [Ids -> Views]
    BY ViewsTypedNext
  <1>2. \A id \in Ids \ Owed : Shown'[id] = Shown[id]
    OBVIOUS
  <1>3. MirrorSpec!Copy
    BY <1>1, <1>2 DEF MirrorSpec!Copy, Main, Shown, Owed
  <1> QED
    BY <1>3 DEF MirrorSpec!Next

LEMMA PrimaryRefines ==
    ASSUME IInv, IInv', Primary
    PROVE  [MirrorSpec!Next]_MirrorSpec!vars
  <1> USE DEF pageVars, replicaVars
  <1>1. TypeOK /\ TypeOK' /\ cursor \in Nat /\ cursor < nextSeq
    BY DEF IInv, TypeOK, NumbersOK
  <1>2. ASSUME NEW w \in Writers, NEW t \in Tables, NEW id \in Ids, NEW b \in Bodies,
               Put(w, t, id, b)
        PROVE  MirrorSpec!Next
    <2>1. Shown' = Shown
      BY <1>2 DEF Put, Shown, View
    <2>2. \A i \in Ids \ {id} : Main'[i] = Main[i]
      BY <1>1, <1>2 DEF Put, Main, View, TypeOK, Tables
    <2>3. \A i \in Ids : Pending(i)' <=> Pending(i) \/ i = id
      BY <1>1, <1>2 DEF Put, Pending, TypeOK
    <2>4. Owed' = Owed \cup {id}
      BY <1>2, <2>3 DEF Put, Owed, Excused, Late
    <2> QED
      BY <1>1, <2>1, <2>2, <2>4, ChangeRefines
  <1>3. ASSUME NEW w \in Writers, NEW t \in Tables, NEW P \in SUBSET Ids,
               ListDoomed(w, t, P)
        PROVE  UNCHANGED <<Main, Shown, Owed>>
    <2>1. \A i \in Ids : Pending(i)' <=> Pending(i)
      BY <1>1, <1>3 DEF ListDoomed, Pending, TypeOK
    <2> QED
      BY <1>3, <2>1 DEF ListDoomed, Main, Shown, Owed, View, Excused, Late
  <1>4. ASSUME NEW w \in Writers, DeleteMatching(w) PROVE MirrorSpec!Next
    <2> DEFINE gone == {i \in matching[w] : store[target[w]][i] # NoRow}
               S == gone \cup pending[w]
    <2>1. S \in SUBSET Ids
      BY <1>1 DEF TypeOK
    <2>2. Shown' = Shown
      BY <1>4 DEF DeleteMatching, Shown, View
    <2>3. \A i \in Ids \ S : \A u \in Tables : store'[u][i] = store[u][i]
      BY <1>1, <1>4 DEF DeleteMatching, TypeOK
    <2>4. \A i \in Ids \ S : Main'[i] = Main[i]
      BY <2>3 DEF Main, View, Tables
    <2>5. \A i \in Ids : Pending(i)' <=> Pending(i) \/ i \in pending[w]
      BY <1>1, <1>4 DEF DeleteMatching, Pending, TypeOK
    <2>6. unlogged' = unlogged \cup (gone \ pending[w])
      BY <1>4 DEF DeleteMatching
    <2>7. log' = log /\ cursor' = cursor
      BY <1>4 DEF DeleteMatching
    <2>8. \A i \in Ids : Excused(i, cursor)' <=> Excused(i, cursor) \/ i \in S
      BY <2>5, <2>6, <2>7 DEF Excused, Late
    <2>9. Owed' = Owed \cup S
      BY <2>1, <2>8 DEF Owed
    <2> QED
      BY <1>1, <2>1, <2>2, <2>4, <2>9, ChangeRefines
  <1>5. ASSUME NEW w \in Writers, Record(w) PROVE UNCHANGED <<Main, Shown, Owed>>
    <2>1. Cardinality(pending[w]) \in Nat
      BY <1>1, PendingFinite
    <2>2. PICK order \in [pending[w] -> nextSeq .. nextSeq + Cardinality(pending[w]) - 1] :
            log' = log \cup {[seq |-> order[id], id |-> id] : id \in pending[w]}
      BY <1>5 DEF Record
    <2>3. \A i \in pending[w] : order[i] > cursor /\ [seq |-> order[i], id |-> i] \in log'
      BY <1>1, <2>1, <2>2 DEF TypeOK
    <2>4. \A i \in Ids : Late(i, cursor)' <=> Late(i, cursor) \/ i \in pending[w]
      <3>1. cursor' = cursor
        BY <1>5 DEF Record
      <3>2. \A i \in Ids : Late(i, cursor) => Late(i, cursor)'
        BY <2>2, <3>1 DEF Late
      <3>3. \A i \in pending[w] : Late(i, cursor)'
        BY <2>3, <3>1 DEF Late
      <3>4. ASSUME NEW i \in Ids, Late(i, cursor)' PROVE Late(i, cursor) \/ i \in pending[w]
        <4>1. PICK e \in log' : e.id = i /\ e.seq > cursor
          BY <3>1, <3>4 DEF Late
        <4>2. CASE e \in log
          BY <4>1, <4>2 DEF Late
        <4>3. CASE \E id \in pending[w] : e = [seq |-> order[id], id |-> id]
          BY <4>1, <4>3
        <4> QED
          BY <2>2, <4>2, <4>3
      <3> QED
        BY <3>2, <3>3, <3>4
    <2>5. \A i \in Ids : Pending(i) <=> Pending(i)' \/ i \in pending[w]
      BY <1>1, <1>5 DEF Record, Pending, TypeOK
    <2>6. Owed' = Owed
      BY <1>5, <2>4, <2>5 DEF Record, Owed, Excused
    <2> QED
      BY <1>5, <2>6 DEF Record, Main, Shown, View
  <1>6. ASSUME Compact PROVE UNCHANGED <<Main, Shown, Owed>>
    <2>1. \A i \in Ids : Late(i, cursor)' => Late(i, cursor)
      BY <1>6 DEF Compact, Late
    <2>2. \A i \in Ids : Late(i, cursor) => Late(i, cursor)'
      <3> SUFFICES ASSUME NEW i \in Ids, Late(i, cursor) PROVE Late(i, cursor)'
        OBVIOUS
      <3>1. PICK e \in log : e.id = i /\ e.seq > cursor
        BY DEF Late
      <3>2. PICK f \in log' : f.id = e.id /\ f.seq >= e.seq
        BY <1>6 DEF Compact
      <3>3. e.seq \in Nat /\ f.seq \in Nat
        BY <1>1, <3>1, <3>2 DEF TypeOK, Entry
      <3> QED
        BY <1>1, <1>6, <3>1, <3>2, <3>3 DEF Late, Compact
    <2> QED
      BY <1>6, <2>1, <2>2 DEF Compact, Main, Shown, Owed, View, Excused, Pending
  <1>7. UNCHANGED <<Main, Shown, Owed>> => UNCHANGED MirrorSpec!vars
    BY DEF MirrorSpec!vars, Main, Shown, Owed
  <1> QED
    BY <1>2, <1>3, <1>4, <1>5, <1>6, <1>7 DEF Primary

LEMMA PullRefines ==
    ASSUME IInv, IInv', Pull
    PROVE  [MirrorSpec!Next]_MirrorSpec!vars
  <1> USE DEF primaryVars
  <1>1. TypeOK /\ TypeOK' /\ cursor \in Nat /\ pageNext \in Nat
    BY DEF IInv, TypeOK
  <1>2. UNCHANGED primaryVars
    BY DEF Pull, Fetch, ReadSemantic, ReadEpisodic, Deliver, PutRow, DropOther,
       EntombSemantic, EntombEpisodic, Finish
  <1>3. Main' = Main /\ \A i \in Ids, c \in Nat : Excused(i, c)' <=> Excused(i, c)
    BY <1>2 DEF Main, View, Excused, Late, Pending
  <1>4. ASSUME UNCHANGED <<copy, cursor>> PROVE UNCHANGED <<Main, Shown, Owed>>
    BY <1>2, <1>4 DEF Main, Shown, Owed, View, Excused, Late, Pending
  <1>5. CASE Fetch \/ Deliver \/ \E id \in Ids : ReadSemantic(id) \/ ReadEpisodic(id)
    BY <1>4, <1>5 DEF Fetch, Deliver, ReadSemantic, ReadEpisodic, replicaVars,
       MirrorSpec!vars, Main, Shown, Owed
  <1>6. ASSUME NEW i \in Ids, i \in Outstanding, cursor' = cursor,
               \A j \in Ids : j # i => \A t \in Tables : copy'[t][j] = copy[t][j]
        PROVE  MirrorSpec!Next
    <2>1. i \in Owed
      BY <1>6 DEF IInv, PageOK, Owed, Excused
    <2>2. Owed' = Owed
      BY <1>2, <1>6 DEF Owed, Excused, Late, Pending
    <2>3. \A j \in Ids : j # i => Shown'[j] = Shown[j]
      BY <1>6 DEF Shown, View, Tables
    <2> QED
      BY <1>1, <1>3, <2>1, <2>2, <2>3, CopyRefines
  <1>7. ASSUME NEW r \in rows, PutRow(r) \/ DropOther(r) PROVE MirrorSpec!Next
    <2>1. r.id \in Ids /\ r.id \in Outstanding
      BY <1>1 DEF TypeOK, Row, Outstanding
    <2>2. cursor' = cursor
          /\ \A j \in Ids : j # r.id => \A t \in Tables : copy'[t][j] = copy[t][j]
      BY <1>1, <1>7 DEF PutRow, DropOther, TypeOK
    <2> QED
      BY <1>6, <2>1, <2>2
  <1>8. ASSUME NEW id \in Ids, EntombSemantic(id) \/ EntombEpisodic(id) PROVE MirrorSpec!Next
    <2>1. id \in Outstanding
      BY <1>8 DEF EntombSemantic, EntombEpisodic, Outstanding
    <2>2. cursor' = cursor
          /\ \A j \in Ids : j # id => \A t \in Tables : copy'[t][j] = copy[t][j]
      BY <1>1, <1>8 DEF EntombSemantic, EntombEpisodic, TypeOK, Tables
    <2> QED
      BY <1>6, <2>1, <2>2
  <1>9. CASE Finish
    <2>1. /\ cursor' = pageNext /\ cursor <= pageNext /\ copy' = copy
          /\ phase = "applying" /\ Outstanding = {}
      BY <1>9 DEF Finish, IInv, NumbersOK, PageOK, Outstanding
    <2>2. \A i \in Ids : Excused(i, cursor)' <=> Excused(i, pageNext)
      BY <1>2, <2>1 DEF Excused, Late, Pending
    <2>3. \A i \in Ids : Excused(i, pageNext) => Excused(i, cursor)
      BY <1>1, <2>1, LateEarlier DEF Excused
    <2>4. \A i \in Ids : ~Excused(i, pageNext) => View(copy, i) = View(store, i)
      BY <2>1 DEF IInv, PageTrue
    <2> DEFINE S == Owed \ Owed'
    <2>5. S \in SUBSET Owed /\ Owed' = Owed \ S
      BY <2>2, <2>3 DEF Owed
    <2>6. \A i \in S : Shown[i] = Main[i]
      BY <2>2, <2>4 DEF Owed, Shown, Main
    <2>7. Shown' = Shown
      BY <2>1 DEF Shown, View
    <2> HIDE DEF S
    <2>8. MirrorSpec!Settle
      BY <1>3, <2>5, <2>6, <2>7 DEF MirrorSpec!Settle, Main, Shown, Owed
    <2> QED
      BY <2>8 DEF MirrorSpec!Next
  <1> QED
    BY <1>5, <1>7, <1>8, <1>9 DEF Pull

LEMMA FaultRefines ==
    ASSUME IInv, IInv', Fault
    PROVE  [MirrorSpec!Next]_MirrorSpec!vars
  <1>1. TypeOK /\ TypeOK' /\ cursor \in Nat /\ saved \in Nat /\ saved <= cursor
    BY DEF IInv, TypeOK, NumbersOK
  <1>2. Main' = Main /\ Shown' = Shown
    BY DEF Fault, FailPull, RestartReplica, RestartPrimary, primaryVars, replicaVars,
       Main, Shown, View
  <1>3. CASE FailPull
    BY <1>2, <1>3 DEF FailPull, primaryVars, replicaVars, MirrorSpec!vars, Main, Shown, Owed,
       Excused, Late, Pending
  <1>4. CASE RestartReplica
    <2>1. \A i \in Ids : Excused(i, cursor)' <=> Excused(i, saved)
      BY <1>4 DEF RestartReplica, primaryVars, Excused, Late, Pending
    <2>2. \A i \in Ids : Excused(i, cursor) => Excused(i, saved)
      BY <1>1, LateEarlier DEF Excused
    <2>3. Owed \subseteq Owed'
      BY <2>1, <2>2 DEF Owed
    <2>4. Owed' = Owed \cup Owed' /\ Owed' \in SUBSET Ids
      BY <2>3 DEF Owed
    <2>5. MirrorSpec!Recall
      BY <1>2, <2>4 DEF MirrorSpec!Recall, Main, Shown, Owed
    <2> QED
      BY <2>5 DEF MirrorSpec!Next
  <1>5. CASE RestartPrimary
    <2>1. log' = log /\ cursor' = cursor
      BY <1>5 DEF RestartPrimary, replicaVars
    <2>2. \A i \in Ids : ~Pending(i)'
      BY <1>5 DEF RestartPrimary, Pending
    <2>3. unlogged' = unlogged \cup {i \in Ids : Pending(i)}
      BY <1>5 DEF RestartPrimary
    <2>4. Owed' = Owed
      BY <2>1, <2>2, <2>3 DEF Owed, Excused, Late
    <2> QED
      BY <1>2, <2>4 DEF MirrorSpec!vars, Main, Shown, Owed
  <1> QED
    BY <1>3, <1>4, <1>5 DEF Fault

\* Every step of the two machines is a step of Mirror or changes nothing of it:
\* only rows the replica is owed differ, and a debt is struck off only when the
\* row is right.
THEOREM Refinement == Spec => Mirrors
  <1>1. IInv /\ IInv' /\ [Next]_vars => [MirrorSpec!Next]_MirrorSpec!vars
    <2>1. UNCHANGED vars => UNCHANGED MirrorSpec!vars
      BY DEF vars, primaryVars, pageVars, replicaVars, MirrorSpec!vars, View, Excused,
         Late, Pending
    <2> QED
      BY <2>1, PrimaryRefines, PullRefines, FaultRefines DEF Next
  <1> QED
    BY <1>1, InitRefines, Induction, PTL DEF Spec, Mirrors, MirrorSpec!Spec
=============================================================================
