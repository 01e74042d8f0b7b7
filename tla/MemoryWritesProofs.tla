-------------------------- MODULE MemoryWritesProofs --------------------------
(***************************************************************************)
(* What the write handlers keep, for any rows, requests, texts and number  *)
(* of faults: the locks are given back (LocksEnd), no acknowledged patch   *)
(* is lost (PatchesStick), no row in the user's voice is rewritten behind  *)
(* the guard (UserVoiceKept), no text is stored twice (NoTwins), and what  *)
(* was added can be read (NothingLost).                                    *)
(*                                                                         *)
(* The first five invariants below say what a request knows of the row it  *)
(* has in hand (Core); the voices, the twins and the texts each need one   *)
(* or two more, which rest on those.                                       *)
(***************************************************************************)
EXTENDS MemoryWrites, TLAPS

\* The steps only an add makes, that a request which uses a text or a target has
\* one (without it the row an add inserts would not be a row), and where `expire`
\* works.
Adding == {"find", "fill", "evict", "dedup", "write", "put"}

ArgsFit ==
    \A r \in Requests :
        /\ pc[r] \in Adding => arg[r].op \in {"add", "insert"}
        /\ arg[r].op \in {"add", "insert", "rewrite"} /\ pc[r] # "new" => arg[r].text \in Texts
        /\ pc[r] = "leave" => arg[r].target \in Ids
        /\ pc[r] = "archive" => at[r] = "semantic"

Typed == TypeOK /\ ArgsFit
-----------------------------------------------------------------------------
\* Begin and the handlers' steps keep the types, and what they put into a table is
\* a row.
LEMMA StepTyped ==
    ASSUME Typed, NEW r \in Requests, Begin(r) \/ Step(r)
    PROVE  Typed'
<1> USE MemoryWritesAssumption
    DEF Typed, TypeOK, ArgsFit, Adding, Ids, Row, Tables, Steps, Locked, Ended,
        Goto, Keep, LookIn, Lock, Unlock, Inserted, Upserted, Deleted, With, Other,
        ghostVars, localVars
<1>1. CASE Begin(r)
  BY SMTT(30), <1>1 DEF Begin, Plain, Args, Op, Begun, Guarded, Known
<1>2. CASE Guard(r)
  BY <1>2 DEF Guard, Begun, Args, Op
<1>3. CASE Find(r)
  BY <1>3 DEF Find, Twins, Args
<1>4. CASE Fill(r)
  BY <1>4 DEF Fill, Landed, Retiring
<1>5. CASE Evict(r)
  BY <1>5 DEF Evict
<1>6. CASE Dedup(r)
  BY <1>6 DEF Dedup, Twins, Args
<1>7. CASE Write(r)
  <2>1. New(r) \in Row
    BY <1>7 DEF Write, New, Args
  <2> QED BY <1>7, <2>1 DEF Write, Landed, Retiring, Gone
<1>8. CASE Put(r)
  <2>1. New(r) \in Row /\ arg[r].table \in Tables
    BY <1>8 DEF Put, New, Args
  <2> QED BY <1>8, <2>1 DEF Put, Landed, Retiring
<1>9. CASE Expire(r)
  BY <1>9 DEF Expire
<1>10. CASE Archive(r)
  BY <1>10 DEF Archive, Gone
<1>11. CASE Discard(r)
  BY <1>11 DEF Discard
<1>12. CASE Locate(r)
  <2>1. With(at[r], arg[r].target) # {} => arg[r].target \in Ids
    BY <1>12
  <2> QED BY <1>12, <2>1 DEF Locate
<1>13. CASE Edit(r)
  BY <1>13 DEF Edit
<1>14. CASE Save(r)
  <2>1. PICK x \in seen[r] :
           /\ table' = Upserted(at[r], Patched(r, x))
           /\ stale' = Gone(at[r], x.id)
           /\ noted' = [noted EXCEPT ![x.id] = IF arg[r].op = "annotate" THEN r ELSE @]
    BY <1>14 DEF Save
  <2>2. x \in Row /\ arg[r] \in Args
    BY <1>14
  <2>3. arg[r].op = "rewrite" => arg[r].text \in Texts
    BY <1>14 DEF Save
  <2>4. Patched(r, x) \in Row
    BY <2>2, <2>3 DEF Patched, Args
  <2>5. /\ table' \in [Tables -> SUBSET Row]
        /\ stale' \in SUBSET Ids
        /\ noted' \in [Ids -> Requests \cup {None}]
    BY <2>1, <2>2, <2>4 DEF Gone
  <2>6. /\ pc[r] = "save" /\ pc' = [pc EXCEPT ![r] = "done"]
        /\ lock' = [lock EXCEPT ![at[r]] = None]
        /\ seen' = [seen EXCEPT ![r] = {}]
        /\ UNCHANGED <<arg, at, survivor, faults>>
    BY <1>14 DEF Save
  <2>7. TypeOK'
    BY <2>5, <2>6
  <2>8. ArgsFit'
    BY <2>6
  <2> QED BY <2>7, <2>8
<1>15. CASE Leave(r)
  BY <1>15 DEF Leave, Args
<1>16. CASE Enter(r)
  BY <1>16 DEF Enter, Returned, Args
<1>17. CASE Look(r)
  BY <1>17 DEF Look
<1>18. CASE Remove(r)
  BY <1>18 DEF Remove
<1>19. CASE List(r)
  BY <1>19 DEF List
<1>20. CASE Await(r)
  BY <1>20 DEF Await
<1>21. CASE Stamp(r)
  BY <1>21 DEF Stamp
<1> QED
  BY <1>1, <1>2, <1>3, <1>4, <1>5, <1>6, <1>7, <1>8, <1>9, <1>10, <1>11, <1>12,
     <1>13, <1>14, <1>15, <1>16, <1>17, <1>18, <1>19, <1>20, <1>21 DEF Step

LEMMA TypingStep ==
    ASSUME Typed, [Next]_vars
    PROVE  Typed'
<1>1. ASSUME NEW r \in Requests, Begin(r) \/ Step(r) PROVE Typed'
  BY <1>1, StepTyped
<1> USE MemoryWritesAssumption
    DEF Typed, TypeOK, ArgsFit, Adding, Tables, Steps, Locked, Ended, Goto, Freed,
        ghostVars, localVars
<1>2. ASSUME NEW r \in Requests, Fail(r) PROVE Typed'
  BY <1>2 DEF Fail
<1>3. CASE Restart
  BY <1>3 DEF Restart
<1>4. CASE UNCHANGED vars
  BY <1>4 DEF vars
<1> QED BY <1>1, <1>2, <1>3, <1>4 DEF Next

\* Typed holds in every reachable state.
LEMMA Typing == Spec => []Typed
<1>1. Init => Typed
  BY MemoryWritesAssumption
     DEF Init, Unasked, Typed, TypeOK, ArgsFit, Adding, Args, Op, Ids, Row, Tables, Steps,
         Locked, Ended
<1> QED BY <1>1, TypingStep, PTL DEF Spec

\* Whatever the handlers do, fail at or are stopped in, the variables keep their
\* types: in particular a merge, a patch or a move leaves rows in the tables.
THEOREM TypeCorrectness == Spec => []TypeOK
<1>1. Typed => TypeOK
  BY DEF Typed
<1> QED BY <1>1, Typing, PTL

\* store.rs: the read-modify-writes of a table exclude each other, and the lock is
\* given back on every way out of them, a failure and a restart included.
THEOREM LocksAreReturned == Spec => []LocksEnd
<1>1. Init => LocksEnd
  BY MemoryWritesAssumption DEF Init, LocksEnd, Locked
<1>2. Typed /\ LocksEnd /\ [Next]_vars => LocksEnd'
  <2> SUFFICES ASSUME Typed, LocksEnd, [Next]_vars PROVE LocksEnd'
    OBVIOUS
  <2> USE MemoryWritesAssumption DEF LocksEnd, Locked
  <2>1. /\ pc \in [Requests -> Steps] /\ at \in [Requests -> Tables]
        /\ lock \in [Tables -> Requests \cup {None}]
        /\ \A r \in Requests : arg[r] \in Args /\ (pc[r] = "archive" => at[r] = "semantic")
    BY DEF Typed, TypeOK, ArgsFit
  <2>2. ASSUME NEW r \in Requests, Begin(r) PROVE LocksEnd'
    <3>1. pc[r] = "new" /\ pc'[r] \notin Locked
      BY <2>1, <2>2 DEF Begin, Goto, Begun, Plain, Op
    <3>2. \A q \in Requests : q # r => pc'[q] = pc[q]
      BY <2>1, <2>2 DEF Begin, Goto
    <3> QED BY <2>1, <2>2, <3>1, <3>2 DEF Begin, localVars
  <2>3. ASSUME NEW r \in Requests, Step(r) PROVE LocksEnd'
    <3> USE DEF Goto, LookIn, Lock, Unlock, ghostVars, localVars
    <3> DEFINE Steered == \/ UNCHANGED at
                          \/ \E t \in Tables : LookIn(r, t)
    \* A lock is taken: nobody had it, and r was at a step under none.
    <3>1. ASSUME NEW t \in Tables, Lock(r, t), pc[r] \notin Locked,
                 NEW step \in Locked, Goto(r, step), Steered, at'[r] = t
          PROVE  LocksEnd'
      BY <2>1, <3>1
    \* It is given back.
    <3>2. ASSUME pc[r] \in Locked, Unlock(at[r]),
                 NEW step \in Steps \ Locked, Goto(r, step), Steered
          PROVE  LocksEnd'
      BY <2>1, <3>2
    \* No lock changes hands.
    <3>3. ASSUME pc[r] \notin Locked, UNCHANGED lock, Steered,
                 UNCHANGED pc \/ \E step \in Steps \ Locked : Goto(r, step)
          PROVE  LocksEnd'
      BY <2>1, <3>3
    <3>4. CASE Dedup(r)
      BY <2>1, <3>1, <3>4 DEF Dedup, Args
    <3>5. CASE Expire(r)
      <4>1. pc[r] \notin Locked
        BY <3>5 DEF Expire
      <4>2. CASE Lock(r, "semantic") /\ LookIn(r, "semantic") /\ Goto(r, "archive")
        BY <2>1, <3>1, <4>1, <4>2 DEF Tables
      <4>3. CASE Goto(r, "discard") /\ UNCHANGED <<lock, at>>
        BY <3>3, <4>1, <4>3 DEF Steps
      <4> QED BY <3>5, <4>2, <4>3 DEF Expire
    <3>6. CASE Edit(r)
      <4>1. pc[r] \notin Locked /\ UNCHANGED at
        BY <3>6 DEF Edit
      <4>2. CASE Lock(r, at[r]) /\ Goto(r, "save")
        BY <2>1, <3>1, <4>1, <4>2
      <4>3. CASE Goto(r, "refused") /\ UNCHANGED lock
        BY <3>3, <4>1, <4>3 DEF Steps, Ended
      <4> QED BY <3>6, <4>2, <4>3 DEF Edit
    <3>7. CASE Await(r)
      BY <2>1, <3>1, <3>7 DEF Await
    <3>8. CASE Write(r)
      <4>1. \E step \in {"done", "expire"} : Goto(r, step)
        BY <3>8 DEF Write, Landed, Retiring
      <4> QED BY <3>2, <3>8, <4>1 DEF Write, Steps, Ended
    <3>9. CASE Archive(r)
      BY <2>1, <3>2, <3>9 DEF Archive, Steps, Ended
    <3>10. CASE Save(r)
      BY ZenonT(60), <3>2, <3>10 DEF Save, Steps, Ended
    <3>11. CASE Stamp(r)
      <4>1. CASE UNCHANGED <<lock, pc, at>>
        BY <4>1
      <4>2. CASE ~UNCHANGED <<lock, pc, at>>
        BY <3>2, <3>11, <4>2 DEF Stamp, Steps, Ended, Tables
      <4> QED BY <4>1, <4>2
    <3>12. CASE Guard(r)
      BY <2>1, <3>3, <3>12 DEF Guard, Begun, Steps, Ended, Tables, Args, Op
    <3>13. CASE Find(r) \/ Locate(r)
      BY <3>3, <3>13 DEF Find, Locate, Steps, Ended, Tables
    <3>14. CASE Look(r) \/ Remove(r) \/ List(r)
      BY <3>3, <3>14 DEF Look, Remove, List, Steps, Ended, Tables
    <3>15. CASE Fill(r) \/ Put(r)
      <4>1. \E step \in {"done", "expire"} : Goto(r, step)
        BY <3>15 DEF Fill, Put, Landed, Retiring
      <4> QED BY <3>3, <3>15, <4>1 DEF Fill, Put, Steps, Ended
    <3>16. CASE Evict(r) \/ Discard(r) \/ Leave(r) \/ Enter(r)
      BY <3>3, <3>16 DEF Evict, Discard, Leave, Enter, Steps, Ended
    <3> QED
      BY <2>3, <3>4, <3>5, <3>6, <3>7, <3>8, <3>9, <3>10, <3>11, <3>12, <3>13, <3>14,
         <3>15, <3>16 DEF Step
  <2>4. ASSUME NEW r \in Requests, Fail(r) PROVE LocksEnd'
    BY <2>1, <2>4 DEF Fail, Freed, Goto, localVars, Steps, Ended
  <2>5. CASE Restart
    BY <2>1, <2>5 DEF Restart, Freed, localVars, Steps, Ended
  <2>6. CASE UNCHANGED vars
    BY <2>6 DEF vars, localVars
  <2> QED BY <2>2, <2>3, <2>4, <2>5, <2>6 DEF Next
<1> QED BY <1>1, <1>2, Typing, PTL DEF Spec
-----------------------------------------------------------------------------
(* What the other properties rest on. *)

\* What a request has read, and what it asks, are what the step it is at uses.
Fit ==
    \A r \in Requests :
        /\ pc[r] = "new" => arg[r] = Unasked /\ at[r] = "semantic"
        /\ pc[r] = "put" => arg[r].op = "insert"
        /\ pc[r] \in {"expire", "archive", "discard"} =>
              arg[r].op \in {"add", "insert"} /\ arg[r].target # None /\ survivor[r] # None
        /\ pc[r] \in {"leave", "enter"} => arg[r].op = "move" /\ seen[r] # {}
        /\ pc[r] \in {"look", "remove"} => arg[r].op = "delete"
        /\ pc[r] \in {"locate", "edit", "save", "list", "await", "stamp"} =>
              arg[r].op \notin {"add", "insert"}
        /\ pc[r] \in {"save", "archive", "leave", "enter"} =>
              \A x \in seen[r] : x.id = arg[r].target
        /\ pc[r] \in {"fill", "evict", "write"} =>
              \A x \in seen[r] : Live(x) /\ x.text = arg[r].text /\ x.id # arg[r].target

\* A row there is, in a table or in the hands of a request.
Copy(x) == (\E t \in Tables : x \in table[t]) \/ (\E q \in Requests : x \in seen[q])

\* Nobody knows the row of a request before it lands.
Over == {"expire", "archive", "discard", "done", "failed"}
Unborn ==
    \A r \in Requests : pc[r] \notin Over =>
        /\ \A x \in Row : Copy(x) => x.id # r
        /\ \A q \in Requests : arg[q].target # r
        /\ noted[r] = None

\* An id is in one row of one table.
Unique ==
    \A t, u \in Tables : \A x \in table[t], y \in table[u] :
        x.id = y.id => (t = u /\ x = y) \/ x.id \in stale

\* Under the lock, what was read is what is there, or nothing is.
Held ==
    \A r \in Requests : pc[r] \in {"write", "save", "archive"} =>
        \A x \in seen[r] : x.id \in stale \/ With(at[r], x.id) \subseteq {x}

\* A row between the tables is nowhere else, and has its note.
Moving ==
    \A r \in Requests : pc[r] = "enter" =>
        \A x \in seen[r] :
            \/ x.id \in stale
            \/ /\ x.note = noted[x.id]
               /\ \A t \in Tables : With(t, x.id) = {}
               /\ \A q \in Requests : pc[q] = "enter" /\ q # r => \A y \in seen[q] : y.id # x.id
-----------------------------------------------------------------------------
(* What a step does to the tables. *)

Calm == UNCHANGED <<table, stale, noted>>

\* r deletes the row id of table t.
Drops(r, t, id) ==
    /\ \A u \in Tables : table'[u] = IF u = t THEN {z \in table[t] : z.id # id} ELSE table[u]
    /\ stale \subseteq stale' /\ noted' = noted
    /\ pc'[r] # pc[r]
    /\ \/ Evict(r) /\ t = "episodic" /\ \E x \in seen[r] : x.id = id
       \/ (Discard(r) \/ Remove(r)) /\ id = arg[r].target
       \/ Leave(r) /\ id = arg[r].target /\ t = at[r]

\* r writes y over the row it read as x.
WritesBack(r, t, x, y) ==
    /\ x \in seen[r] /\ y \in Row /\ y.id = x.id
    /\ \A u \in Tables :
          table'[u] = IF u = t THEN {z \in table[t] : z.id # x.id} \cup {y} ELSE table[u]
    /\ stale \subseteq stale'
    /\ x.id \in stale' \/ With(t, x.id) = {x}
    /\ lock[t] \in {None, r}
    /\ \/ /\ Fill(r) \/ Write(r) \/ Stamp(r)
          /\ y = x /\ noted' = noted
       \/ /\ Save(r) /\ y = Patched(r, x)
          /\ noted' = [noted EXCEPT ![x.id] = IF arg[r].op = "annotate" THEN r ELSE @]
       \/ /\ Archive(r) /\ y = [x EXCEPT !.heir = survivor[r]]
          /\ noted' = noted

\* r puts its own row into table t.
Bears(r, t) ==
    /\ \A u \in Tables : table'[u] = IF u = t THEN table[t] \cup {New(r)} ELSE table[u]
    /\ stale' = stale /\ noted' = noted /\ New(r) \in Row
    /\ \/ Write(r) /\ seen[r] = {} /\ t = at[r]
       \/ Put(r) /\ t = arg[r].table

\* r puts into table t the row it took out of the other.
Enters(r, t, x) ==
    /\ Enter(r) /\ x \in seen[r] /\ t = arg[r].table
    /\ \A u \in Tables : table'[u] = IF u = t THEN table[t] \cup {x} ELSE table[u]
    /\ stale' = Returned(t, x) /\ stale \subseteq stale' /\ noted' = noted

LEMMA Effects ==
    ASSUME Typed, LocksEnd, Held, [Next]_vars
    PROVE  \/ Calm
           \/ \E r \in Requests, t \in Tables, id \in Ids \cup {None} : Drops(r, t, id)
           \/ \E r \in Requests, t \in Tables, x \in Row, y \in Row : WritesBack(r, t, x, y)
           \/ \E r \in Requests, t \in Tables : Bears(r, t)
           \/ \E r \in Requests, t \in Tables, x \in Row : Enters(r, t, x)
<1> DEFINE Goal ==
           \/ Calm
           \/ \E r \in Requests, t \in Tables, id \in Ids \cup {None} : Drops(r, t, id)
           \/ \E r \in Requests, t \in Tables, x \in Row, y \in Row : WritesBack(r, t, x, y)
           \/ \E r \in Requests, t \in Tables : Bears(r, t)
           \/ \E r \in Requests, t \in Tables, x \in Row : Enters(r, t, x)
<1>1. /\ table \in [Tables -> SUBSET Row] /\ lock \in [Tables -> Requests \cup {None}]
      /\ pc \in [Requests -> Steps] /\ at \in [Requests -> Tables]
      /\ seen \in [Requests -> SUBSET Row] /\ survivor \in [Requests -> Ids \cup {None}]
      /\ stale \in SUBSET Ids /\ noted \in [Ids -> Requests \cup {None}]
      /\ \A r \in Requests : arg[r] \in Args /\ (pc[r] = "archive" => at[r] = "semantic")
      /\ "semantic" \in Tables /\ "episodic" \in Tables
  BY DEF Typed, TypeOK, ArgsFit, Tables
<1>2. \A r \in Requests : pc[r] \in {"write", "save", "archive"} =>
         /\ lock[at[r]] = r
         /\ \A x \in seen[r] : x.id \in Gone(at[r], x.id) \/ With(at[r], x.id) = {x}
  <2> SUFFICES ASSUME NEW r \in Requests, pc[r] \in {"write", "save", "archive"}
               PROVE  /\ lock[at[r]] = r
                      /\ \A x \in seen[r] :
                            x.id \in Gone(at[r], x.id) \/ With(at[r], x.id) = {x}
    OBVIOUS
  <2>1. lock[at[r]] = r
    BY <1>1 DEF LocksEnd, Locked
  <2>2. ASSUME NEW x \in seen[r]
        PROVE  x.id \in Gone(at[r], x.id) \/ With(at[r], x.id) = {x}
    <3>1. x.id \in stale \/ With(at[r], x.id) \subseteq {x}
      BY DEF Held
    <3>2. x.id \in stale \/ With(at[r], x.id) = {x} \/ With(at[r], x.id) = {}
      BY <3>1
    <3> QED BY <3>2 DEF Gone
  <2> QED BY <2>1, <2>2
<1>3. ASSUME NEW r \in Requests, Step(r) PROVE Goal
  <2>1. CASE Evict(r)
    <3>1. PICK x \in seen[r] : table' = Deleted("episodic", x.id)
      BY <2>1 DEF Evict
    <3>2. x.id \in Ids
      BY <1>1 DEF Row
    <3>3. /\ stale' = stale /\ noted' = noted
          /\ pc[r] = "evict" /\ pc'[r] = "dedup"
      BY <1>1, <2>1 DEF Evict, Goto, ghostVars
    <3>4. Drops(r, "episodic", x.id)
      BY <1>1, <2>1, <3>1, <3>3 DEF Drops, Deleted
    <3> QED BY <1>1, <3>2, <3>4
  <2>2. CASE Discard(r)
    <3>1. Drops(r, "episodic", arg[r].target)
      BY <1>1, <2>2 DEF Drops, Discard, Deleted, Goto
    <3> QED BY <1>1, <3>1 DEF Args
  <2>3. CASE Remove(r)
    <3>1. Drops(r, at[r], arg[r].target)
      BY <1>1, <2>3 DEF Drops, Remove, Deleted, Goto
    <3> QED BY <1>1, <3>1 DEF Args
  <2>4. CASE Leave(r)
    <3>1. Drops(r, at[r], arg[r].target)
      BY <1>1, <2>4 DEF Drops, Leave, Deleted, Goto
    <3> QED BY <1>1, <3>1 DEF Args
  <2>5. CASE Fill(r)
    <3>1. PICK x \in seen[r] :
             /\ table' = Upserted("semantic", x)
             /\ stale' = IF With("semantic", x.id) = {x} THEN stale ELSE stale \cup {x.id}
      BY <2>5 DEF Fill
    <3>2. x \in Row /\ lock["semantic"] = None /\ noted' = noted
      BY <1>1, <2>5 DEF Fill
    <3>3. WritesBack(r, "semantic", x, x)
      BY <1>1, <2>5, <3>1, <3>2 DEF WritesBack, Upserted
    <3> QED BY <1>1, <3>2, <3>3
  <2>6. CASE Write(r)
    <3>1. pc[r] = "write" /\ noted' = noted
      BY <2>6 DEF Write
    <3>2. CASE seen[r] = {}
      <4>1. table' = Inserted(at[r], New(r)) /\ stale' = stale
        BY <2>6, <3>2 DEF Write
      <4>2. New(r) \in Row
        BY <1>1, <3>1 DEF New, Args, Row, Ids, Typed, ArgsFit, Adding
      <4>3. Bears(r, at[r])
        BY <1>1, <2>6, <3>1, <3>2, <4>1, <4>2 DEF Bears, Inserted
      <4> QED BY <1>1, <4>3
    <3>3. CASE seen[r] # {}
      <4>1. PICK x \in seen[r] : table' = Upserted(at[r], x) /\ stale' = Gone(at[r], x.id)
        BY <2>6, <3>3 DEF Write
      <4>2. x \in Row /\ stale \subseteq stale'
        BY <1>1, <4>1 DEF Gone
      <4>3. WritesBack(r, at[r], x, x)
        BY <1>1, <1>2, <2>6, <3>1, <4>1, <4>2 DEF WritesBack, Upserted
      <4> QED BY <1>1, <4>2, <4>3
    <3> QED BY <3>2, <3>3
  <2>7. CASE Put(r)
    <3>1. New(r) \in Row /\ arg[r].table \in Tables
      BY <1>1, <2>7 DEF Put, New, Args, Row, Ids, Typed, ArgsFit, Adding
    <3>2. Bears(r, arg[r].table)
      BY <1>1, <2>7, <3>1 DEF Bears, Put, Inserted
    <3> QED BY <3>1, <3>2
  <2>8. CASE Archive(r)
    <3>1. PICK x \in seen[r] :
             /\ table' = Upserted("semantic", [x EXCEPT !.heir = survivor[r]])
             /\ stale' = Gone("semantic", x.id)
      BY <2>8 DEF Archive
    <3>2. PICK y : y = [x EXCEPT !.heir = survivor[r]]
      OBVIOUS
    <3>3. x \in Row /\ y \in Row /\ y.id = x.id /\ stale \subseteq stale' /\ noted' = noted
      BY <1>1, <2>8, <3>1, <3>2 DEF Row, Archive, Gone
    <3>4. /\ x.id \in stale' \/ With("semantic", x.id) = {x}
          /\ lock["semantic"] = r
      BY <1>1, <1>2, <2>8, <3>1 DEF Archive
    <3>5. WritesBack(r, "semantic", x, y)
      BY <1>1, <2>8, <3>1, <3>2, <3>3, <3>4 DEF WritesBack, Upserted
    <3> QED BY <1>1, <3>3, <3>5
  <2>9. CASE Save(r)
    <3>1. PICK x \in seen[r] :
             /\ table' = Upserted(at[r], Patched(r, x))
             /\ stale' = Gone(at[r], x.id)
             /\ noted' = [noted EXCEPT ![x.id] = IF arg[r].op = "annotate" THEN r ELSE @]
      BY <2>9 DEF Save
    <3>2. PICK y : y = Patched(r, x)
      OBVIOUS
    <3>3. x \in Row /\ stale \subseteq stale' /\ pc[r] = "save"
      BY <1>1, <2>9, <3>1 DEF Save, Gone
    <3>4. arg[r].op = "rewrite" => arg[r].text \in Texts
      BY <1>1, <3>3 DEF Typed, ArgsFit
    <3>5. y \in Row /\ y.id = x.id
      BY <1>1, <3>2, <3>3, <3>4 DEF Patched, Row, Args
    <3>6. WritesBack(r, at[r], x, y)
      BY <1>1, <1>2, <2>9, <3>1, <3>2, <3>3, <3>5 DEF WritesBack, Upserted
    <3> QED BY <1>1, <3>3, <3>5, <3>6
  <2>10. CASE Stamp(r) /\ seen[r] # {}
    <3>1. PICK x \in seen[r] :
             /\ table' = Upserted(at[r], x)
             /\ stale' = IF With(at[r], x.id) = {x} THEN stale ELSE stale \cup {x.id}
      BY <2>10 DEF Stamp
    <3>2. x \in Row /\ noted' = noted /\ lock[at[r]] = r
      BY <1>1, <2>10 DEF Stamp, LocksEnd, Locked
    <3>3. WritesBack(r, at[r], x, x)
      BY <1>1, <2>10, <3>1, <3>2 DEF WritesBack, Upserted
    <3> QED BY <1>1, <3>2, <3>3
  <2>11. CASE Enter(r)
    <3>1. PICK x \in seen[r] :
             table' = Inserted(arg[r].table, x) /\ stale' = Returned(arg[r].table, x)
      BY <2>11 DEF Enter
    <3>2. x \in Row /\ arg[r].table \in Tables /\ noted' = noted
      BY <1>1, <2>11 DEF Enter, Args
    <3>3. Enters(r, arg[r].table, x)
      BY <1>1, <2>11, <3>1, <3>2 DEF Enters, Inserted, Returned
    <3> QED BY <3>2, <3>3
  <2>12. CASE \/ Guard(r) \/ Find(r) \/ Dedup(r) \/ Expire(r) \/ Locate(r) \/ Edit(r)
              \/ Look(r) \/ List(r) \/ Await(r) \/ (Stamp(r) /\ seen[r] = {})
    <3>1. Calm
      BY <2>12 DEF Calm, Guard, Find, Dedup, Expire, Locate, Edit, Look, List, Await, Stamp,
                   ghostVars
    <3> QED BY <3>1
  <2> QED
    BY <1>3, <2>1, <2>2, <2>3, <2>4, <2>5, <2>6, <2>7, <2>8, <2>9, <2>10, <2>11, <2>12
       DEF Step
<1>4. ASSUME NEW r \in Requests, Begin(r) \/ Fail(r) PROVE Goal
  BY <1>4 DEF Begin, Fail, Calm, ghostVars
<1>5. CASE Restart \/ UNCHANGED vars
  BY <1>5 DEF Restart, Calm, vars, ghostVars
<1> QED BY <1>3, <1>4, <1>5 DEF Next
-----------------------------------------------------------------------------
(* What a step does to the requests. *)

Still(q) ==
    /\ arg'[q] = arg[q] /\ pc'[q] = pc[q]
    /\ at'[q] = at[q] /\ seen'[q] = seen[q] /\ survivor'[q] = survivor[q]

\* A call of q fails, or the daemon stops.
Halts(q) ==
    /\ Calm /\ arg'[q] = arg[q]
    /\ at'[q] = at[q] /\ seen'[q] = seen[q] /\ survivor'[q] = survivor[q]
    /\ pc[q] \notin Ended \cup {"new"}
    /\ \/ pc'[q] = "failed"
       \/ pc[q] \in {"expire", "archive"} /\ pc'[q] = "discard"
       \/ pc[q] = "discard" /\ pc'[q] = "done"

LEMMA Own ==
    ASSUME Typed, [Next]_vars, NEW q \in Requests
    PROVE  Still(q) \/ Begin(q) \/ Step(q) \/ Halts(q)
<1>1. /\ pc \in [Requests -> Steps] /\ at \in [Requests -> Tables]
      /\ seen \in [Requests -> SUBSET Row] /\ arg \in [Requests -> Args]
      /\ survivor \in [Requests -> Ids \cup {None}]
  BY DEF Typed, TypeOK
<1> USE DEF Still, Goto, Keep, LookIn, localVars
<1>2. ASSUME NEW r \in Requests, r # q, Step(r) PROVE Still(q)
  <2>1. CASE Guard(r) \/ Find(r) \/ Fill(r) \/ Evict(r) \/ Dedup(r)
    BY <1>1, <1>2, <2>1 DEF Guard, Find, Fill, Landed, Evict, Dedup
  <2>2. CASE Write(r) \/ Put(r) \/ Expire(r) \/ Archive(r) \/ Discard(r)
    BY <1>1, <1>2, <2>2 DEF Write, Put, Landed, Expire, Archive, Discard
  <2>3. CASE Locate(r) \/ Edit(r) \/ Leave(r) \/ Enter(r)
    BY <1>1, <1>2, <2>3 DEF Locate, Edit, Leave, Enter
  <2>4. CASE Save(r)
    <3>1. /\ pc' = [pc EXCEPT ![r] = "done"] /\ seen' = [seen EXCEPT ![r] = {}]
          /\ UNCHANGED <<arg, at, survivor>>
      BY <2>4 DEF Save
    <3> QED BY <1>1, <1>2, <3>1
  <2>5. CASE Look(r) \/ Remove(r) \/ List(r) \/ Await(r) \/ Stamp(r)
    BY <1>1, <1>2, <2>5 DEF Look, Remove, List, Await, Stamp
  <2> QED BY <1>2, <2>1, <2>2, <2>3, <2>4, <2>5 DEF Step
<1>3. ASSUME NEW r \in Requests, r # q, Begin(r) PROVE Still(q)
  BY <1>1, <1>3 DEF Begin
<1>4. ASSUME NEW r \in Requests, Fail(r) PROVE Still(q) \/ Halts(q)
  BY <1>1, <1>4 DEF Fail, Halts, Calm, ghostVars
<1>5. CASE Restart
  BY <1>1, <1>5 DEF Restart, Halts, Calm, ghostVars
<1>6. CASE UNCHANGED vars
  BY <1>6 DEF vars
<1> QED BY <1>2, <1>3, <1>4, <1>5, <1>6 DEF Next

\* A request is asked once.
LEMMA AskedOnce ==
    ASSUME Typed, Fit, [Next]_vars, NEW q \in Requests
    PROVE  arg'[q] = arg[q] \/ (pc[q] = "new" /\ arg[q] = Unasked /\ Begin(q))
<1>1. Step(q) => arg' = arg
  BY DEF Step, Guard, Find, Fill, Evict, Dedup, Write, Put, Expire, Archive, Discard,
         Locate, Edit, Save, Leave, Enter, Look, Remove, List, Await, Stamp
<1>2. Begin(q) => pc[q] = "new" /\ arg[q] = Unasked
  BY DEF Begin, Fit
<1> QED BY <1>1, <1>2, Own DEF Still, Halts

LEMMA FitKept ==
    ASSUME Typed, Fit, [Next]_vars
    PROVE  Fit'
<1> SUFFICES ASSUME NEW q \in Requests
             PROVE
        /\ pc'[q] = "new" => arg'[q] = Unasked /\ at'[q] = "semantic"
        /\ pc'[q] = "put" => arg'[q].op = "insert"
        /\ pc'[q] \in {"expire", "archive", "discard"} =>
              arg'[q].op \in {"add", "insert"} /\ arg'[q].target # None /\ survivor'[q] # None
        /\ pc'[q] \in {"leave", "enter"} => arg'[q].op = "move" /\ seen'[q] # {}
        /\ pc'[q] \in {"look", "remove"} => arg'[q].op = "delete"
        /\ pc'[q] \in {"locate", "edit", "save", "list", "await", "stamp"} =>
              arg'[q].op \notin {"add", "insert"}
        /\ pc'[q] \in {"save", "archive", "leave", "enter"} =>
              \A x \in seen'[q] : x.id = arg'[q].target
        /\ pc'[q] \in {"fill", "evict", "write"} =>
              \A x \in seen'[q] : Live(x) /\ x.text = arg'[q].text /\ x.id # arg'[q].target
  BY DEF Fit, Live, Unasked
<1>1. /\ pc \in [Requests -> Steps] /\ at \in [Requests -> Tables]
      /\ seen \in [Requests -> SUBSET Row] /\ arg \in [Requests -> Args]
      /\ survivor \in [Requests -> Ids \cup {None}]
      /\ pc[q] \in Adding => arg[q].op \in {"add", "insert"}
  BY DEF Typed, TypeOK, ArgsFit
<1>2. /\ pc[q] = "new" => arg[q] = Unasked /\ at[q] = "semantic"
      /\ pc[q] = "put" => arg[q].op = "insert"
      /\ pc[q] \in {"expire", "archive", "discard"} =>
            arg[q].op \in {"add", "insert"} /\ arg[q].target # None /\ survivor[q] # None
      /\ pc[q] \in {"leave", "enter"} => arg[q].op = "move" /\ seen[q] # {}
      /\ pc[q] \in {"look", "remove"} => arg[q].op = "delete"
      /\ pc[q] \in {"locate", "edit", "save", "list", "await", "stamp"} =>
            arg[q].op \notin {"add", "insert"}
      /\ pc[q] \in {"save", "archive", "leave", "enter"} =>
            \A x \in seen[q] : x.id = arg[q].target
      /\ pc[q] \in {"fill", "evict", "write"} =>
            \A x \in seen[q] : Live(x) /\ x.text = arg[q].text /\ x.id # arg[q].target
  BY DEF Fit
<1>3. CASE Still(q) \/ Halts(q)
  BY <1>2, <1>3 DEF Still, Halts, Ended
<1>4. CASE Begin(q)
  <2>1. PICK a : arg' = [arg EXCEPT ![q] = a] /\ a.op \in Ops
                 /\ pc' = [pc EXCEPT ![q] = IF Guarded(a) THEN "guard" ELSE Begun(a)]
    BY <1>4 DEF Begin, Goto
  <2>2. a.op \in Op /\ arg'[q] = a /\ pc'[q] \in {"guard", Begun(a)}
    BY <1>1, <2>1, MemoryWritesAssumption
  <2> QED BY <2>2 DEF Begun, Op
<1>5. CASE Step(q)
  <2> USE DEF Goto, Keep, LookIn, With, Twins, localVars
  <2>1. CASE Guard(q)
    BY <1>1, <2>1 DEF Guard, Begun, Args, Op
  <2>2. CASE Find(q) \/ Evict(q) \/ Dedup(q)
    BY <1>1, <2>2 DEF Find, Evict, Dedup
  <2>3. CASE Fill(q) \/ Write(q) \/ Put(q)
    <3>1. arg'[q] = arg[q] /\ pc'[q] \in {"done", "expire"}
      BY <1>1, <2>3 DEF Fill, Write, Put, Landed, Retiring
    <3>2. pc'[q] = "expire" => arg[q].target # None
      BY <1>1, <2>3 DEF Fill, Write, Put, Landed, Retiring
    <3>4. survivor'[q] # None
      <4>1. PICK id \in Ids : survivor' = [survivor EXCEPT ![q] = id]
        BY <1>1, <2>3 DEF Fill, Write, Put, Landed, Ids, Row
      <4> QED BY <1>1, <4>1, MemoryWritesAssumption DEF Ids
    <3>3. pc[q] \in {"fill", "write", "put"}
      BY <2>3 DEF Fill, Write, Put
    <3> QED BY <1>1, <3>1, <3>2, <3>3, <3>4 DEF Adding
  <2>4. CASE Expire(q)
    BY <1>1, <1>2, <2>4 DEF Expire
  <2>5. CASE Archive(q) \/ Discard(q) \/ Enter(q)
    BY <1>1, <2>5 DEF Archive, Discard, Enter
  <2>6. CASE Save(q)
    <3>1. pc'[q] = "done"
      BY <1>1, <2>6 DEF Save
    <3> QED BY <3>1
  <2>7. CASE Locate(q)
    BY <1>1, <1>2, <2>7 DEF Locate
  <2>8. CASE Edit(q)
    BY <1>1, <1>2, <2>8 DEF Edit
  <2>9. CASE Leave(q)
    BY <1>1, <1>2, <2>9 DEF Leave
  <2>10. CASE Look(q) \/ Remove(q)
    BY <1>1, <1>2, <2>10 DEF Look, Remove
  <2>11. CASE List(q) \/ Await(q) \/ Stamp(q)
    BY <1>1, <1>2, <2>11 DEF List, Await, Stamp
  <2> QED
    BY <1>5, <2>1, <2>2, <2>3, <2>4, <2>5, <2>6, <2>7, <2>8, <2>9, <2>10, <2>11 DEF Step
<1> QED BY Own, <1>3, <1>4, <1>5

\* What a request has at hand, it read in a table.
LEMMA SeenFrom ==
    ASSUME Typed, [Next]_vars, NEW q \in Requests, NEW x \in seen'[q]
    PROVE  x \in seen[q] \/ \E t \in Tables : x \in table[t]
<1>1. /\ pc \in [Requests -> Steps] /\ at \in [Requests -> Tables]
      /\ seen \in [Requests -> SUBSET Row]
      /\ \A t \in Tables : Other(t) \in Tables
      /\ "semantic" \in Tables
      /\ arg[q].table \in Tables
  BY DEF Typed, TypeOK, Args, Tables, Other
<1> USE DEF Keep, With, Twins, localVars
<1>2. CASE Still(q) \/ Halts(q) \/ Begin(q)
  BY <1>2 DEF Still, Halts, Begin
<1>3. CASE Find(q) \/ Dedup(q) \/ Locate(q) \/ Edit(q) \/ List(q)
  BY <1>1, <1>3 DEF Find, Dedup, Locate, Edit, List
<1>4. CASE Expire(q)
  BY <1>1, <1>4 DEF Expire
<1>5. CASE Save(q)
  <2>1. seen' = [seen EXCEPT ![q] = {}]
    BY <1>5 DEF Save
  <2> QED BY <1>1, <2>1
<1>6. CASE \/ Guard(q) \/ Fill(q) \/ Evict(q) \/ Write(q) \/ Put(q) \/ Archive(q) \/ Discard(q)
           \/ Leave(q) \/ Enter(q) \/ Look(q) \/ Remove(q) \/ Await(q) \/ Stamp(q)
  BY <1>1, <1>6 DEF Guard, Fill, Evict, Write, Put, Landed, Archive, Discard, Leave, Enter,
                    Look, Remove, Await, Stamp
<1> QED BY Own, <1>2, <1>3, <1>4, <1>5, <1>6 DEF Step

\* A row there is was there, or is what a request has just written.
LEMMA CopiesFrom ==
    ASSUME Typed, LocksEnd, Held, [Next]_vars, NEW z \in Row, Copy(z)'
    PROVE  \/ Copy(z)
           \/ \E r \in Requests, t \in Tables, x \in Row : WritesBack(r, t, x, z)
           \/ \E r \in Requests, t \in Tables : Bears(r, t) /\ z = New(r)
<1>1. ASSUME NEW q \in Requests, z \in seen'[q] PROVE Copy(z)
  BY <1>1, SeenFrom DEF Copy
<1>2. ASSUME NEW u \in Tables, z \in table'[u]
      PROVE  \/ Copy(z)
             \/ \E r \in Requests, t \in Tables, x \in Row : WritesBack(r, t, x, z)
             \/ \E r \in Requests, t \in Tables : Bears(r, t) /\ z = New(r)
  <2>1. CASE Calm
    BY <1>2, <2>1 DEF Calm, Copy
  <2>2. ASSUME NEW r \in Requests, NEW t \in Tables, NEW id \in Ids \cup {None}, Drops(r, t, id)
        PROVE  Copy(z)
    BY <1>2, <2>2 DEF Drops, Copy
  <2>3. ASSUME NEW r \in Requests, NEW t \in Tables, NEW x \in Row, NEW y \in Row,
               WritesBack(r, t, x, y)
        PROVE  Copy(z) \/ z = y
    BY <1>2, <2>3 DEF WritesBack, Copy
  <2>4. ASSUME NEW r \in Requests, NEW t \in Tables, Bears(r, t)
        PROVE  Copy(z) \/ z = New(r)
    BY <1>2, <2>4 DEF Bears, Copy
  <2>5. ASSUME NEW r \in Requests, NEW t \in Tables, NEW x \in Row, Enters(r, t, x)
        PROVE  Copy(z)
    BY <1>2, <2>5 DEF Enters, Copy
  <2> QED BY Effects, <2>1, <2>2, <2>3, <2>4, <2>5
<1> QED BY <1>1, <1>2 DEF Copy

\* A request that has landed, or failed, has.
LEMMA OverIsFinal ==
    ASSUME Typed, [Next]_vars, NEW r \in Requests, pc'[r] \notin Over
    PROVE  pc[r] \notin Over
<1>1. pc \in [Requests -> Steps]
  BY DEF Typed, TypeOK
<1>2. CASE Step(r)
  <2>1. CASE Expire(r) \/ Archive(r) \/ Discard(r)
    BY <1>1, <2>1 DEF Expire, Archive, Discard, Goto, Over
  <2> QED
    BY <1>2, <2>1 DEF Step, Over, Guard, Find, Fill, Evict, Dedup, Write, Put,
           Locate, Edit, Save, Leave, Enter, Look, Remove, List, Await, Stamp
<1> QED BY Own, <1>2 DEF Still, Halts, Begin, Over, Ended
-----------------------------------------------------------------------------
Core == Fit /\ Unborn /\ Unique /\ Held /\ Moving /\ PatchesStick

LEMMA Landing ==
    ASSUME Typed, NEW r \in Requests, NEW t \in Tables, Bears(r, t)
    PROVE  /\ pc[r] \in {"write", "put"} /\ pc[r] \notin Over /\ pc'[r] \in Over
           /\ New(r).id = r /\ New(r).note = None
<1>1. pc \in [Requests -> Steps]
  BY DEF Typed, TypeOK
<1> QED BY <1>1 DEF Bears, Write, Put, Landed, Retiring, Goto, Over, New

LEMMA SameIds ==
    ASSUME Typed, LocksEnd, Held, [Next]_vars, NEW z \in Row, Copy(z)'
    PROVE  \/ \E x \in Row : Copy(x) /\ x.id = z.id
           \/ \E r \in Requests, t \in Tables : Bears(r, t) /\ z = New(r)
<1>1. ASSUME NEW r \in Requests, NEW t \in Tables, NEW x \in Row, WritesBack(r, t, x, z)
      PROVE  Copy(x) /\ x.id = z.id
  BY <1>1 DEF WritesBack, Copy
<1> QED BY CopiesFrom, <1>1

LEMMA UnbornKept ==
    ASSUME Typed, LocksEnd, Fit, Unborn, Held, [Next]_vars
    PROVE  Unborn'
<1> SUFFICES ASSUME NEW r \in Requests, pc'[r] \notin Over
             PROVE  /\ \A z \in Row : Copy(z)' => z.id # r
                    /\ \A q \in Requests : arg'[q].target # r
                    /\ noted'[r] = None
  BY DEF Unborn, Over
<1>1. /\ \A x \in Row : Copy(x) => x.id # r
      /\ \A q \in Requests : arg[q].target # r
      /\ noted[r] = None
  BY OverIsFinal DEF Unborn
<1>2. ASSUME NEW z \in Row, Copy(z)' PROVE z.id # r
  BY <1>1, <1>2, SameIds, Landing
<1>3. ASSUME NEW q \in Requests PROVE arg'[q].target # r
  <2>1. CASE Begin(q)
    <3>1. arg \in [Requests -> Args] /\ table \in [Tables -> SUBSET Row]
      BY DEF Typed, TypeOK
    <3>2. PICK a \in [op : Ops, table : Tables, target : Known \cup {None},
                 text : Texts \cup {None}, voice : {"user", "derived"},
                 directed : BOOLEAN] : arg' = [arg EXCEPT ![q] = a]
      BY <2>1 DEF Begin
    <3>3. a.target \in Known \cup {None} /\ arg'[q] = a
      BY <3>1, <3>2
    <3>4. r \notin Known
      BY <1>1, <3>1, MemoryWritesAssumption DEF Known, Copy
    <3> QED BY <3>3, <3>4, MemoryWritesAssumption
  <2> QED BY <1>1, <2>1, AskedOnce
<1>4. noted'[r] = None
  <2>1. noted \in [Ids -> Requests \cup {None}] /\ r \in Ids
    BY DEF Typed, TypeOK, Ids
  <2>2. CASE noted' = noted
    BY <1>1, <2>2
  <2>3. ASSUME NEW q \in Requests, NEW t \in Tables, NEW x \in Row, NEW y \in Row,
               WritesBack(q, t, x, y)
        PROVE  noted'[r] = None
    <3>1. Copy(x) /\ x.id # r
      BY <1>1, <2>3 DEF Copy, WritesBack
    <3>2. noted' = noted \/ noted' = [noted EXCEPT ![x.id] = IF arg[q].op = "annotate" THEN q ELSE @]
      BY <2>3 DEF WritesBack
    <3> QED BY <1>1, <2>1, <3>1, <3>2
  <2>4. noted' = noted \/ \E q \in Requests, t \in Tables, x \in Row, y \in Row : WritesBack(q, t, x, y)
    BY Effects DEF Calm, Drops, Bears, Enters
  <2> QED BY <2>2, <2>3, <2>4
<1> QED BY <1>2, <1>3, <1>4

\* An id a write back puts into a table is nowhere else.
LEMMA UniqueKept ==
    ASSUME Typed, LocksEnd, Core, [Next]_vars
    PROVE  Unique'
<1> USE DEF Core
<1> SUFFICES ASSUME NEW a \in Tables, NEW b \in Tables, NEW v \in table'[a], NEW w \in table'[b],
                    v.id = w.id, v.id \notin stale'
             PROVE  a = b /\ v = w
  BY DEF Unique
<1>1. table \in [Tables -> SUBSET Row]
  BY DEF Typed, TypeOK
<1>2. v.id \notin stale /\ v \in table[a] /\ w \in table[b] => a = b /\ v = w
  BY DEF Unique
<1>3. CASE Calm
  BY <1>2, <1>3 DEF Calm
<1>4. ASSUME NEW r \in Requests, NEW t \in Tables, NEW id \in Ids \cup {None}, Drops(r, t, id)
      PROVE  a = b /\ v = w
  BY <1>2, <1>4 DEF Drops
<1>5. ASSUME NEW r \in Requests, NEW t \in Tables, NEW x \in Row, NEW y \in Row,
             WritesBack(r, t, x, y)
      PROVE  a = b /\ v = w
  <2>1. CASE v.id = x.id
    <3>1. x \in table[t] /\ x.id \notin stale /\ y.id = x.id
      BY <1>5, <2>1 DEF WritesBack, With
    <3>2. \A u \in Tables : \A z \in table[u] : z.id = x.id => u = t /\ z = x
      BY <3>1 DEF Unique
    <3>3. \A u \in Tables : \A z \in table'[u] : z.id = x.id => u = t /\ z = y
      BY <1>5, <3>2 DEF WritesBack
    <3> QED BY <2>1, <3>3
  <2>2. CASE v.id # x.id
    BY <1>2, <1>5, <2>2 DEF WritesBack
  <2> QED BY <2>1, <2>2
<1>6. ASSUME NEW r \in Requests, NEW t \in Tables, Bears(r, t)
      PROVE  a = b /\ v = w
  <2>1. \A u \in Tables : \A z \in table[u] : z.id # r
    BY <1>1, <1>6, Landing DEF Unborn, Copy
  <2>2. New(r).id = r
    BY <1>6, Landing
  <2> QED BY <1>2, <1>6, <2>1, <2>2 DEF Bears
<1>7. ASSUME NEW r \in Requests, NEW t \in Tables, NEW x \in Row, Enters(r, t, x)
      PROVE  a = b /\ v = w
  <2>1. \A u \in Tables : \A z \in table[u] : z.id = x.id => x.id \in stale
    BY <1>7 DEF Moving, Enters, Enter, With
  <2> QED BY <1>2, <1>7, <2>1 DEF Enters
<1> QED BY Effects, <1>3, <1>4, <1>5, <1>6, <1>7

LEMMA HeldKept ==
    ASSUME Typed, LocksEnd, LocksEnd', Core, [Next]_vars
    PROVE  Held'
<1> USE DEF Core
<1> SUFFICES ASSUME NEW r \in Requests, pc'[r] \in {"write", "save", "archive"},
                    NEW x \in seen'[r], x.id \notin stale'
             PROVE  With(at[r], x.id)' \subseteq {x}
  BY DEF Held, With
<1>1. /\ table \in [Tables -> SUBSET Row] /\ pc \in [Requests -> Steps]
      /\ at \in [Requests -> Tables] /\ seen \in [Requests -> SUBSET Row]
      /\ arg \in [Requests -> Args] /\ lock \in [Tables -> Requests \cup {None}]
      /\ "semantic" \in Tables
  BY DEF Typed, TypeOK, Tables
<1>2. stale \subseteq stale'
  BY Effects DEF Calm, Drops, WritesBack, Bears, Enters
\* It has just read the row.
<1>3. ASSUME table' = table, x \in table[at'[r]], at'[r] \in Tables
      PROVE  With(at[r], x.id)' \subseteq {x}
  BY <1>1, <1>2, <1>3 DEF Unique, With
\* It has had the lock.
<1>4. CASE Still(r)
  <2>1. /\ pc[r] \in {"write", "save", "archive"} /\ at[r] \in Tables
        /\ x \in seen[r] /\ With(at[r], x.id) \subseteq {x}
    BY <1>1, <1>2, <1>4 DEF Held, Still
  <2>2. lock[at[r]] = r /\ at'[r] = at[r] /\ r # None
    BY <1>4, <2>1, MemoryWritesAssumption DEF LocksEnd, Locked, Still
  <2>3. \A z \in table'[at[r]] : z.id = x.id => z \in table[at[r]] \/ z = x
    <3>1. CASE Calm
      BY <3>1 DEF Calm
    <3>2. ASSUME NEW q \in Requests, NEW t \in Tables, NEW id \in Ids \cup {None}, Drops(q, t, id)
          PROVE  \A z \in table'[at[r]] : z \in table[at[r]]
      BY <2>1, <3>2 DEF Drops
    <3>3. ASSUME NEW q \in Requests, NEW t \in Tables, NEW v \in Row, NEW y \in Row,
                 WritesBack(q, t, v, y)
          PROVE  \A z \in table'[at[r]] : z \in table[at[r]]
      <4>1. q # r
        <5>1. pc'[q] # pc[q] \/ seen'[q] # seen[q]
          BY <1>1, <3>3 DEF WritesBack, Fill, Write, Stamp, Save, Archive, Landed, Retiring, Goto, Keep
        <5> QED BY <1>4, <5>1 DEF Still
      <4>2. t # at[r]
        BY <2>2, <3>3, <4>1 DEF WritesBack
      <4> QED BY <2>1, <3>3, <4>2 DEF WritesBack
    <3>4. ASSUME NEW q \in Requests, NEW t \in Tables, Bears(q, t)
          PROVE  \A z \in table'[at[r]] : z.id = x.id => z \in table[at[r]]
      <4>1. New(q).id = q /\ x.id # q
        BY <1>1, <2>1, <3>4, Landing DEF Unborn, Copy
      <4> QED BY <2>1, <3>4, <4>1 DEF Bears
    <3>5. ASSUME NEW q \in Requests, NEW t \in Tables, NEW v \in Row, Enters(q, t, v)
          PROVE  \A z \in table'[at[r]] : z.id = x.id => z \in table[at[r]] \/ z = x
      <4>1. CASE t = at[r] /\ v.id = x.id /\ v # x
        BY <2>1, <2>2, <3>5, <4>1 DEF Enters, Returned
      <4>2. CASE t # at[r] \/ v.id # x.id \/ v = x
        BY <2>1, <3>5, <4>2 DEF Enters
      <4> QED BY <4>1, <4>2
    <3> QED BY Effects, <3>1, <3>2, <3>3, <3>4, <3>5
  <2> QED BY <2>1, <2>2, <2>3 DEF With
<1>5. CASE Step(r)
  <2> USE DEF Goto, Keep, LookIn, With, Twins
  <2>1. CASE Dedup(r)
    <3>1. table' = table /\ at'[r] = arg[r].table /\ x \in table[arg[r].table]
      BY <1>1, <2>1 DEF Dedup
    <3> QED BY <1>1, <1>3, <3>1 DEF Args
  <2>2. CASE Edit(r)
    <3>1. table' = table /\ at'[r] = at[r] /\ x \in table[at[r]]
      BY <1>1, <2>2 DEF Edit
    <3> QED BY <1>1, <1>3, <3>1
  <2>3. CASE Expire(r)
    <3>1. table' = table /\ at'[r] = "semantic" /\ x \in table["semantic"]
      BY <1>1, <2>3 DEF Expire
    <3> QED BY <1>1, <1>3, <3>1
  <2>4. CASE \/ Guard(r) \/ Find(r) \/ Fill(r) \/ Evict(r) \/ Write(r) \/ Put(r) \/ Archive(r)
             \/ Discard(r) \/ Locate(r) \/ Save(r) \/ Leave(r) \/ Enter(r) \/ Look(r)
             \/ Remove(r) \/ List(r) \/ Await(r) \/ Stamp(r)
    <3>1. pc'[r] \notin {"write", "save", "archive"}
      BY <1>1, <2>4
         DEF Guard, Begun, Args, Op, Find, Fill, Evict, Write, Put, Landed, Retiring, Archive,
             Discard, Locate, Save, Leave, Enter, Look, Remove, List, Await, Stamp
    <3> QED BY <3>1
  <2> QED BY <1>5, <2>1, <2>2, <2>3, <2>4 DEF Step
<1>6. CASE Begin(r) \/ Halts(r)
  <2>1. pc'[r] \notin {"write", "save", "archive"}
    <3>1. CASE Halts(r)
      BY <3>1 DEF Halts
    <3>2. CASE Begin(r)
      <4>1. PICK a : a.op \in Ops
                     /\ pc' = [pc EXCEPT ![r] = IF Guarded(a) THEN "guard" ELSE Begun(a)]
        BY <3>2 DEF Begin, Goto
      <4>2. a.op \in Op /\ pc'[r] \in {"guard", Begun(a)}
        BY <1>1, <4>1, MemoryWritesAssumption
      <4> QED BY <4>2 DEF Begun, Op
    <3> QED BY <1>6, <3>1, <3>2
  <2> QED BY <2>1
<1> QED BY Own, <1>4, <1>5, <1>6

\* The note last acknowledged for a row changes only with the row.
LEMMA Notes ==
    ASSUME Typed, LocksEnd, Held, [Next]_vars, NEW id \in Ids
    PROVE  \/ noted'[id] = noted[id]
           \/ \E r \in Requests, t \in Tables, x \in Row, y \in Row :
                 WritesBack(r, t, x, y) /\ x.id = id
<1>1. noted \in [Ids -> Requests \cup {None}]
  BY DEF Typed, TypeOK
<1>2. noted' = noted \/ \E r \in Requests, t \in Tables, x \in Row, y \in Row : WritesBack(r, t, x, y)
  BY Effects DEF Calm, Drops, Bears, Enters
<1>3. ASSUME NEW r \in Requests, NEW t \in Tables, NEW x \in Row, NEW y \in Row,
             WritesBack(r, t, x, y), x.id # id
      PROVE  noted'[id] = noted[id]
  <2>1. noted' = noted \/ noted' = [noted EXCEPT ![x.id] = IF arg[r].op = "annotate" THEN r ELSE @]
    BY <1>3 DEF WritesBack
  <2> QED BY <1>1, <1>3, <2>1
<1> QED BY <1>2, <1>3

\* What is written back has the note last acknowledged.
LEMMA NoteWritten ==
    ASSUME Typed, Core, NEW r \in Requests, NEW t \in Tables, NEW x \in Row, NEW y \in Row,
           WritesBack(r, t, x, y), x.id \notin stale'
    PROVE  y.note = noted'[x.id]
<1>1. /\ noted \in [Ids -> Requests \cup {None}] /\ x.id \in Ids
      /\ x \in table[t] /\ x.id \notin stale
  BY DEF Typed, TypeOK, Row, WritesBack, With
<1>2. x.note = noted[x.id]
  BY <1>1 DEF Core, PatchesStick
<1>3. CASE noted' = noted /\ y.note = x.note
  BY <1>2, <1>3
<1>4. CASE /\ y = Patched(r, x)
           /\ noted' = [noted EXCEPT ![x.id] = IF arg[r].op = "annotate" THEN r ELSE @]
  BY <1>1, <1>2, <1>4 DEF Patched, Row
<1>5. CASE noted' = noted /\ y = [x EXCEPT !.heir = survivor[r]]
  BY <1>2, <1>5 DEF Row
<1> QED BY <1>3, <1>4, <1>5 DEF WritesBack

LEMMA PatchesStickKept ==
    ASSUME Typed, LocksEnd, Core, [Next]_vars
    PROVE  PatchesStick'
<1> USE DEF Core
<1> SUFFICES ASSUME NEW u \in Tables, NEW z \in table'[u], z.id \notin stale'
             PROVE  z.note = noted'[z.id]
  BY DEF PatchesStick
<1>1. table \in [Tables -> SUBSET Row]
  BY DEF Typed, TypeOK
<1>2. CASE Calm
  BY <1>2 DEF PatchesStick, Calm
<1>3. ASSUME NEW r \in Requests, NEW t \in Tables, NEW id \in Ids \cup {None}, Drops(r, t, id)
      PROVE  z.note = noted'[z.id]
  BY <1>3 DEF PatchesStick, Drops
<1>4. ASSUME NEW r \in Requests, NEW t \in Tables, NEW x \in Row, NEW y \in Row,
             WritesBack(r, t, x, y)
      PROVE  z.note = noted'[z.id]
  <2>1. CASE z = y
    <3>1. z.id = x.id
      BY <1>4, <2>1 DEF WritesBack
    <3> QED BY <1>4, <2>1, <3>1, NoteWritten
  <2>2. CASE z # y
    <3>1. z \in table[u] /\ (u = t => z.id # x.id) /\ z.id \notin stale
      BY <1>4, <2>2 DEF WritesBack
    <3>2. z.id # x.id
      BY <1>4, <3>1 DEF WritesBack, With, Unique
    <3>3. noted'[z.id] = noted[z.id]
      <4>1. z.id \in Ids /\ noted \in [Ids -> Requests \cup {None}]
        BY <1>1, <3>1 DEF Row, Typed, TypeOK
      <4>2. \/ noted' = noted
            \/ noted' = [noted EXCEPT ![x.id] = IF arg[r].op = "annotate" THEN r ELSE @]
        BY <1>4 DEF WritesBack
      <4> QED BY <3>2, <4>1, <4>2
    <3> QED BY <3>1, <3>3 DEF PatchesStick
  <2> QED BY <2>1, <2>2
<1>5. ASSUME NEW r \in Requests, NEW t \in Tables, Bears(r, t)
      PROVE  z.note = noted'[z.id]
  <2>1. New(r).id = r /\ New(r).note = None /\ noted[r] = None
    BY <1>5, Landing DEF Unborn
  <2>2. z \in table[u] \/ z = New(r)
    BY <1>5 DEF Bears
  <2> QED BY <1>5, <2>1, <2>2 DEF PatchesStick, Bears
<1>6. ASSUME NEW r \in Requests, NEW t \in Tables, NEW x \in Row, Enters(r, t, x)
      PROVE  z.note = noted'[z.id]
  <2>1. x.id \in stale \/ x.note = noted[x.id]
    BY <1>6 DEF Moving, Enters, Enter
  <2>2. z \in table[u] \/ z = x
    BY <1>6 DEF Enters
  <2> QED BY <1>6, <2>1, <2>2 DEF PatchesStick, Enters
<1> QED BY Effects, <1>2, <1>3, <1>4, <1>5, <1>6

LEMMA MovingKept ==
    ASSUME Typed, LocksEnd, Core, [Next]_vars
    PROVE  Moving'
<1> USE DEF Core
<1>1. /\ table \in [Tables -> SUBSET Row] /\ pc \in [Requests -> Steps]
      /\ at \in [Requests -> Tables] /\ seen \in [Requests -> SUBSET Row]
      /\ arg \in [Requests -> Args]
  BY DEF Typed, TypeOK
<1>2. stale \subseteq stale'
  BY Effects DEF Calm, Drops, WritesBack, Bears, Enters
\* Who is between the tables was, or has just taken out the row it read.
<1>3. ASSUME NEW q \in Requests, pc'[q] = "enter"
      PROVE  /\ seen'[q] = seen[q] /\ arg'[q] = arg[q]
             /\ pc[q] = "enter" \/ Leave(q)
  <2>1. CASE Step(q)
    <3>1. CASE Leave(q)
      BY <3>1 DEF Leave, localVars
    <3>2. CASE \/ Guard(q) \/ Find(q) \/ Fill(q) \/ Evict(q) \/ Dedup(q) \/ Write(q) \/ Put(q)
               \/ Expire(q) \/ Archive(q) \/ Discard(q) \/ Locate(q) \/ Edit(q) \/ Save(q)
               \/ Enter(q) \/ Look(q) \/ Remove(q) \/ List(q) \/ Await(q) \/ Stamp(q)
      <4>1. pc'[q] # "enter"
        BY <1>1, <3>2
           DEF Goto, Guard, Begun, Args, Op, Find, Fill, Evict, Dedup, Write, Put, Landed,
               Retiring, Expire, Archive, Discard, Locate, Edit, Save, Enter, Look, Remove,
               List, Await, Stamp
      <4> QED BY <1>3, <4>1
    <3> QED BY <2>1, <3>1, <3>2 DEF Step
  <2>2. CASE Begin(q)
    <3>1. PICK a : a.op \in Ops
                   /\ pc' = [pc EXCEPT ![q] = IF Guarded(a) THEN "guard" ELSE Begun(a)]
      BY <2>2 DEF Begin, Goto
    <3>2. a.op \in Op /\ pc'[q] \in {"guard", Begun(a)}
      BY <1>1, <3>1, MemoryWritesAssumption
    <3>3. pc'[q] # "enter"
      BY <3>2 DEF Begun, Op
    <3> QED BY <1>3, <3>3
  <2> QED BY <1>3, Own, <2>1, <2>2 DEF Still, Halts
\* The row that r takes out.
<1>4. ASSUME NEW q \in Requests, Leave(q), NEW x \in seen[q], x.id \notin stale'
      PROVE  /\ x \in table[at[q]] /\ x.note = noted'[x.id] /\ x.id \notin stale
             /\ \A t \in Tables : With(t, x.id)' = {}
  <2>1. x.id = arg[q].target /\ x.id \notin stale /\ noted' = noted
    BY <1>2, <1>4 DEF Leave, Fit
  <2>2. With(at[q], x.id) = seen[q]
    BY <1>4, <2>1 DEF Leave
  <2>3. x \in table[at[q]] /\ x.note = noted[x.id]
    BY <1>1, <2>1, <2>2 DEF With, PatchesStick
  <2>4. \A t \in Tables : t # at[q] => With(t, x.id) = {}
    BY <1>1, <2>1, <2>3 DEF Unique, With
  <2>5. \A t \in Tables : table'[t] = IF t = at[q] THEN {z \in table[t] : z.id # x.id} ELSE table[t]
    BY <1>1, <1>4, <2>1 DEF Leave, Deleted
  <2>6. \A t \in Tables : With(t, x.id)' = {}
    BY <2>4, <2>5 DEF With
  <2> QED BY <2>1, <2>3, <2>6
\* Nothing puts the row of one that was between the tables back but itself.
<1>5. ASSUME NEW q \in Requests, pc[q] = "enter", pc'[q] = "enter", NEW x \in seen[q],
             x.id \notin stale'
      PROVE  /\ x.note = noted'[x.id] /\ x.id \notin stale
             /\ \A t \in Tables : With(t, x.id) = {} /\ With(t, x.id)' = {}
  <2>1. /\ x.id \notin stale /\ x.note = noted[x.id] /\ x.id \in Ids
        /\ \A t \in Tables : \A z \in table[t] : z.id # x.id
        /\ \A r \in Requests : pc[r] = "enter" /\ r # q => \A y \in seen[r] : y.id # x.id
    BY <1>1, <1>2, <1>5 DEF Moving, With, Row
  <2>2. \A r \in Requests, t \in Tables, v \in Row, y \in Row :
           WritesBack(r, t, v, y) => v.id # x.id
    BY <1>2, <1>5, <2>1 DEF WritesBack, With
  <2>3. noted'[x.id] = noted[x.id]
    BY <2>1, <2>2, Notes
  <2>4. \A t \in Tables : \A z \in table'[t] : z.id # x.id
    <3>1. CASE Calm
      BY <2>1, <3>1 DEF Calm
    <3>2. ASSUME NEW r \in Requests, NEW t \in Tables, NEW id \in Ids \cup {None}, Drops(r, t, id)
          PROVE  \A u \in Tables : \A z \in table'[u] : z.id # x.id
      BY <2>1, <3>2 DEF Drops
    <3>3. ASSUME NEW r \in Requests, NEW t \in Tables, NEW v \in Row, NEW y \in Row,
                 WritesBack(r, t, v, y)
          PROVE  \A u \in Tables : \A z \in table'[u] : z.id # x.id
      <4>1. v.id # x.id
        BY <2>2, <3>3
      <4> QED BY <2>1, <3>3, <4>1 DEF WritesBack
    <3>4. ASSUME NEW r \in Requests, NEW t \in Tables, Bears(r, t)
          PROVE  \A u \in Tables : \A z \in table'[u] : z.id # x.id
      <4>1. New(r).id = r /\ x.id # r
        BY <1>1, <1>5, <3>4, Landing DEF Unborn, Copy
      <4> QED BY <2>1, <3>4, <4>1 DEF Bears
    <3>5. ASSUME NEW r \in Requests, NEW t \in Tables, NEW v \in Row, Enters(r, t, v)
          PROVE  \A u \in Tables : \A z \in table'[u] : z.id # x.id
      <4>1. v \in seen[r] /\ pc[r] = "enter" /\ r # q
        BY <1>1, <1>5, <3>5 DEF Enters, Enter, Goto
      <4> QED BY <2>1, <3>5, <4>1 DEF Enters
    <3> QED BY Effects, <3>1, <3>2, <3>3, <3>4, <3>5
  <2> QED BY <2>1, <2>3, <2>4 DEF With
<1>6. ASSUME NEW r \in Requests, pc'[r] = "enter", NEW x \in seen'[r], x.id \notin stale'
      PROVE  /\ x.note = noted'[x.id]
             /\ \A t \in Tables : With(t, x.id)' = {}
             /\ \A q \in Requests : pc'[q] = "enter" /\ q # r => \A y \in seen'[q] : y.id # x.id
  <2>1. x \in seen[r] /\ (pc[r] = "enter" \/ Leave(r))
    BY <1>3, <1>6
  <2>2. /\ x.note = noted'[x.id]
        /\ \A t \in Tables : With(t, x.id)' = {}
    BY <1>4, <1>5, <1>6, <2>1
  <2>3. ASSUME NEW q \in Requests, pc'[q] = "enter", q # r, NEW y \in seen'[q], y.id = x.id
        PROVE  FALSE
    <3>1. y \in seen[q] /\ (pc[q] = "enter" \/ Leave(q))
      BY <1>3, <2>3
    <3>2. CASE Leave(r) /\ Leave(q)
      BY <1>1, <2>3, <3>2 DEF Leave, Goto
    <3>3. CASE Leave(r) /\ pc[q] = "enter"
      BY <1>1, <1>4, <1>5, <1>6, <2>1, <2>3, <3>1, <3>3 DEF With
    <3>4. CASE pc[r] = "enter" /\ Leave(q)
      BY <1>1, <1>4, <1>5, <1>6, <2>1, <2>3, <3>1, <3>4 DEF With
    <3>5. CASE pc[r] = "enter" /\ pc[q] = "enter"
      BY <1>2, <1>6, <2>1, <2>3, <3>1, <3>5 DEF Moving
    <3> QED BY <2>1, <3>1, <3>2, <3>3, <3>4, <3>5
  <2> QED BY <2>2, <2>3
<1>7. \A r \in Requests : pc'[r] = "enter" =>
         \A x \in seen'[r] :
            \/ x.id \in stale'
            \/ /\ x.note = noted'[x.id]
               /\ \A t \in Tables : With(t, x.id)' = {}
               /\ \A q \in Requests : pc'[q] = "enter" /\ q # r => \A y \in seen'[q] : y.id # x.id
  BY <1>6
<1> QED BY <1>7 DEF Moving, With

\* At the start every row is in one table, and has no note.
LEMMA AtFirst ==
    ASSUME Init
    PROVE  /\ \A t, u \in Tables : \A x \in table[t], y \in table[u] :
                 x.id \in Rows /\ x.note = None /\ (x.id = y.id => t = u /\ x = y)
           /\ \A x, y \in table["semantic"] \cup table["episodic"] :
                 x.text = y.text => x.id = y.id
<1>1. PICK first \in [Rows -> [text : Texts, voice : {"user", "derived"}]],
           where \in [Rows -> {"semantic", "episodic", "archived"}] :
          /\ \A r, s \in Rows : first[r].text = first[s].text => r = s
          /\ LET RowOf(r) == [id |-> r, text |-> first[r].text, note |-> None,
                              voice |-> first[r].voice,
                              heir |-> IF where[r] = "archived" THEN r ELSE None]
                 In(t) == {r \in Rows : where[r] = t}
             IN  table = [t \in Tables |->
                    {RowOf(r) : r \in IF t = "semantic" THEN Rows \ In("episodic")
                                      ELSE In("episodic")}]
  BY DEF Init
<1> DEFINE RowOf(r) == [id |-> r, text |-> first[r].text, note |-> None,
                        voice |-> first[r].voice,
                        heir |-> IF where[r] = "archived" THEN r ELSE None]
<1>2. \A t \in Tables : \A x \in table[t] :
         \E r \in Rows : x = RowOf(r) /\ (t = "semantic" <=> where[r] # "episodic")
  BY <1>1
<1>3. \A r \in Rows : RowOf(r).id = r /\ RowOf(r).note = None /\ RowOf(r).text = first[r].text
  OBVIOUS
<1> HIDE DEF RowOf
<1> QED BY <1>1, <1>2, <1>3 DEF Tables

LEMMA CoreAtFirst ==
    ASSUME Init PROVE Core
<1>1. /\ arg = [r \in Requests |-> Unasked] /\ pc = [r \in Requests |-> "new"]
      /\ seen = [r \in Requests |-> {}] /\ noted = [id \in Ids |-> None]
      /\ at = [r \in Requests |-> "semantic"]
  BY DEF Init
<1>2. Fit
  BY <1>1 DEF Fit
<1>3. Held /\ Moving
  BY <1>1 DEF Held, Moving
<1>4. Unique
  BY AtFirst DEF Unique
<1>5. PatchesStick
  BY <1>1, AtFirst DEF PatchesStick, Ids
<1>6. Unborn
  BY <1>1, AtFirst, MemoryWritesAssumption DEF Unborn, Copy, Ids, Unasked
<1> QED BY <1>2, <1>3, <1>4, <1>5, <1>6 DEF Core

LEMMA CoreHolds == Spec => []Core
<1>1. Typed /\ LocksEnd /\ LocksEnd' /\ Core /\ [Next]_vars => Core'
  <2> SUFFICES ASSUME Typed, LocksEnd, LocksEnd', Core, [Next]_vars PROVE Core'
    OBVIOUS
  <2>1. Fit' /\ Unborn'
    BY FitKept, UnbornKept DEF Core
  <2>2. Unique' /\ Held' /\ Moving' /\ PatchesStick'
    BY UniqueKept, HeldKept, MovingKept, PatchesStickKept
  <2> QED BY <2>1, <2>2 DEF Core
<1> QED BY <1>1, CoreAtFirst, Typing, LocksAreReturned, PTL DEF Spec

\* store.rs: no patch an update was acknowledged for is lost, whatever runs beside
\* it, but in a row written back from an old copy.
THEOREM PatchesSurvive == Spec => []PatchesStick
<1>1. Core => PatchesStick
  BY DEF Core
<1> QED BY <1>1, CoreHolds, PTL
-----------------------------------------------------------------------------
(* Who changed a row. *)

Rewritten(id) == \E q \in Requests : arg[q].op = "rewrite" /\ arg[q].target = id
Replaced(id) == \E q \in Requests : arg[q].op \in {"add", "insert"} /\ arg[q].target = id

Alike(x, y) ==
    /\ x.text = y.text \/ Rewritten(x.id)
    /\ x.voice = y.voice \/ Slips(x.id)
    /\ (Live(x) <=> Live(y)) \/ Replaced(x.id)

\* The copies of a row differ only in what a request was to change.
Same == \A x, y \in Row : Copy(x) /\ Copy(y) /\ x.id = y.id => Alike(x, y)

LEMMA RequestsStay ==
    ASSUME Typed, Fit, [Next]_vars, NEW id \in Ids
    PROVE  /\ Rewritten(id) => Rewritten(id)'
           /\ Slips(id) => Slips(id)'
           /\ Replaced(id) => Replaced(id)'
<1>1. \A q \in Requests : arg[q].op # "add" \/ arg[q].target = id => arg'[q] = arg[q]
  BY AskedOnce, MemoryWritesAssumption DEF Unasked, Ids
<1> QED BY <1>1 DEF Rewritten, Slips, Replaced

\* What is written back is what was read, but for what it was to change.
LEMMA WrittenAlike ==
    ASSUME Typed, Fit, [Next]_vars, NEW r \in Requests, NEW t \in Tables, NEW x \in Row, NEW y \in Row,
           WritesBack(r, t, x, y)
    PROVE  /\ y.text = x.text \/ (Save(r) /\ arg[r].op = "rewrite" /\ arg[r].target = x.id)
           /\ y.voice = x.voice \/ Slips(x.id)
           /\ (Live(y) <=> Live(x)) \/ (Archive(r) /\ arg[r].target = x.id)
           /\ Copy(x) /\ y.id = x.id
<1>1. x \in seen[r] /\ y.id = x.id /\ Copy(x)
  BY DEF WritesBack, Copy
<1>2. CASE y = x
  BY <1>1, <1>2
<1>3. CASE Save(r) /\ y = Patched(r, x)
  <2>1. pc[r] = "save" /\ arg[r].target = x.id
    BY <1>1, <1>3 DEF Save, Fit
  <2> QED BY <1>1, <1>3, <2>1 DEF Patched, Row, Slips, Live
<1>4. CASE Archive(r) /\ y = [x EXCEPT !.heir = survivor[r]]
  <2>1. pc[r] = "archive" /\ arg[r].target = x.id
    BY <1>1, <1>4 DEF Archive, Fit
  <2> QED BY <1>1, <1>4, <2>1 DEF Row
<1> QED BY <1>2, <1>3, <1>4 DEF WritesBack

LEMMA SameKept ==
    ASSUME Typed, LocksEnd, Core, Same, [Next]_vars
    PROVE  Same'
<1> USE DEF Core
<1>1. ASSUME NEW z \in Row, Copy(z)'
      PROVE  \/ \E x \in Row : Copy(x) /\ x.id = z.id /\ Alike(x, z)'
             \/ \E r \in Requests, t \in Tables : Bears(r, t) /\ z = New(r)
  <2>1. CASE Copy(z)
    BY <2>1 DEF Alike
  <2>2. ASSUME NEW r \in Requests, NEW t \in Tables, NEW x \in Row, WritesBack(r, t, x, z)
        PROVE  Copy(x) /\ x.id = z.id /\ Alike(x, z)'
    <3>1. /\ z.text = x.text \/ Rewritten(x.id)
          /\ z.voice = x.voice \/ Slips(x.id)
          /\ (Live(z) <=> Live(x)) \/ Replaced(x.id)
          /\ Copy(x) /\ z.id = x.id
      BY <2>2, WrittenAlike DEF Rewritten, Replaced, Archive, Fit
    <3>2. x.id \in Ids
      BY DEF Row
    <3> QED BY <3>1, <3>2, RequestsStay DEF Alike, Live
  <2> QED BY <1>1, <2>1, <2>2, CopiesFrom
<1>2. ASSUME NEW v \in Row, NEW w \in Row, Copy(v)', Copy(w)', v.id = w.id
      PROVE  Alike(v, w)'
  <2>1. CASE \E r \in Requests, t \in Tables : Bears(r, t) /\ (v = New(r) \/ w = New(r))
    <3>1. PICK r \in Requests, t \in Tables : Bears(r, t) /\ (v = New(r) \/ w = New(r))
      BY <2>1
    <3>2. v.id = r /\ w.id = r /\ \A x \in Row : Copy(x) => x.id # r
      BY <1>2, <3>1, Landing DEF Unborn
    <3>3. \A q \in Requests, u \in Tables : Bears(q, u) => New(q).id = q
      BY Landing
    <3>4. v = New(r) /\ w = New(r)
      BY <1>1, <1>2, <3>2, <3>3
    <3> QED BY <3>4 DEF Alike
  <2>2. CASE ~\E r \in Requests, t \in Tables : Bears(r, t) /\ (v = New(r) \/ w = New(r))
    <3>1. PICK x \in Row : Copy(x) /\ x.id = v.id /\ Alike(x, v)'
      BY <1>1, <1>2, <2>2
    <3>2. PICK y \in Row : Copy(y) /\ y.id = w.id /\ Alike(y, w)'
      BY <1>1, <1>2, <2>2
    <3>3. Alike(x, y)
      BY <1>2, <3>1, <3>2 DEF Same
    <3>4. Alike(x, y)'
      <4>1. x.id \in Ids
        BY DEF Row
      <4> QED BY <3>3, <4>1, RequestsStay DEF Alike, Live
    <3> QED BY <1>2, <3>1, <3>2, <3>4 DEF Alike
  <2> QED BY <2>1, <2>2
<1> QED BY <1>2 DEF Same
-----------------------------------------------------------------------------
(* The guard of the user's voice. *)

Past(r) == Guarded(arg[r]) /\ pc[r] \notin Ended \cup {"new", "guard"}

\* What the guard has looked at stays as it saw it: it found nothing in the first
\* table; the row it lets a request rewrite or retire is not in the user's voice.
GuardKnows ==
    \A r \in Requests, t \in Tables : \A x \in table[t] : x.id = arg[r].target =>
        \/ x.id \in stale
        \/ Slips(x.id)
        \/ /\ ~(pc[r] = "guard" /\ at[r] = "episodic" /\ t = "semantic")
           /\ Past(r) => x.voice # "user"

LEMMA VoicesFrom ==
    ASSUME Typed, LocksEnd, Core, [Next]_vars, NEW u \in Tables, NEW z \in table'[u],
           z.id \notin stale', ~Slips(z.id)'
    PROVE  \/ \E x \in table[u] : x.id = z.id /\ x.voice = z.voice
           \/ \E r \in Requests, t \in Tables : Bears(r, t) /\ z = New(r)
<1> USE DEF Core
<1> DEFINE Kept == \E x \in table[u] : x.id = z.id /\ x.voice = z.voice
<1>1. CASE Calm
  BY <1>1 DEF Calm
<1>2. ASSUME NEW r \in Requests, NEW t \in Tables, NEW id \in Ids \cup {None}, Drops(r, t, id)
      PROVE  Kept
  BY <1>2 DEF Drops
<1>3. ASSUME NEW r \in Requests, NEW t \in Tables, NEW x \in Row, NEW y \in Row,
             WritesBack(r, t, x, y)
      PROVE  Kept
  <2>1. CASE z \in table[u]
    BY <2>1
  <2>2. CASE z \notin table[u]
    <3>1. z = y /\ u = t /\ y.id = x.id /\ x \in table[u]
      BY <1>3, <2>2 DEF WritesBack, With
    <3>2. y.voice = x.voice \/ Slips(x.id)
      BY <1>3, WrittenAlike
    <3>3. x.id \in Ids
      BY DEF Row
    <3> QED BY <3>1, <3>2, <3>3, RequestsStay
  <2> QED BY <2>1, <2>2
<1>4. ASSUME NEW r \in Requests, NEW t \in Tables, Bears(r, t)
      PROVE  Kept \/ z = New(r)
  BY <1>4 DEF Bears
<1>5. ASSUME NEW r \in Requests, NEW t \in Tables, NEW x \in Row, Enters(r, t, x)
      PROVE  Kept
  <2>1. Slips(x.id) /\ x.id \in Ids
    BY <1>5 DEF Enters, Enter, Fit, Slips, Row
  <2>2. z # x
    BY <2>1, RequestsStay
  <2> QED BY <1>5, <2>2 DEF Enters
<1> QED BY Effects, <1>1, <1>2, <1>3, <1>4, <1>5

LEMMA GuardKnowsKept ==
    ASSUME Typed, LocksEnd, Core, GuardKnows, [Next]_vars
    PROVE  GuardKnows'
<1> USE DEF Core
<1> SUFFICES ASSUME NEW r \in Requests, NEW u \in Tables, NEW z \in table'[u],
                    z.id = arg'[r].target, z.id \notin stale', ~Slips(z.id)'
             PROVE  /\ ~(pc'[r] = "guard" /\ at'[r] = "episodic" /\ u = "semantic")
                    /\ Past(r)' => z.voice # "user"
  BY DEF GuardKnows, Slips, Past
<1>1. /\ table \in [Tables -> SUBSET Row] /\ pc \in [Requests -> Steps]
      /\ at \in [Requests -> Tables] /\ arg \in [Requests -> Args]
      /\ table' \in [Tables -> SUBSET Row]
  <2>1. Typed'
    BY TypingStep
  <2> QED BY <2>1 DEF Typed, TypeOK
<1>2. z \in Row /\ z.id \in Ids /\ stale \subseteq stale'
  BY <1>1, Effects DEF Row, Calm, Drops, WritesBack, Bears, Enters
<1>3. z.id \notin stale /\ ~Slips(z.id)
  BY <1>2, RequestsStay
\* A request that keeps its question: the row was there, and in the same voice.
<1>4. ASSUME arg'[r] = arg[r]
      PROVE  \E x \in table[u] : x.id = z.id /\ x.voice = z.voice
  <2>1. \A q \in Requests, t \in Tables : Bears(q, t) => z # New(q)
    BY <1>4, Landing DEF Unborn
  <2> QED BY <2>1, VoicesFrom
<1>5. CASE Still(r) \/ Halts(r)
  <2>1. PICK x \in table[u] : x.id = z.id /\ x.voice = z.voice
    BY <1>4, <1>5 DEF Still, Halts
  <2>2. /\ ~(pc[r] = "guard" /\ at[r] = "episodic" /\ u = "semantic")
        /\ Past(r) => x.voice # "user"
    BY <1>3, <1>5, <2>1 DEF GuardKnows, Still, Halts
  <2> QED BY <1>5, <2>1, <2>2 DEF Still, Halts, Past, Ended
<1>6. CASE Begin(r)
  <2>1. /\ at'[r] = "semantic"
        /\ pc'[r] = IF Guarded(arg'[r]) THEN "guard" ELSE Begun(arg'[r])
    BY <1>1, <1>6 DEF Begin, Goto, Fit, localVars
  <2> QED BY <2>1 DEF Past
<1>7. CASE Guard(r)
  <2>1. table' = table /\ arg' = arg /\ pc[r] = "guard"
    BY <1>7 DEF Guard
  <2>2. CASE Goto(r, "refused")
    BY <1>1, <2>1, <2>2 DEF Past, Goto, Ended
  <2>3. CASE \E x \in With(at[r], arg[r].target) : x.voice # "user"
    BY <1>1, <1>3, <2>1, <2>3, <1>7 DEF With, Unique, Guard, Goto, LookIn, Past, Ended
  <2>4. CASE With(at[r], arg[r].target) = {}
    <3>1. \A x \in table[at[r]] : x.id # arg[r].target
      BY <2>4 DEF With
    <3>2. u # at[r]
      BY <2>1, <3>1
    <3>3. CASE at[r] = "semantic"
      BY <1>1, <1>7, <2>1, <2>4, <3>2, <3>3 DEF Guard, Goto, LookIn, Past
    <3>4. CASE at[r] = "episodic"
      <4>1. u = "semantic"
        BY <3>2, <3>4 DEF Tables
      <4> QED BY <1>3, <2>1, <3>4, <4>1 DEF GuardKnows
    <3> QED BY <1>1, <3>3, <3>4 DEF Tables
  <2> QED BY <1>7, <2>2, <2>3, <2>4 DEF Guard
<1>8. CASE Step(r) /\ ~Guard(r)
  <2>1. arg' = arg /\ pc[r] \notin Ended \cup {"new", "guard"} /\ pc'[r] # "guard"
    BY <1>1, <1>8
       DEF Step, Find, Fill, Evict, Dedup, Write, Put, Landed, Retiring, Expire, Archive, Discard,
           Locate, Edit, Save, Leave, Enter, Look, Remove, List, Await, Stamp, Goto, Ended
  <2>2. PICK x \in table[u] : x.id = z.id /\ x.voice = z.voice
    BY <1>4, <2>1
  <2>3. Past(r) => x.voice # "user"
    BY <1>3, <2>1, <2>2 DEF GuardKnows
  <2> QED BY <2>1, <2>2, <2>3 DEF Past
<1> QED BY Own, <1>5, <1>6, <1>7, <1>8

\* What takes a live row of the user's voice out of a table, or its text: a request
\* that is directed to, a delete, or the staged copy of what is being added.
LEMMA VoiceStep ==
    ASSUME Typed, LocksEnd, Core, Same, GuardKnows, [Next]_vars,
           NEW t \in Tables, NEW x \in table[t], Live(x), x.voice = "user",
           x.id \notin stale', ~Slips(x.id)
    PROVE  \/ \E y \in table'[t] : y.id = x.id /\ y.text = x.text /\ Live(y)
           \/ \E r \in Requests :
                 pc'[r] # pc[r] /\ (arg[r].directed \/ pc[r] \in {"remove", "evict"})
<1> USE DEF Core
<1> DEFINE Kept == \E y \in table'[t] : y.id = x.id /\ y.text = x.text /\ Live(y)
           Allowed == \E r \in Requests :
                 pc'[r] # pc[r] /\ (arg[r].directed \/ pc[r] \in {"remove", "evict"})
<1>1. /\ table \in [Tables -> SUBSET Row] /\ x \in Row /\ Copy(x) /\ pc \in [Requests -> Steps]
      /\ arg \in [Requests -> Args] /\ stale \subseteq stale'
      /\ \A r \in Requests : arg[r].op \in {"add", "insert", "rewrite"} /\ arg[r].target = x.id
            => arg[r].directed \/ Guarded(arg[r])
  <2>1. stale \subseteq stale'
    BY Effects DEF Calm, Drops, WritesBack, Bears, Enters
  <2>2. table \in [Tables -> SUBSET Row] /\ x \in Row /\ Copy(x)
    BY DEF Typed, TypeOK, Copy
  <2>3. x.id # None
    BY <2>2, MemoryWritesAssumption DEF Row, Ids
  <2> QED BY <2>1, <2>2, <2>3 DEF Typed, TypeOK, Guarded
\* Who may not touch the row does not.
<1>2. ASSUME NEW r \in Requests, arg[r].target = x.id, arg[r].op \in {"add", "insert", "rewrite"},
             pc[r] \notin Ended \cup {"new", "guard"}
      PROVE  arg[r].directed
  BY <1>1, <1>2 DEF GuardKnows, Past
<1>3. CASE Calm
  BY <1>3 DEF Calm
<1>4. ASSUME NEW r \in Requests, NEW u \in Tables, NEW id \in Ids \cup {None}, Drops(r, u, id)
      PROVE  Kept \/ Allowed
  <2>1. CASE x \in table'[t]
    BY <2>1
  <2>2. CASE x \notin table'[t]
    <3>1. x.id = id /\ pc'[r] # pc[r]
      BY <1>4, <2>2 DEF Drops
    <3>2. CASE Evict(r) \/ Remove(r)
      BY <3>1, <3>2 DEF Evict, Remove
    <3>3. CASE Discard(r) /\ id = arg[r].target
      <4>1. pc[r] = "discard" /\ arg[r].op \in {"add", "insert"}
        BY <3>3 DEF Discard, Fit
      <4> QED BY <1>2, <3>1, <3>3, <4>1 DEF Ended
    <3>4. CASE Leave(r) /\ id = arg[r].target
      BY <3>1, <3>4 DEF Leave, Fit, Slips
    <3> QED BY <1>4, <3>2, <3>3, <3>4 DEF Drops
  <2> QED BY <2>1, <2>2
<1>5. ASSUME NEW r \in Requests, NEW u \in Tables, NEW v \in Row, NEW y \in Row,
             WritesBack(r, u, v, y)
      PROVE  Kept \/ Allowed
  <2>1. CASE x \in table'[t]
    BY <2>1
  <2>2. CASE x \notin table'[t]
    <3>1. t = u /\ x = v /\ y \in table'[t]
      BY <1>5, <2>2 DEF WritesBack, With
    <3>2. y.id = x.id
      BY <1>5, <3>1 DEF WritesBack
    <3>3. \/ y.text = x.text /\ Live(y)
          \/ Save(r) /\ arg[r].op = "rewrite" /\ arg[r].target = x.id
          \/ Archive(r) /\ arg[r].target = x.id
      BY <1>5, <3>1, WrittenAlike
    <3>4. CASE Save(r) /\ arg[r].op = "rewrite" /\ arg[r].target = x.id
      <4>1. pc[r] = "save" /\ pc'[r] # pc[r]
        BY <1>1, <3>4 DEF Save, Goto
      <4> QED BY <1>2, <3>4, <4>1 DEF Ended
    <3>5. CASE Archive(r) /\ arg[r].target = x.id
      <4>1. pc[r] = "archive" /\ pc'[r] # pc[r] /\ arg[r].op \in {"add", "insert"}
        BY <1>1, <3>5 DEF Archive, Goto, Fit
      <4> QED BY <1>2, <3>5, <4>1 DEF Ended
    <3> QED BY <3>1, <3>2, <3>3, <3>4, <3>5
  <2> QED BY <2>1, <2>2
<1>6. ASSUME NEW r \in Requests, NEW u \in Tables, Bears(r, u)
      PROVE  Kept
  BY <1>6 DEF Bears
<1>7. ASSUME NEW r \in Requests, NEW u \in Tables, NEW v \in Row, Enters(r, u, v)
      PROVE  Kept
  BY <1>7 DEF Enters
<1> QED BY Effects, <1>3, <1>4, <1>5, <1>6, <1>7

LEMMA VoicesHold == Spec => [](Same /\ GuardKnows)
<1>1. Init => Same /\ GuardKnows
  <2> SUFFICES ASSUME Init PROVE Same /\ GuardKnows
    OBVIOUS
  <2>1. /\ arg = [r \in Requests |-> Unasked] /\ pc = [r \in Requests |-> "new"]
        /\ seen = [r \in Requests |-> {}]
    BY DEF Init
  <2>2. Same
    BY <2>1, AtFirst DEF Same, Copy, Alike
  <2>3. GuardKnows
    BY <2>1 DEF GuardKnows, Past
  <2> QED BY <2>2, <2>3
<1>2. Typed /\ LocksEnd /\ Core /\ (Same /\ GuardKnows) /\ [Next]_vars => (Same /\ GuardKnows)'
  BY SameKept, GuardKnowsKept
<1> QED BY <1>1, <1>2, Typing, LocksAreReturned, CoreHolds, PTL DEF Spec

\* memory.rs: no row in the user's voice is rewritten or retired behind the guard.
THEOREM UserVoiceSafe == Spec => UserVoiceKept
<1>1. Typed /\ LocksEnd /\ Core /\ (Same /\ GuardKnows) /\ [Next]_vars =>
         \A t \in Tables : \A x \in table[t] :
            \/ ~Live(x) \/ x.voice # "user" \/ x.id \in stale' \/ Slips(x.id)
            \/ \E y \in table'[t] : y.id = x.id /\ y.text = x.text /\ Live(y)
            \/ \E r \in Requests :
                  /\ pc'[r] # pc[r]
                  /\ arg[r].directed \/ pc[r] \in {"remove", "evict"}
  BY VoiceStep
<1> QED BY <1>1, Typing, LocksAreReturned, CoreHolds, VoicesHold, PTL DEF Spec, UserVoiceKept
-----------------------------------------------------------------------------
(* The duplicate check. *)

Excused(i, j) ==
    \/ Unchecked(i) \/ Unchecked(j)
    \/ i \in Requests /\ arg[i].target = j
    \/ j \in Requests /\ arg[j].target = i

\* Under the lock, a request that found no duplicate has none.
Pending ==
    \A r \in Requests : pc[r] = "write" /\ seen[r] = {} =>
        \A y \in table[at[r]] :
            Live(y) /\ y.text = arg[r].text /\ y.id # r => Excused(r, y.id)

LEMMA ExcusesStay ==
    ASSUME Typed, Fit, [Next]_vars, stale \subseteq stale', NEW i \in Ids, NEW j \in Ids,
           Excused(i, j)
    PROVE  Excused(i, j)'
<1>1. \A q \in Requests : arg[q].op # "add" \/ arg[q].target \in Ids => arg'[q] = arg[q]
  BY AskedOnce, MemoryWritesAssumption DEF Unasked, Ids
<1>2. \A id \in Ids : Unchecked(id) => Unchecked(id)'
  BY <1>1 DEF Unchecked
<1> QED BY <1>1, <1>2 DEF Excused

LEMMA NoTwinsKept ==
    ASSUME Typed, LocksEnd, Core, Pending, NoTwins, [Next]_vars
    PROVE  NoTwins'
<1> USE DEF Core
<1> SUFFICES ASSUME NEW u \in Tables, NEW v \in table'[u], NEW w \in table'[u],
                    Live(v), Live(w), v.text = w.text, v.id # w.id
             PROVE  Excused(v.id, w.id)'
  BY DEF NoTwins, Excused, Live
<1>1. /\ table \in [Tables -> SUBSET Row] /\ stale \subseteq stale'
      /\ v \in Row /\ w \in Row /\ v.id \in Ids /\ w.id \in Ids
  <2>1. Typed'
    BY TypingStep
  <2> QED BY <2>1, Effects DEF Typed, TypeOK, Row, Calm, Drops, WritesBack, Bears, Enters
<1>2. v \in table[u] /\ w \in table[u] => Excused(v.id, w.id)'
  BY <1>1, ExcusesStay DEF NoTwins, Excused
<1>3. \A i, j : Excused(i, j)' <=> Excused(j, i)'
  BY DEF Excused
<1>4. Unchecked(v.id)' \/ Unchecked(w.id)' => Excused(v.id, w.id)'
  BY DEF Excused
<1>5. CASE Calm
  BY <1>2, <1>5 DEF Calm
<1>6. ASSUME NEW r \in Requests, NEW t \in Tables, NEW id \in Ids \cup {None}, Drops(r, t, id)
      PROVE  Excused(v.id, w.id)'
  BY <1>2, <1>6 DEF Drops
\* What is written back had its place.
<1>7. ASSUME NEW r \in Requests, NEW t \in Tables, NEW x \in Row, NEW y \in Row,
             WritesBack(r, t, x, y)
      PROVE  Excused(v.id, w.id)'
  <2>1. CASE v \in table[u] /\ w \in table[u]
    BY <1>2, <2>1
  <2>2. CASE v \notin table[u] \/ w \notin table[u]
    <3>1. PICK z \in table[t] :
             /\ u = t /\ {v, w} = {y, z} /\ z.id # x.id /\ z.text = y.text
             /\ Live(z) /\ Live(y) /\ y.id = x.id
      BY <1>7, <2>2 DEF WritesBack
    <3>2. z.id \in Ids /\ x.id \in Ids /\ x.id # None
      BY <1>1, MemoryWritesAssumption DEF Row, Ids
    <3>3. CASE x.id \in stale' \/ (arg[r].op = "rewrite" /\ arg[r].target = x.id)
      <4>1. arg[r].target = x.id => arg'[r] = arg[r]
        BY <3>2, AskedOnce DEF Unasked
      <4>2. Unchecked(y.id)'
        BY <3>1, <3>3, <4>1 DEF Unchecked
      <4> QED BY <1>4, <3>1, <4>2
    <3>4. CASE x.id \notin stale' /\ y.text = x.text
      <4>1. x \in table[t]
        BY <1>7, <3>4 DEF WritesBack, With
      <4>2. Live(x)
        <5>1. CASE y = x
          BY <3>1, <5>1
        <5>2. CASE y = Patched(r, x)
          BY <3>1, <5>2 DEF Patched, Live, Row
        <5>3. CASE Archive(r) /\ y = [x EXCEPT !.heir = survivor[r]]
          BY <3>1, <5>3 DEF Archive, Fit, Live, Row
        <5> QED BY <1>7, <5>1, <5>2, <5>3 DEF WritesBack
      <4>3. Excused(x.id, z.id)'
        BY <1>1, <3>1, <3>2, <3>4, <4>1, <4>2, ExcusesStay DEF NoTwins, Excused
      <4> QED BY <1>3, <3>1, <4>3
    <3> QED BY <1>7, <3>3, <3>4, WrittenAlike
  <2> QED BY <2>1, <2>2
<1>8. ASSUME NEW r \in Requests, NEW t \in Tables, Bears(r, t)
      PROVE  Excused(v.id, w.id)'
  <2>1. CASE v \in table[u] /\ w \in table[u]
    BY <1>2, <2>1
  <2>2. CASE v \notin table[u] \/ w \notin table[u]
    <3>1. PICK z \in table[t] :
             /\ u = t /\ {v, w} = {New(r), z} /\ z.id # r /\ z.text = arg[r].text
             /\ Live(z)
      BY <1>8, <2>2, Landing DEF Bears, New
    <3>2. z.id \in Ids /\ r \in Ids /\ New(r).id = r
      BY <1>1, <1>8, Landing DEF Row, Ids
    <3>3. CASE Put(r)
      <4>1. Unchecked(r)'
        BY <3>3 DEF Put, Fit, Unchecked
      <4> QED BY <1>4, <3>1, <3>2, <4>1
    <3>4. CASE Write(r) /\ seen[r] = {} /\ t = at[r]
      <4>1. Excused(r, z.id)
        BY <3>1, <3>4 DEF Write, Pending
      <4>2. Excused(r, z.id)'
        BY <1>1, <3>2, <4>1, ExcusesStay
      <4> QED BY <1>3, <3>1, <3>2, <4>2
    <3> QED BY <1>8, <3>3, <3>4 DEF Bears
  <2> QED BY <2>1, <2>2
<1>9. ASSUME NEW r \in Requests, NEW t \in Tables, NEW x \in Row, Enters(r, t, x)
      PROVE  Excused(v.id, w.id)'
  <2>1. Unchecked(x.id)'
    <3>1. arg[r].op = "move" /\ arg[r].target = x.id /\ arg' = arg
      BY <1>9 DEF Enters, Enter, Fit
    <3> QED BY <3>1 DEF Unchecked
  <2>2. (v \in table[u] /\ w \in table[u]) \/ v = x \/ w = x
    BY <1>9 DEF Enters
  <2> QED BY <1>2, <1>4, <2>1, <2>2
<1> QED BY Effects, <1>5, <1>6, <1>7, <1>8, <1>9

LEMMA PendingKept ==
    ASSUME Typed, LocksEnd, Core, Pending, [Next]_vars
    PROVE  Pending'
<1> USE DEF Core
<1> SUFFICES ASSUME NEW r \in Requests, pc'[r] = "write", seen'[r] = {},
                    NEW y \in table'[at'[r]], Live(y), y.text = arg'[r].text, y.id # r
             PROVE  Excused(r, y.id)'
  BY DEF Pending, Live
<1>1. /\ table \in [Tables -> SUBSET Row] /\ pc \in [Requests -> Steps]
      /\ at \in [Requests -> Tables] /\ seen \in [Requests -> SUBSET Row]
      /\ arg \in [Requests -> Args] /\ stale \subseteq stale'
      /\ y.id \in Ids /\ r \in Ids
  <2>1. Typed'
    BY TypingStep
  <2>2. Typed /\ stale \subseteq stale'
    BY Effects DEF Calm, Drops, WritesBack, Bears, Enters
  <2> QED BY <2>1, <2>2 DEF Typed, TypeOK, Row, Ids
\* It has had the lock: what came into its table since came without the check.
<1>2. CASE Still(r)
  <2>1. pc[r] = "write" /\ seen[r] = {} /\ at'[r] = at[r] /\ lock[at[r]] = r /\ r # None
    BY <1>1, <1>2, MemoryWritesAssumption DEF Still, LocksEnd, Locked
  <2>2. y \in table[at[r]] => Excused(r, y.id)
    BY <1>2, <2>1 DEF Still, Pending
  <2>3. y \in table[at[r]] => Excused(r, y.id)'
    BY <1>1, <2>2, ExcusesStay
  <2>4. Unchecked(y.id)' => Excused(r, y.id)'
    BY DEF Excused
  <2>5. CASE Calm
    BY <2>1, <2>3, <2>5 DEF Calm
  <2>6. ASSUME NEW q \in Requests, NEW t \in Tables, NEW id \in Ids \cup {None}, Drops(q, t, id)
        PROVE  y \in table[at[r]]
    BY <1>1, <2>1, <2>6 DEF Drops
  <2>7. ASSUME NEW q \in Requests, NEW t \in Tables, NEW x \in Row, NEW z \in Row,
               WritesBack(q, t, x, z)
        PROVE  y \in table[at[r]]
    <3>1. q # r
      BY <2>1, <2>7 DEF WritesBack
    <3>2. t # at[r]
      BY <2>1, <2>7, <3>1 DEF WritesBack
    <3> QED BY <1>1, <2>1, <2>7, <3>2 DEF WritesBack
  <2>8. ASSUME NEW q \in Requests, NEW t \in Tables, Bears(q, t)
        PROVE  y \in table[at[r]] \/ Unchecked(y.id)'
    <3>1. CASE Put(q)
      <4>1. Unchecked(q)'
        BY <3>1 DEF Put, Fit, Unchecked
      <4>2. New(q).id = q
        BY DEF New
      <4> QED BY <1>1, <2>1, <2>8, <4>1, <4>2 DEF Bears
    <3>2. CASE Write(q) /\ t = at[q]
      <4>1. q # r
        <5>1. Write(r) => pc'[r] # "write"
          BY <1>1 DEF Write, Landed, Retiring, Goto
        <5> QED BY <3>2, <5>1
      <4>2. t # at[r]
        BY <1>1, <2>1, <3>2, <4>1 DEF Write, LocksEnd, Locked
      <4> QED BY <1>1, <2>1, <2>8, <4>2 DEF Bears
    <3> QED BY <2>8, <3>1, <3>2 DEF Bears
  <2>9. ASSUME NEW q \in Requests, NEW t \in Tables, NEW x \in Row, Enters(q, t, x)
        PROVE  y \in table[at[r]] \/ Unchecked(y.id)'
    <3>1. arg[q].op = "move" /\ arg[q].target = x.id /\ arg' = arg
      BY <2>9 DEF Enters, Enter, Fit
    <3>2. Unchecked(x.id)'
      BY <3>1 DEF Unchecked
    <3> QED BY <1>1, <2>1, <2>9, <3>2 DEF Enters
  <2> QED BY Effects, <2>3, <2>4, <2>5, <2>6, <2>7, <2>8, <2>9
\* It has just looked.
<1>3. CASE Dedup(r)
  <2>1. /\ table' = table /\ arg' = arg /\ at'[r] = arg[r].table
        /\ Twins(arg[r].table, arg[r].text, arg[r].target) = {}
    BY <1>1, <1>3 DEF Dedup, LookIn, Keep
  <2>2. y.id = arg'[r].target
    BY <2>1 DEF Twins
  <2> QED BY <2>2 DEF Excused
<1>4. CASE Begin(r) \/ Halts(r) \/ (Step(r) /\ ~Dedup(r))
  <2>1. CASE Halts(r)
    BY <2>1 DEF Halts
  <2>2. CASE Begin(r)
    <3>1. PICK a : a.op \in Ops
                   /\ pc' = [pc EXCEPT ![r] = IF Guarded(a) THEN "guard" ELSE Begun(a)]
      BY <2>2 DEF Begin, Goto
    <3>2. a.op \in Op /\ pc'[r] \in {"guard", Begun(a)}
      BY <1>1, <3>1, MemoryWritesAssumption
    <3> QED BY <3>2 DEF Begun, Op
  <2>3. CASE Step(r) /\ ~Dedup(r)
    <3>1. pc'[r] # "write"
      BY <1>1, <2>3
         DEF Step, Guard, Begun, Args, Op, Find, Fill, Evict, Write, Put, Landed, Retiring, Expire,
             Archive, Discard, Locate, Edit, Save, Leave, Enter, Look, Remove, List, Await, Stamp,
             Goto
    <3> QED BY <3>1
  <2> QED BY <1>4, <2>1, <2>2, <2>3
<1> QED BY Own, <1>2, <1>3, <1>4

LEMMA TwinsHold == Spec => [](Pending /\ NoTwins)
<1>1. Init => Pending /\ NoTwins
  <2> SUFFICES ASSUME Init PROVE Pending /\ NoTwins
    OBVIOUS
  <2>1. Pending
    BY DEF Init, Pending
  <2>2. NoTwins
    BY AtFirst DEF NoTwins, Tables
  <2> QED BY <2>1, <2>2
<1>2. Typed /\ LocksEnd /\ Core /\ (Pending /\ NoTwins) /\ [Next]_vars => (Pending /\ NoTwins)'
  BY PendingKept, NoTwinsKept
<1> QED BY <1>1, <1>2, Typing, LocksAreReturned, CoreHolds, PTL DEF Spec

\* store.rs: two adds of one text leave one row, whatever runs beside them.
THEOREM TwinsExcused == Spec => []NoTwins
<1> QED BY TwinsHold, PTL
-----------------------------------------------------------------------------
(* What was added stays to be read. *)

Settled == {"expire", "archive", "discard", "done"}

\* Another request takes the text of r away, or may have (as in NothingLost).
Robbed(r) ==
    \E q \in Requests \ {r} :
        /\ pc[q] # "new"
        /\ \/ arg[q].op \in {"delete", "rewrite"}
           \/ arg[q].op \in {"add", "insert"} /\ arg[q].target # None
           \/ pc[q] = "failed"
           \/ arg[r].target # None /\ arg[q].text = arg[r].text

Shows(x, r) == Live(x) /\ x.text = arg[r].text /\ x.id # arg[r].target

\* The text of r is in a live row that r is not to replace, or about to be.
There(r) ==
    \/ \E t \in Tables : \E x \in table[t] : Shows(x, r)
    \/ \E q \in Requests :
          \/ pc[q] \in {"dedup", "write"} /\ arg[q].text = arg[r].text
          \/ pc[q] = "enter" /\ \E x \in seen[q] : Shows(x, r)

Covered ==
    \A r \in Requests :
        arg[r].op \in {"add", "insert"} /\ pc[r] \in Settled => Robbed(r) \/ There(r)

LEMMA RobbedStays ==
    ASSUME Typed, Fit, [Next]_vars, NEW r \in Requests, arg'[r] = arg[r], Robbed(r)
    PROVE  Robbed(r)'
<1>1. PICK q \in Requests \ {r} :
        /\ pc[q] # "new"
        /\ \/ arg[q].op \in {"delete", "rewrite"}
           \/ arg[q].op \in {"add", "insert"} /\ arg[q].target # None
           \/ pc[q] = "failed"
           \/ arg[r].target # None /\ arg[q].text = arg[r].text
  BY DEF Robbed
<1>2. arg'[q] = arg[q]
  BY <1>1, AskedOnce
<1>3. pc'[q] # "new" /\ (pc[q] = "failed" => pc'[q] = "failed")
  <2>1. pc \in [Requests -> Steps] /\ arg[q] \in Args
    BY <1>1 DEF Typed, TypeOK
  <2>2. CASE Step(q)
    BY <1>1, <2>1, <2>2
       DEF Step, Guard, Begun, Args, Op, Find, Fill, Evict, Dedup, Write, Put, Landed, Retiring,
           Expire, Archive, Discard, Locate, Edit, Save, Leave, Enter, Look, Remove, List, Await,
           Stamp, Goto
  <2> QED BY <1>1, <2>2, Own DEF Still, Halts, Begin, Ended
<1> QED BY <1>1, <1>2, <1>3 DEF Robbed

\* Another copy of a row that shows the text shows it too.
LEMMA CopiesShow ==
    ASSUME Typed, Fit, Same, NEW r \in Requests, arg[r].op \in {"add", "insert"},
           NEW x \in Row, NEW y \in Row, Copy(x), Copy(y), x.id = y.id, Shows(x, r), ~Robbed(r)
    PROVE  Shows(y, r)
<1>1. Alike(x, y) /\ x.id # None
  BY MemoryWritesAssumption DEF Same, Row, Ids
<1>2. ~Rewritten(x.id)
  BY DEF Rewritten, Robbed, Fit, Unasked
<1>3. ~Replaced(x.id)
  BY <1>1 DEF Replaced, Robbed, Fit, Unasked, Shows
<1> QED BY <1>1, <1>2, <1>3 DEF Alike, Shows, Live

LEMMA CoveredKept ==
    ASSUME Typed, LocksEnd, Core, Same, Covered, [Next]_vars
    PROVE  Covered'
<1> USE DEF Core
<1> SUFFICES ASSUME NEW r \in Requests, arg'[r].op \in {"add", "insert"}, pc'[r] \in Settled,
                    ~Robbed(r)'
             PROVE  There(r)'
  BY DEF Covered, Settled
<1>1. /\ table \in [Tables -> SUBSET Row] /\ pc \in [Requests -> Steps]
      /\ at \in [Requests -> Tables] /\ seen \in [Requests -> SUBSET Row]
      /\ arg \in [Requests -> Args]
      /\ "semantic" \in Tables /\ "episodic" \in Tables
      /\ table' \in [Tables -> SUBSET Row]
  BY TypingStep DEF Typed, TypeOK, Tables
<1>2. arg'[r] = arg[r] /\ pc[r] # "new"
  <2>1. CASE Begin(r)
    <3>1. PICK a : a.op \in Ops
                   /\ pc' = [pc EXCEPT ![r] = IF Guarded(a) THEN "guard" ELSE Begun(a)]
      BY <2>1 DEF Begin, Goto
    <3>2. a.op \in Op /\ pc'[r] \in {"guard", Begun(a)}
      BY <1>1, <3>1, MemoryWritesAssumption
    <3> QED BY <3>2 DEF Begun, Op, Settled
  <2>2. CASE pc[r] = "new" /\ ~Begin(r)
    BY <2>2, Own
       DEF Still, Halts, Step, Guard, Find, Fill, Evict, Dedup, Write, Put, Expire, Archive,
           Discard, Locate, Edit, Save, Leave, Enter, Look, Remove, List, Await, Stamp, Settled
  <2> QED BY <2>1, <2>2, AskedOnce
<1>3. ~Robbed(r) /\ \A x \in Row : Shows(x, r)' <=> Shows(x, r)
  BY <1>2, RobbedStays DEF Shows, Live
\* Who robs r now.
<1>4. ASSUME NEW q \in Requests, q # r, pc[q] # "new"
      PROVE  /\ arg'[q] = arg[q] /\ pc'[q] # "failed"
             /\ arg[q].op \notin {"delete", "rewrite"}
             /\ arg[q].op \in {"add", "insert"} => arg[q].target = None
             /\ arg[r].target # None => arg[q].text # arg[r].text
  <2>1. arg'[q] = arg[q]
    BY <1>4, AskedOnce
  <2>2. pc'[q] = "failed" => Robbed(r)'
    BY <1>4 DEF Robbed
  <2> QED BY <1>3, <1>4, <2>1, <2>2 DEF Robbed
\* A row that shows the text stays, or one like it comes.
<1>5. ASSUME NEW t \in Tables, NEW x \in table[t], Shows(x, r)
      PROVE  There(r)'
  <2>1. x \in Row /\ Copy(x) /\ x.id \in Ids /\ x.id # None
    BY <1>1, MemoryWritesAssumption DEF Copy, Row, Ids
  <2>2. CASE x \in table'[t]
    BY <1>3, <1>5, <2>1, <2>2 DEF There
  <2>3. ASSUME x \notin table'[t], NEW q \in Requests, NEW u \in Tables,
               NEW id \in Ids \cup {None}, Drops(q, u, id)
        PROVE  There(r)'
    <3>1. x.id = id
      BY <2>3 DEF Drops
    <3>2. CASE Evict(q) /\ \E z \in seen[q] : z.id = id
      <4>1. PICK z \in seen[q] : z.id = id
        BY <3>2
      <4>2. pc[q] = "evict" /\ pc'[q] = "dedup" /\ arg' = arg
        BY <1>1, <3>2 DEF Evict, Goto
      <4>3. z \in Row /\ Copy(z) /\ z.text = arg[q].text
        BY <1>1, <4>2 DEF Copy, Fit
      <4>4. Shows(z, r)
        BY <1>2, <1>3, <1>5, <2>1, <3>1, <4>1, <4>3, CopiesShow
      <4> QED BY <4>2, <4>3, <4>4 DEF Shows, There
    <3>3. CASE Discard(q) /\ id = arg[q].target
      <4>1. q # r
        BY <1>5, <3>1, <3>3 DEF Shows
      <4>2. pc[q] = "discard" /\ arg[q].op \in {"add", "insert"} /\ arg[q].target # None
        BY <3>3 DEF Discard, Fit
      <4> QED BY <1>4, <4>1, <4>2
    <3>4. CASE Remove(q)
      <4>1. pc[q] = "remove" /\ arg[q].op = "delete" /\ q # r
        BY <1>2, <3>4 DEF Remove, Fit
      <4> QED BY <1>4, <4>1
    <3>5. CASE Leave(q) /\ id = arg[q].target
      <4>1. /\ pc[q] = "leave" /\ pc'[q] = "enter" /\ seen' = seen
            /\ seen[q] # {} /\ \A z \in seen[q] : z.id = id
        BY <1>1, <3>5 DEF Leave, Goto, Fit, localVars
      <4>2. PICK z \in seen[q] : z.id = id
        BY <4>1
      <4>3. z \in Row /\ Copy(z)
        BY <1>1 DEF Copy
      <4>4. Shows(z, r)
        BY <1>2, <1>3, <1>5, <2>1, <3>1, <4>2, <4>3, CopiesShow
      <4> QED BY <1>3, <4>1, <4>3, <4>4 DEF There
    <3> QED BY <2>3, <3>2, <3>3, <3>4, <3>5 DEF Drops
  <2>4. ASSUME x \notin table'[t], NEW q \in Requests, NEW u \in Tables, NEW v \in Row,
               NEW y \in Row, WritesBack(q, u, v, y)
        PROVE  There(r)'
    <3>1. x.id = v.id /\ y \in table'[u] /\ y.id = v.id /\ Copy(v)
      BY <2>4 DEF WritesBack, Copy
    <3>2. Shows(v, r)
      BY <1>2, <1>3, <1>5, <2>1, <3>1, CopiesShow
    <3>3. y.text = v.text
      <4>1. CASE Save(q) /\ arg[q].op = "rewrite"
        <5>1. pc[q] = "save" /\ q # r
          BY <1>2, <4>1 DEF Save
        <5> QED BY <1>4, <4>1, <5>1
      <4> QED BY <2>4, <4>1, WrittenAlike
    <3>4. Live(y)
      <4>1. CASE Archive(q) /\ arg[q].target = v.id
        <5>1. pc[q] = "archive" /\ arg[q].op \in {"add", "insert"} /\ arg[q].target # None
          BY <4>1 DEF Archive, Fit
        <5>2. q # r
          BY <1>5, <3>1, <4>1 DEF Shows
        <5> QED BY <1>4, <5>1, <5>2
      <4> QED BY <2>4, <3>2, <4>1, WrittenAlike DEF Shows
    <3> QED BY <1>3, <3>1, <3>2, <3>3, <3>4 DEF Shows, There
  <2>5. \/ x \in table'[t]
        \/ \E q \in Requests, u \in Tables, id \in Ids \cup {None} : Drops(q, u, id)
        \/ \E q \in Requests, u \in Tables, v \in Row, y \in Row : WritesBack(q, u, v, y)
    BY Effects DEF Calm, Bears, Enters
  <2> QED BY <2>2, <2>3, <2>4, <2>5
\* A request that is adding the text adds it, or finds it.
<1>6. ASSUME pc[r] \in Settled, NEW q \in Requests, pc[q] \in {"dedup", "write"},
             arg[q].text = arg[r].text
      PROVE  There(r)'
  <2>1. q # r /\ pc[q] # "new"
    BY <1>6 DEF Settled
  <2>2. arg'[q] = arg[q] /\ pc'[q] # "failed"
    BY <1>4, <2>1
  <2>3. CASE Still(q) \/ Dedup(q)
    <3>1. pc'[q] \in {"dedup", "write"}
      BY <1>1, <1>6, <2>3 DEF Still, Dedup, Goto
    <3> QED BY <1>2, <1>6, <2>2, <3>1 DEF There
  <2>4. CASE Write(q)
    <3>1. pc[q] = "write" /\ pc[q] \notin Over
      BY <2>4 DEF Write, Over
    <3>2. CASE seen[q] = {}
      <4>1. New(q) \in table'[at[q]]
        BY <1>1, <2>4, <3>2 DEF Write, Inserted
      <4>2. PICK z \in Row : z = New(q) /\ z \in table'[at[q]]
        BY <1>1, <4>1
      <4>3. Shows(z, r)
        BY <1>6, <3>1, <4>2 DEF Shows, New, Live, Unborn
      <4> QED BY <1>1, <1>3, <4>2, <4>3 DEF There
    <3>3. CASE seen[q] # {}
      <4>1. PICK x \in seen[q] : table' = Upserted(at[q], x)
        BY <2>4, <3>3 DEF Write
      <4>2. x \in table'[at[q]] /\ x \in Row
        BY <1>1, <4>1 DEF Upserted
      <4>3. Live(x) /\ x.text = arg[r].text
        BY <1>6, <3>1 DEF Fit
      <4>4. x.id # arg[r].target
        <5>1. x.id # None
          BY <4>2, MemoryWritesAssumption DEF Row, Ids
        <5> QED BY <1>4, <1>6, <2>1, <5>1
      <4> QED BY <1>1, <1>3, <4>2, <4>3, <4>4 DEF Shows, There
    <3> QED BY <3>2, <3>3
  <2>5. CASE Begin(q) \/ (Step(q) /\ ~Dedup(q) /\ ~Write(q))
    BY <1>6, <2>5
       DEF Begin, Step, Guard, Find, Fill, Evict, Put, Expire, Archive, Discard, Locate, Edit,
           Save, Leave, Enter, Look, Remove, List, Await, Stamp
  <2>6. CASE Halts(q)
    BY <1>6, <2>2, <2>6 DEF Halts
  <2> QED BY Own, <2>3, <2>4, <2>5, <2>6
\* A row between the tables comes back.
<1>7. ASSUME pc[r] \in Settled, NEW q \in Requests, pc[q] = "enter", NEW x \in seen[q],
             Shows(x, r)
      PROVE  There(r)'
  <2>1. q # r /\ pc[q] # "new" /\ x \in Row /\ Copy(x) /\ x.id = arg[q].target
    BY <1>1, <1>7 DEF Settled, Copy, Fit
  <2>2. arg'[q] = arg[q] /\ pc'[q] # "failed"
    BY <1>4, <2>1
  <2>3. CASE Still(q)
    BY <1>3, <1>7, <2>1, <2>3 DEF Still, There
  <2>4. CASE Enter(q)
    <3>1. PICK z \in seen[q] : table' = Inserted(arg[q].table, z)
      BY <2>4 DEF Enter
    <3>2. z \in Row /\ Copy(z) /\ z.id = x.id
      BY <1>1, <1>7, <2>1 DEF Copy, Fit
    <3>3. Shows(z, r)
      BY <1>2, <1>3, <1>7, <2>1, <3>2, CopiesShow
    <3>4. arg[q].table \in Tables /\ z \in table'[arg[q].table]
      BY <1>1, <3>1 DEF Inserted, Args
    <3> QED BY <1>3, <3>2, <3>3, <3>4 DEF There
  <2>5. CASE Begin(q) \/ (Step(q) /\ ~Enter(q))
    BY <1>7, <2>5
       DEF Begin, Step, Guard, Find, Fill, Evict, Dedup, Write, Put, Expire, Archive, Discard,
           Locate, Edit, Save, Leave, Look, Remove, List, Await, Stamp
  <2>6. CASE Halts(q)
    BY <1>7, <2>2, <2>6 DEF Halts
  <2> QED BY Own, <2>3, <2>4, <2>5, <2>6
<1>8. CASE pc[r] \in Settled
  <2>1. There(r)
    BY <1>2, <1>3, <1>8 DEF Covered
  <2> QED BY <1>5, <1>6, <1>7, <1>8, <2>1 DEF There
\* r lands.
<1>9. CASE pc[r] \notin Settled
  <2>1. CASE Fill(r)
    <3>1. PICK x \in seen[r] : table' = Upserted("semantic", x)
      BY <2>1 DEF Fill
    <3>2. x \in table'["semantic"] /\ x \in Row /\ Shows(x, r)
      BY <1>1, <2>1, <3>1 DEF Upserted, Fill, Fit, Shows
    <3> QED BY <1>1, <1>3, <3>2 DEF There
  <2>2. CASE (Write(r) /\ seen[r] = {}) \/ Put(r)
    <3>1. \E t \in Tables : New(r) \in table'[t]
      BY <1>1, <2>2 DEF Write, Put, Inserted, Args
    <3>2. pc[r] \notin Over
      BY <2>2 DEF Write, Put, Over
    <3>3. PICK z \in Row : z = New(r) /\ \E t \in Tables : z \in table'[t]
      BY <1>1, <3>1
    <3>4. Shows(z, r)
      BY <3>2, <3>3 DEF Shows, New, Live, Unborn
    <3> QED BY <1>3, <3>3, <3>4 DEF There
  <2>3. CASE Write(r) /\ seen[r] # {}
    <3>1. PICK x \in seen[r] : table' = Upserted(at[r], x)
      BY <2>3 DEF Write
    <3>2. x \in table'[at[r]] /\ x \in Row /\ Shows(x, r)
      BY <1>1, <2>3, <3>1 DEF Upserted, Write, Fit, Shows
    <3> QED BY <1>1, <1>3, <3>2 DEF There
  <2>4. CASE Save(r) \/ Enter(r) \/ Look(r) \/ Remove(r) \/ Stamp(r)
    <3>1. arg[r].op \notin {"add", "insert"}
      BY <2>4 DEF Save, Enter, Look, Remove, Stamp, Fit
    <3> QED BY <1>2, <3>1
  <2>5. CASE \/ Guard(r) \/ Find(r) \/ Evict(r) \/ Dedup(r) \/ Locate(r) \/ Edit(r) \/ Leave(r)
             \/ List(r) \/ Await(r) \/ Expire(r) \/ Archive(r) \/ Discard(r)
    <3>1. pc'[r] \notin Settled \/ pc[r] \in Settled
      BY <1>1, <2>5
         DEF Guard, Begun, Args, Op, Find, Evict, Dedup, Locate, Edit, Leave, List, Await, Expire,
             Archive, Discard, Goto, Settled
    <3> QED BY <1>9, <3>1
  <2>6. CASE Still(r) \/ Halts(r) \/ Begin(r)
    BY <1>2, <1>9, <2>6 DEF Still, Halts, Begin, Settled
  <2> QED BY Own, <2>1, <2>2, <2>3, <2>4, <2>5, <2>6 DEF Step
<1> QED BY <1>8, <1>9

LEMMA CoverHolds == Spec => []Covered
<1>1. Init => Covered
  BY DEF Init, Covered, Settled
<1>2. Typed /\ LocksEnd /\ Core /\ (Same /\ GuardKnows) /\ Covered /\ [Next]_vars => Covered'
  BY CoveredKept
<1> QED BY <1>1, <1>2, Typing, LocksAreReturned, CoreHolds, VoicesHold, PTL DEF Spec

\* store.rs, memory.rs: a text that was added, and answered so, can be read, unless
\* another request took it away.
THEOREM NothingIsLost == Spec => []NothingLost
<1>1. Covered => NothingLost
  <2> SUFFICES ASSUME Covered, NEW r \in Requests, arg[r].op \in {"add", "insert"},
                      pc[r] = "done"
               PROVE
                 \/ \E t \in Tables : \E x \in table[t] : Live(x) /\ x.text = arg[r].text
                 \/ \E q \in Requests \ {r} :
                       /\ pc[q] # "new"
                       /\ \/ Takes(q)
                          \/ arg[r].target # None /\ arg[q].text = arg[r].text
    BY DEF NothingLost
  <2>1. Robbed(r) \/ There(r)
    BY DEF Covered, Settled
  <2>2. CASE Robbed(r)
    BY <2>2 DEF Robbed, Takes
  <2>3. CASE There(r)
    BY <2>3 DEF There, Shows, Takes
  <2> QED BY <2>1, <2>2, <2>3
<1> QED BY <1>1, CoverHolds, PTL
=============================================================================
