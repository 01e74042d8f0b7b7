---------------------------- MODULE ReplicaWrites ----------------------------
(***************************************************************************)
(* Writes on a replica: the middleware that forwards each one to the       *)
(* primary or, when no answer comes, applies it to the copy and queues it  *)
(* (src/src/replica/forward.rs); the outbox and its replay                 *)
(* (src/src/replica/outbox.rs); and sync_once (src/src/replica/mod.rs),    *)
(* which replays, then pulls, under one lock, for the pull loop and for    *)
(* requests alike.  Every `await`, and every load and save of the outbox   *)
(* file, is a step: requests run in parallel with each other and with the  *)
(* sync.                                                                   *)
(*                                                                         *)
(* The pull is the abstract one of Mirror (which PullSync implements): a   *)
(* set of rows the copy is owed, rewritten one by one.  An unanswered call *)
(* may have been lost, or may still reach the primary at any later time.   *)
(* A row's clock is compared with a queued write's created_at through      *)
(* `after`, the queued writes the row's last change is later than; the two *)
(* machines' clocks agree.                                                 *)
(***************************************************************************)
EXTENDS Naturals, Sequences, FiniteSets

CONSTANTS
    Rows,       \* rows both machines have at the start
    Writes,     \* write requests clients of the replica make
    Ops,        \* write -> which of the four kinds it may be
    UserEdits,  \* rewrites of rows made on the primary itself
    None,       \* no such row
    Base,       \* the rows' first body
    Loop,       \* the pull loop
    Nobody,     \* the sync lock is free
    Guards,     \* whether rows may be in the user's voice
    CanRevoke,  \* whether the primary may revoke the replica's token
    MaxFaults   \* bound: outages, revocations, restarts

Operations == {"add", "replace", "edit", "delete"}

ASSUME ReplicaWritesAssumption ==
    /\ Ops \in [Writes -> SUBSET Operations]
    /\ MaxFaults \in Nat
    /\ Guards \in BOOLEAN
    /\ CanRevoke \in BOOLEAN
    /\ {None, Base} \cap (Writes \cup UserEdits) = {}
    /\ None # Base
    /\ {Loop, Nobody} \cap Writes = {}
    /\ Loop # Nobody
    /\ \A w \in Writes : Rows \cap {<<"local", w>>, <<"primary", w>>} = {}

\* A write that creates a row makes one of its own on each machine.
Local(w) == <<"local", w>>
Fresh(w) == <<"primary", w>>
Ids == Rows \cup {Local(w) : w \in Writes} \cup {Fresh(w) : w \in Writes}
Bodies == {None, Base} \cup Writes \cup UserEdits

VARIABLES
    main,       \* the primary's rows: id -> body
    copy,       \* the replica's rows
    owed,       \* rows the pull is still to bring
    after,      \* row -> queued writes its last change on the primary is later than
    up,         \* calls to the primary are answered
    trusted,    \* the primary accepts the replica's token
    late,       \* writes whose abandoned call may still reach the primary
    op,         \* write -> its kind
    target,     \* write -> the row it edits, deletes or replaces
    pc,         \* write -> where its request is
    loaded,     \* write -> the queue its push read
    stamped,    \* writes whose created_at is set
    outbox,     \* .outbox.json
    holder,     \* who holds sync_lock
    stage,      \* where the sync is
    head,       \* the entry being replayed
    rest,       \* the queue to be saved without it
    landed,     \* writes the primary has taken
    filed,      \* writes with a review item on the primary
    strayed,    \* ghost: applied here, and their entry lost from the file
    unheard,    \* ghost: settled as refused, and no review item taken
    ahead,      \* ghost: write -> those queued when its request came
    faults      \* faults so far

dataVars == <<main, copy, owed, after>>
linkVars == <<up, trusted, late>>
requestVars == <<op, target, pc, loaded, stamped, ahead>>
syncVars == <<holder, stage, head, rest>>
fateVars == <<landed, filed, strayed, unheard>>
vars == <<dataVars, linkVars, requestVars, outbox, syncVars, fateVars, faults>>

Entry == [seq : Nat \ {0}, write : Writes]

WritesOf(q) == {q[i].write : i \in DOMAIN q}

\* push's numbering: one more than the last entry's.
NextSeq(q) == IF q = <<>> THEN 1 ELSE q[Len(q)].seq + 1

\* Broken variant of Without: the entry itself stays.
From(q, seq) == SelectSeq(q, LAMBDA e : e.seq >= seq)

\* The queue without the entries of a number.
Without(q, seq) ==
    LET kept  == {i \in DOMAIN q : q[i].seq # seq}
        order == CHOOSE f \in [1 .. Cardinality(kept) -> kept] :
                     \A i, j \in DOMAIN f : i < j => f[i] < f[j]
    IN  [i \in DOMAIN order |-> q[order[i]]]

\* Broken variant of ForwardNow: one replay is taken to have emptied the queue.
ForwardAnyway == TRUE

\* Nothing is queued ahead.
ForwardNow == outbox = <<>>

\* created_ids: the kinds whose handler makes a row.
Creates(w) == op[w] \in {"add", "replace"}

\* target_ids: what the write replaces or edits.
Targets(w) == IF op[w] = "add" THEN {} ELSE {target[w]}

\* Broken variant of ToRestore: a refused write's targets stay as they are.
NothingToRestore(w) == {}

\* The rows put back when a write is refused.
ToRestore(w) == Targets(w)

\* A handler's effect on one machine's rows; the row it makes is `own`.
Applied(rows, w, own) ==
    [id \in Ids |->
        IF Creates(w) /\ id = own THEN w
        ELSE IF id \notin Targets(w) \/ rows[id] = None THEN rows[id]
        ELSE IF op[w] = "delete" THEN None ELSE w]

\* Only `update` fails on a row that is not there.
Finds(rows, w) == op[w] = "edit" => rows[target[w]] # None

-----------------------------------------------------------------------------
Init ==
    /\ main = [id \in Ids |-> IF id \in Rows THEN Base ELSE None]
    /\ copy = main
    /\ owed = {}
    /\ after = [id \in Ids |-> {}]
    /\ up = TRUE
    /\ trusted = TRUE
    /\ late = {}
    /\ op = [w \in Writes |-> "none"]
    /\ target = [w \in Writes |-> Local(w)]
    /\ pc = [w \in Writes |-> "new"]
    /\ loaded = [w \in Writes |-> <<>>]
    /\ stamped = {}
    /\ outbox = <<>>
    /\ holder = Nobody
    /\ stage = "idle"
    /\ head = <<>>
    /\ rest = <<>>
    /\ landed = {}
    /\ filed = {}
    /\ strayed = {}
    /\ unheard = {}
    /\ ahead = [w \in Writes |-> {}]
    /\ faults = 0

Goto(w, where) == pc' = [pc EXCEPT ![w] = where]

(* The primary *)

\* The primary's handler takes the write; its change log owes the replica the
\* rows it changed.
Takes(w) ==
    /\ trusted
    /\ Finds(main, w)
    /\ main' = Applied(main, w, Fresh(w))
    /\ LET changed == {id \in Ids : main'[id] # main[id]}
                        \cup {id \in Targets(w) : main'[id] # None}
                        \cup {id \in {Fresh(w)} : Creates(w)}
       IN  /\ owed' = owed \cup changed
           /\ after' = [id \in Ids |-> IF id \in changed THEN stamped ELSE after[id]]
    /\ landed' = landed \cup {w}
    /\ UNCHANGED copy

\* It refuses: the device is not paired, the row is gone, or it is in the
\* user's voice.
Refuses(w) ==
    /\ \/ ~trusted
       \/ ~Finds(main, w)
       \/ Guards /\ op[w] \in {"edit", "replace"}
    /\ UNCHANGED <<dataVars, landed>>

\* Somebody rewrites a row on the primary ...
UserEdit(id, u) ==
    /\ main[id] # None
    /\ \A i \in Ids : u \notin {main[i], copy[i]}
    /\ main' = [main EXCEPT ![id] = u]
    /\ owed' = owed \cup {id}
    /\ after' = [after EXCEPT ![id] = stamped]
    /\ UNCHANGED copy
    /\ UNCHANGED <<linkVars, requestVars, outbox, syncVars, fateVars, faults>>

\* ... or deletes it.
UserDelete(id) ==
    /\ UserEdits # {}
    /\ id \in Rows
    /\ main[id] # None
    /\ main' = [main EXCEPT ![id] = None]
    /\ owed' = owed \cup {id}
    /\ UNCHANGED <<copy, after>>
    /\ UNCHANGED <<linkVars, requestVars, outbox, syncVars, fateVars, faults>>

\* An abandoned call arrives after all.
Land(w) ==
    /\ w \in late
    /\ late' = late \ {w}
    /\ Takes(w)
    /\ UNCHANGED <<up, trusted, requestVars, outbox, syncVars, faults>>
    /\ UNCHANGED <<filed, strayed, unheard>>

\* The device is revoked on the primary, or paired again.
Revoke ==
    /\ CanRevoke
    /\ faults < MaxFaults
    /\ faults' = faults + 1
    /\ trusted' = ~trusted
    /\ UNCHANGED <<up, dataVars, late, requestVars, outbox, syncVars, fateVars>>

\* The primary cannot be reached for a while ...
GoDown ==
    /\ up
    /\ faults < MaxFaults
    /\ faults' = faults + 1
    /\ up' = FALSE
    /\ UNCHANGED <<dataVars, trusted, late, requestVars, outbox, syncVars, fateVars>>

\* ... and can again.
ComeBack ==
    /\ ~up
    /\ up' = TRUE
    /\ UNCHANGED <<dataVars, trusted, late, requestVars, outbox, syncVars, fateVars>>
    /\ UNCHANGED faults

(* A request on the replica *)

\* replica_writes: anything queued goes before it.  Clients name rows they have
\* read from the copy.
Arrive(w, kind, id) ==
    /\ pc[w] = "new"
    /\ IF kind = "add" THEN id = Local(w) ELSE copy[id] # None
    /\ op' = [op EXCEPT ![w] = kind]
    /\ target' = [target EXCEPT ![w] = id]
    /\ ahead' = [ahead EXCEPT ![w] = WritesOf(outbox)]
    /\ Goto(w, IF outbox = <<>> THEN "sending" ELSE "draining")
    /\ UNCHANGED <<loaded, stamped>>
    /\ UNCHANGED <<dataVars, linkVars, outbox, syncVars, fateVars, faults>>

\* After sync_once: still something queued?
Recheck(w) ==
    /\ pc[w] = "drained"
    /\ Goto(w, IF ForwardNow THEN "sending" ELSE "applying")
    /\ UNCHANGED <<op, target, loaded, stamped, ahead>>
    /\ UNCHANGED <<dataVars, linkVars, outbox, syncVars, fateVars, faults>>

\* forward: the primary's answer is the caller's ...
ForwardAnswered(w) ==
    /\ pc[w] = "sending"
    /\ up
    /\ \/ Takes(w) /\ Goto(w, "pulling")
       \/ Refuses(w) /\ Goto(w, "refused")
    /\ UNCHANGED <<op, target, loaded, stamped, ahead>>
    /\ UNCHANGED <<linkVars, outbox, syncVars, filed, strayed, unheard, faults>>

\* ... or there is none in time.
ForwardUnanswered(w) ==
    /\ pc[w] = "sending"
    /\ ~up
    /\ late' \in {late, late \cup {w}}
    /\ Goto(w, "applying")
    /\ UNCHANGED <<op, target, loaded, stamped, ahead>>
    /\ UNCHANGED <<dataVars, up, trusted, outbox, syncVars, fateVars, faults>>

\* The local handler.
ApplyLocal(w) ==
    /\ pc[w] = "applying"
    /\ \/ /\ Finds(copy, w)
          /\ copy' = Applied(copy, w, Local(w))
          /\ Goto(w, "loading")
       \/ /\ ~Finds(copy, w)
          /\ Goto(w, "refused")
          /\ UNCHANGED copy
    /\ UNCHANGED <<main, owed, after, op, target, loaded, stamped, ahead>>
    /\ UNCHANGED <<linkVars, outbox, syncVars, fateVars, faults>>

\* push reads the file and stamps the entry ...
PushLoad(w) ==
    /\ pc[w] = "loading"
    /\ loaded' = [loaded EXCEPT ![w] = outbox]
    /\ stamped' = stamped \cup {w}
    /\ Goto(w, "saving")
    /\ UNCHANGED <<op, target, ahead>>
    /\ UNCHANGED <<dataVars, linkVars, outbox, syncVars, fateVars, faults>>

\* ... and writes it back with the entry, whatever the file holds by then.
PushSave(w) ==
    /\ pc[w] = "saving"
    /\ outbox' = Append(loaded[w], [seq |-> NextSeq(loaded[w]), write |-> w])
    /\ strayed' = strayed \cup (WritesOf(outbox) \ WritesOf(outbox'))
    /\ loaded' = [loaded EXCEPT ![w] = <<>>]
    /\ Goto(w, "queued")
    /\ UNCHANGED <<op, target, stamped, ahead, dataVars, linkVars, syncVars>>
    /\ UNCHANGED <<landed, filed, unheard, faults>>

\* The file cannot be written: a warning, and the caller is told it is queued.
PushFails(w) ==
    /\ pc[w] = "saving"
    /\ strayed' = strayed \cup {w}
    /\ loaded' = [loaded EXCEPT ![w] = <<>>]
    /\ Goto(w, "queued")
    /\ UNCHANGED <<op, target, stamped, ahead, dataVars, linkVars, syncVars>>
    /\ UNCHANGED <<outbox, landed, filed, unheard, faults>>

(* sync_once *)

\* The lock, for the loop, a request with writes ahead of it, or one whose
\* forwarded write the caller should be able to read.
Acquire(p) ==
    /\ holder = Nobody
    /\ p \in Writes => pc[p] \in {"draining", "pulling"}
    /\ holder' = p
    /\ stage' = "first"
    /\ UNCHANGED <<head, rest>>
    /\ UNCHANGED <<dataVars, linkVars, requestVars, outbox, fateVars, faults>>

\* replay: the queue's first entry, if there is one.
TakeFirst ==
    /\ stage = "first"
    /\ \/ /\ outbox = <<>>
          /\ stage' = "pull"
          /\ UNCHANGED head
       \/ /\ outbox # <<>>
          /\ head' = <<outbox[1]>>
          /\ stage' = IF Targets(outbox[1].write) = {} THEN "post" ELSE "check"
    /\ UNCHANGED <<holder, rest>>
    /\ UNCHANGED <<dataVars, linkVars, requestVars, outbox, fateVars, faults>>

Current == head[1].write

\* changed_since: did the primary touch or remove the targets since?  An error
\* in the answer ends the replay.
CheckTargets ==
    /\ stage = "check"
    /\ up
    /\ stage' = IF ~trusted THEN "pull"
                ELSE IF \E id \in Targets(Current) :
                            main[id] = None \/ Current \in after[id]
                     THEN "file" ELSE "post"
    /\ UNCHANGED <<holder, head, rest>>
    /\ UNCHANGED <<dataVars, linkVars, requestVars, outbox, fateVars, faults>>

\* The write itself, answered.
Post ==
    /\ stage = "post"
    /\ up
    /\ \/ Takes(Current) /\ stage' = "drop"
       \/ Refuses(Current) /\ stage' = "file"
    /\ UNCHANGED <<holder, head, rest>>
    /\ UNCHANGED <<linkVars, requestVars, outbox, filed, strayed, unheard, faults>>

\* settle_refused: the review item.  What the primary answers is not looked at.
FileIssue ==
    /\ stage = "file"
    /\ up
    /\ \/ trusted /\ filed' = filed \cup {Current} /\ UNCHANGED unheard
       \/ ~trusted /\ unheard' = unheard \cup {Current} /\ UNCHANGED filed
    /\ stage' = "dropRefused"
    /\ UNCHANGED <<holder, head, rest, landed, strayed>>
    /\ UNCHANGED <<dataVars, linkVars, requestVars, outbox, faults>>

\* drop_local: the row the local apply made.
DropLocal ==
    /\ stage \in {"drop", "dropRefused"}
    /\ copy' = [copy EXCEPT ![Local(Current)] =
                    IF Creates(Current) THEN None ELSE @]
    /\ stage' = IF stage = "drop" \/ ToRestore(Current) = {} THEN "list"
                ELSE "restore"
    /\ UNCHANGED <<holder, head, rest, main, owed, after>>
    /\ UNCHANGED <<linkVars, requestVars, outbox, fateVars, faults>>

\* restore: the targets as the primary has them; an error ends the replay.
Restore ==
    /\ stage = "restore"
    /\ up
    /\ \/ /\ trusted
          /\ copy' = [id \in Ids |-> IF id \in ToRestore(Current) THEN main[id]
                                     ELSE copy[id]]
          /\ stage' = "list"
       \/ /\ ~trusted
          /\ stage' = "pull"
          /\ UNCHANGED copy
    /\ UNCHANGED <<holder, head, rest, main, owed, after>>
    /\ UNCHANGED <<linkVars, requestVars, outbox, fateVars, faults>>

\* The file is read once more, without the entries of that number ...
ListRest ==
    /\ stage = "list"
    /\ rest' = Without(outbox, head[1].seq)
    /\ strayed' = strayed \cup
                    (WritesOf(outbox) \ (WritesOf(rest') \cup {Current}))
    /\ stage' = "save"
    /\ UNCHANGED <<holder, head, landed, filed, unheard>>
    /\ UNCHANGED <<dataVars, linkVars, requestVars, outbox, faults>>

\* ... and written back, whatever it holds by then.
SaveRest ==
    /\ stage = "save"
    /\ outbox' = rest
    /\ strayed' = strayed \cup
                    (WritesOf(outbox) \ (WritesOf(rest) \cup {Current}))
    /\ stage' = "first"
    /\ rest' = <<>>
    /\ head' = <<>>
    /\ UNCHANGED <<holder, landed, filed, unheard>>
    /\ UNCHANGED <<dataVars, linkVars, requestVars, faults>>

\* Broken variant of ReplayUnanswered: an entry is gone once it was tried.
ForgetUnanswered ==
    /\ stage \in {"check", "post", "file", "restore"}
    /\ ~up
    /\ outbox' = SelectSeq(outbox, LAMBDA e : e # head[1])
    /\ stage' = "pull"
    /\ head' = <<>>
    /\ UNCHANGED <<holder, rest>>
    /\ UNCHANGED <<dataVars, linkVars, requestVars, fateVars, faults>>

\* Any call of the replay may go unanswered: the rest stays queued.
ReplayUnanswered ==
    /\ stage \in {"check", "post", "file", "restore"}
    /\ ~up
    /\ late' \in IF stage = "post" THEN {late, late \cup {Current}} ELSE {late}
    /\ stage' = "pull"
    /\ head' = <<>>
    /\ UNCHANGED <<holder, rest, outbox>>
    /\ UNCHANGED <<dataVars, up, trusted, requestVars, fateVars, faults>>

\* pull_all, after the replay and whatever came of it.
PullRow(id) ==
    /\ stage = "pull"
    /\ up
    /\ trusted
    /\ id \in owed
    /\ copy' = [copy EXCEPT ![id] = main[id]]
    /\ owed' = owed \ {id}
    /\ UNCHANGED <<main, after>>
    /\ UNCHANGED <<linkVars, requestVars, outbox, syncVars, fateVars, faults>>

\* The lock is given up and a request that asked goes on.
Release ==
    /\ holder' = Nobody
    /\ stage' = "idle"
    /\ head' = <<>>
    /\ rest' = <<>>
    /\ pc' = [w \in Writes |->
                IF w # holder THEN pc[w]
                ELSE IF pc[w] = "draining" THEN "drained" ELSE "forwarded"]

\* Caught up, refused, or not answered.
EndPull ==
    /\ stage = "pull"
    /\ owed = {} \/ ~trusted \/ ~up
    /\ Release
    /\ UNCHANGED <<op, target, loaded, stamped, ahead>>
    /\ UNCHANGED <<dataVars, linkVars, outbox, fateVars, faults>>

\* The replica restarts from its files: requests are gone, and with them the
\* entries of writes applied here and not yet pushed.
Restart ==
    /\ faults < MaxFaults
    /\ faults' = faults + 1
    /\ strayed' = strayed \cup {w \in Writes : pc[w] \in {"loading", "saving"}}
    /\ pc' = [w \in Writes |->
                IF pc[w] \in {"new", "queued", "forwarded", "refused"}
                THEN pc[w] ELSE "gone"]
    /\ loaded' = [w \in Writes |-> <<>>]
    /\ holder' = Nobody
    /\ stage' = "idle"
    /\ head' = <<>>
    /\ rest' = <<>>
    /\ owed' \in {owed, Ids}
    /\ UNCHANGED <<main, copy, after, op, target, stamped, ahead>>
    /\ UNCHANGED <<linkVars, outbox, landed, filed, unheard>>

Request(w) ==
    \/ Recheck(w)
    \/ ForwardAnswered(w) \/ ForwardUnanswered(w)
    \/ ApplyLocal(w)
    \/ PushLoad(w) \/ PushSave(w) \/ PushFails(w)

Replay ==
    \/ TakeFirst \/ CheckTargets \/ Post \/ FileIssue
    \/ DropLocal \/ Restore \/ ListRest \/ SaveRest
    \/ ReplayUnanswered

Pull == (\E id \in Ids : PullRow(id)) \/ EndPull

Sync == Replay \/ Pull

Primary ==
    \/ \E id \in Ids, u \in UserEdits : UserEdit(id, u)
    \/ \E id \in Ids : UserDelete(id)
    \/ Revoke \/ GoDown \/ ComeBack

Next ==
    \/ \E w \in Writes : \E kind \in Ops[w], id \in Ids :
          Arrive(w, kind, id)
    \/ \E w \in Writes : Request(w) \/ Land(w)
    \/ \E p \in Writes \cup {Loop} : Acquire(p)
    \/ Sync
    \/ Primary
    \/ Restart

Spec == Init /\ [][Next]_vars

\* Requests and the sync are tokio tasks, which run when they can; the sync lock
\* is tokio's, which serves its waiters in order.  Outages end.
FairSpec ==
    /\ Spec
    /\ \A w \in Writes : WF_vars(Request(w))
    /\ \A p \in Writes \cup {Loop} : SF_vars(Acquire(p))
    /\ WF_vars(Sync)
    /\ WF_vars(ComeBack)

-----------------------------------------------------------------------------
TypeOK ==
    /\ main \in [Ids -> Bodies]
    /\ copy \in [Ids -> Bodies]
    /\ owed \in SUBSET Ids
    /\ after \in [Ids -> SUBSET Writes]
    /\ up \in BOOLEAN
    /\ trusted \in BOOLEAN
    /\ late \in SUBSET Writes
    /\ op \in [Writes -> Operations \cup {"none"}]
    /\ \A w \in Writes : op[w] \in Ops[w] \cup {"none"}
    /\ target \in [Writes -> Ids]
    /\ pc \in [Writes -> {"new", "draining", "drained", "sending", "pulling",
                          "applying", "loading", "saving", "queued",
                          "forwarded", "refused", "gone"}]
    /\ loaded \in [Writes -> Seq(Entry)]
    /\ stamped \in SUBSET Writes
    /\ outbox \in Seq(Entry)
    /\ holder \in Writes \cup {Loop, Nobody}
    /\ stage \in {"idle", "first", "check", "post", "file", "drop",
                  "dropRefused", "restore", "list", "save", "pull"}
    /\ head \in Seq(Entry)
    /\ rest \in Seq(Entry)
    /\ landed \in SUBSET Writes
    /\ filed \in SUBSET Writes
    /\ strayed \in SUBSET Writes
    /\ unheard \in SUBSET Writes
    /\ ahead \in [Writes -> SUBSET Writes]
    /\ faults \in Nat

\* Rows a write leaves changed on the replica until it is settled.
Touches(w) == Targets(w) \cup {id \in {Local(w)} : Creates(w)}

\* A write that is here and not settled: its request is about to queue it, it is
\* in the file, or a push that has read it will put it there again.
Unsettled(w) ==
    \/ pc[w] \in {"loading", "saving"}
    \/ w \in WritesOf(outbox)

\* Whatever the copy shows differently from the primary, a pull will bring, or an
\* unsettled write explains, or a write whose entry was lost: no order of pushes,
\* replays, pulls, refusals and faults leaves a row apart for nothing.
Explained ==
    \A id \in Ids :
        copy[id] # main[id] =>
            \/ id \in owed
            \/ \E w \in Writes : id \in Touches(w) /\ (Unsettled(w) \/ w \in strayed)

\* outbox.rs: a write the caller was told is queued stays in the file until the
\* primary has it or a review item names it (or its entry was lost).
Accounted ==
    \A w \in Writes :
        pc[w] = "queued" =>
            \/ w \in WritesOf(outbox)
            \/ w \in landed \cup filed \cup strayed \cup unheard

\* forward.rs: "Earlier queued writes always go before a new one".
InOrder ==
    \A w \in landed :
        ahead[w] \subseteq landed \cup filed \cup strayed \cup unheard

\* Once calls are answered again the queue empties and the two machines agree,
\* but for the rows of writes whose entry was lost, unless the replica's token was
\* revoked.
Drains ==
    [](trusted) => <>[](/\ outbox = <<>>
         /\ \A id \in Ids :
               copy[id] = main[id] \/ \E w \in strayed : id \in Touches(w))

\* tech-spec.md: "offline, apply locally and queue (...), replayed in order": no
\* entry disappears from the file but by its own replay.
NoneStrays == strayed = {}

\* outbox.rs: "Either way a review item is filed on the primary".
RefusalsFiled == unheard = {}

\* outbox.rs: "A queued write whose target rows the primary changed in the
\* meantime is NOT applied": the user's rewrite of a row on the primary is never
\* replaced by a write queued before it.
PrimaryWins ==
    [][\A id \in Ids, w \in Writes :
          main[id] \in UserEdits /\ main'[id] = w => w \notin after[id]]_vars

\* outbox.rs: "replayed in order", and only "a queued write whose target rows the
\* primary changed in the meantime" becomes a conflict: where nobody writes on the
\* primary and it guards nothing, a write is not in conflict with those that were
\* already queued when it was made.
InPeaceWithEarlier ==
    \A w \in filed : ~(landed \subseteq ahead[w])
=============================================================================
