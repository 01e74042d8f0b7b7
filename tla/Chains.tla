------------------------------- MODULE Chains ------------------------------
(***************************************************************************)
(* The condense stage: the scans of src/src/http/chains.rs, the review     *)
(* queue they take their cursor from (src/src/http/issues.rs), and the     *)
(* pass of the agent between the two, which the scans are written for      *)
(* (src/plugins/linggen/skills/linggen/references/dream-flow.md and        *)
(* condense-flow.md).  Nothing is deleted from the queue: an item, open or *)
(* closed, is what keeps its rows from being served again.                 *)
(*                                                                         *)
(* Rows are numbers, the older the smaller.  A row's words are reduced to  *)
(* whether they hold a marker and which rows they cite; vectors to one     *)
(* closeness per pair, 0 below every floor, 1 for a neighbour, 2 and more  *)
(* for one subject.  The pass takes one item of a page at a time and makes *)
(* the merge in one step (MemoryWrites has its parts); it is never in      *)
(* doubt about what it has already queued.  The sidecar is read whole and  *)
(* written whole, to a file beside it that is renamed.                     *)
(***************************************************************************)
EXTENDS Naturals, FiniteSets, FiniteSetsExt

CONSTANTS
    Ids,        \* rows, 1 .. n
    MinRows, MaxRows,   \* of a subject cluster
    Worlds,     \* stores to start from: [rows, near]
    Changing,   \* bound: those in which anything happens
    MaxItems,   \* bound: items ever queued
    MaxDeaths,  \* bound
    MaxSpoken,  \* bound: rows the user ever says anything about
    Overlap,    \* may two requests to the queue overlap?
    NoRow, Gone, \* not written yet; archived
    Missing, Torn

Row == [from : {"user", "derived"}, tier : {"core", "semantic", "episodic"},
        marked : BOOLEAN, cites : SUBSET Ids, quiet : BOOLEAN]
Item == [id : 1 .. MaxItems, kind : {"subject", "stale-status"}, rows : SUBSET Ids,
         status : {"open", "resolved", "dismissed"}]
IssuesState == [issues : SUBSET Item]

ASSUME ChainsAssumption ==
    /\ IsFiniteSet(Ids) /\ Ids = 1 .. Cardinality(Ids)
    /\ MinRows \in Nat \ {0} /\ MaxRows \in Nat /\ MinRows <= MaxRows
    /\ MaxItems \in Nat /\ MaxDeaths \in Nat /\ Overlap \in BOOLEAN
    /\ Changing \subseteq Worlds
    /\ \A w \in Worlds : /\ w.rows \in [Ids -> Row \cup {NoRow, Gone}]
                          /\ w.near \in [Ids -> [Ids -> Nat]]
    /\ {NoRow, Gone} \cap Row = {}
    /\ {Missing, Torn} \cap IssuesState = {} /\ Missing # Torn

VARIABLES
    rows,       \* id -> [from, tier, marked, cites, quiet], NoRow or Gone
    near,       \* id -> id -> closeness, the same both ways
    sidecar, tmp,  \* the sidecar: its state, Missing or Torn
    stage,      \* the agent
    solver,     \* who closes items
    minted,     \* items given an id
    told,       \* ghost: item id -> the item as it was last acknowledged
    deaths

chainsVars == <<rows, near, sidecar, tmp, stage, solver, minted, told, deaths>>
-----------------------------------------------------------------------------
(***************************************************************************)
(* The scans, of the rows r that were listed.                              *)
(***************************************************************************)
Live(r) == {i \in Ids : r[i] \notin {NoRow, Gone}}
IsDerivedNote(x) == x.from = "derived" /\ x.tier = "semantic"

\* citation_edges, either way round.
Linked(r, i, j) == i # j /\ (j \in r[i].cites \/ i \in r[j].cites)
InCited(r) == {i \in Live(r) : \E j \in Live(r) : Linked(r, i, j)}

\* Connected components of two rows and more.
CitedChains(r, derivedOnly) ==
    LET closed(S) == \A i \in S, j \in Live(r) : Linked(r, i, j) => j \in S
        component(i) == {j \in Live(r) : \A S \in SUBSET Live(r) : i \in S /\ closed(S) => j \in S}
    IN  {c \in {component(i) : i \in InCited(r)} : derivedOnly => \A i \in c : IsDerivedNote(r[i])}

\* Rows with a marker, which no item names.
MarkerCandidates(r, issued) ==
    {i \in Live(r) \ (InCited(r) \cup issued) : r[i].tier # "core" /\ r[i].marked}

Neighbours(r, i) == {j \in Live(r) \ {i} : near[i][j] >= 1}

\* Broken variant: rulings are forgotten.
SubjectPoolAnew(r, ruled) == {i \in Live(r) \ InCited(r) : IsDerivedNote(r[i])}

\* The rows a subject cluster is made of, on a pass of the agent's own notes.
SubjectPool(r, ruled) == {i \in Live(r) \ (InCited(r) \cup ruled) : IsDerivedNote(r[i])}

\* Of equals the oldest comes first.
Closer(seed, members, i) ==
    {j \in members : \/ near[seed][j] > near[seed][i]
                     \/ near[seed][j] = near[seed][i] /\ j < i}

\* The k rows closest to the seed.
Closest(seed, members, k) == {i \in members : Cardinality(Closer(seed, members, i)) < k}

\* What the seed would gather, of rows no cluster has taken.
Star(pool, taken, seed) == {i \in pool \ (taken \cup {seed}) : near[seed][i] >= 2}

\* Broken variant: a row may be in two clusters.
ClustersOver(pool) ==
    {{seed} \cup Closest(seed, Star(pool, {}, seed), MaxRows - 1) :
        seed \in {i \in pool : Cardinality(Star(pool, {}, i)) + 1 >= MinRows}}

\* A cluster that is too small takes none.
Grow(pool, before, seed) ==
    LET around == Star(pool, UNION before, seed)
    IN  IF seed \notin pool \ (UNION before) \/ Cardinality(around) + 1 < MinRows THEN before
        ELSE before \cup {{seed} \cup Closest(seed, around, MaxRows - 1)}

\* Rows seed clusters oldest first, each of rows no cluster has taken: the
\* clusters there are once the rows up to a seed have had their turn.
Growth(pool) ==
    LET grown[seed \in 0 .. Cardinality(Ids)] ==
            IF seed = 0 THEN {} ELSE Grow(pool, grown[seed - 1], seed)
    IN  grown

Clusters(pool) == Growth(pool)[Cardinality(Ids)]

\* Those still accreting rows are held back.
SubjectClusters(r, ruled) ==
    {c \in Clusters(SubjectPool(r, ruled)) : \A i \in c : r[i].quiet}
-----------------------------------------------------------------------------
(***************************************************************************)
(* The queue.                                                              *)
(***************************************************************************)
\* load: what cannot be read is an empty queue.
Queue == IF sidecar \in {Missing, Torn} THEN {} ELSE sidecar.issues

IssuedRowIds(items) == UNION {x.rows : x \in items}

\* Broken variant: a row that is queued is not passed over.
NoRowIds(items) == {}

MarkersIssued(items) == IssuedRowIds(items)
SubjectRuledIds(items) == IssuedRowIds({x \in items : x.kind = "subject"})

\* The same rows in any order are the same item, while it is open.
SameOpen(items, kind, ids) ==
    {x \in items : x.status = "open" /\ x.kind = kind /\ x.rows = ids}

NoCall == [at |-> "idle"]

\* Where a request to the queue stands, as its caller holds it: `items` is what
\* it will write, `reply` the item it answers with.
Saving(items, reply) == [at |-> "open", items |-> items, reply |-> reply]
AtQueue(p) == p.at \in {"open", "fill", "rename"}
Busy == AtQueue(stage.call) \/ AtQueue(solver)

\* What a request answers is known to its caller.
Acknowledged(x) ==
    [id \in DOMAIN told \cup {x.id} |-> IF id = x.id THEN x ELSE told[id]]

\* fs::write, which empties the file and then fills it, and rename.  A writer
\* that fills while another does may leave a mixture.
SaveStep(p, q, next) ==
    \/ /\ p.at = "open"
       /\ tmp' = Torn
       /\ next = [p EXCEPT !.at = "fill"]
       /\ UNCHANGED <<sidecar, told>>
    \/ /\ p.at = "fill"
       /\ tmp' \in {[issues |-> p.items]} \cup (IF q.at = "fill" THEN {Torn} ELSE {})
       /\ next = [p EXCEPT !.at = "rename"]
       /\ UNCHANGED <<sidecar, told>>
    \/ /\ p.at = "rename"
       /\ next = NoCall
       /\ IF tmp = Missing THEN UNCHANGED <<sidecar, tmp, told>>
          ELSE /\ sidecar' = tmp
               /\ tmp' = Missing
               /\ told' = Acknowledged(p.reply)

\* Broken variant: the sidecar itself is emptied and filled.
SaveInPlace(p, q, next) ==
    \/ /\ p.at = "open"
       /\ sidecar' = Torn
       /\ next = [p EXCEPT !.at = "fill"]
       /\ UNCHANGED <<tmp, told>>
    \/ /\ p.at = "fill"
       /\ sidecar' = [issues |-> p.items]
       /\ next = NoCall
       /\ told' = Acknowledged(p.reply)
       /\ UNCHANGED tmp

Save(p, q, next) == SaveStep(p, q, next)
-----------------------------------------------------------------------------
(***************************************************************************)
(* The pass: a cited chain, a marker, a subject cluster, in this order.    *)
(* `at`: it asks for a page, its rows are listed, it was served an item.   *)
(***************************************************************************)
After == [cited |-> "marker", marker |-> "subject", subject |-> "cited"]

Ask(lane) ==
    [lane |-> lane, at |-> "ask", seen |-> NoRow, item |-> {}, settled |-> {}, call |-> NoCall]

InitIn(w) ==
    /\ rows = w.rows /\ near = w.near
    /\ sidecar = Missing /\ tmp = Missing
    /\ stage = Ask("cited")
    /\ solver = NoCall
    /\ minted = 0
    /\ told = <<>>
    /\ deaths = 0

ChainsInit == \E w \in Worlds : InitIn(w)
Changes == \E w \in Changing : near = w.near

\* The scan lists the rows, then reads the queue.
List ==
    /\ Changes /\ stage.at = "ask"
    /\ stage' = [stage EXCEPT !.at = "listed", !.seen = rows,
                              !.settled = LET all == {told[i] : i \in DOMAIN told}
                                          IN  IF stage.lane = "marker" THEN IssuedRowIds(all)
                                              ELSE SubjectRuledIds(all)]
    /\ UNCHANGED <<rows, near, sidecar, tmp, solver, minted, told, deaths>>

\* A page of one: the oldest.
First(items) == CHOOSE c \in items : \A d \in items : Min(c) <= Min(d)

Page ==
    CASE stage.lane = "cited" -> CitedChains(stage.seen, TRUE)
      [] stage.lane = "marker" -> {{i} : i \in MarkerCandidates(stage.seen, MarkersIssued(Queue))}
      [] stage.lane = "subject" -> SubjectClusters(stage.seen, SubjectRuledIds(Queue))

Serve ==
    /\ stage.at = "listed"
    /\ stage' = IF Page = {} THEN Ask(After[stage.lane])
                ELSE [stage EXCEPT !.at = "served", !.item = First(Page)]
    /\ UNCHANGED <<rows, near, sidecar, tmp, solver, minted, told, deaths>>

\* What may be merged into one row: a chain; a marked note and newer notes
\* around it; enough of a cluster.
Mergeable ==
    LET note(i) == IsDerivedNote(stage.seen[i])
        marked == Min(stage.item)
    IN  CASE stage.lane = "cited" -> {stage.item}
          [] stage.lane = "marker" ->
                {{marked} \cup s : s \in {s \in SUBSET Neighbours(stage.seen, marked) :
                    s # {} /\ note(marked) /\ \A i \in s : note(i) /\ i > marked}}
          [] stage.lane = "subject" -> {s \in SUBSET stage.item : Cardinality(s) >= MinRows}

\* The oldest id that was never given out.
Fresh == {id \in Ids : \A i \in Ids : rows[i] = NoRow <=> i >= id}

\* add with replace_ids, after guard_user_voice: a new row for these.  An id
\* that is gone is passed over.
Merge ==
    /\ stage.at = "served" /\ stage.call = NoCall
    /\ \E gone \in Mergeable, id \in Fresh :
         /\ \A i \in gone \cap Live(rows) : rows[i].from # "user"
         /\ rows' = [i \in Ids |->
              IF i = id THEN [from |-> "derived", tier |-> "semantic", marked |-> FALSE,
                              cites |-> {}, quiet |-> FALSE]
              ELSE IF i \in gone THEN Gone ELSE rows[i]]
    /\ stage' = Ask(After[stage.lane])
    /\ UNCHANGED <<near, sidecar, tmp, solver, minted, told, deaths>>

\* The user has spoken in one of them since: the merge is refused.
Refused ==
    /\ stage.at = "served" /\ stage.call = NoCall
    /\ \E gone \in Mergeable : \E i \in gone \cap Live(rows) : rows[i].from = "user"
    /\ stage' = Ask(After[stage.lane])
    /\ UNCHANGED <<rows, near, sidecar, tmp, solver, minted, told, deaths>>

\* issue_add for what is in doubt: the marked row, or all of a cluster.  An open
\* item for the same rows is answered.
IssueAdd ==
    LET kind == IF stage.lane = "subject" THEN "subject" ELSE "stale-status"
        new == [id |-> minted + 1, kind |-> kind, rows |-> stage.item, status |-> "open"]
    IN  /\ stage.at = "served" /\ stage.lane # "cited" /\ stage.call = NoCall
        /\ Overlap \/ ~Busy
        /\ minted < MaxItems
        /\ IF SameOpen(Queue, kind, stage.item) = {}
           THEN /\ stage' = [stage EXCEPT !.call = Saving(Queue \cup {new}, new)]
                /\ minted' = minted + 1
           ELSE /\ stage' = Ask(After[stage.lane])
                /\ UNCHANGED minted
        /\ UNCHANGED <<rows, near, sidecar, tmp, solver, told, deaths>>

IssueAdding ==
    \E next \in {NoCall} \cup {[stage.call EXCEPT !.at = a] : a \in {"fill", "rename"}} :
        /\ AtQueue(stage.call)
        /\ Save(stage.call, solver, next)
        /\ stage' = IF next = NoCall THEN Ask(After[stage.lane]) ELSE [stage EXCEPT !.call = next]
        /\ UNCHANGED <<rows, near, solver, minted, deaths>>
-----------------------------------------------------------------------------
(***************************************************************************)
(* Everybody else.                                                         *)
(***************************************************************************)
IssueResolve(outcome) ==
    /\ solver = NoCall
    /\ Overlap \/ ~Busy
    /\ \E x \in Queue :
         /\ x.status = "open"
         /\ LET closed == [x EXCEPT !.status = outcome]
            IN  solver' = Saving((Queue \ {x}) \cup {closed}, closed)
    /\ UNCHANGED <<rows, near, sidecar, tmp, stage, minted, told, deaths>>

IssueResolving ==
    \E next \in {NoCall} \cup {[solver EXCEPT !.at = a] : a \in {"fill", "rename"}} :
        /\ AtQueue(solver)
        /\ Save(solver, stage.call, next)
        /\ solver' = next
        /\ UNCHANGED <<rows, near, stage, minted, deaths>>

\* The user restates a row, or makes it part of who they are; or time passes.
Change(i) ==
    /\ Changes /\ i \in Live(rows)
    /\ rows' \in {[rows EXCEPT ![i].from = "user"], [rows EXCEPT ![i].tier = "core"],
                  [rows EXCEPT ![i].quiet = TRUE]} \ {rows}
    /\ LET spoken(r) == {j \in Live(r) : r[j].from = "user" \/ r[j].tier = "core"}
       IN  Cardinality(spoken(rows')) <= MaxSpoken
    /\ UNCHANGED <<near, sidecar, tmp, stage, solver, minted, told, deaths>>

\* The daemon dies, and the requests with it.
Die ==
    /\ Changes /\ deaths < MaxDeaths
    /\ deaths' = deaths + 1
    /\ solver' = NoCall
    /\ stage' = IF stage.at = "listed" \/ AtQueue(stage.call) THEN Ask(After[stage.lane]) ELSE stage
    /\ UNCHANGED <<rows, near, sidecar, tmp, minted, told>>

PassStep == List \/ Serve \/ Merge \/ Refused \/ IssueAdd \/ IssueAdding

ChainsNext ==
    \/ PassStep \/ IssueResolving \/ Die
    \/ \E outcome \in {"resolved", "dismissed"} : IssueResolve(outcome)
    \/ \E i \in Ids : Change(i)

\* The agent's pass goes on, night after night, and a request that is being
\* worked on ends.
Fairness == WF_chainsVars(PassStep) /\ WF_chainsVars(IssueResolving)
ChainsSpec == ChainsInit /\ [][ChainsNext]_chainsVars /\ Fairness
-----------------------------------------------------------------------------
\* Every subject cluster is a star of rows of the pool, of a size that is worth
\* a digest and no larger; no row is in two, so that one pass never digests it
\* twice; and no rows that could make another are left over.
ClustersSound ==
    LET pool == SubjectPool(rows, {})
        cs == Clusters(pool)
        left == pool \ (UNION cs)
        near2(i, S) == {j \in S \ {i} : near[i][j] >= 2}
    IN  /\ \A c \in cs : /\ c \subseteq pool
                         /\ Cardinality(c) \in MinRows .. MaxRows
                         /\ \E seed \in c : near2(seed, c) = c \ {seed}
        /\ \A c, d \in cs : c # d => c \cap d = {}
        /\ \A i \in left : Cardinality(near2(i, left)) + 1 < MinRows

\* What the queue has acknowledged it keeps, through crashes: no item is lost,
\* and none that was closed is open again.
QueueKept ==
    \A id \in DOMAIN told :
        \E x \in Queue : x.id = id /\ (told[id].status # "open" => x.status = told[id].status)

\* What an item names, open or closed, is not served again: a marker row under
\* any item, a row of a ruled-out cluster in any cluster.  Relates the page to
\* what was acknowledged before the scan began.
SettledStays ==
    stage.at = "served" /\ stage.lane # "cited" => stage.item \cap stage.settled = {}

\* The scan gets past what is queued: every row that describes something
\* unfinished comes to be queued, merged, or the user's own affair.
MarkersReached == []<>(MarkerCandidates(rows, IssuedRowIds(Queue)) = {})
-----------------------------------------------------------------------------
(***************************************************************************)
(* What the documents say and the code does not keep (README).             *)
(***************************************************************************)
\* A merge without the user never takes a core row.
CoreKept ==
    [][\A i \in Live(rows) : rows[i].tier = "core" => rows'[i] # Gone]_chainsVars
=============================================================================
