------------------------------- MODULE Reads -------------------------------
(***************************************************************************)
(* What a session files and what its reads answer: the reading handlers of *)
(* src/src/http/memory.rs (list, search, count, forget) and session_start, *)
(* over the two tables of src/src/memory/store.rs, beside the writes that  *)
(* change what they should find (add, delete).  A session is a directory   *)
(* it was started in and the one its shell stands in; its host stamps that *)
(* one and the root onto every call.                                       *)
(*                                                                         *)
(* A handler is the sequence of its store calls; between two of them other *)
(* requests run.  An add is one step here: MemoryWrites has its parts, the *)
(* update and the restamping of accounts.  A row has the fields that the   *)
(* filters and the duplicate checks tell apart; `old` means its time is    *)
(* before the cutoff of the TTL.  Pages, order and limits are left out:    *)
(* the store is smaller than any; archived rows, which no read here sees,  *)
(* are gone.  The score of a row is one number per text, times the weight  *)
(* of its directory.                                                       *)
(***************************************************************************)
EXTENDS Scope

CONSTANTS
    RowIds,     \* rows that may be written
    Calls,      \* requests in progress at a time
    Starts,     \* where the session may be started (NoDir: not said)
    Stands,     \* where its shell may go
    Sayings,    \* adds: [text, type, from, account, old, indexed, tier, global,
                \* stamped]; a host that cannot stamp sends no directories
    Named,      \* texts a model may pass as `scope`, besides those it is shown
    Asks,       \* the filters of list, search and count
    Purges,     \* the filters of forget
    Likeness,   \* text -> its score for the query, before the weight
    Floor,      \* recall_min_score
    Owner,      \* the store owner, as an account
    Unset,      \* a field that was not sent
    NoRow

Tables == {"semantic", "episodic"}
Other(t) == IF t = "semantic" THEN "episodic" ELSE "semantic"
TableOf(tier) == IF tier = "episodic" THEN "episodic" ELSE "semantic"
Rank == [core |-> 2, semantic |-> 1, episodic |-> 0]

Row == [text : DOMAIN Likeness, type : STRING, from : {"user", "derived"},
        account : {Owner} \cup STRING, old : BOOLEAN, indexed : BOOLEAN,
        tier : DOMAIN Rank, scope : Dirs \cup {NoDir}]

VARIABLES
    table,      \* table -> id -> row
    start, cwd, \* of the session
    call,       \* request -> what it does and has read so far
    unlogged,   \* ids that left a table without a line in the change log
    filed       \* ghost: id -> the root of the session whose add made the row

readsVars == <<table, start, cwd, call, unlogged, filed>>

In(t) == {id \in RowIds : table[t][id] # NoRow}
Stored == In("semantic") \cup In("episodic")

\* The session's root, by where it was started and where it stands.
Roots == [p \in Starts \X (Stands \cup (Starts \ {NoDir})) |-> SessionRoot(p[1], p[2])]
Root == Roots[<<start, cwd>>]
-----------------------------------------------------------------------------
(***************************************************************************)
(* Filters.                                                                *)
(***************************************************************************)
\* An ask: whose rows, and what narrows them.  `root` is Unset, or what the
\* host sends; `ttl` is past_ttl; `table` is "both" or one table.
Plain == [root |-> Unset, account |-> Owner, from |-> Unset, type |-> Unset,
          tier |-> Unset, ttl |-> FALSE, table |-> "both"]

Filter(roots) ==
    [root : roots, account : {Unset, Owner} \cup STRING, from : {Unset, "user", "derived"},
     type : {Unset} \cup STRING, tier : {Unset} \cup DOMAIN Rank, ttl : BOOLEAN, table : {"both"} \cup Tables]

Saying == [text : DOMAIN Likeness, type : STRING, from : {"user", "derived"},
           account : {Owner} \cup STRING, old : BOOLEAN, indexed : BOOLEAN,
           tier : {Unset} \cup DOMAIN Rank, global : BOOLEAN, stamped : BOOLEAN]

ASSUME ReadsAssumption ==
    /\ Starts \subseteq {NoDir} \cup Dirs /\ Stands \subseteq Dirs
    /\ Sayings \subseteq Saying
    /\ Asks \cup Purges \subseteq Filter({Unset, "here"})
    /\ NoRow \notin Row

Among(f) == IF f.table = "both" THEN Tables ELSE {f.table}

\* The scope clause of the SQL: recall_sql.
ScopeAdmits(root, scope) ==
    LET r == RecallScope(root) IN
    CASE r.kind = "none" -> scope = NoDir
      [] r.kind = "skill" -> scope # NoDir /\ Under(scope, r.dir)
      [] r.kind = "owner" -> scope = NoDir \/ Under(scope, r.root) \/ scope \in r.ancestors

OfAnApp(x) == x.scope # NoDir /\ Under(x.scope, Skills)

\* The WHERE clause: everything but `from`, which is a word of SQL; a list's
\* `until` is the TTL's cutoff.
SqlAdmits(f, x) ==
    /\ f.account \in {Unset, x.account}
    /\ f.type \in {Unset, x.type}
    /\ f.tier \in {Unset, x.tier}
    /\ f.ttl => x.old
    /\ f.root # Unset => ScopeAdmits(f.root, x.scope)

OriginAdmits(f, x) == f.from \in {Unset, x.from}
\* Broken variant: the filter on `from` is forgotten.
AdmitsAnyone(f, x) == SqlAdmits(f, x)

Admits(f, x) == SqlAdmits(f, x) /\ OriginAdmits(f, x)

\* list folds past_ttl into `until`, of the staging table unless it was told
\* which; count, search and forget leave it aside.
ListTables(f) == IF f.ttl /\ f.table = "both" THEN {"episodic"} ELSE Among(f)
Ageless(f) == [f EXCEPT !.ttl = FALSE]

\* Broken variant: a search reaches the apps' rows.
SearchAnything(f, x) == Admits([f EXCEPT !.root = Unset], x)

\* for_search: outside a skill, a root weighs rows instead of filtering them.
SearchAdmits(f, x) ==
    IF f.root = Unset \/ RecallScope(f.root).kind = "skill" THEN Admits(f, x)
    ELSE Admits([f EXCEPT !.root = Unset], x) /\ ~OfAnApp(x)

Score(f, x) ==
    IF f.root = Unset \/ RecallScope(f.root).kind = "skill" THEN Likeness[x.text] * 100
    ELSE Likeness[x.text] * Weight(f.root, x.scope)

Passes(f, x) == Score(f, x) >= Floor * 100

\* Of equal texts one is kept, a curated one if there is any.
Pool(got) ==
    LET kept(same) == CHOOSE h \in same : h.table = "semantic" \/ \A g \in same : g.table = "episodic"
    IN  {kept({h \in got : h.row.text = x}) : x \in {h.row.text : h \in got}}

\* Which rows a read is after.  A session's index is those filed on the way up
\* from the directory it asks for.
Wants(c, x) ==
    CASE c.op = "list" -> Admits(c.ask, x)
      [] c.op = "forget" -> Admits(Ageless(c.ask), x)
      [] c.op = "count" -> SqlAdmits(Ageless(c.ask), x)
      [] c.op = "search" -> SearchAdmits(Ageless(c.ask), x)
      [] c.op = "index" -> /\ x.indexed /\ x.account = c.ask.account
                           /\ x.scope \in IndexChain(c.ask.root)

\* What the query of one table finds.
Hit(t, id) == [id |-> id, table |-> t, row |-> table[t][id]]
Found(c, t) == {Hit(t, id) : id \in {i \in In(t) : Wants(c, table[t][i])}}

\* What a read answers, of what its queries found.
Answer(c, got) ==
    IF c.op = "search" THEN {h \in Pool(got) : Passes(c.ask, h.row)} ELSE got
-----------------------------------------------------------------------------
(***************************************************************************)
(* The session and what it adds.                                           *)
(***************************************************************************)
\* What a request is after, the tables it still has to go to, what it found, the
\* rows others changed under it, and those it removed.
Idle == [op |-> "idle", ask |-> Plain, left |-> {}, got |-> {}, touched |-> {}, cut |-> {}]

ReadsInit ==
    /\ table = [t \in Tables |-> [id \in RowIds |-> NoRow]]
    /\ start \in Starts
    /\ cwd \in IF start = NoDir THEN Stands ELSE {start}
    /\ call = [c \in Calls |-> Idle]
    /\ unlogged = {}
    /\ filed = [id \in RowIds |-> NoDir]

\* Bound: between its requests only.
Cd == /\ \A c \in Calls : call[c] = Idle
      /\ cwd' \in Stands
      /\ UNCHANGED <<table, start, call, unlogged, filed>>

\* The directories the session was shown at its start, where it was started, and
\* their texts.
ShownFrom == [s \in Starts |->
    IF s = NoDir \/ RecallScope(SessionRoot(s, s)).kind = "none" THEN {}
    ELSE Candidates(SessionRoot(s, s), s)]
ShownDirs == ShownFrom[start]
ShownFor(d) == Display(d, Roots[<<start, start>>])

\* resolve_tier.
ResolveTier(asked, losers, indexed) ==
    IF asked # Unset THEN asked
    ELSE IF losers # {} THEN CHOOSE t \in {x.tier : x \in losers} :
                                \A x \in losers : Rank[x.tier] <= Rank[t]
    ELSE IF indexed THEN "semantic" ELSE "episodic"

\* resolve_scope: `named` is what the model passed, c and r what the host did.
ResolveScope(named, c, r, losers, global, tier) ==
    LET session == IF c # NoDir /\ IsScopeDir(c) THEN c ELSE NoDir
        root == IF r = NoDir /\ session # NoDir THEN FindRoot(session) ELSE r
        dir == Resolve(named, root)
        valid == /\ named # Blank
                 /\ dir # NoDir
                 /\ IF root # NoDir THEN IsValidFor(dir, root)
                    ELSE dir \in Dirs /\ IsScopeDir(dir)
    IN  IF global \/ tier = "core" THEN NoDir
        ELSE IF valid THEN dir
        ELSE IF named = Blank /\ losers # {} THEN Common({x.scope : x \in losers})
        ELSE session

\* merge_fact: the row that is there keeps what it has.
Merged(x, new) == [x EXCEPT !.scope = IF @ = NoDir THEN new.scope ELSE @,
                            !.indexed = @ \/ new.indexed]

\* merge_with_existing, across the tables: a core row takes no scope.
MergedAcross(x, new) == IF x.tier = "core" THEN [Merged(x, new) EXCEPT !.scope = NoDir]
                        ELSE Merged(x, new)

Put(t, id, x) == [table EXCEPT ![t][id] = x]
Without(tb, ids) == [t \in Tables |-> [id \in RowIds |-> IF id \in ids THEN NoRow ELSE tb[t][id]]]

\* A forget in progress has these rows change under it.
Touched(ids) == [c \in Calls |-> IF call[c].op \notin {"forget", "forgot"} THEN call[c]
                                 ELSE [call[c] EXCEPT !.touched = @ \cup ids]]

\* The ghost follows the rows that are there.
Unfiled(ids) == [id \in RowIds |-> IF id \in ids THEN NoDir ELSE filed[id]]

\* Ids are never given out twice.
Fresh == {id \in RowIds \ (Stored \cup unlogged) :
            \A c \in Calls : id \notin call[c].touched \cup call[c].cut \cup {h.id : h \in call[c].got}}

Twins(t, new, except) ==
    {id \in In(t) \ except : table[t][id].text = new.text /\ table[t][id].type = new.type}

Becomes(t, id, x, gone, root) ==
    /\ table' = Without(Put(t, id, x), gone)
    /\ call' = Touched({id} \cup gone)
    /\ filed' = [Unfiled(gone) EXCEPT ![id] = root]
    /\ UNCHANGED <<start, cwd, unlogged>>

\* The row that is made, its directory named by `named`.
Said(s, named, replaced, tier) ==
    LET sent(d) == IF s.stamped THEN d ELSE NoDir
    IN  [text |-> s.text, type |-> s.type, from |-> s.from, account |-> s.account,
         old |-> s.old, indexed |-> s.indexed /\ tier # "core", tier |-> tier,
         scope |-> ResolveScope(named, sent(cwd), sent(Root), replaced, s.global, tier)]

\* Where the session will look for it.
Sought(s, losers) ==
    IF s.stamped /\ losers = {} /\ ~s.global /\ Under(cwd, Root) THEN Root ELSE NoDir

\* A row enters in place of `losers`: merged into a row of the other table that
\* says it and ranks no lower; else, with that row gone, merged into one of its
\* own table, or as a row of its own.
Enter(new, losers, root) ==
    LET t == TableOf(new.tier)
        across == Twins(Other(t), new, losers)
        lower == {id \in across : Rank[table[Other(t)][id].tier] < Rank[new.tier]}
        beside == Twins(t, new, losers)
    IN  \/ \E id \in across \ lower :
             Becomes(Other(t), id, MergedAcross(table[Other(t)][id], new), losers, NoDir)
        \/ \E drop \in IF across = {} THEN {{}} ELSE {{id} : id \in lower} :
             \/ \E id \in beside :
                  Becomes(t, id, Merged(table[t][id], new), drop \cup losers, NoDir)
             \/ /\ beside = {}
                /\ \E id \in Fresh : Becomes(t, id, new, drop \cup losers, root)

\* An add, its directory named by one of `names`.
Add(s, names, losers) ==
    LET replaced == {table[t][id] : t \in Tables, id \in losers} \ {NoRow}
        tier == ResolveTier(s.tier, replaced, s.indexed)
    IN  \E new \in {Said(s, named, replaced, tier) : named \in names} :
            Enter(new, losers, Sought(s, losers))

\* Every add the session may make: with no directory named, one it was shown, or
\* any other text.
Adding ==
    LET shown == {ShownFor(d) : d \in ShownDirs}
    IN  \E s \in Sayings, losers \in SUBSET Stored : Add(s, {Blank} \cup shown \cup Named, losers)

\* delete, of the table that has the row.
Delete(id) ==
    /\ id \in Stored
    /\ table' = Without(table, {id})
    /\ call' = Touched({id})
    /\ filed' = Unfiled({id})
    /\ UNCHANGED <<start, cwd, unlogged>>
-----------------------------------------------------------------------------
(***************************************************************************)
(* Reads.  `here` is the root the host sends with the call.                *)
(***************************************************************************)
Begin(c, op, ask) ==
    /\ call[c] = Idle
    /\ call' = [call EXCEPT ![c] = [Idle EXCEPT !.op = op,
                                     !.ask = IF ask.root = "here" THEN [ask EXCEPT !.root = Root] ELSE ask,
                                     !.left = IF op = "list" THEN ListTables(ask) ELSE Among(ask)]]
    /\ UNCHANGED <<table, start, cwd, unlogged, filed>>

\* The index of a session: of the directory it stands in, if rows can be about
\* its root.
BeginIndex(c) ==
    /\ RecallScope(Root).kind # "none"
    /\ Begin(c, "index", [Plain EXCEPT !.root = cwd])

\* A bulk delete wants something that narrows it; whose rows, where, and how old
\* do not count.
BeginForget(c, ask) ==
    /\ ask.table # "both"
    /\ ~(ask.from = Unset /\ ask.type = Unset /\ ask.tier = Unset)
    /\ Begin(c, "forget", ask)

\* One table's query; a search runs its two at once.
Read(c) ==
    /\ call[c].op \in {"list", "search", "count", "index", "forget"}
    /\ \E t \in call[c].left :
         /\ call[c].op = "search" \/ t = "semantic" \/ call[c].left = {t}
         /\ call' = [call EXCEPT ![c].left = @ \ {t}, ![c].got = @ \cup Found(call[c], t)]
    /\ UNCHANGED <<table, start, cwd, unlogged, filed>>

Done(c) == call[c].op \in {"list", "search", "count", "index", "forgot"} /\ call[c].left = {}

Reply(c) ==
    /\ Done(c)
    /\ call' = [call EXCEPT ![c] = Idle]
    /\ UNCHANGED <<table, start, cwd, unlogged, filed>>

\* delete_where: what matches now goes, and the rows read before are recorded.
Wipe(c) ==
    LET ask == call[c].ask
        gone == {id \in In(ask.table) : SqlAdmits(Ageless(ask), table[ask.table][id])}
    IN  /\ call[c].op = "forget" /\ call[c].left = {} /\ ask.from = Unset
        /\ table' = Without(table, gone)
        /\ call' = [Touched(gone) EXCEPT ![c] = [call[c] EXCEPT !.op = "forgot", !.cut = gone]]
        /\ unlogged' = unlogged \cup (gone \ {h.id : h \in call[c].got})
        /\ filed' = Unfiled(gone)
        /\ UNCHANGED <<start, cwd>>

\* By who said it: the victims that were listed, each by its id.
RemoveVictim(c) ==
    LET left == {h \in call[c].got : h.id \notin call[c].cut} IN
    /\ call[c].op = "forget" /\ call[c].left = {} /\ call[c].ask.from # Unset
    /\ \/ \E h \in left :
            /\ table' = Put(h.table, h.id, NoRow)
            /\ call' = [Touched({h.id}) EXCEPT ![c] = [call[c] EXCEPT !.cut = @ \cup {h.id}]]
            /\ filed' = Unfiled({h.id})
       \/ /\ left = {}
          /\ call' = [call EXCEPT ![c].op = "forgot"]
          /\ UNCHANGED <<table, filed>>
    /\ UNCHANGED <<start, cwd, unlogged>>
-----------------------------------------------------------------------------
ReadsNext ==
    \/ Cd \/ Adding \/ \E id \in RowIds : Delete(id)
    \/ \E c \in Calls :
         \/ \E op \in {"list", "search", "count"}, ask \in Asks : Begin(c, op, ask)
         \/ BeginIndex(c)
         \/ \E ask \in Purges : BeginForget(c, ask)
         \/ Read(c) \/ Reply(c) \/ Wipe(c) \/ RemoveVictim(c)

ReadsSpec == ReadsInit /\ [][ReadsNext]_readsVars
-----------------------------------------------------------------------------
\* Every request and what it has in hand.
Request == [op : {"idle", "list", "search", "count", "index", "forget", "forgot"},
            ask : Filter({Unset} \cup Dirs), left : SUBSET Tables,
            got : SUBSET [id : RowIds, table : Tables, row : Row],
            touched : SUBSET RowIds, cut : SUBSET RowIds]

ReadsTypes ==
    /\ table \in [Tables -> [RowIds -> {NoRow} \cup Row]]
    /\ start \in Starts /\ cwd \in Stands \cup (Starts \ {NoDir})
    /\ call \in [Calls -> Request]
    /\ unlogged \subseteq RowIds
    /\ filed \in [RowIds -> {NoDir} \cup Dirs]

\* A directory the session was shown can be named, in the words it was shown in,
\* wherever below its root the session goes: the row is filed there.  Shown
\* texts are relative to a root of the session's start, and are read against
\* the root the host sends later.
ShownIsTaken ==
    start # NoDir /\ Under(cwd, SessionRoot(start, start)) =>
        \A d \in ShownDirs : ResolveScope(ShownFor(d), cwd, Root, {}, FALSE, "semantic") = d

\* And a row filed at one of them is in the index of a session that stands there
\* or below, unless home comes between or that session stands where no row can be
\* about.
ShownIsLoaded ==
    \A d \in ShownDirs :
        (Under(cwd, d) /\ ~Under(Home, d) /\ SkillDir(cwd) = SkillDir(d) /\ ~IsTemp(cwd))
            => d \in IndexChain(cwd)

\* Both: what a session is shown it can use, and finds again.
ShownIsUsable == ShownIsTaken /\ ShownIsLoaded

\* What a session wrote, a list from its root shows: the scope a row takes
\* (resolve_scope) and the scopes a root admits (recall_sql) are worked out apart.
WrittenIsListed ==
    \A t \in Tables : \A id \in In(t) :
        filed[id] # NoDir /\ (InSkill(filed[id]) \/ IsScopeDir(filed[id])) /\ table[t][id].tier # "core"
            => ScopeAdmits(filed[id], table[t][id].scope)

\* App isolation: a skill's session is answered only with its own rows, any
\* other with no app's; a list rooted above home has everything below it.
Apart ==
    \A c \in Calls :
        LET a == call[c]
            skill == SkillDir(a.ask.root)
        IN  /\ Done(c) /\ a.op \in {"list", "search", "index"} /\ a.ask.root # Unset
            /\ a.ask.root # NoDir
            => \A h \in Answer(a, a.got) :
                 IF skill # NoDir THEN h.row.scope # NoDir /\ Under(h.row.scope, skill)
                 ELSE OfAnApp(h.row) => a.op = "list" /\ Under(Home, a.ask.root)

\* A bulk delete removes the rows that were asked for, and no others, and says
\* so in the change log: of the rows nobody else changed meanwhile.
ForgetExact ==
    \A c \in Calls : call[c].op = "forgot" =>
        LET a == call[c]
            asked(x) == SqlAdmits(Ageless(a.ask), x) /\ (a.ask.from # Unset => x.from = a.ask.from)
        IN  /\ \A h \in a.got : h.id \notin a.touched => h.id \in a.cut /\ asked(h.row)
            /\ \A id \in In(a.ask.table) \ a.touched : ~asked(table[a.ask.table][id])
            /\ a.cut \ a.touched \subseteq {h.id : h \in a.got} \ unlogged
-----------------------------------------------------------------------------
(***************************************************************************)
(* What the documents say and the code does not keep (README).             *)
(***************************************************************************)
\* Every query is scoped to one person: what someone says is kept as theirs.  An
\* add's search for a row that says the same asks nobody's account.
OwnWordsKept ==
    [][\A s \in Sayings :
         (\E losers \in SUBSET Stored : Add(s, {Blank} \cup Named, losers)) =>
            \E t \in Tables, id \in RowIds :
                LET x == table'[t][id] IN x # NoRow /\ x.text = s.text /\ x.account = s.account]_readsVars

\* Core is who the person is: no scope, no index, ever.  An add merged into a
\* core row of its own table gives it both.
CoreUnscoped ==
    \A t \in Tables : \A id \in In(t) :
        table[t][id].tier = "core" => table[t][id].scope = NoDir /\ ~table[t][id].indexed

\* A row past the floor is answered, in itself or in the curated row that says
\* the same.  The twin is dropped before the floor takes that one away.
TwinsAnswered ==
    \A c \in Calls :
        LET a == call[c] IN
        a.op = "search" /\ Done(c) =>
            \A h \in a.got : Passes(a.ask, h.row) => \E g \in Answer(a, a.got) : g.row.text = h.row.text

\* What was asked for past its TTL is past its TTL.
TtlKept ==
    \A c \in Calls : call[c].ask.ttl => \A h \in call[c].got : h.row.old

\* No row leaves without a line in the change log.
AllLogged == unlogged = {}

\* A session that has gone outside the directory it was started in roots on its
\* own.
OutsideOnItsOwn ==
    start # NoDir /\ ~Under(cwd, SessionRoot(start, start)) /\ ~Under(start, cwd) => Under(cwd, Root)
=============================================================================
