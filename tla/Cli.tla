-------------------------------- MODULE Cli --------------------------------
(***************************************************************************)
(* The two ways a data command of `ling-mem` goes: through the daemon, as  *)
(* the request src/src/cli/client.rs writes and src/src/http/memory.rs     *)
(* reads, or over the store it opens itself (src/src/cli/mod.rs), when no  *)
(* daemon answers and always with --episodic.  Each option is spelled out  *)
(* by both, and one of the two has forgotten some before (the comments of  *)
(* filter_body and push_scope_root).  The first part is that spelling, for *)
(* CliProofs; the second a store that commands change directly.            *)
(*                                                                         *)
(* The store is one person's.  What is not given is None.  Times are       *)
(* numbers; a day is that of the machine, for both.                        *)
(***************************************************************************)
EXTENDS Integers, FiniteSets, FiniteSetsExt

CONSTANTS
    Ids, Contents, Apps, Sessions, Dirs, Days, Hosts,
    DayStart, DayEnd,   \* day -> times
    Beneath,            \* recall root -> directories whose rows it lists
    ScopeDirs,          \* directories a row of this session may be about
    Clean,              \* summary -> the one short line the daemon keeps of it
    MaxSteps,           \* bound: commands
    None

Times == Int
Types == {"fact", "preference", "decision", "tried", "fixed", "learned", "built"}
Tiers == {"core", "semantic", "episodic"}
Origins == {"user", "agent", "derived"}
Outcomes == {"positive", "negative", "neutral"}
Opt(S) == S \cup {None}
-----------------------------------------------------------------------------
(***************************************************************************)
(* Filters.                                                                *)
(***************************************************************************)
\* FilterArgs.
Options == [
    apps : SUBSET Apps, types : SUBSET Types, indexed : Opt(BOOLEAN), session : Opt(Sessions),
    tier : Opt(Tiers), from : Opt(Origins), outcome : Opt(Outcomes),
    since : Opt(Times), until : Opt(Times), older : Opt(Times), day : Opt(Days),
    root : Opt(Dirs), expired : BOOLEAN, successor : Opt(Ids)]

Else(a, b) == IF a # None THEN a ELSE b

\* The older of two cutoffs.
Stricter(a, b) == IF a = None THEN b ELSE IF b = None THEN a ELSE IF a < b THEN a ELSE b

SinceOf(since, day) == IF day = None THEN since ELSE Else(since, DayStart[day])
UntilOf(until, day) == IF day = None THEN until ELSE Else(until, DayEnd[day])

FiltersOf(o, root) == [
    apps |-> o.apps, types |-> o.types, excluded |-> {}, indexed |-> o.indexed,
    session |-> o.session, tier |-> o.tier, from |-> o.from, outcome |-> o.outcome,
    since |-> SinceOf(o.since, o.day),
    until |-> UntilOf(Stricter(o.until, o.older), o.day),
    root |-> root, expired |-> o.expired, successor |-> o.successor]

IntoFilters(o) == FiltersOf(o, o.root)

\* The request of every verb; --older-than is part of `until` in it.
FilterBody(o) == [
    apps |-> o.apps, contextsAny |-> {}, type |-> None, types |-> o.types, excluded |-> {},
    indexed |-> o.indexed, session |-> o.session, tier |-> o.tier, from |-> o.from,
    outcome |-> o.outcome, since |-> o.since, until |-> Stricter(o.until, o.older),
    day |-> o.day, root |-> None, expired |-> o.expired, successor |-> o.successor]

\* That of a verb that reads.
PushScopeRoot(o, w) == [w EXCEPT !.root = o.root]

\* FilterDTO::into_filters.
DtoFilters(w) == [
    apps |-> w.apps \cup w.contextsAny,
    types |-> w.types \cup (IF w.type = None THEN {} ELSE {w.type}), excluded |-> w.excluded,
    indexed |-> w.indexed, session |-> w.session, tier |-> w.tier, from |-> w.from,
    outcome |-> w.outcome, since |-> SinceOf(w.since, w.day), until |-> UntilOf(w.until, w.day),
    root |-> w.root, expired |-> w.expired, successor |-> w.successor]

\* What both store and handler ask of a bulk delete, and what the store alone
\* is content with.
NarrowForHandler(f) ==
    \/ f.apps # {} \/ f.types # {} \/ f.session # None
    \/ \E x \in {f.tier, f.from, f.outcome, f.since, f.until} : x # None

NarrowForStore(f) ==
    NarrowForHandler(f) \/ f.indexed # None \/ f.root # None \/ f.successor # None

Admits(f, r) ==
    /\ f.apps # {} => r.app \in f.apps
    /\ f.types # {} => r.type \in f.types
    /\ r.type \notin f.excluded
    /\ \A k \in {"indexed", "session", "tier", "from", "outcome"} : f[k] \in {None, r[k]}
    /\ f.since # None => r.time >= f.since
    /\ f.until # None => r.time < f.until
    /\ IF f.successor # None THEN r.successor = f.successor ELSE f.expired \/ ~r.expired
    /\ f.root # None => r.scope = None \/ r.scope \in Beneath[f.root]

Without(T, f) == {r \in T : ~Admits(f, r)}

\* forget --yes, of the rows T of a table.
DaemonForgets(o, T) ==
    LET f == DtoFilters(FilterBody(o))
    IN  IF NarrowForHandler(f) THEN Without(T, f) ELSE T

DirectForgets(o, T) ==
    LET f == IntoFilters(o)
    IN  IF NarrowForStore(f) THEN Without(T, f) ELSE T
-----------------------------------------------------------------------------
(***************************************************************************)
(* Rows.                                                                   *)
(***************************************************************************)
\* AddArgs, of one row that replaces none.
Adds == [
    content : Contents, type : Types, tier : Opt(Tiers), scope : Opt(Dirs), cwd : Opt(Dirs),
    summary : Opt(Contents), indexed : BOOLEAN, global : BOOLEAN, from : Origins,
    outcome : Opt(Outcomes), time : Opt(Times), session : Opt(Sessions), host : Opt(Hosts)]

Row(a, tier, scope, summary, indexed) == [
    content |-> a.content, type |-> a.type, tier |-> tier, scope |-> scope,
    summary |-> summary, indexed |-> indexed, from |-> a.from, outcome |-> a.outcome,
    time |-> a.time, session |-> a.session, host |-> a.host]

\* cmd_add: the tier follows the table that was opened.
DirectTier(tier, episodic) == IF episodic THEN "episodic" ELSE Else(tier, "semantic")

DirectAdds(a, episodic) ==
    LET tier == DirectTier(a.tier, episodic)
    IN  Row(a, tier, IF a.global \/ tier = "core" THEN None ELSE Else(a.scope, a.cwd),
            a.summary, a.indexed)

\* The request says what it was given.  resolve_tier, of a request that
\* replaces nothing.
DaemonTier(a) ==
    IF a.tier # None THEN a.tier ELSE IF a.indexed THEN "semantic" ELSE "episodic"

\* resolve_scope, likewise; paths are absolute.
DaemonScope(a) ==
    IF a.scope # None /\ a.scope \in ScopeDirs THEN a.scope
    ELSE IF a.cwd # None /\ a.cwd \in ScopeDirs THEN a.cwd ELSE None

\* add
DaemonAdds(a) ==
    LET tier == DaemonTier(a)
    IN  Row(a, tier, IF a.global \/ tier = "core" THEN None ELSE DaemonScope(a),
            Clean[a.summary], a.indexed /\ tier # "core")

\* UpdateArgs.
Edits == [
    content : Opt(Contents), summary : Opt(Contents), clearSummary : BOOLEAN,
    indexed : Opt(BOOLEAN), type : Opt(Types), tier : Opt(Tiers), from : Opt(Origins),
    outcome : Opt(Outcomes), clearOutcome : BOOLEAN, scope : Opt(Dirs), clearScope : BOOLEAN,
    voice : BOOLEAN]

\* Set wins over clear, and what is not given stays.
Patched(old, set, clear) == IF set # None THEN set ELSE IF clear THEN None ELSE old

Patch(r, e) == [r EXCEPT
    !.content = Else(e.content, @), !.type = Else(e.type, @), !.tier = Else(e.tier, @),
    !.from = Else(e.from, @), !.indexed = Else(e.indexed, @),
    !.summary = Patched(@, e.summary, e.clearSummary),
    !.outcome = Patched(@, e.outcome, e.clearOutcome),
    !.scope = Patched(@, e.scope, e.clearScope)]

DirectEdits(r, e) == Patch(r, e)

\* update: the user's voice is guarded, and a core row has no scope and no index.
DaemonEdits(r, e) ==
    IF e.content # None /\ r.from = "user" /\ ~e.voice THEN r
    ELSE LET p == Patch(r, [e EXCEPT !.summary = Clean[@]])
         IN  IF p.tier = "core" THEN [p EXCEPT !.scope = None, !.indexed = FALSE] ELSE p

\* export: what a list of everything shows, without vectors.
Everything == [
    apps |-> {}, types |-> {}, excluded |-> {}, indexed |-> None, session |-> None,
    tier |-> None, from |-> None, outcome |-> None, since |-> None, until |-> None,
    root |-> None, expired |-> FALSE, successor |-> None]
Exported(T) == {r \in T : Admits(Everything, r)}

\* import: rows keep what they were written with; those for the staging table
\* become its own.
Staged(r) == [r EXCEPT !.tier = "episodic"]
Imported(F, episodic) == IF episodic THEN {Staged(r) : r \in F} ELSE F
-----------------------------------------------------------------------------
(***************************************************************************)
(* A store whose commands find no daemon.                                  *)
(***************************************************************************)
VARIABLES
    tables,     \* "semantic", "episodic" -> rows
    file,       \* the export
    steps

vars == <<tables, file, steps>>
Tables == {"semantic", "episodic"}

Stored(a, id, tier, expired) == [
    id |-> id, content |-> a, type |-> "fact", tier |-> tier, scope |-> None, summary |-> None,
    indexed |-> FALSE, from |-> "user", outcome |-> None, time |-> 0, session |-> None,
    host |-> None, app |-> None, expired |-> expired,
    successor |-> None]

\* One row of each tier, as the daemon left them, and an archived one.
Init ==
    /\ \E c \in Contents, i \in [Tiers \cup {"archived"} -> Ids] :
         /\ \A s, t \in DOMAIN i : i[s] = i[t] => s = t
         /\ tables = [t \in Tables |->
              IF t = "episodic" THEN {Stored(c, i["episodic"], "episodic", FALSE)}
              ELSE {Stored(c, i["core"], "core", FALSE), Stored(c, i["semantic"], "semantic", FALSE),
                    Stored(c, i["archived"], "semantic", TRUE)}]
    /\ file = None /\ steps = 0

Step == steps < MaxSteps /\ steps' = steps + 1
OpenedFor(episodic) == IF episodic THEN "episodic" ELSE "semantic"
Rows == tables["semantic"] \cup tables["episodic"]
NoOptions == [
    apps |-> {}, types |-> {}, indexed |-> None, session |-> None, tier |-> None, from |-> None,
    outcome |-> None, since |-> None, until |-> None, older |-> None, day |-> None,
    root |-> None, expired |-> FALSE, successor |-> None]
NoEdit == [
    content |-> None, summary |-> None, clearSummary |-> FALSE, indexed |-> None, type |-> None,
    tier |-> None, from |-> None, outcome |-> None, clearOutcome |-> FALSE, scope |-> None,
    clearScope |-> FALSE, voice |-> FALSE]

Forget(o, episodic) ==
    /\ Step
    /\ tables' = [tables EXCEPT ![OpenedFor(episodic)] = DirectForgets(o, @)]
    /\ UNCHANGED file

Edit(e, id, episodic) ==
    /\ Step
    /\ tables' = [tables EXCEPT ![OpenedFor(episodic)] =
                    {IF r.id = id THEN DirectEdits(r, e) ELSE r : r \in @}]
    /\ UNCHANGED file

Delete(id, episodic) ==
    /\ Step
    /\ tables' = [tables EXCEPT ![OpenedFor(episodic)] = {r \in @ : r.id # id}]
    /\ UNCHANGED file

Export(episodic) ==
    /\ Step
    /\ file' = [rows |-> Exported(tables[OpenedFor(episodic)]), of |-> OpenedFor(episodic)]
    /\ UNCHANGED tables

\* Into a table those rows are gone from: rows are not looked for there.
Import(episodic) ==
    /\ Step /\ file # None
    /\ \A r \in tables[OpenedFor(episodic)], s \in file.rows : r.id # s.id
    /\ tables' = [tables EXCEPT ![OpenedFor(episodic)] = @ \cup Imported(file.rows, episodic)]
    /\ UNCHANGED file

Next ==
    \E episodic \in BOOLEAN :
        \/ \E root \in Opt(Dirs), tier \in Opt(Tiers) :
              Forget([NoOptions EXCEPT !.root = root, !.tier = tier], episodic)
        \/ \E id \in Ids :
              \/ \E c \in Opt(Contents), tier \in Opt(Tiers), dir \in Opt(Dirs) :
                    Edit([NoEdit EXCEPT !.content = c, !.tier = tier, !.scope = dir], id, episodic)
              \/ Delete(id, episodic)
        \/ Export(episodic) \/ Import(episodic)

Spec == Init /\ [][Next]_vars
-----------------------------------------------------------------------------
(***************************************************************************)
(* What the documents say and a command without the daemon does not keep   *)
(* (README).                                                               *)
(***************************************************************************)
\* forget ignores a recall root on its own, which would take most of the store.
RootForgetsNothing ==
    [][\A root \in Dirs, episodic \in BOOLEAN :
          Forget([NoOptions EXCEPT !.root = root], episodic) => tables' = tables]_vars

\* The user's voice is not rewritten without the user, whichever the frontend.
VoiceGuarded ==
    [][\A r \in Rows, s \in Rows' : r.id = s.id /\ r.from = "user" => r.content = s.content]_vars

\* A row's tier matches its table; a core row has no scope.
TierMatches ==
    \A t \in Tables : \A r \in tables[t] :
        /\ r.tier = "episodic" <=> t = "episodic"
        /\ r.tier = "core" => r.scope = None

\* An export holds every row of its table.
ExportsAll ==
    [][\A episodic \in BOOLEAN : Export(episodic) => file'.rows = tables[OpenedFor(episodic)]]_vars
=============================================================================
