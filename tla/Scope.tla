------------------------------- MODULE Scope -------------------------------
(***************************************************************************)
(* Where a row belongs and which rows a session may see, as arithmetic on  *)
(* directories (src/src/memory/scope.rs), and the root a host sends        *)
(* (src/plugins/linggen/hooks/scope.sh).  A directory is the sequence of   *)
(* its names; the disk is a constant: which directories exist, carry a     *)
(* marker file or a repository.  A path as text is where it starts, "/",   *)
(* "~" or "" for a relative one, and its names.  What a model is shown is  *)
(* such a text.  The cap of 30 marked directories and the exact names      *)
(* (markers, skipped directories, temp roots) are left out.                *)
(***************************************************************************)
EXTENDS Naturals, Sequences, FiniteSets, SequencesExt

CONSTANTS
    Names,      \* what a directory may be called
    Dirs,       \* the directories that exist
    Home,       \* the user's home
    Marked,     \* directories with a marker file
    GitRoots,   \* directories with a repository
    Temp,       \* roots of temporary files
    Skipped,    \* names never offered: hidden, build output, docs
    NoDir       \* no directory: a row about the person, a path not sent

Under(p, d) == IsPrefix(d, p)
Above(p) == {SubSeq(p, 1, n) : n \in 0 .. Len(p) - 1}

ASSUME ScopeAssumption ==
    /\ Dirs \subseteq Seq(Names) /\ NoDir \notin Dirs
    /\ {".linggen", "skills"} \subseteq Names /\ ".." \notin Names
    /\ \A d \in Dirs : Above(d) \subseteq Dirs
    /\ Home \in Dirs \ {<<>>}
    /\ Marked \cup GitRoots \cup Temp \subseteq Dirs

Engine == Append(Home, ".linggen")
Skills == Append(Engine, "skills")

\* The installed skill whose directory holds p.
SkillDir(p) ==
    IF Under(p, Skills) /\ p # Skills THEN SubSeq(p, 1, Len(Skills) + 1) ELSE NoDir

InSkill(p) == SkillDir(p) # NoDir
IsTemp(p) == \E t \in Temp : Under(p, t)

\* Can a row be about this directory?
IsScopeDir(p) ==
    InSkill(p) \/ (p \notin {Home, <<>>} /\ ~Under(p, Engine) /\ ~IsTemp(p))

\* The parents that can hold rows about root: up to home, or up to the top.
Ancestors(root) ==
    IF InSkill(root) THEN {}
    ELSE {a \in Above(root) :
            IsScopeDir(a) /\ \A b \in Above(root) : Under(b, a) => b # Home}

\* RecallScope::of: what a session rooted there may list.
RecallScope(p) ==
    CASE p = NoDir -> [kind |-> "none"]
      [] p # NoDir /\ InSkill(p) -> [kind |-> "skill", dir |-> SkillDir(p)]
      [] p # NoDir /\ ~IsScopeDir(p) -> [kind |-> "none"]
      [] OTHER -> [kind |-> "owner", root |-> p, ancestors |-> Ancestors(p)]
-----------------------------------------------------------------------------
\* What a row's directory weighs against the session's root, in hundredths.
KinWeights ==
    [same |-> 110, child |-> 100, parent |-> 90, near |-> 85, far |-> 80, person |-> 100]

Kin(root, scope) ==
    IF scope = NoDir THEN "person"
    ELSE IF root = NoDir THEN "far"
    ELSE LET common == Len(LongestCommonPrefix({root, scope}))
             up == Len(root) - common
             down == Len(scope) - common
         IN  CASE <<up, down>> = <<0, 0>> -> "same"
               [] <<up, down>> = <<0, 1>> -> "child"
               [] <<up, down>> = <<1, 0>> -> "parent"
               [] up + down = 2 -> "near"
               [] OTHER -> "far"

Weight(root, scope) == KinWeights[Kin(root, scope)]
-----------------------------------------------------------------------------
Text(from, names) == [from |-> from, names |-> names]
Blank == Text("", <<>>)

\* `..` goes up, and stays at the top.
Into(dir, name) ==
    IF name # ".." THEN Append(dir, name)
    ELSE IF dir = <<>> THEN dir ELSE Front(dir)

\* Where the first names lead.
Walk(names) ==
    LET at[n \in 0 .. Len(names)] == IF n = 0 THEN <<>> ELSE Into(at[n - 1], names[n])
    IN  at

Normalize(names) == Walk(names)[Len(names)]

\* A text as a directory: none when it is relative.
Expand(t) ==
    CASE t.from = "/" -> Normalize(t.names)
      [] t.from = "~" -> Normalize(Home \o t.names)
      [] OTHER -> NoDir

\* How a directory reads to the model: from root's parent at root and below,
\* else from home, else in full.
Display(p, root) ==
    IF Under(p, root) /\ Len(root) > 1
    THEN Text("", SubSeq(p, Len(root), Len(p)))
    ELSE IF Under(p, Home) /\ p # Home
    THEN Text("~", SubSeq(p, Len(Home) + 1, Len(p)))
    ELSE Text("/", p)

\* Broken variant: the parent of root is not tried.
ResolveInRoot(t, root) ==
    IF t.names = <<>> \/ (root = NoDir /\ t.from = "") THEN NoDir
    ELSE IF t.from # "" THEN Expand(t) ELSE Normalize(root \o t.names)

\* What the model named, as a directory: from root's parent if that is there
\* and on root's own line, else from root if it is there.
Resolve(t, root) ==
    IF t \in {Blank, Text("/", <<>>)} THEN NoDir
    ELSE IF t.from # "" THEN Expand(t)
    ELSE IF root = NoDir THEN NoDir
    ELSE LET below == Normalize(root \o t.names)
             beside == IF root = <<>> THEN below ELSE Normalize(Front(root) \o t.names)
         IN  IF beside \in Dirs /\ (Under(beside, root) \/ Under(root, beside)) THEN beside
             ELSE IF below \in Dirs THEN below
             ELSE beside
-----------------------------------------------------------------------------
\* The root when a host sent none.
FindRoot(cwd) ==
    LET repos == {a \in Above(cwd) \cup {cwd} :
                    a \in GitRoots /\ \A b \in Above(cwd) \cup {cwd} : Under(b, a) => b # Home}
    IN  IF InSkill(cwd) THEN SkillDir(cwd)
        ELSE IF repos = {} THEN cwd
        ELSE CHOOSE a \in repos : \A b \in repos : Len(b) <= Len(a)

\* The directories whose indexed rows a session at cwd loads: none is beyond
\* one that can hold no row.
IndexChain(cwd) ==
    {a \in Above(cwd) \cup {cwd} :
        IF InSkill(cwd) THEN Under(a, SkillDir(cwd))
        ELSE \A b \in Above(cwd) \cup {cwd} : Under(b, a) => b # Home /\ IsScopeDir(b)}

MarkedBelow(root) ==
    {d \in Marked : /\ Under(d, root) /\ Len(d) - Len(root) \in {1, 2}
                    /\ \A n \in Len(root) + 1 .. Len(d) : d[n] \notin Skipped}

\* Every scope a row written here may take.
Candidates(root, cwd) ==
    LET downTo == {a \in Above(cwd) \cup {cwd} : Under(a, root)}
    IN  {d \in {root} \cup downTo \cup MarkedBelow(root) : IsScopeDir(d)}
            \cup Ancestors(root)

\* Broken variant: a row may go anywhere.
IsValidAnywhere(dir, root) == dir \in Dirs /\ IsScopeDir(dir)

\* May a row written in a session rooted at root take this scope?
IsValidFor(dir, root) ==
    /\ dir \in Dirs
    /\ IsScopeDir(dir)
    /\ IF InSkill(root) THEN Under(dir, SkillDir(root))
       ELSE Under(dir, root) \/ dir \in Ancestors(root)

\* The scope several rows share.
Common(scopes) ==
    IF NoDir \in scopes THEN NoDir
    ELSE LET meet == LongestCommonPrefix(scopes)
         IN  IF IsScopeDir(meet) THEN meet ELSE NoDir
-----------------------------------------------------------------------------
(***************************************************************************)
(* The host's side: `start` is the directory the session was started in    *)
(* (CLAUDE_PROJECT_DIR), NoDir where the host does not say.                *)
(***************************************************************************)
IsProjectDir(d) == d = <<>> \/ IsScopeDir(d)

GitRoot(dir) ==
    LET repos == {a \in Above(dir) \cup {dir} : a # <<>> /\ a \in GitRoots}
    IN  IF repos = {} THEN NoDir
        ELSE CHOOSE a \in repos : \A b \in repos : Len(b) <= Len(a)

\* Neither home as a repository nor one above it counts for what is below.
MemoryRoot(start, cwd) ==
    LET git == GitRoot(cwd)
        counts == /\ git \notin {NoDir, Home}
                  /\ Under(cwd, Home) => Under(git, Home)
    IN  IF InSkill(cwd) THEN SkillDir(cwd)
        ELSE IF counts THEN git
        ELSE IF start # NoDir THEN start
        ELSE cwd

\* The root of the session: that of the place it was started in, for
\* everything below it.
SessionRoot(start, cwd) ==
    LET first == MemoryRoot(start, start)
    IN  IF start # NoDir /\ IsProjectDir(first) /\ Under(cwd, first) THEN first
        ELSE MemoryRoot(start, cwd)
=============================================================================
