----------------------------- MODULE Telemetry -----------------------------
(***************************************************************************)
(* What the daemon counts about its own use (src/src/telemetry): one       *)
(* `command` event a day, one `install` event for a first start or a new   *)
(* version, and the daily digest, whose counts stay in a file until their  *)
(* day is over.  Two files are each written in place, emptied and then     *)
(* filled: the digest under a lock, the product's state under none.        *)
(*                                                                         *)
(* Every count is followed on its own, as a number; a day's counts are a   *)
(* set of them.  Posts of events are fire and forget; a digest's answer    *)
(* may be lost, or come after the client's three seconds.                  *)
(***************************************************************************)
EXTENDS Naturals, Sequences, FiniteSets

CONSTANTS
    Calls,      \* memory calls that may be under way at once
    Versions,   \* of the program, 1 .. n: each start may be an upgrade
    Backlog,    \* completed days that are kept for sending
    Days,       \* bound: UTC days, 1 .. n
    MaxCounts,  \* bound: counts that are followed
    MaxFails,   \* bound: posts of a digest that fail
    MaxStops,   \* bound: times the daemon is stopped or killed
    Torn,       \* a file that was emptied and not filled
    Boot, Task, Nobody

ASSUME TelemetryAssumption ==
    /\ {Backlog, MaxCounts} \subseteq Nat \ {0} /\ {MaxFails, MaxStops} \subseteq Nat
    /\ Days = 1 .. Cardinality(Days) /\ Versions = 1 .. Cardinality(Versions)
    /\ {1, 2} \subseteq Days /\ 1 \in Versions
    /\ {Boot, Task, Nobody} \cap Calls = {}
    /\ Boot # Task /\ Boot # Nobody /\ Task # Nobody
    /\ Torn \notin [Days -> SUBSET (1 .. MaxCounts)]

VARIABLES
    today,
    version,    \* of the program that runs, or ran last
    digest,     \* the digest's file: day -> counts, or Torn
    product,    \* the state file: [version, day], or Torn
    days,       \* day -> counts, as the daemon holds them
    lock,       \* who holds the digest and the posts it has taken
    at,         \* the daemon's start and each request: how far it is
    posts,      \* digests sent and not done with
    counted,    \* ghost: the day of every count
    received,   \* counts that reached the server, how often
    unsure,     \* ghost: counts whose post arrived and whose answer did not
    lost,       \* ghost: counts that died with the daemon or were dropped
    commands,   \* days of which a command event was sent
    cut,        \* ghost: days whose event died with the daemon
    installed,  \* an event of a first installation was sent
    fails, stops

diskVars == <<digest, product>>
netVars == <<posts, received, unsure, fails>>
eventVars == <<commands, installed>>
telVars == <<today, version, diskVars, days, lock, at, netVars, counted, lost, eventVars, cut, stops>>
-----------------------------------------------------------------------------
Actors == Calls \cup {Boot}
Counts == 1 .. MaxCounts
NoDays == [d \in Days |-> {}]
Unset == [version |-> 0, day |-> 0]
Free == [by |-> Nobody, posts |-> {}]
Idle == [at |-> "idle"]

\* Cannot be read: as if nothing had been written.
Load(file) == IF file = Torn THEN Unset ELSE file
LoadDays(file) == IF file = Torn THEN NoDays ELSE file

All(ds) == UNION {ds[d] : d \in Days}
Up == at[Boot].at = "up"

\* fs::write over a file another may have filled since it was emptied: what is
\* left of a longer text spoils the shorter.
Filled(file, mine) ==
    {mine} \cup (IF file # Torn /\ file.version # mine.version THEN {Torn} ELSE {})

\* take_completed: the days that are over, the newest Backlog of them to be sent.
Completed == {d \in Days : d < today /\ days[d] # {}}
Kept(ds) == {d \in ds : Cardinality({e \in ds : e > d}) < Backlog}
Taken(ds) == [d \in Days |-> IF d \in ds THEN {} ELSE days[d]]

\* Broken variant: days in flight stay in the books.
TakenNone(ds) == days
Remaining(ds) == Taken(ds)

\* restore: merged into what is there.
Merged(p) == [days EXCEPT ![p.day] = @ \cup p.counts]

\* Broken variant: a failed post is forgotten.
MergedNone(p) == days
Restored(p) == Merged(p)

\* launch writes the version and leaves the rest.
LaunchState(seen) == [seen EXCEPT !.version = version]

\* Broken variant: it takes the start for a command.
LaunchStateToday(seen) == [version |-> version, day |-> today]
Launched(seen) == LaunchState(seen)

\* The program was used on the first day, and stopped.
TelInit ==
    /\ today = 2 /\ version = 1
    /\ counted = <<1>> /\ digest = [NoDays EXCEPT ![1] = {1}]
    /\ product = [version |-> 1, day |-> 1]
    /\ commands = {1} /\ installed = TRUE
    /\ days = NoDays /\ lock = Free
    /\ at = [a \in Actors |-> Idle]
    /\ posts = {} /\ received = [c \in Counts |-> 0]
    /\ unsure = {} /\ lost = {} /\ cut = {}
    /\ fails = 0 /\ stops = 0
-----------------------------------------------------------------------------
(***************************************************************************)
(* The digest.  Under the lock its days are changed and the file emptied,  *)
(* then filled.                                                            *)
(***************************************************************************)
Change(actor, ds, taken) ==
    /\ lock = Free
    /\ days' = ds
    /\ digest' = Torn
    /\ lock' = [by |-> actor, posts |-> taken]

Saved ==
    /\ lock # Free
    /\ digest' = days
    /\ lock' = Free
    /\ posts' = posts \cup lock.posts
    /\ at' = IF lock.by = Task THEN at
             ELSE IF lock.by = Boot THEN [at EXCEPT ![Boot] = [at |-> "up"]]
             ELSE [at EXCEPT ![lock.by] =
                    IF at[lock.by].at = "count" THEN [at |-> "ship"] ELSE Idle]
    /\ UNCHANGED <<today, version, product, days, received, unsure, fails, counted, lost,
                   eventVars, cut, stops>>

\* bump.  A request that is not followed counts nothing.
Bump(r) ==
    /\ at[r].at = "count"
    /\ lock = Free
    /\ IF Len(counted) < MaxCounts
       THEN /\ Change(r, [days EXCEPT ![today] = @ \cup {Len(counted) + 1}], {})
            /\ counted' = Append(counted, today)
            /\ UNCHANGED at
       ELSE /\ at' = [at EXCEPT ![r] = [at |-> "ship"]]
            /\ UNCHANGED <<days, digest, lock, counted>>
    /\ UNCHANGED <<today, version, product, netVars, lost, eventVars, cut, stops>>

\* ship_digests, of a request and of a start.
Ship(a) ==
    /\ at[a].at = "ship"
    /\ lock = Free
    /\ IF Completed = {}
       THEN /\ at' = [at EXCEPT ![a] = IF a = Boot THEN [at |-> "up"] ELSE Idle]
            /\ UNCHANGED <<days, digest, lock, lost>>
       ELSE /\ Change(a, Remaining(Completed),
                      {[day |-> d, counts |-> days[d], at |-> "sent"] : d \in Kept(Completed)})
            /\ lost' = lost \cup UNION {days[d] : d \in Completed \ Kept(Completed)}
            /\ UNCHANGED at
    /\ UNCHANGED <<today, version, product, netVars, counted, eventVars, cut, stops>>

Arrive(p) ==
    /\ p.at = "sent"
    /\ posts' = (posts \ {p}) \cup {[p EXCEPT !.at = "arrived"]}
    /\ received' = [c \in Counts |-> received[c] + IF c \in p.counts THEN 1 ELSE 0]
    /\ UNCHANGED <<today, version, diskVars, days, lock, at, unsure, fails, counted, lost,
                   eventVars, cut, stops>>

Answer(p) ==
    /\ p.at = "arrived"
    /\ posts' = posts \ {p}
    /\ UNCHANGED <<today, version, diskVars, days, lock, at, received, unsure, fails, counted,
                   lost, eventVars, cut, stops>>

\* No connection, an error, or no answer in time.
Fail(p) ==
    /\ p.at \in {"sent", "arrived"} /\ fails < MaxFails
    /\ fails' = fails + 1
    /\ posts' = (posts \ {p}) \cup {[p EXCEPT !.at = "failed"]}
    /\ unsure' = unsure \cup (IF p.at = "arrived" THEN p.counts ELSE {})
    /\ UNCHANGED <<today, version, diskVars, days, lock, at, received, counted, lost,
                   eventVars, cut, stops>>

Restore(p) ==
    /\ p.at = "failed"
    /\ Change(Task, Restored(p), {})
    /\ posts' = posts \ {p}
    /\ UNCHANGED <<today, version, product, at, received, unsure, fails, counted, lost,
                   eventVars, cut, stops>>
-----------------------------------------------------------------------------
(***************************************************************************)
(* The state file.                                                         *)
(***************************************************************************)
\* A memory call has been answered, and its layer goes on: command reads the
\* file.
Command(r) ==
    /\ Up /\ at[r] = Idle
    /\ at' = [at EXCEPT ![r] =
                IF Load(product).day = today THEN [at |-> "count"]
                ELSE [at |-> "noting", seen |-> [Load(product) EXCEPT !.day = today]]]
    /\ UNCHANGED <<today, version, diskVars, days, lock, netVars, counted, lost, eventVars, cut, stops>>

Empty(a) ==
    /\ at[a].at = "noting"
    /\ product' = Torn
    /\ at' = [at EXCEPT ![a].at = "filling"]
    /\ UNCHANGED <<today, version, digest, days, lock, netVars, counted, lost, eventVars, cut, stops>>

\* What a start has written it follows with the digests, a request with its event.
Fill(a) ==
    /\ at[a].at = "filling"
    /\ product' \in Filled(product, at[a].seen)
    /\ at' = [at EXCEPT ![a] = IF a = Boot THEN [at |-> "ship"]
                               ELSE [at |-> "sending", day |-> at[a].seen.day]]
    /\ UNCHANGED <<today, version, digest, days, lock, netVars, counted, lost, eventVars, cut, stops>>

Send(r) ==
    /\ at[r].at = "sending"
    /\ commands' = commands \cup {at[r].day}
    /\ at' = [at EXCEPT ![r] = [at |-> "count"]]
    /\ UNCHANGED <<today, version, diskVars, days, lock, netVars, counted, lost, installed, cut, stops>>

\* A daemon of this version or a later one starts: Digest::load, then launch,
\* which sends its event before it writes the version down.
Start ==
    /\ at[Boot] = Idle
    /\ version' \in {v \in Versions : v >= version}
    /\ days' = LoadDays(digest)
    /\ at' = [at EXCEPT ![Boot] = [at |-> "launch"]]
    /\ UNCHANGED <<today, diskVars, lock, netVars, counted, lost, eventVars, cut, stops>>

Launch ==
    /\ at[Boot].at = "launch"
    /\ LET seen == Load(product)
       IN  /\ installed' = (installed \/ seen.version = 0)
           /\ at' = [at EXCEPT ![Boot] = [at |-> "noting", seen |-> Launched(seen)]]
    /\ UNCHANGED <<today, version, diskVars, days, lock, netVars, counted, lost,
                   commands, cut, stops>>

\* The daemon ends, and with it the posts and whoever holds the lock.
Stop ==
    /\ at[Boot] # Idle /\ stops < MaxStops
    /\ stops' = stops + 1
    /\ at' = [a \in Actors |-> Idle]
    /\ lock' = Free
    /\ posts' = {}
    /\ days' = NoDays
    /\ lost' = lost \cup (UNION {p.counts : p \in {p \in posts \cup lock.posts : p.at # "arrived"}})
                    \cup (IF digest = Torn THEN All(days) ELSE {})
    /\ cut' = cut \cup {at[r].day : r \in {r \in Calls : at[r].at = "sending"}}
    /\ UNCHANGED <<today, version, diskVars, received, unsure, fails, counted, eventVars>>

NewDay ==
    /\ today + 1 \in Days
    /\ today' = today + 1
    /\ UNCHANGED <<version, diskVars, days, lock, at, netVars, counted, lost, eventVars, cut, stops>>
-----------------------------------------------------------------------------
Requesting(r) == Command(r) \/ Bump(r) \/ Send(r)
Writing(a) == Empty(a) \/ Fill(a) \/ Ship(a)
Sending == \E p \in posts : Arrive(p) \/ Answer(p) \/ Restore(p)
Starting == Start \/ Launch

TelNext ==
    \/ \E r \in Calls : Requesting(r)
    \/ \E a \in Actors : Writing(a)
    \/ \E p \in posts : Fail(p)
    \/ Sending \/ Starting \/ Saved \/ Stop \/ NewDay

\* The user goes on using the memory, and what the daemon began it ends.
Fairness ==
    /\ WF_telVars(\E r \in Calls : Requesting(r) \/ Writing(r))
    /\ WF_telVars(Starting \/ Writing(Boot))
    /\ WF_telVars(Sending \/ Saved)

TelSpec == TelInit /\ [][TelNext]_telVars /\ Fairness
-----------------------------------------------------------------------------
\* Where a count is.
InBooks(c) == \E d \in Days : c \in days[d]
Saves(c) == digest # Torn /\ \E d \in Days : c \in digest[d]
Flying(c) == \E p \in posts \cup lock.posts : c \in p.counts /\ p.at # "arrived"
Running == at[Boot].at \notin {"idle"}

\* What has been counted is in the books, in a post or received, across
\* failures, stops and files cut short, unless the daemon died with it or more
\* days than the backlog had passed.
CountsKept ==
    \A c \in 1 .. Len(counted) :
        \/ IF Running THEN InBooks(c) ELSE Saves(c)
        \/ Flying(c) \/ received[c] > 0 \/ c \in lost

\* A count is never sent again, unless the answer to a post that had arrived
\* was lost; and a count that waits is still under the day it was made on.
SentOnce ==
    /\ \A c \in Counts \ unsure : received[c] <= 1 /\ (received[c] = 1 => ~InBooks(c) /\ ~Flying(c))
    /\ \A d \in Days, c \in Counts : c \in days[d] => counted[c] = d

\* A day that is written down has its event, however requests overlap, unless
\* the daemon died between the two.
DaysNoted ==
    LET d == Load(product).day
        sending == {at[r].day : r \in {r \in Calls : at[r].at = "sending"}}
    IN  d # 0 => d \in commands \cup sending \cup cut

\* Use goes on and the network is back: every day that is over is delivered.
DaysShipped == []<>(Running /\ Completed = {} /\ posts = {})
-----------------------------------------------------------------------------
(***************************************************************************)
(* What the comments say and the code does not keep (README).              *)
(***************************************************************************)
\* The removal before the post guards against sending twice.
NeverTwice == \A c \in Counts : received[c] <= 1

\* The command event fires at most once a day.
NotedOnce == [][\A r \in Calls : Send(r) => at[r].day \notin commands]_telVars

\* There is one first launch.
InstalledOnce == [][Launch /\ installed => Load(product).version # 0]_telVars

=============================================================================
