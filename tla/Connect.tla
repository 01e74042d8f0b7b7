------------------------------- MODULE Connect -------------------------------
(***************************************************************************)
(* One machine asking another to share its memory: the asking side         *)
(* (src/src/replica/link.rs: ask, follow, settle, become_primary), the     *)
(* asked side's open request and decided ones                              *)
(* (src/src/http/connect/broker.rs) and the two files a decision lands in  *)
(* (src/src/http/connect/devices.rs), the gate that reads one of them      *)
(* (src/src/http/gate.rs), and the pull that uses the token and moves the  *)
(* cursor in the same `.replica.json` (src/src/replica/pull.rs).           *)
(*                                                                         *)
(* A request's token, its row in paired-devices.json and its id are one    *)
(* value, the request.  Handlers run on several threads: the load and the  *)
(* save of a shared list are two steps.                                    *)
(***************************************************************************)
EXTENDS Naturals, FiniteSets

CONSTANTS
    Machines,   \* machines that ask
    Hosts,      \* machines that may be asked (primaries)
    Requests,   \* requests to connect, each made at most once
    None,       \* no machine, host or request
    CanRevoke,  \* whether rows are revoked
    MaxFaults   \* bound: lost replies, restarts

ASSUME ConnectAssumption ==
    /\ None \notin Machines \cup Hosts \cup Requests
    /\ CanRevoke \in BOOLEAN
    /\ MaxFaults \in Nat

VARIABLES
    owner,      \* request -> the machine that made it
    host,       \* request -> the host it was made to
    ask,        \* request -> "new", "opened" (its reply is due), "following", "over"
    pending,    \* host -> the one request waiting for a click
    outcome,    \* request -> "none", "allowed" (token waiting), "handed", "denied"
    click,      \* request -> where the handler of its Allow is
    revoking,   \* request -> where the handler of its row's Revoke is
    paired,     \* host -> rows of paired-devices.json
    listed,     \* host -> rows of connect-devices.json
    denied,     \* host -> machines on the denied list
    read,       \* handler and request -> the list it loaded
    primary,    \* machine -> its .replica.json: the primary,
    token,      \*     the token,
    waiting,    \*     the request_id,
    cursor,     \*     the host whose changes the cursor counts
    answer,     \* request -> the status answer its follower is to settle
    pulling,    \* machine -> the host of the page being applied
    revoked,    \* ghost: rows a Revoke took out of paired-devices.json
    overwritten,\* ghost: rows a save of an older list dropped or brought back
    superseded, \* ghost: rows replaced by a later Allow of the same machine
    faults      \* faults so far

requestVars == <<owner, host, ask>>
brokerVars == <<pending, outcome>>
fileVars == <<paired, listed, denied>>
handlerVars == <<click, revoking, read>>
replicaVars == <<primary, token, waiting, cursor>>
ghostVars == <<revoked, overwritten, superseded>>
vars == <<requestVars, brokerVars, fileVars, handlerVars, replicaVars,
          answer, pulling, ghostVars, faults>>

Init ==
    /\ owner = [r \in Requests |-> None]
    /\ host = [r \in Requests |-> None]
    /\ ask = [r \in Requests |-> "new"]
    /\ pending = [h \in Hosts |-> None]
    /\ outcome = [r \in Requests |-> "none"]
    /\ click = [r \in Requests |-> "none"]
    /\ revoking = [r \in Requests |-> "none"]
    /\ paired = [h \in Hosts |-> {}]
    /\ listed = [h \in Hosts |-> {}]
    /\ denied = [h \in Hosts |-> {}]
    /\ read = [e \in {"allow", "revoke"} \X Requests |-> {}]
    /\ primary = [m \in Machines |-> None]
    /\ token = [m \in Machines |-> None]
    /\ waiting = [m \in Machines |-> None]
    /\ cursor = [m \in Machines |-> None]
    /\ answer = [r \in Requests |-> "none"]
    /\ pulling = [m \in Machines |-> None]
    /\ revoked = {}
    /\ overwritten = {}
    /\ superseded = {}
    /\ faults = 0

(* The asking machine *)

\* ask: POST /api/connect/request.  Its handler refuses a denied machine, and the
\* new request replaces the pending one.
Ask(r, m, h) ==
    /\ ask[r] = "new"
    /\ m \notin denied[h]
    /\ owner' = [owner EXCEPT ![r] = m]
    /\ host' = [host EXCEPT ![r] = h]
    /\ ask' = [ask EXCEPT ![r] = "opened"]
    /\ pending' = [pending EXCEPT ![h] = r]
    /\ UNCHANGED <<outcome, fileVars, handlerVars, replicaVars>>
    /\ UNCHANGED <<answer, pulling, ghostVars, faults>>

\* The reply: this machine is that host's replica from now on, and a task
\* follows the request.
Follow(r) ==
    /\ ask[r] = "opened"
    /\ ask' = [ask EXCEPT ![r] = "following"]
    /\ primary' = [primary EXCEPT ![owner[r]] = host[r]]
    /\ token' = [token EXCEPT ![owner[r]] = None]
    /\ cursor' = [cursor EXCEPT ![owner[r]] = None]
    /\ waiting' = [waiting EXCEPT ![owner[r]] = r]
    /\ UNCHANGED <<owner, host, brokerVars, fileVars, handlerVars>>
    /\ UNCHANGED <<answer, pulling, ghostVars, faults>>

\* There is no reply: nothing changes here.
AskUnanswered(r) ==
    /\ ask[r] = "opened"
    /\ faults < MaxFaults
    /\ faults' = faults + 1
    /\ ask' = [ask EXCEPT ![r] = "over"]
    /\ UNCHANGED <<owner, host, brokerVars, fileVars, handlerVars, replicaVars>>
    /\ UNCHANGED <<answer, pulling, ghostVars>>

\* Broker::status: a decided request first, then the pending one.
Status(r) ==
    CASE outcome[r] = "allowed" -> "token"
      [] outcome[r] = "handed"  -> "allowed"
      [] outcome[r] = "denied"  -> "denied"
      [] outcome[r] = "none" /\ pending[host[r]] = r -> "pending"
      [] OTHER -> "expired"

\* follow: one poll.  The token goes out with the first answer that has it.
Poll(r) ==
    /\ ask[r] = "following"
    /\ waiting[owner[r]] = r
    /\ answer[r] = "none"
    /\ Status(r) # "pending"
    /\ answer' = [answer EXCEPT ![r] = Status(r)]
    /\ outcome' = [outcome EXCEPT ![r] = IF @ = "allowed" THEN "handed" ELSE @]
    /\ UNCHANGED <<requestVars, pending, fileVars, handlerVars, replicaVars>>
    /\ UNCHANGED <<pulling, ghostVars, faults>>

\* The answer is lost on its way: the follower polls again.
AnswerLost(r) ==
    /\ answer[r] # "none"
    /\ ask[r] = "following"
    /\ faults < MaxFaults
    /\ faults' = faults + 1
    /\ answer' = [answer EXCEPT ![r] = "none"]
    /\ UNCHANGED <<requestVars, brokerVars, fileVars, handlerVars, replicaVars>>
    /\ UNCHANGED <<pulling, ghostVars>>

\* Broken variant of Current: the answer is taken for whatever is awaited now.
AnyRequest(r) == waiting[owner[r]] # None

\* finish: is this request still the one the file waits for?
Current(r) == waiting[owner[r]] = r

\* settle and finish: nothing changes unless the request is the current one.
Settle(r) ==
    /\ answer[r] # "none"
    /\ ask[r] = "following"
    /\ ask' = [ask EXCEPT ![r] = "over"]
    /\ \/ /\ Current(r)
          /\ waiting' = [waiting EXCEPT ![owner[r]] = None]
          /\ token' = [token EXCEPT ![owner[r]] =
                          IF answer[r] = "token" THEN r ELSE @]
       \/ /\ ~Current(r)
          /\ UNCHANGED <<waiting, token>>
    /\ UNCHANGED <<owner, host, brokerVars, fileVars, handlerVars>>
    /\ UNCHANGED <<primary, cursor, answer, pulling, ghostVars, faults>>

\* The follower ends: the request was replaced, or its 130 s are over (a pending
\* request lives 120 s).
GiveUp(r) ==
    /\ ask[r] = "following"
    /\ answer[r] = "none"
    /\ ~Current(r) \/ pending[host[r]] # r
    /\ ask' = [ask EXCEPT ![r] = "over"]
    /\ waiting' = [waiting EXCEPT ![owner[r]] = IF Current(r) THEN None ELSE @]
    /\ UNCHANGED <<owner, host, brokerVars, fileVars, handlerVars>>
    /\ UNCHANGED <<primary, token, cursor, answer, pulling, ghostVars, faults>>

\* PUT /api/sync/primary local.
BecomePrimary(m) ==
    /\ primary[m] # None
    /\ primary' = [primary EXCEPT ![m] = None]
    /\ token' = [token EXCEPT ![m] = None]
    /\ waiting' = [waiting EXCEPT ![m] = None]
    /\ cursor' = [cursor EXCEPT ![m] = None]
    /\ UNCHANGED <<requestVars, brokerVars, fileVars, handlerVars>>
    /\ UNCHANGED <<answer, pulling, ghostVars, faults>>

\* pull_all: a page of the primary the file names, past its gate ...
StartPull(m) ==
    /\ pulling[m] = None
    /\ token[m] # None
    /\ token[m] \in paired[primary[m]]
    /\ pulling' = [pulling EXCEPT ![m] = primary[m]]
    /\ UNCHANGED <<requestVars, brokerVars, fileVars, handlerVars, replicaVars>>
    /\ UNCHANGED <<answer, ghostVars, faults>>

\* ... is applied, and the cursor takes its number whatever the file says now.
FinishPull(m) ==
    /\ pulling[m] # None
    /\ cursor' = [cursor EXCEPT ![m] = pulling[m]]
    /\ pulling' = [pulling EXCEPT ![m] = None]
    /\ UNCHANGED <<requestVars, brokerVars, fileVars, handlerVars>>
    /\ UNCHANGED <<primary, token, waiting, answer, ghostVars, faults>>

\* The asking machine restarts from its file.  Nobody follows its request.
RestartMachine(m) ==
    /\ faults < MaxFaults
    /\ faults' = faults + 1
    /\ ask' = [r \in Requests |-> IF owner[r] = m THEN "over" ELSE ask[r]]
    /\ pulling' = [pulling EXCEPT ![m] = None]
    /\ UNCHANGED <<owner, host, brokerVars, fileVars, handlerVars, replicaVars>>
    /\ UNCHANGED <<answer, ghostVars>>

(* The asked machine *)

\* A request nobody clicked within two minutes is no longer live.
Expire(h) ==
    /\ pending[h] # None
    /\ pending' = [pending EXCEPT ![h] = None]
    /\ UNCHANGED <<requestVars, outcome, fileVars, handlerVars, replicaVars>>
    /\ UNCHANGED <<answer, pulling, ghostVars, faults>>

\* Ten minutes after its decision a request is forgotten.
Forget(r) ==
    /\ outcome[r] # "none"
    /\ ask[r] = "over"
    /\ outcome' = [outcome EXCEPT ![r] = "none"]
    /\ UNCHANGED <<requestVars, pending, fileVars, handlerVars, replicaVars>>
    /\ UNCHANGED <<answer, pulling, ghostVars, faults>>

\* Allow: the live request is taken off the table ...
Take(r) ==
    /\ ask[r] # "new"
    /\ pending[host[r]] = r
    /\ pending' = [pending EXCEPT ![host[r]] = None]
    /\ click' = [click EXCEPT ![r] = "taken"]
    /\ UNCHANGED <<outcome, revoking, read, requestVars, fileVars, replicaVars>>
    /\ UNCHANGED <<answer, pulling, ghostVars, faults>>

\* Deny: ... or put on the denied list.
Deny(r) ==
    /\ ask[r] # "new"
    /\ pending[host[r]] = r
    /\ pending' = [pending EXCEPT ![host[r]] = None]
    /\ outcome' = [outcome EXCEPT ![r] = "denied"]
    /\ denied' = [denied EXCEPT ![host[r]] = @ \cup {owner[r]}]
    /\ UNCHANGED <<requestVars, paired, listed, handlerVars, replicaVars>>
    /\ UNCHANGED <<answer, pulling, ghostVars, faults>>

\* undeny.
Undeny(h, m) ==
    /\ m \in denied[h]
    /\ denied' = [denied EXCEPT ![h] = @ \ {m}]
    /\ UNCHANGED <<requestVars, brokerVars, paired, listed, handlerVars>>
    /\ UNCHANGED <<replicaVars, answer, pulling, ghostVars, faults>>

\* Broken variant of WithRow: the other machines' rows go.
OnlyRow(rows, r) == {r}

\* What Allow makes of a list: the machine's row is this request's.
WithRow(rows, r) == {q \in rows : owner[q] # owner[r]} \cup {r}

\* devices::allow loads one of its two lists ...
AllowLoad(r) ==
    /\ \/ /\ click[r] = "taken"
          /\ read' = [read EXCEPT ![<<"allow", r>>] = paired[host[r]]]
          /\ click' = [click EXCEPT ![r] = "pairing"]
       \/ /\ click[r] = "paired"
          /\ read' = [read EXCEPT ![<<"allow", r>>] = listed[host[r]]]
          /\ click' = [click EXCEPT ![r] = "listing"]
    /\ UNCHANGED <<revoking, requestVars, brokerVars, fileVars, replicaVars>>
    /\ UNCHANGED <<answer, pulling, ghostVars, faults>>

\* What is undone in a list by a save of an older one: rows it did not read, and
\* rows dropped since.
Undone(old, seen) == (old \ seen) \cup (seen \ old)

\* ... and saves it with the new row.
AllowSave(r) ==
    LET h == host[r]
        seen == read[<<"allow", r>>]
    IN  /\ \/ /\ click[r] = "pairing"
              /\ paired' = [paired EXCEPT ![h] = WithRow(seen, r)]
              /\ overwritten' = overwritten \cup Undone(paired[h], seen)
              /\ superseded' = superseded \cup {q \in seen \ {r} : owner[q] = owner[r]}
              /\ click' = [click EXCEPT ![r] = "paired"]
              /\ UNCHANGED listed
           \/ /\ click[r] = "listing"
              /\ listed' = [listed EXCEPT ![h] = WithRow(seen, r)]
              /\ overwritten' = overwritten \cup Undone(listed[h], seen)
              /\ click' = [click EXCEPT ![r] = "listed"]
              /\ UNCHANGED <<paired, superseded>>
        /\ read' = [read EXCEPT ![<<"allow", r>>] = {}]
    /\ UNCHANGED <<revoking, requestVars, brokerVars, denied, replicaVars>>
    /\ UNCHANGED <<answer, pulling, revoked, faults>>

\* Broker::allow: the token is there to be asked for.
Allowed(r) ==
    /\ click[r] = "listed"
    /\ click' = [click EXCEPT ![r] = "done"]
    /\ outcome' = [outcome EXCEPT ![r] = "allowed"]
    /\ UNCHANGED <<revoking, read, requestVars, pending, fileVars, replicaVars>>
    /\ UNCHANGED <<answer, pulling, ghostVars, faults>>

\* Revoke of a row on this daemon's list: loads one of its two lists ...
RevokeLoad(r) ==
    /\ \/ /\ revoking[r] = "none"
          /\ CanRevoke
          /\ host[r] # None
          /\ r \in listed[host[r]]
          /\ read' = [read EXCEPT ![<<"revoke", r>>] = paired[host[r]]]
          /\ revoking' = [revoking EXCEPT ![r] = "unpairing"]
       \/ /\ revoking[r] = "unpaired"
          /\ read' = [read EXCEPT ![<<"revoke", r>>] = listed[host[r]]]
          /\ revoking' = [revoking EXCEPT ![r] = "unlisting"]
    /\ UNCHANGED <<click, requestVars, brokerVars, fileVars, replicaVars>>
    /\ UNCHANGED <<answer, pulling, ghostVars, faults>>

\* ... and saves it without the row.
RevokeSave(r) ==
    LET h == host[r]
        seen == read[<<"revoke", r>>]
    IN  /\ \/ /\ revoking[r] = "unpairing"
              /\ paired' = [paired EXCEPT ![h] = seen \ {r}]
              /\ overwritten' = overwritten \cup Undone(paired[h], seen)
              /\ revoking' = [revoking EXCEPT ![r] = "unpaired"]
              /\ revoked' = revoked \cup {r}
              /\ UNCHANGED listed
           \/ /\ revoking[r] = "unlisting"
              /\ listed' = [listed EXCEPT ![h] = seen \ {r}]
              /\ overwritten' = overwritten \cup Undone(listed[h], seen)
              /\ revoking' = [revoking EXCEPT ![r] = "done"]
              /\ UNCHANGED <<paired, revoked>>
        /\ read' = [read EXCEPT ![<<"revoke", r>>] = {}]
    /\ UNCHANGED <<click, requestVars, brokerVars, denied, replicaVars>>
    /\ UNCHANGED <<answer, pulling, superseded, faults>>

\* The asked machine restarts: what is in memory only is gone.
RestartHost(h) ==
    /\ faults < MaxFaults
    /\ faults' = faults + 1
    /\ pending' = [pending EXCEPT ![h] = None]
    /\ outcome' = [r \in Requests |-> IF host[r] = h THEN "none" ELSE outcome[r]]
    /\ click' = [r \in Requests |->
                    IF host[r] = h /\ click[r] # "none" THEN "done" ELSE click[r]]
    /\ revoking' = [r \in Requests |->
                    IF host[r] = h /\ revoking[r] # "done" THEN "none" ELSE revoking[r]]
    /\ read' = [e \in DOMAIN read |-> IF host[e[2]] = h THEN {} ELSE read[e]]
    /\ UNCHANGED <<requestVars, fileVars, replicaVars>>
    /\ UNCHANGED <<answer, pulling, ghostVars>>

Follower(r) == Poll(r) \/ Settle(r) \/ GiveUp(r)
Handler(r) == AllowLoad(r) \/ AllowSave(r) \/ Allowed(r) \/ RevokeSave(r)

Next ==
    \/ \E r \in Requests, m \in Machines, h \in Hosts : Ask(r, m, h)
    \/ \E r \in Requests :
          \/ Follow(r) \/ AskUnanswered(r) \/ AnswerLost(r)
          \/ Follower(r) \/ Handler(r)
          \/ Take(r) \/ Deny(r) \/ Forget(r) \/ RevokeLoad(r)
    \/ \E m \in Machines :
          BecomePrimary(m) \/ StartPull(m) \/ FinishPull(m) \/ RestartMachine(m)
    \/ \E h \in Hosts : Expire(h) \/ RestartHost(h)
    \/ \E h \in Hosts, m \in Machines : Undeny(h, m)

Spec == Init /\ [][Next]_vars

\* A follower polls every 2 s until its deadline, and a pending request expires:
\* both are clocks.  A handler that has begun goes on.
FairSpec ==
    /\ Spec
    /\ \A r \in Requests : WF_vars(Follower(r)) /\ WF_vars(Handler(r))
    /\ \A h \in Hosts : WF_vars(Expire(h))

-----------------------------------------------------------------------------
TypeOK ==
    /\ owner \in [Requests -> Machines \cup {None}]
    /\ host \in [Requests -> Hosts \cup {None}]
    /\ ask \in [Requests -> {"new", "opened", "following", "over"}]
    /\ pending \in [Hosts -> Requests \cup {None}]
    /\ outcome \in [Requests -> {"none", "allowed", "handed", "denied"}]
    /\ click \in [Requests -> {"none", "taken", "pairing", "paired", "listing",
                               "listed", "done"}]
    /\ revoking \in [Requests -> {"none", "unpairing", "unpaired", "unlisting", "done"}]
    /\ paired \in [Hosts -> SUBSET Requests]
    /\ listed \in [Hosts -> SUBSET Requests]
    /\ denied \in [Hosts -> SUBSET Machines]
    /\ read \in [{"allow", "revoke"} \X Requests -> SUBSET Requests]
    /\ primary \in [Machines -> Hosts \cup {None}]
    /\ token \in [Machines -> Requests \cup {None}]
    /\ waiting \in [Machines -> Requests \cup {None}]
    /\ cursor \in [Machines -> Hosts \cup {None}]
    /\ answer \in [Requests -> {"none", "token", "allowed", "denied", "expired"}]
    /\ pulling \in [Machines -> Hosts \cup {None}]
    /\ revoked \in SUBSET Requests
    /\ overwritten \in SUBSET Requests
    /\ superseded \in SUBSET Requests
    /\ faults \in Nat

\* A token in .replica.json was issued to this machine by the primary the file
\* names, and nobody can ask for it again: no late answer to a request that was
\* replaced or cancelled gets in.
TokenFits ==
    \A m \in Machines :
        token[m] # None =>
            /\ owner[token[m]] = m
            /\ host[token[m]] = primary[m]
            /\ outcome[token[m]] # "allowed"

\* The token a machine holds opens its primary's gate, unless the row was
\* revoked, replaced by a later Allow, or undone by the save of an older list.
TokenWorks ==
    \A m \in Machines :
        token[m] # None =>
            \/ token[m] \in paired[primary[m]]
            \/ token[m] \in revoked \cup overwritten \cup superseded

\* No request is waited for for ever, restarts included.  (It does not hold: a
\* restart drops the follower and keeps request_id.)
WaitAlwaysEnds ==
    \A r \in Requests, m \in Machines : waiting[m] = r ~> waiting[m] # r

\* A request is waited for until it is decided, replaced or out of time, whatever
\* is asked and clicked meanwhile, if no daemon restarts and no answer is lost.
WaitEnds == [](faults = 0) => WaitAlwaysEnds

\* state.rs: `cursor` is "The last change sequence applied from the primary".
CursorOfPrimary ==
    \A m \in Machines : cursor[m] # None => cursor[m] = primary[m]

\* link.rs: "On Allow the token lands in `.replica.json`": a follower is not told
\* that a request expired which was in fact allowed.
AllowedNotExpired ==
    \A r \in Requests : outcome[r] = "allowed" => answer[r] # "expired"

\* gate.rs: "a device revoked on the Mac must stop working now".
RevokedStaysOut ==
    \A h \in Hosts : paired[h] \cap revoked = {}
=============================================================================
