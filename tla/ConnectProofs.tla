---------------------------- MODULE ConnectProofs ----------------------------
(***************************************************************************)
(* What a stored token is, for any machines, hosts, requests and faults;   *)
(* and, in the second half, what becomes of the daemon's counts, for any   *)
(* calls, days, failures and stops.                                        *)
(***************************************************************************)
EXTENDS Connect, Telemetry, TLAPS

-----------------------------------------------------------------------------
\* The inductive invariant.

\* A request that was not made has no machine, no host and no history.
Made ==
    \A r \in Requests :
        IF ask[r] = "new"
        THEN /\ owner[r] = None /\ host[r] = None
             /\ click[r] = "none" /\ revoking[r] = "none"
             /\ outcome[r] = "none" /\ answer[r] = "none"
        ELSE owner[r] \in Machines /\ host[r] \in Hosts

\* What a machine waits for is its own request, to the primary its file names.
Waits ==
    \A m \in Machines :
        waiting[m] # None =>
            /\ ask[waiting[m]] # "new"
            /\ owner[waiting[m]] = m
            /\ host[waiting[m]] = primary[m]

\* The request on a host's table was made to it and was not clicked.
Open ==
    \A h \in Hosts :
        pending[h] # None =>
            /\ ask[pending[h]] # "new"
            /\ host[pending[h]] = h
            /\ click[pending[h]] = "none"

\* A token that can be asked for is there once, at the end of its Allow.
Once ==
    \A r \in Requests :
        /\ outcome[r] \in {"allowed", "handed"} => click[r] = "done"
        /\ answer[r] = "token" => click[r] = "done" /\ outcome[r] # "allowed"

\* A stored token came from such an answer.
Stored ==
    \A m \in Machines :
        token[m] # None =>
            /\ ask[token[m]] # "new"
            /\ owner[token[m]] = m
            /\ host[token[m]] = primary[m]
            /\ click[token[m]] = "done"
            /\ outcome[token[m]] # "allowed"

\* The row of a request is in its host's file from the first save of its Allow.
Issued(r) ==
    \/ click[r] \in {"paired", "listing", "listed"}
    \/ outcome[r] \in {"allowed", "handed"}
    \/ answer[r] = "token"
    \/ \E m \in Machines : token[m] = r

Gone == revoked \cup overwritten \cup superseded

Rowed == \A r \in Requests : Issued(r) => r \in paired[host[r]] \cup Gone

IInv == TypeOK /\ Made /\ Waits /\ Open /\ Once /\ Stored /\ Rowed
-----------------------------------------------------------------------------
LEMMA StartsRight == Init => IInv
BY ConnectAssumption DEF Init, IInv, TypeOK, Made, Waits, Open, Once, Stored, Rowed, Issued

LEMMA TypingStep == TypeOK /\ Made /\ [Next]_vars => TypeOK'
<1> SUFFICES ASSUME TypeOK, Made, [Next]_vars PROVE TypeOK'
  OBVIOUS
<1> USE ConnectAssumption DEF requestVars, brokerVars, fileVars, handlerVars, replicaVars,
     ghostVars
<1>1. ASSUME NEW r \in Requests, NEW m \in Machines, NEW h \in Hosts, Ask(r, m, h)
    PROVE TypeOK'
  BY <1>1 DEF Ask, TypeOK, Made
<1>2. ASSUME NEW r \in Requests, Follow(r) PROVE TypeOK'
  BY <1>2 DEF Follow, TypeOK, Made
<1>3. ASSUME NEW r \in Requests, AskUnanswered(r) PROVE TypeOK'
  BY <1>3 DEF AskUnanswered, TypeOK, Made
<1>4. ASSUME NEW r \in Requests, Poll(r) PROVE TypeOK'
  BY <1>4 DEF Poll, TypeOK, Made, Status
<1>5. ASSUME NEW r \in Requests, AnswerLost(r) PROVE TypeOK'
  BY <1>5 DEF AnswerLost, TypeOK, Made
<1>6. ASSUME NEW r \in Requests, Settle(r) PROVE TypeOK'
  BY <1>6 DEF Settle, TypeOK, Made, Current
<1>7. ASSUME NEW r \in Requests, GiveUp(r) PROVE TypeOK'
  BY <1>7 DEF GiveUp, TypeOK, Made, Current
<1>8. ASSUME NEW r \in Requests, Forget(r) PROVE TypeOK'
  BY <1>8 DEF Forget, TypeOK, Made
<1>9. ASSUME NEW r \in Requests, Take(r) PROVE TypeOK'
  BY <1>9 DEF Take, TypeOK, Made
<1>10. ASSUME NEW r \in Requests, Deny(r) PROVE TypeOK'
  BY <1>10 DEF Deny, TypeOK, Made
<1>11. ASSUME NEW r \in Requests, AllowLoad(r) PROVE TypeOK'
  <2>1. host[r] \in Hosts /\ <<"allow", r>> \in {"allow", "revoke"} \X Requests
    BY <1>11 DEF AllowLoad, TypeOK, Made
  <2>2. paired[host[r]] \in SUBSET Requests /\ listed[host[r]] \in SUBSET Requests
    BY <2>1 DEF TypeOK
  <2>3. read' \in [{"allow", "revoke"} \X Requests -> SUBSET Requests]
    <3>1. PICK s \in SUBSET Requests : read' = [read EXCEPT ![<<"allow", r>>] = s]
      BY <1>11, <2>2 DEF AllowLoad
    <3> QED BY <2>1, <3>1 DEF TypeOK
  <2>4. click' \in [Requests -> {"none", "taken", "pairing", "paired", "listing",
                             "listed", "done"}]
    <3>1. PICK c \in {"pairing", "listing"} : click' = [click EXCEPT ![r] = c]
      BY <1>11 DEF AllowLoad
    <3> QED BY <3>1 DEF TypeOK
  <2> QED BY <1>11, <2>3, <2>4 DEF AllowLoad, TypeOK
<1>12. ASSUME NEW r \in Requests, AllowSave(r) PROVE TypeOK'
  <2>1. host[r] \in Hosts /\ <<"allow", r>> \in {"allow", "revoke"} \X Requests
    BY <1>12 DEF AllowSave, TypeOK, Made
  <2>2. /\ read[<<"allow", r>>] \in SUBSET Requests
        /\ paired[host[r]] \in SUBSET Requests /\ listed[host[r]] \in SUBSET Requests
    BY <2>1 DEF TypeOK
  <2>3. PICK rows \in SUBSET Requests : rows = WithRow(read[<<"allow", r>>], r)
    BY <2>2 DEF WithRow, TypeOK
  <2>4. read' \in [{"allow", "revoke"} \X Requests -> SUBSET Requests]
    <3>1. PICK s \in SUBSET Requests : read' = [read EXCEPT ![<<"allow", r>>] = s]
      BY <1>12 DEF AllowSave
    <3> QED BY <2>1, <3>1 DEF TypeOK
  <2>5. click' \in [Requests -> {"none", "taken", "pairing", "paired", "listing",
                             "listed", "done"}]
    BY <1>12 DEF AllowSave, TypeOK
  <2>6. /\ \/ paired' = [paired EXCEPT ![host[r]] = rows]
           \/ UNCHANGED paired
        /\ \/ listed' = [listed EXCEPT ![host[r]] = rows]
           \/ UNCHANGED listed
    BY <1>12, <2>3 DEF AllowSave
  <2>7. paired' \in [Hosts -> SUBSET Requests] /\ listed' \in [Hosts -> SUBSET Requests]
    BY <2>6 DEF TypeOK
  <2>8. /\ revoked' \in SUBSET Requests /\ overwritten' \in SUBSET Requests
        /\ superseded' \in SUBSET Requests
    BY <1>12, <2>2 DEF AllowSave, Undone, TypeOK
  <2> QED BY <1>12, <2>4, <2>5, <2>7, <2>8 DEF AllowSave, TypeOK
<1>13. ASSUME NEW r \in Requests, Allowed(r) PROVE TypeOK'
  BY <1>13 DEF Allowed, TypeOK, Made
<1>14. ASSUME NEW r \in Requests, RevokeLoad(r) PROVE TypeOK'
  <2>1. host[r] \in Hosts /\ <<"revoke", r>> \in {"allow", "revoke"} \X Requests
    BY <1>14 DEF RevokeLoad, TypeOK, Made
  <2>2. paired[host[r]] \in SUBSET Requests /\ listed[host[r]] \in SUBSET Requests
    BY <2>1 DEF TypeOK
  <2>3. read' \in [{"allow", "revoke"} \X Requests -> SUBSET Requests]
    <3>1. PICK s \in SUBSET Requests : read' = [read EXCEPT ![<<"revoke", r>>] = s]
      BY <1>14, <2>2 DEF RevokeLoad
    <3> QED BY <2>1, <3>1 DEF TypeOK
  <2>4. revoking' \in [Requests -> {"none", "unpairing", "unpaired", "unlisting", "done"}]
    BY <1>14 DEF RevokeLoad, TypeOK
  <2> QED BY <1>14, <2>3, <2>4 DEF RevokeLoad, TypeOK
<1>15. ASSUME NEW r \in Requests, RevokeSave(r) PROVE TypeOK'
  <2>1. host[r] \in Hosts /\ <<"revoke", r>> \in {"allow", "revoke"} \X Requests
    BY <1>15 DEF RevokeSave, TypeOK, Made
  <2>2. /\ read[<<"revoke", r>>] \in SUBSET Requests
        /\ paired[host[r]] \in SUBSET Requests /\ listed[host[r]] \in SUBSET Requests
    BY <2>1 DEF TypeOK
  <2>3. PICK rows \in SUBSET Requests : rows = read[<<"revoke", r>>] \ {r}
    BY <2>2 DEF TypeOK
  <2>4. read' \in [{"allow", "revoke"} \X Requests -> SUBSET Requests]
    <3>1. PICK s \in SUBSET Requests : read' = [read EXCEPT ![<<"revoke", r>>] = s]
      BY <1>15 DEF RevokeSave
    <3> QED BY <2>1, <3>1 DEF TypeOK
  <2>5. revoking' \in [Requests -> {"none", "unpairing", "unpaired", "unlisting", "done"}]
    BY <1>15 DEF RevokeSave, TypeOK
  <2>6. /\ \/ paired' = [paired EXCEPT ![host[r]] = rows]
           \/ UNCHANGED paired
        /\ \/ listed' = [listed EXCEPT ![host[r]] = rows]
           \/ UNCHANGED listed
    BY <1>15, <2>3 DEF RevokeSave
  <2>7. paired' \in [Hosts -> SUBSET Requests] /\ listed' \in [Hosts -> SUBSET Requests]
    BY <2>6 DEF TypeOK
  <2>8. /\ revoked' \in SUBSET Requests /\ overwritten' \in SUBSET Requests
        /\ superseded' \in SUBSET Requests
    BY <1>15, <2>2 DEF RevokeSave, Undone, TypeOK
  <2> QED BY <1>15, <2>4, <2>5, <2>7, <2>8 DEF RevokeSave, TypeOK
<1>16. ASSUME NEW m \in Machines, BecomePrimary(m) PROVE TypeOK'
  BY <1>16 DEF BecomePrimary, TypeOK, Made
<1>17. ASSUME NEW m \in Machines, StartPull(m) PROVE TypeOK'
  BY <1>17 DEF StartPull, TypeOK, Made
<1>18. ASSUME NEW m \in Machines, FinishPull(m) PROVE TypeOK'
  BY <1>18 DEF FinishPull, TypeOK, Made
<1>19. ASSUME NEW m \in Machines, RestartMachine(m) PROVE TypeOK'
  BY <1>19 DEF RestartMachine, TypeOK, Made
<1>20. ASSUME NEW h \in Hosts, Expire(h) PROVE TypeOK'
  BY <1>20 DEF Expire, TypeOK, Made
<1>21. ASSUME NEW h \in Hosts, RestartHost(h) PROVE TypeOK'
  BY <1>21 DEF RestartHost, TypeOK, Made
<1>22. ASSUME NEW h \in Hosts, NEW m \in Machines, Undeny(h, m) PROVE TypeOK'
  BY <1>22 DEF Undeny, TypeOK, Made
<1>23. ASSUME UNCHANGED vars PROVE TypeOK'
  BY <1>23 DEF vars, TypeOK, Made
<1> QED BY <1>1, <1>2, <1>3, <1>4, <1>5, <1>6, <1>7, <1>8, <1>9, <1>10, <1>11, <1>12,
     <1>13, <1>14, <1>15, <1>16, <1>17, <1>18, <1>19, <1>20, <1>21, <1>22, <1>23 DEF Next,
          Follower, Handler

LEMMA MadeStep == TypeOK /\ Made /\ Open /\ [Next]_vars => Made'
<1> SUFFICES ASSUME TypeOK, Made, Open, [Next]_vars PROVE Made'
  OBVIOUS
<1> USE ConnectAssumption DEF requestVars, brokerVars, fileVars, handlerVars, replicaVars,
     ghostVars
<1>1. ASSUME NEW r \in Requests, NEW m \in Machines, NEW h \in Hosts, Ask(r, m, h)
    PROVE Made'
  BY <1>1 DEF Ask, TypeOK, Made
<1>2. ASSUME NEW r \in Requests, Follow(r) PROVE Made'
  BY <1>2 DEF Follow, TypeOK, Made
<1>3. ASSUME NEW r \in Requests, AskUnanswered(r) PROVE Made'
  BY <1>3 DEF AskUnanswered, TypeOK, Made
<1>4. ASSUME NEW r \in Requests, Poll(r) PROVE Made'
  BY <1>4 DEF Poll, TypeOK, Made, Status
<1>5. ASSUME NEW r \in Requests, AnswerLost(r) PROVE Made'
  BY <1>5 DEF AnswerLost, TypeOK, Made
<1>6. ASSUME NEW r \in Requests, Settle(r) PROVE Made'
  BY <1>6 DEF Settle, TypeOK, Made, Current
<1>7. ASSUME NEW r \in Requests, GiveUp(r) PROVE Made'
  BY <1>7 DEF GiveUp, TypeOK, Made, Current
<1>8. ASSUME NEW r \in Requests, Forget(r) PROVE Made'
  BY <1>8 DEF Forget, TypeOK, Made
<1>9. ASSUME NEW r \in Requests, Take(r) PROVE Made'
  BY <1>9 DEF Take, TypeOK, Made
<1>10. ASSUME NEW r \in Requests, Deny(r) PROVE Made'
  BY <1>10 DEF Deny, TypeOK, Made
<1>11. ASSUME NEW r \in Requests, AllowLoad(r) PROVE Made'
  BY <1>11 DEF AllowLoad, TypeOK, Made
<1>12. ASSUME NEW r \in Requests, AllowSave(r) PROVE Made'
  BY <1>12 DEF AllowSave, TypeOK, Made
<1>13. ASSUME NEW r \in Requests, Allowed(r) PROVE Made'
  BY <1>13 DEF Allowed, TypeOK, Made
<1>14. ASSUME NEW r \in Requests, RevokeLoad(r) PROVE Made'
  BY <1>14 DEF RevokeLoad, TypeOK, Made
<1>15. ASSUME NEW r \in Requests, RevokeSave(r) PROVE Made'
  BY <1>15 DEF RevokeSave, TypeOK, Made
<1>16. ASSUME NEW m \in Machines, BecomePrimary(m) PROVE Made'
  BY <1>16 DEF BecomePrimary, TypeOK, Made
<1>17. ASSUME NEW m \in Machines, StartPull(m) PROVE Made'
  BY <1>17 DEF StartPull, TypeOK, Made
<1>18. ASSUME NEW m \in Machines, FinishPull(m) PROVE Made'
  BY <1>18 DEF FinishPull, TypeOK, Made
<1>19. ASSUME NEW m \in Machines, RestartMachine(m) PROVE Made'
  BY <1>19 DEF RestartMachine, TypeOK, Made
<1>20. ASSUME NEW h \in Hosts, Expire(h) PROVE Made'
  BY <1>20 DEF Expire, TypeOK, Made
<1>21. ASSUME NEW h \in Hosts, RestartHost(h) PROVE Made'
  BY <1>21 DEF RestartHost, TypeOK, Made
<1>22. ASSUME NEW h \in Hosts, NEW m \in Machines, Undeny(h, m) PROVE Made'
  BY <1>22 DEF Undeny, TypeOK, Made
<1>23. ASSUME UNCHANGED vars PROVE Made'
  BY <1>23 DEF vars, TypeOK, Made
<1> QED BY <1>1, <1>2, <1>3, <1>4, <1>5, <1>6, <1>7, <1>8, <1>9, <1>10, <1>11, <1>12,
     <1>13, <1>14, <1>15, <1>16, <1>17, <1>18, <1>19, <1>20, <1>21, <1>22, <1>23 DEF Next,
          Follower, Handler

LEMMA WaitsStep == TypeOK /\ Made /\ Waits /\ [Next]_vars => Waits'
<1> SUFFICES ASSUME TypeOK, Made, Waits, [Next]_vars PROVE Waits'
  OBVIOUS
<1> USE ConnectAssumption DEF requestVars, brokerVars, fileVars, handlerVars, replicaVars,
     ghostVars
<1>1. ASSUME NEW r \in Requests, NEW m \in Machines, NEW h \in Hosts, Ask(r, m, h)
    PROVE Waits'
  BY <1>1 DEF Ask, TypeOK, Made, Waits
<1>2. ASSUME NEW r \in Requests, Follow(r) PROVE Waits'
  BY <1>2 DEF Follow, TypeOK, Made, Waits
<1>3. ASSUME NEW r \in Requests, AskUnanswered(r) PROVE Waits'
  BY <1>3 DEF AskUnanswered, TypeOK, Made, Waits
<1>4. ASSUME NEW r \in Requests, Settle(r) PROVE Waits'
  BY <1>4 DEF Settle, TypeOK, Made, Waits, Current
<1>5. ASSUME NEW r \in Requests, GiveUp(r) PROVE Waits'
  BY <1>5 DEF GiveUp, TypeOK, Made, Waits, Current
<1>6. ASSUME NEW m \in Machines, BecomePrimary(m) PROVE Waits'
  BY <1>6 DEF BecomePrimary, TypeOK, Made, Waits
<1>7. ASSUME NEW m \in Machines, RestartMachine(m) PROVE Waits'
  BY <1>7 DEF RestartMachine, TypeOK, Made, Waits
<1>8. ASSUME UNCHANGED <<requestVars, primary, waiting>> PROVE Waits'
  BY <1>8 DEF TypeOK, Made, Waits
<1> QED BY <1>1, <1>2, <1>3, <1>4, <1>5, <1>6, <1>7, <1>8 DEF Next, Follower, Handler, vars,
     Poll, AnswerLost, Forget, Take, Deny, AllowLoad, AllowSave, Allowed, RevokeLoad,
          RevokeSave, StartPull, FinishPull, Expire, RestartHost, Undeny

LEMMA OpenStep == TypeOK /\ Made /\ Open /\ [Next]_vars => Open'
<1> SUFFICES ASSUME TypeOK, Made, Open, [Next]_vars PROVE Open'
  OBVIOUS
<1> USE ConnectAssumption DEF requestVars, brokerVars, fileVars, handlerVars, replicaVars,
     ghostVars
<1>1. ASSUME NEW r \in Requests, NEW m \in Machines, NEW h \in Hosts, Ask(r, m, h)
    PROVE Open'
  BY <1>1 DEF Ask, TypeOK, Made, Open
<1>2. ASSUME NEW r \in Requests, Follow(r) PROVE Open'
  BY <1>2 DEF Follow, TypeOK, Made, Open
<1>3. ASSUME NEW r \in Requests, AskUnanswered(r) PROVE Open'
  BY <1>3 DEF AskUnanswered, TypeOK, Made, Open
<1>4. ASSUME NEW r \in Requests, Settle(r) PROVE Open'
  BY <1>4 DEF Settle, TypeOK, Made, Open
<1>5. ASSUME NEW r \in Requests, GiveUp(r) PROVE Open'
  BY <1>5 DEF GiveUp, TypeOK, Made, Open
<1>6. ASSUME NEW m \in Machines, RestartMachine(m) PROVE Open'
  BY <1>6 DEF RestartMachine, TypeOK, Made, Open
<1>7. ASSUME NEW h \in Hosts, Expire(h) PROVE Open'
  BY <1>7 DEF Expire, TypeOK, Made, Open
<1>8. ASSUME NEW r \in Requests, Take(r) PROVE Open'
  BY <1>8 DEF Take, TypeOK, Made, Open
<1>9. ASSUME NEW r \in Requests, Deny(r) PROVE Open'
  BY <1>9 DEF Deny, TypeOK, Made, Open
<1>10. ASSUME NEW r \in Requests, AllowLoad(r) PROVE Open'
  BY <1>10 DEF AllowLoad, TypeOK, Made, Open
<1>11. ASSUME NEW r \in Requests, AllowSave(r) PROVE Open'
  BY <1>11 DEF AllowSave, TypeOK, Made, Open
<1>12. ASSUME NEW r \in Requests, Allowed(r) PROVE Open'
  BY <1>12 DEF Allowed, TypeOK, Made, Open
<1>13. ASSUME NEW h \in Hosts, RestartHost(h) PROVE Open'
  BY <1>13 DEF RestartHost, TypeOK, Made, Open
<1>14. ASSUME UNCHANGED <<requestVars, pending, click>> PROVE Open'
  BY <1>14 DEF TypeOK, Made, Open
<1> QED BY <1>1, <1>2, <1>3, <1>4, <1>5, <1>6, <1>7, <1>8, <1>9, <1>10, <1>11, <1>12,
     <1>13, <1>14 DEF Next, Follower, Handler, vars,
     Poll, AnswerLost, Forget, RevokeLoad, RevokeSave, BecomePrimary, StartPull,
          FinishPull, Undeny

LEMMA OnceStep == TypeOK /\ Made /\ Open /\ Once /\ [Next]_vars => Once'
<1> SUFFICES ASSUME TypeOK, Made, Open, Once, [Next]_vars PROVE Once'
  OBVIOUS
<1> USE ConnectAssumption DEF requestVars, brokerVars, fileVars, handlerVars, replicaVars,
     ghostVars
<1>1. ASSUME NEW r \in Requests, Poll(r) PROVE Once'
  BY <1>1 DEF Poll, TypeOK, Made, Open, Once, Status
<1>2. ASSUME NEW r \in Requests, AnswerLost(r) PROVE Once'
  BY <1>2 DEF AnswerLost, TypeOK, Made, Open, Once
<1>3. ASSUME NEW r \in Requests, Forget(r) PROVE Once'
  BY <1>3 DEF Forget, TypeOK, Made, Open, Once
<1>4. ASSUME NEW r \in Requests, Take(r) PROVE Once'
  BY <1>4 DEF Take, TypeOK, Made, Open, Once
<1>5. ASSUME NEW r \in Requests, Deny(r) PROVE Once'
  BY <1>5 DEF Deny, TypeOK, Made, Open, Once
<1>6. ASSUME NEW r \in Requests, AllowLoad(r) PROVE Once'
  BY <1>6 DEF AllowLoad, TypeOK, Made, Open, Once
<1>7. ASSUME NEW r \in Requests, AllowSave(r) PROVE Once'
  BY <1>7 DEF AllowSave, TypeOK, Made, Open, Once
<1>8. ASSUME NEW r \in Requests, Allowed(r) PROVE Once'
  BY <1>8 DEF Allowed, TypeOK, Made, Open, Once
<1>9. ASSUME NEW h \in Hosts, RestartHost(h) PROVE Once'
  BY <1>9 DEF RestartHost, TypeOK, Made, Open, Once
<1>10. ASSUME UNCHANGED <<outcome, click, answer>> PROVE Once'
  BY <1>10 DEF TypeOK, Made, Open, Once
<1> QED BY <1>1, <1>2, <1>3, <1>4, <1>5, <1>6, <1>7, <1>8, <1>9, <1>10 DEF Next, Follower,
     Handler, vars,
     Ask, Follow, AskUnanswered, Settle, GiveUp, RevokeLoad, RevokeSave, BecomePrimary,
          StartPull, FinishPull, RestartMachine, Expire, Undeny

LEMMA StoredStep == TypeOK /\ Made /\ Waits /\ Open /\ Once /\ Stored /\ [Next]_vars => Stored'
<1> SUFFICES ASSUME TypeOK, Made, Waits, Open, Once, Stored, [Next]_vars PROVE Stored'
  OBVIOUS
<1> USE ConnectAssumption DEF requestVars, brokerVars, fileVars, handlerVars, replicaVars,
     ghostVars
<1>1. ASSUME NEW r \in Requests, NEW m \in Machines, NEW h \in Hosts, Ask(r, m, h)
    PROVE Stored'
  BY <1>1 DEF Ask, TypeOK, Made, Waits, Open, Once, Stored
<1>2. ASSUME NEW r \in Requests, Follow(r) PROVE Stored'
  BY <1>2 DEF Follow, TypeOK, Made, Waits, Open, Once, Stored
<1>3. ASSUME NEW r \in Requests, AskUnanswered(r) PROVE Stored'
  BY <1>3 DEF AskUnanswered, TypeOK, Made, Waits, Open, Once, Stored
<1>4. ASSUME NEW r \in Requests, Settle(r) PROVE Stored'
  BY <1>4 DEF Settle, TypeOK, Made, Waits, Open, Once, Stored, Current
<1>5. ASSUME NEW r \in Requests, GiveUp(r) PROVE Stored'
  BY <1>5 DEF GiveUp, TypeOK, Made, Waits, Open, Once, Stored, Current
<1>6. ASSUME NEW m \in Machines, BecomePrimary(m) PROVE Stored'
  BY <1>6 DEF BecomePrimary, TypeOK, Made, Waits, Open, Once, Stored
<1>7. ASSUME NEW m \in Machines, RestartMachine(m) PROVE Stored'
  BY <1>7 DEF RestartMachine, TypeOK, Made, Waits, Open, Once, Stored
<1>8. ASSUME NEW r \in Requests, Poll(r) PROVE Stored'
  BY <1>8 DEF Poll, TypeOK, Made, Waits, Open, Once, Stored, Status
<1>9. ASSUME NEW r \in Requests, Forget(r) PROVE Stored'
  BY <1>9 DEF Forget, TypeOK, Made, Waits, Open, Once, Stored
<1>10. ASSUME NEW r \in Requests, Take(r) PROVE Stored'
  BY <1>10 DEF Take, TypeOK, Made, Waits, Open, Once, Stored
<1>11. ASSUME NEW r \in Requests, Deny(r) PROVE Stored'
  BY <1>11 DEF Deny, TypeOK, Made, Waits, Open, Once, Stored
<1>12. ASSUME NEW r \in Requests, AllowLoad(r) PROVE Stored'
  BY <1>12 DEF AllowLoad, TypeOK, Made, Waits, Open, Once, Stored
<1>13. ASSUME NEW r \in Requests, AllowSave(r) PROVE Stored'
  BY <1>13 DEF AllowSave, TypeOK, Made, Waits, Open, Once, Stored
<1>14. ASSUME NEW r \in Requests, Allowed(r) PROVE Stored'
  BY <1>14 DEF Allowed, TypeOK, Made, Waits, Open, Once, Stored
<1>15. ASSUME NEW h \in Hosts, RestartHost(h) PROVE Stored'
  BY <1>15 DEF RestartHost, TypeOK, Made, Waits, Open, Once, Stored
<1>16. ASSUME UNCHANGED <<requestVars, primary, token, click, outcome>> PROVE Stored'
  BY <1>16 DEF TypeOK, Made, Waits, Open, Once, Stored
<1> QED BY <1>1, <1>2, <1>3, <1>4, <1>5, <1>6, <1>7, <1>8, <1>9, <1>10, <1>11, <1>12,
     <1>13, <1>14, <1>15, <1>16 DEF Next, Follower, Handler, vars,
     AnswerLost, RevokeLoad, RevokeSave, StartPull, FinishPull, Expire, Undeny

LEMMA RowedStep ==
    TypeOK /\ Made /\ Open /\ Once /\ Stored /\ Rowed /\ [Next]_vars => Rowed'
<1> SUFFICES ASSUME TypeOK, Made, Open, Once, Stored, Rowed, [Next]_vars PROVE Rowed'
  OBVIOUS
<1> USE ConnectAssumption DEF requestVars, brokerVars, fileVars, handlerVars, replicaVars,
     ghostVars
<1>1. ASSUME NEW r \in Requests, NEW m \in Machines, NEW h \in Hosts, Ask(r, m, h)
    PROVE Rowed'
  <2>1. ~Issued(r)  BY <1>1 DEF Ask, TypeOK, Made, Stored, Issued
  <2>2. \A q \in Requests : Issued(q)' => Issued(q) /\ host'[q] = host[q]
    BY <1>1, <2>1 DEF Ask, TypeOK, Issued
  <2> QED BY <1>1, <2>2 DEF Ask, Rowed, Gone
<1>2. ASSUME NEW r \in Requests, AllowSave(r) PROVE Rowed'
  <2> DEFINE seen == read[<<"allow", r>>]
  <2>1. /\ ask[r] # "new" /\ host[r] \in Hosts
        /\ UNCHANGED <<host, outcome, answer, token, revoked>>
    BY <1>2 DEF AllowSave, TypeOK, Made
  <2>2. Gone \subseteq Gone'  BY <1>2 DEF AllowSave, Gone
  <2>3. CASE click[r] = "pairing"
    <3>1. /\ paired' = [paired EXCEPT ![host[r]] = WithRow(seen, r)]
          /\ overwritten' = overwritten \cup Undone(paired[host[r]], seen)
          /\ superseded' = superseded \cup {q \in seen \ {r} : owner[q] = owner[r]}
          /\ click' = [click EXCEPT ![r] = "paired"]
      BY <1>2, <2>3 DEF AllowSave
    <3> SUFFICES ASSUME NEW q \in Requests, Issued(q)'
        PROVE q \in (paired[host[q]] \cup Gone)'
      BY DEF Rowed
    <3>2. CASE q = r
      BY <2>1, <3>1, <3>2 DEF TypeOK, WithRow
    <3>3. CASE q # r
      <4>1. Issued(q)  BY <2>1, <3>1, <3>3 DEF TypeOK, Issued
      <4>2. q \in paired[host[q]] \cup Gone  BY <4>1 DEF Rowed
      <4>3. CASE host[q] # host[r] \/ q \in Gone  BY <2>1, <2>2, <3>1, <4>2,
           <4>3 DEF TypeOK, Gone
      <4>4. CASE host[q] = host[r] /\ q \in paired[host[q]]
        <5>1. q \in seen \/ q \in overwritten'  BY <3>1, <4>4 DEF Undone
        <5>2. q \in seen => q \in WithRow(seen, r) \/ q \in superseded'
          BY <3>1, <3>3 DEF WithRow
        <5>3. paired'[host'[q]] = WithRow(seen, r)  BY <2>1, <3>1, <4>4 DEF TypeOK
        <5> QED BY <5>1, <5>2, <5>3 DEF Gone
      <4> QED BY <4>2, <4>3, <4>4
    <3> QED BY <3>2, <3>3
  <2>4. CASE click[r] = "listing"
    <3>1. /\ UNCHANGED paired
          /\ click' = [click EXCEPT ![r] = "listed"]
      BY <1>2, <2>4 DEF AllowSave
    <3>2. \A q \in Requests : Issued(q)' => Issued(q)
      BY <2>1, <2>4, <3>1 DEF TypeOK, Issued
    <3> QED BY <2>1, <2>2, <3>1, <3>2 DEF Rowed
  <2> QED BY <1>2, <2>3, <2>4 DEF AllowSave
<1>3. ASSUME NEW r \in Requests, RevokeSave(r) PROVE Rowed'
  <2> DEFINE seen == read[<<"revoke", r>>]
  <2>1. /\ host[r] \in Hosts
        /\ UNCHANGED <<host, click, outcome, answer, token>>
    BY <1>3 DEF RevokeSave, TypeOK, Made
  <2>2. Gone \subseteq Gone'  BY <1>3 DEF RevokeSave, Gone
  <2> SUFFICES ASSUME NEW q \in Requests, Issued(q)'
      PROVE q \in (paired[host[q]] \cup Gone)'
    BY DEF Rowed
  <2>3. q \in paired[host[q]] \cup Gone  BY <2>1 DEF Rowed, Issued
  <2>4. CASE revoking[r] = "unpairing" /\ q \notin Gone /\ host[q] = host[r]
    <3>1. /\ paired' = [paired EXCEPT ![host[r]] = seen \ {r}]
          /\ overwritten' = overwritten \cup Undone(paired[host[r]], seen)
          /\ revoked' = revoked \cup {r}
      BY <1>3, <2>4 DEF RevokeSave
    <3>2. paired'[host'[q]] = seen \ {r}  BY <2>1, <2>4, <3>1 DEF TypeOK
    <3>3. q \in seen \/ q \in overwritten'  BY <2>3, <2>4, <3>1 DEF Undone
    <3> QED BY <3>1, <3>2, <3>3 DEF Gone
  <2>5. CASE ~(revoking[r] = "unpairing" /\ q \notin Gone /\ host[q] = host[r])
    <3>1. \/ UNCHANGED paired
          \/ q \in Gone
          \/ host[q] # host[r] /\ \E rows : paired' = [paired EXCEPT ![host[r]] = rows]
      BY <1>3, <2>5 DEF RevokeSave
    <3>2. host[q] \in Hosts  BY <2>1 DEF TypeOK, Made, Stored, Issued
    <3>3. q \in Gone \/ paired'[host'[q]] = paired[host[q]]
      BY <2>1, <3>1, <3>2 DEF TypeOK
    <3> QED BY <2>2, <2>3, <3>3 DEF Gone
  <2> QED BY <2>4, <2>5
<1>4. ASSUME NEW r \in Requests, Follow(r) PROVE Rowed'
  BY <1>4 DEF Follow, TypeOK, Made, Open, Once, Rowed, Issued, Gone
<1>5. ASSUME NEW r \in Requests, Poll(r) PROVE Rowed'
  BY <1>5 DEF Poll, TypeOK, Made, Open, Once, Rowed, Issued, Gone, Status
<1>6. ASSUME NEW r \in Requests, AnswerLost(r) PROVE Rowed'
  BY <1>6 DEF AnswerLost, TypeOK, Made, Open, Once, Rowed, Issued, Gone
<1>7. ASSUME NEW r \in Requests, Settle(r) PROVE Rowed'
  BY <1>7 DEF Settle, TypeOK, Made, Open, Once, Rowed, Issued, Gone, Current
<1>8. ASSUME NEW m \in Machines, BecomePrimary(m) PROVE Rowed'
  BY <1>8 DEF BecomePrimary, TypeOK, Made, Open, Once, Rowed, Issued, Gone
<1>9. ASSUME NEW r \in Requests, Forget(r) PROVE Rowed'
  BY <1>9 DEF Forget, TypeOK, Made, Open, Once, Rowed, Issued, Gone
<1>10. ASSUME NEW r \in Requests, Take(r) PROVE Rowed'
  BY <1>10 DEF Take, TypeOK, Made, Open, Once, Rowed, Issued, Gone
<1>11. ASSUME NEW r \in Requests, Deny(r) PROVE Rowed'
  BY <1>11 DEF Deny, TypeOK, Made, Open, Once, Rowed, Issued, Gone
<1>12. ASSUME NEW r \in Requests, AllowLoad(r) PROVE Rowed'
  BY <1>12 DEF AllowLoad, TypeOK, Made, Open, Once, Rowed, Issued, Gone
<1>13. ASSUME NEW r \in Requests, Allowed(r) PROVE Rowed'
  BY <1>13 DEF Allowed, TypeOK, Made, Open, Once, Rowed, Issued, Gone
<1>14. ASSUME NEW h \in Hosts, RestartHost(h) PROVE Rowed'
  BY <1>14 DEF RestartHost, TypeOK, Made, Open, Once, Rowed, Issued, Gone
<1>15. ASSUME UNCHANGED <<host, click, outcome, answer, token, paired, ghostVars>>
    PROVE Rowed'
  BY <1>15 DEF Rowed, Issued, Gone
<1> QED BY <1>1, <1>2, <1>3, <1>4, <1>5, <1>6, <1>7, <1>8, <1>9, <1>10, <1>11, <1>12,
     <1>13, <1>14, <1>15 DEF Next, Follower, Handler, vars,
     AskUnanswered, GiveUp, RevokeLoad, StartPull, FinishPull, RestartMachine, Expire,
          Undeny
-----------------------------------------------------------------------------
LEMMA Inductive == Spec => []IInv
<1>1. IInv /\ [Next]_vars => IInv'
  BY TypingStep, MadeStep, WaitsStep, OpenStep, OnceStep, StoredStep, RowedStep DEF IInv
<1> QED BY StartsRight, <1>1, PTL DEF Spec

\* Every value the two sides keep is one of those the code's types and files
\* allow, whatever is asked, clicked, revoked, lost or restarted.
THEOREM TypeCorrectness == Spec => []TypeOK
<1>1. IInv => TypeOK  BY DEF IInv
<1> QED BY Inductive, <1>1, PTL

\* The token in a machine's .replica.json was issued to that machine by the
\* primary the file names and can be had only once: finish drops every answer
\* to a request that was replaced or cancelled.
THEOREM TokensFit == Spec => []TokenFits
<1>1. IInv => TokenFits  BY DEF IInv, Stored, TokenFits
<1> QED BY Inductive, <1>1, PTL

\* A stored token opens its primary's gate, unless its row was revoked, replaced
\* by a later Allow of the same machine, or undone by the save of an older list:
\* the row is saved before the token can be asked for.
THEOREM TokensWork == Spec => []TokenWorks
<1>1. ASSUME IInv PROVE TokenWorks
  <2> SUFFICES ASSUME NEW m \in Machines, token[m] # None
               PROVE  \/ token[m] \in paired[primary[m]]
                      \/ token[m] \in revoked \cup overwritten \cup superseded
    BY DEF TokenWorks
  <2>1. token[m] \in Requests /\ host[token[m]] = primary[m]
    BY <1>1 DEF IInv, TypeOK, Stored
  <2>2. Issued(token[m])  BY DEF Issued
  <2> QED BY <1>1, <2>1, <2>2 DEF IInv, Rowed, Gone
<1> QED BY Inductive, <1>1, PTL

-----------------------------------------------------------------------------
(* Telemetry: the inductive invariant.                                     *)

Post == [day : Days, counts : (SUBSET Counts) \ {{}}, at : {"sent", "arrived", "failed"}]
State == [version : Versions \cup {0}, day : Days \cup {0}]
Where == [at : {"idle", "launch", "up", "count", "ship"}]
    \cup [at : {"noting", "filling"}, seen : State] \cup [at : {"sending"}, day : Days]

Shapes ==
    /\ today \in Days /\ version \in Versions
    /\ digest \in [Days -> SUBSET Counts] \cup {Torn} /\ days \in [Days -> SUBSET Counts]
    /\ product \in State \cup {Torn}
    /\ lock \in [by : Actors \cup {Task, Nobody}, posts : SUBSET Post]
    /\ at \in [Actors -> Where]
    /\ posts \in SUBSET Post /\ received \in [Counts -> Nat]
    /\ counted \in Seq(Days) /\ Len(counted) <= MaxCounts

\* Who may be where, and who may hold the digest.
Places ==
    /\ \A r \in Calls :
        /\ at[r].at \in {"idle", "noting", "filling", "sending", "count", "ship"}
        /\ at[r].at \in {"noting", "filling"} => at[r].seen.day \in Days
    /\ at[Boot].at \in {"idle", "launch", "noting", "filling", "ship", "up"}
    /\ lock # Free =>
        /\ lock.by = Task \/ (lock.by \in Actors /\ at[lock.by].at \in {"count", "ship"})
        /\ digest = Torn

\* What a daemon that is not there has.
Off == ~Running =>
    lock = Free /\ posts = {} /\ days = NoDays /\ \A a \in Actors : at[a] = Idle

\* The file is what the daemon holds, or empty.
Same == Running /\ digest # Torn => digest = days

Machine == Shapes /\ Places /\ Off /\ Same

\* The digest, wherever it is.
Books == IF Running THEN days ELSE LoadDays(digest)
Entered(c) == \E d \in Days : c \in Books[d]
Sheets == posts \cup lock.posts

\* Whatever is entered, sent or received was counted, on the day it is under.
Dated ==
    /\ \A d \in Days : \A c \in Books[d] : c \in 1 .. Len(counted) /\ counted[c] = d
    /\ \A p \in Sheets : \A c \in p.counts : c \in 1 .. Len(counted) /\ counted[c] = p.day
    /\ \A c \in Counts : received[c] > 0 => c <= Len(counted)

\* A count is in one place: in the books or in one post.
Single ==
    /\ \A p \in Sheets : \A c \in p.counts : ~Entered(c)
    /\ \A p, q \in Sheets : p # q => p.counts \cap q.counts = {}
    /\ posts \cap lock.posts = {} /\ \A p \in lock.posts : p.at = "sent"

OnlyOnce ==
    \A c \in Counts \ unsure :
        received[c] <= 1 /\ (received[c] = 1 => ~Entered(c) /\ ~Flying(c))

Somewhere ==
    \A c \in 1 .. Len(counted) : Entered(c) \/ Flying(c) \/ received[c] > 0 \/ c \in lost

Journal == Dated /\ Single /\ OnlyOnce /\ Somewhere

\* Days whose event was sent, is about to be, or died with the daemon.
Noted == commands \cup {at[r].day : r \in {r \in Calls : at[r].at = "sending"}} \cup cut

Remembered ==
    /\ Load(product).day \in Noted \cup {0}
    /\ at[Boot].at \in {"noting", "filling"} => at[Boot].seen.day \in Noted \cup {0}

-----------------------------------------------------------------------------
(* Shapes *)

LEMMA Known ==
    /\ Boot \in Actors /\ Boot \notin Calls /\ Calls \subseteq Actors
    /\ Task \notin Actors /\ Nobody \notin Actors /\ Task # Nobody
    /\ MaxCounts \in Nat \ {0} /\ 1 \in Days /\ 2 \in Days /\ 1 \in Versions
    /\ Torn \notin [Days -> SUBSET Counts]
    /\ NoDays \in [Days -> SUBSET Counts] /\ NoDays # Torn
<1>1. NoDays \in [Days -> SUBSET Counts]  BY DEF NoDays
<1> QED BY <1>1, TelemetryAssumption DEF Actors, Counts

LEMMA Rests ==
    /\ Idle \in Where /\ Unset \in State
    /\ Free \in [by : Actors \cup {Task, Nobody}, posts : SUBSET Post]
    /\ \A s \in {"idle", "launch", "up", "count", "ship"} : [at |-> s] \in Where
    /\ \A d \in Days : [at |-> "sending", day |-> d] \in Where
    /\ \A x \in State : [at |-> "noting", seen |-> x] \in Where
                        /\ [at |-> "filling", seen |-> x] \in Where
    /\ \A ds \in [Days -> SUBSET Counts], a \in Actors \cup {Task}, ps \in SUBSET Post :
          /\ ds # Torn
          /\ [by |-> a, posts |-> ps] \in
                [by : Actors \cup {Task, Nobody}, posts : SUBSET Post]
          /\ [by |-> a, posts |-> ps] # Free
<1>1. \A a \in Actors \cup {Task} : a # Nobody  BY Known
<1>2. \A a \in Actors \cup {Task}, ps \in SUBSET Post : [by |-> a, posts |-> ps] # Free
  BY <1>1 DEF Free
<1> QED BY <1>2, Known DEF Idle, Unset, Free, Where, State

LEMMA LoadTyped ==
    Shapes => Load(product) \in State /\ LoadDays(digest) \in [Days -> SUBSET Counts]
BY Known, Rests DEF Shapes, Load, LoadDays

\* Where an actor goes from each kind of place.
LEMMA WhereIs ==
    ASSUME Shapes, NEW a \in Actors
    PROVE  /\ at[a] \in Where
           /\ at[a].at = "idle" => at[a] = Idle
           /\ at[a].at \in {"noting", "filling"} =>
                at[a].seen \in State /\ [at[a] EXCEPT !.at = "filling"] =
                                            [at |-> "filling", seen |-> at[a].seen]
           /\ at[a].at = "sending" => at[a].day \in Days
<1>1. at[a] \in Where  BY DEF Shapes
<1> QED BY <1>1 DEF Where, Idle

LEMMA InitMachine == TelInit => Machine
<1> SUFFICES ASSUME TelInit PROVE Machine
  OBVIOUS
<1>1. {1} \in SUBSET Counts  BY Known DEF Counts
<1>2. digest = [NoDays EXCEPT ![1] = {1}]  BY DEF TelInit
<1>3. digest \in [Days -> SUBSET Counts]  BY <1>1, <1>2, Known
<1>4. counted = <<1>> /\ counted \in Seq(Days) /\ Len(counted) = 1
  BY Known DEF TelInit
<1>5. product \in State  BY Known DEF TelInit, State
<1>6. at = [a \in Actors |-> Idle]  BY DEF TelInit
<1>7. \A a \in Actors : at[a] = Idle  BY <1>6
<1>8. Shapes
  BY <1>3, <1>4, <1>5, <1>6, Known, Rests DEF TelInit, Shapes
<1>9. Places  BY <1>7, Known DEF TelInit, Places, Idle
<1>10. Off  BY <1>7 DEF TelInit, Off
<1>11. Same  BY <1>7, Known DEF Same, Running, Idle
<1> QED BY <1>8, <1>9, <1>10, <1>11 DEF Machine

LEMMA TakenTyped ==
    ASSUME Shapes, NEW ds \in SUBSET Days
    PROVE  /\ Taken(ds) \in [Days -> SUBSET Counts]
           /\ \A d \in Days : Taken(ds)[d] = IF d \in ds THEN {} ELSE days[d]
BY DEF Shapes, Taken

LEMMA MergedTyped ==
    ASSUME Shapes, NEW p \in Post
    PROVE  /\ Merged(p) \in [Days -> SUBSET Counts]
           /\ \A d \in Days : Merged(p)[d] =
                IF d = p.day THEN days[d] \cup p.counts ELSE days[d]
<1>1. p.day \in Days /\ p.counts \in SUBSET Counts  BY DEF Post
<1>2. days \in [Days -> SUBSET Counts]  BY DEF Shapes
<1>3. days[p.day] \cup p.counts \in SUBSET Counts  BY <1>1, <1>2
<1> QED BY <1>1, <1>2, <1>3 DEF Merged

\* The posts of the days that are taken.
NewPosts == {[day |-> d, counts |-> days[d], at |-> "sent"] : d \in Kept(Completed)}

LEMMA NewPostsTyped ==
    ASSUME Shapes
    PROVE  /\ NewPosts \in SUBSET Post /\ Kept(Completed) \subseteq Completed
           /\ Completed \in SUBSET Days
           /\ \A p \in NewPosts : /\ p.day \in Kept(Completed)
                                  /\ p.counts = days[p.day] /\ p.at = "sent"
           /\ \A p, q \in NewPosts : p.day = q.day => p = q
           /\ \A d \in Kept(Completed) : \E p \in NewPosts : p.day = d
<1>1. Kept(Completed) \subseteq Completed /\ Completed \in SUBSET Days
  BY DEF Kept, Completed
<1>2. ASSUME NEW d \in Kept(Completed)
      PROVE  [day |-> d, counts |-> days[d], at |-> "sent"] \in Post
  <2>1. d \in Days /\ days[d] # {}  BY <1>1 DEF Completed
  <2>2. days[d] \in SUBSET Counts  BY <2>1 DEF Shapes
  <2>3. \A x \in SUBSET Counts : x # {} => x \in (SUBSET Counts) \ {{}}  OBVIOUS
  <2> DEFINE x == days[d]
  <2>4. x \in (SUBSET Counts) \ {{}}  BY <2>1, <2>2, <2>3
  <2> HIDE DEF x
  <2>5. [day |-> d, counts |-> x, at |-> "sent"] \in Post  BY <2>1, <2>4 DEF Post
  <2> QED BY <2>5 DEF x
<1>3. ASSUME NEW p \in NewPosts
      PROVE  p \in Post /\ p.day \in Kept(Completed) /\ p.counts = days[p.day] /\ p.at = "sent"
  <2>1. PICK d \in Kept(Completed) : p = [day |-> d, counts |-> days[d], at |-> "sent"]
    BY DEF NewPosts
  <2> QED BY <1>2, <2>1
<1>4. ASSUME NEW p \in NewPosts, NEW q \in NewPosts, p.day = q.day PROVE p = q
  <2>1. PICK d \in Kept(Completed) : p = [day |-> d, counts |-> days[d], at |-> "sent"]
    BY DEF NewPosts
  <2>2. PICK e \in Kept(Completed) : q = [day |-> e, counts |-> days[e], at |-> "sent"]
    BY DEF NewPosts
  <2>3. d = e  BY <1>4, <2>1, <2>2
  <2> QED BY <2>1, <2>2, <2>3
<1>5. ASSUME NEW d \in Kept(Completed) PROVE \E p \in NewPosts : p.day = d
  <2> DEFINE p == [day |-> d, counts |-> days[d], at |-> "sent"]
  <2>1. p \in NewPosts /\ p.day = d  BY DEF NewPosts
  <2> QED BY <2>1
<1> QED BY <1>1, <1>3, <1>4, <1>5

-----------------------------------------------------------------------------
(* Machine is inductive *)

\* The digest is changed under its lock.
LEMMA ChangeMachine ==
    ASSUME Machine, NEW a \in Actors \cup {Task}, NEW ds \in [Days -> SUBSET Counts],
           NEW ps \in SUBSET Post, Change(a, ds, ps), at' = at, Running,
           a \in Actors => at[a].at \in {"count", "ship"},
           today' = today, version' = version, product' = product, received' = received,
           posts' \in SUBSET Post, counted' \in Seq(Days), Len(counted') <= MaxCounts
    PROVE  Machine'
<1>1. /\ days' = ds /\ digest' = Torn /\ lock' = [by |-> a, posts |-> ps]
  BY DEF Change
<1>2. Shapes'  BY <1>1, Rests DEF Machine, Shapes
<1>3. Places'  BY <1>1 DEF Machine, Places
<1>4. Running'  BY DEF Running
<1>5. Off' /\ Same'  BY <1>1, <1>4 DEF Off, Same
<1> QED BY <1>2, <1>3, <1>5 DEF Machine

\* One actor moves, and the digest is left alone.
LEMMA MoveMachine ==
    ASSUME Machine, NEW a \in Actors, NEW w \in Where, at' = [at EXCEPT ![a] = w],
           UNCHANGED <<today, digest, days, lock, posts, received, counted>>,
           version' \in Versions, product' \in State \cup {Torn},
           a \in Calls =>
                /\ w.at \in {"idle", "noting", "filling", "sending", "count", "ship"}
                /\ w.at \in {"noting", "filling"} => w.seen.day \in Days,
           a = Boot => w.at \in {"launch", "noting", "filling", "ship", "up"},
           lock.by = a => lock = Free \/ w.at \in {"count", "ship"},
           Running
    PROVE  Machine'
<1>1. at \in [Actors -> Where]  BY DEF Machine, Shapes
<1>2. at'[a] = w /\ \A b \in Actors : b # a => at'[b] = at[b]  BY <1>1
<1>3. Shapes'  BY <1>1 DEF Machine, Shapes
<1>4. Places'  BY <1>1, <1>2, Known DEF Machine, Places, Actors
<1>5. Running'  BY <1>2, Known DEF Running
<1>6. Off' /\ Same'  BY <1>5 DEF Machine, Off, Same
<1> QED BY <1>3, <1>4, <1>6 DEF Machine

\* Nobody moves.
LEMMA StayMachine ==
    ASSUME Machine, UNCHANGED <<version, digest, product, days, lock, at, counted>>,
           today' \in Days, posts' \in SUBSET Post, received' \in [Counts -> Nat],
           posts = {} => posts' = {}
    PROVE  Machine'
<1>1. Shapes'  BY DEF Machine, Shapes
<1>2. Places'  BY DEF Machine, Places
<1>3. Off' /\ Same'  BY DEF Machine, Off, Same, Running
<1> QED BY <1>1, <1>2, <1>3 DEF Machine

\* Whoever is at work is of a daemon that runs.
LEMMA AtWork ==
    ASSUME Machine
    PROVE  /\ \A a \in Actors : at[a].at # "idle" => Running
           /\ posts # {} \/ lock # Free => Running
           /\ Up => Running
           /\ at[Boot] # Idle => Running
<1>1. ~Running => \A a \in Actors : at[a].at = "idle"  BY DEF Machine, Off, Idle
<1> QED BY <1>1, Known, WhereIs DEF Machine, Off, Up, Running

LEMMA SavedMachine == ASSUME Machine, Saved PROVE Machine'
<1>1. /\ lock # Free /\ digest' = days /\ lock' = Free /\ posts' = posts \cup lock.posts
      /\ UNCHANGED <<today, version, product, days, received, counted>>
  BY DEF Saved
<1>2. Shapes /\ Running /\ at \in [Actors -> Where]  BY <1>1, AtWork DEF Machine, Shapes
<1>3. lock.by = Task \/ (lock.by \in Actors /\ at[lock.by].at \in {"count", "ship"})
  BY <1>1 DEF Machine, Places
<1> DEFINE a == lock.by
<1>4. \/ at' = at
      \/ a = Boot /\ at' = [at EXCEPT ![Boot] = [at |-> "up"]]
      \/ a # Boot /\ a \in Actors /\ at' = [at EXCEPT ![a] = [at |-> "ship"]]
      \/ a # Boot /\ a \in Actors /\ at' = [at EXCEPT ![a] = Idle]
  BY <1>3 DEF Saved
<1> HIDE DEF a
<1>5. PICK w \in Where, b \in Actors :
        /\ at' = at \/ at' = [at EXCEPT ![b] = w]
        /\ (b = Boot /\ w.at = "up") \/ (b \in Calls /\ w.at \in {"idle", "ship"})
  <2> DEFINE up == [at |-> "up"]  ship == [at |-> "ship"]
  <2>1. up \in Where /\ ship \in Where /\ Idle \in Where
    BY Rests
  <2>2. up.at = "up" /\ ship.at = "ship" /\ Idle.at = "idle"  BY DEF Idle
  <2>3. \/ at' = at
        \/ a = Boot /\ at' = [at EXCEPT ![Boot] = up]
        \/ a # Boot /\ a \in Actors /\ at' = [at EXCEPT ![a] = ship]
        \/ a # Boot /\ a \in Actors /\ at' = [at EXCEPT ![a] = Idle]
    BY <1>4
  <2>4. Boot \in Actors /\ Actors = Calls \cup {Boot}  BY Known DEF Actors
  <2> HIDE DEF up, ship
  <2> QED BY <2>1, <2>2, <2>3, <2>4
<1>6. \/ at' = at
      \/ at'[b] = w /\ \A c \in Actors : c # b => at'[c] = at[c]
  BY <1>2, <1>5
<1>7. at' \in [Actors -> Where]  BY <1>2, <1>5
<1>8. Shapes'  BY <1>1, <1>2, <1>7, Rests DEF Shapes
<1>9. Places'  BY <1>1, <1>5, <1>6, Known DEF Machine, Places, Actors
<1>10. Running'  BY <1>2, <1>5, <1>6, Known DEF Running
<1>11. Off' /\ Same'  BY <1>1, <1>10 DEF Off, Same
<1> QED BY <1>8, <1>9, <1>11 DEF Machine

LEMMA RequestMachine ==
    ASSUME Machine, NEW r \in Calls, Command(r) \/ Bump(r) \/ Send(r) PROVE Machine'
<1>1. r \in Actors /\ r # Boot  BY Known
<1>2. Shapes /\ at \in [Actors -> Where]  BY DEF Machine, Shapes
<1>3. CASE Command(r)
  <2> DEFINE seen == [Load(product) EXCEPT !.day = today]
             w == IF Load(product).day = today THEN [at |-> "count"]
                  ELSE [at |-> "noting", seen |-> seen]
  <2>1. at' = [at EXCEPT ![r] = w] /\ Running  BY <1>3, AtWork DEF Command
  <2>2. seen \in State /\ seen.day \in Days
    <3>1. Load(product) \in State /\ today \in Days  BY <1>2, LoadTyped DEF Shapes
    <3> QED BY <3>1 DEF State
  <2>3. /\ w \in Where /\ w.at \in {"noting", "count"}
        /\ w.at = "noting" => w.seen.day \in Days
    <3> HIDE DEF seen
    <3> QED BY <2>2, Rests
  <2>4. /\ UNCHANGED <<today, digest, days, lock, posts, received, counted, version, product>>
        /\ at[r] = Idle
    BY <1>3 DEF Command, diskVars, netVars
  <2>5. lock.by = r => lock = Free  BY <1>1, <2>4, Known DEF Machine, Places, Idle
  <2> HIDE DEF w
  <2> QED BY <1>1, <1>2, <2>1, <2>3, <2>4, <2>5, MoveMachine DEF Shapes
<1>4. CASE Bump(r)
  <2>1. at[r].at = "count" /\ Running /\ lock = Free  BY <1>1, <1>4, AtWork DEF Bump
  <2>2. CASE Len(counted) < MaxCounts
    <3> DEFINE n == Len(counted) + 1
               ds == [days EXCEPT ![today] = days[today] \cup {n}]
    <3>1. /\ Change(r, ds, {}) /\ at' = at /\ counted' = Append(counted, today)
          /\ UNCHANGED <<today, version, product, posts, received>>
      BY <1>4, <2>2 DEF Bump, netVars
    <3>2. /\ counted \in Seq(Days) /\ today \in Days /\ MaxCounts \in Nat
          /\ days \in [Days -> SUBSET Counts]
      BY <1>2, Known DEF Shapes
    <3>3. /\ counted' \in Seq(Days) /\ Len(counted') <= MaxCounts /\ n \in Counts
      BY <2>2, <3>1, <3>2 DEF Counts
    <3>4. ds \in [Days -> SUBSET Counts]
      <4> HIDE DEF n
      <4>1. days[today] \cup {n} \in SUBSET Counts  BY <3>2, <3>3
      <4> QED BY <3>2, <4>1
    <3> HIDE DEF ds, n
    <3> QED BY <1>1, <1>2, <2>1, <3>1, <3>3, <3>4, ChangeMachine DEF Shapes
  <2>3. CASE ~(Len(counted) < MaxCounts)
    <3> DEFINE w == [at |-> "ship"]
    <3>1. /\ at' = [at EXCEPT ![r] = w]
          /\ UNCHANGED <<today, digest, days, lock, posts, received, counted>>
          /\ UNCHANGED <<version, product>>
      BY <1>4, <2>3 DEF Bump, netVars
    <3>2. w \in Where /\ w.at = "ship"  BY Rests
    <3> HIDE DEF w
    <3> QED BY <1>1, <1>2, <2>1, <3>1, <3>2, MoveMachine DEF Shapes
  <2> QED BY <2>2, <2>3
<1>5. CASE Send(r)
  <2> DEFINE w == [at |-> "count"]
  <2>1. /\ at' = [at EXCEPT ![r] = w] /\ at[r].at = "sending"
        /\ UNCHANGED <<today, digest, days, lock, posts, received, counted, version, product>>
    BY <1>5 DEF Send, diskVars, netVars
  <2>2. w \in Where /\ w.at = "count"  BY Rests
  <2>3. Running  BY <1>1, <2>1, AtWork
  <2> HIDE DEF w
  <2> QED BY <1>1, <1>2, <2>1, <2>2, <2>3, MoveMachine DEF Shapes
<1> QED BY <1>3, <1>4, <1>5

LEMMA WriterMachine ==
    ASSUME Machine, NEW a \in Actors, Empty(a) \/ Fill(a) \/ Ship(a) PROVE Machine'
<1>1. a = Boot \/ a \in Calls  BY DEF Actors
<1>2. Shapes /\ at \in [Actors -> Where] /\ Boot \notin Calls
  BY Known DEF Machine, Shapes
<1>3. at[a].at # "idle" /\ Running  BY AtWork DEF Empty, Fill, Ship
<1>4. CASE Empty(a)
  <2> DEFINE w == [at |-> "filling", seen |-> at[a].seen]
  <2>1. /\ at[a].at = "noting" /\ product' = Torn
        /\ UNCHANGED <<today, digest, days, lock, posts, received, counted, version>>
    BY <1>4 DEF Empty, netVars
  <2>2. w = [at[a] EXCEPT !.at = "filling"] /\ at[a].seen \in State
    BY <1>2, <2>1, WhereIs
  <2>3. at' = [at EXCEPT ![a] = w]  BY <1>4, <2>2 DEF Empty
  <2>4. w \in Where /\ w.at = "filling" /\ w.seen = at[a].seen  BY <2>2, Rests
  <2>5. a \in Calls => at[a].seen.day \in Days  BY <2>1 DEF Machine, Places
  <2>6. lock.by = a => lock = Free  BY <2>1, Known DEF Machine, Places
  <2> HIDE DEF w
  <2> QED BY <1>1, <1>2, <1>3, <2>1, <2>3, <2>4, <2>5, <2>6, MoveMachine DEF Shapes
<1>5. CASE Fill(a)
  <2> DEFINE w == IF a = Boot THEN [at |-> "ship"]
                  ELSE [at |-> "sending", day |-> at[a].seen.day]
  <2>1. /\ at[a].at = "filling" /\ product' \in Filled(product, at[a].seen)
        /\ at' = [at EXCEPT ![a] = w]
        /\ UNCHANGED <<today, digest, days, lock, posts, received, counted, version>>
    BY <1>5 DEF Fill, netVars
  <2>2. at[a].seen \in State  BY <1>2, <2>1, WhereIs
  <2>3. product' \in State \cup {Torn}  BY <2>1, <2>2 DEF Filled
  <2>4. a \in Calls => at[a].seen.day \in Days  BY <2>1 DEF Machine, Places
  <2>5. w \in Where /\ (a = Boot => w.at = "ship") /\ (a \in Calls => w.at = "sending")
    BY <1>1, <1>2, <2>4, Rests
  <2>6. lock.by = a => lock = Free  BY <2>1, Known DEF Machine, Places
  <2> HIDE DEF w
  <2> QED BY <1>1, <1>2, <1>3, <2>1, <2>3, <2>5, <2>6, MoveMachine DEF Shapes
<1>6. CASE Ship(a)
  <2>1. /\ at[a].at = "ship" /\ lock = Free
        /\ UNCHANGED <<today, version, product, posts, received, counted>>
    BY <1>6 DEF Ship, netVars
  <2>2. CASE Completed = {}
    <3> DEFINE w == IF a = Boot THEN [at |-> "up"] ELSE Idle
    <3>1. at' = [at EXCEPT ![a] = w] /\ UNCHANGED <<days, digest, lock>>
      BY <1>6, <2>2 DEF Ship
    <3>2. w \in Where /\ (a = Boot => w.at = "up") /\ (a \in Calls => w.at = "idle")
      BY <1>2, Rests DEF Idle
    <3> HIDE DEF w
    <3> QED BY <1>1, <1>2, <1>3, <2>1, <3>1, <3>2, MoveMachine DEF Shapes
  <2>3. CASE Completed # {}
    <3>1. Change(a, Taken(Completed), NewPosts) /\ at' = at
      BY <1>6, <2>3 DEF Ship, Remaining, NewPosts
    <3>2. Taken(Completed) \in [Days -> SUBSET Counts] /\ NewPosts \in SUBSET Post
      BY <1>2, TakenTyped, NewPostsTyped
    <3> QED BY <1>2, <1>3, <2>1, <3>1, <3>2, ChangeMachine DEF Shapes
  <2> QED BY <2>2, <2>3
<1> QED BY <1>4, <1>5, <1>6

LEMMA PostMachine ==
    ASSUME Machine, NEW p \in posts, Arrive(p) \/ Answer(p) \/ Fail(p) \/ Restore(p)
    PROVE  Machine'
<1>1. Shapes /\ p \in Post /\ Running  BY AtWork DEF Machine, Shapes
<1>2. \A s \in {"sent", "arrived", "failed"} :
        [p EXCEPT !.at = s] \in Post /\ [p EXCEPT !.at = s].counts = p.counts
        /\ [p EXCEPT !.at = s].day = p.day /\ [p EXCEPT !.at = s].at = s
  BY <1>1 DEF Post
<1>3. CASE Arrive(p)
  <2> DEFINE q == [p EXCEPT !.at = "arrived"]
  <2>1. /\ UNCHANGED <<today, version, digest, product, days, lock, at, counted>>
        /\ posts' = (posts \ {p}) \cup {q}
        /\ received' = [c \in Counts |-> received[c] + IF c \in p.counts THEN 1 ELSE 0]
    BY <1>3 DEF Arrive, diskVars
  <2>2. q \in Post  BY <1>2
  <2> HIDE DEF q
  <2>3. posts' \in SUBSET Post  BY <1>1, <2>1, <2>2 DEF Shapes
  <2>4. received' \in [Counts -> Nat]
    <3>1. \A c \in Counts : received[c] \in Nat  BY <1>1 DEF Shapes
    <3> QED BY <2>1, <3>1
  <2> QED BY <1>1, <2>1, <2>3, <2>4, StayMachine DEF Shapes
<1>4. CASE Answer(p)
  BY <1>1, <1>4, StayMachine DEF Answer, diskVars, Shapes
<1>5. CASE Fail(p)
  <2> DEFINE q == [p EXCEPT !.at = "failed"]
  <2>1. /\ UNCHANGED <<today, version, digest, product, days, lock, at, counted, received>>
        /\ posts' = (posts \ {p}) \cup {q}
    BY <1>5 DEF Fail, diskVars
  <2>2. q \in Post  BY <1>2
  <2> HIDE DEF q
  <2>3. posts' \in SUBSET Post  BY <1>1, <2>1, <2>2 DEF Shapes
  <2> QED BY <1>1, <2>1, <2>3, StayMachine DEF Shapes
<1>6. CASE Restore(p)
  <2>1. /\ Change(Task, Merged(p), {}) /\ posts' = posts \ {p}
        /\ UNCHANGED <<today, version, product, at, received, counted>>
    BY <1>6 DEF Restore, Restored
  <2>2. Merged(p) \in [Days -> SUBSET Counts]  BY <1>1, MergedTyped
  <2> QED BY <1>1, <2>1, <2>2, Known, ChangeMachine DEF Shapes
<1> QED BY <1>3, <1>4, <1>5, <1>6

LEMMA StartMachine == ASSUME Machine, Start \/ Launch PROVE Machine'
<1>1. Shapes /\ at \in [Actors -> Where] /\ Boot \in Actors /\ Boot \notin Calls
  BY Known DEF Machine, Shapes
<1>2. CASE Start
  <2> DEFINE w == [at |-> "launch"]
  <2>1. /\ at[Boot] = Idle /\ version' \in Versions /\ days' = LoadDays(digest)
        /\ at' = [at EXCEPT ![Boot] = w]
        /\ UNCHANGED <<today, digest, product, lock, posts, received, counted>>
    BY <1>2 DEF Start, diskVars, netVars
  <2>2. w \in Where /\ w.at = "launch"  BY Rests
  <2> HIDE DEF w
  <2>3. lock = Free /\ posts = {}
    BY <2>1 DEF Machine, Off, Running, Idle
  <2>4. days' \in [Days -> SUBSET Counts]  BY <1>1, <2>1, LoadTyped
  <2>5. Shapes'
    <3>1. at' \in [Actors -> Where]  BY <1>1, <2>1, <2>2
    <3> QED BY <1>1, <2>1, <2>4, <3>1 DEF Shapes
  <2>6. at'[Boot].at = "launch" /\ \A a \in Actors : a # Boot => at'[a] = at[a]
    BY <1>1, <2>1, <2>2
  <2>7. Places'  BY <1>1, <2>1, <2>3, <2>6, Known DEF Machine, Places
  <2>8. Running'  BY <2>6 DEF Running
  <2>9. Off' /\ Same'  BY <2>1, <2>8 DEF Off, Same, LoadDays
  <2> QED BY <2>5, <2>7, <2>9 DEF Machine
<1>3. CASE Launch
  <2> DEFINE seen == Launched(Load(product))
             w == [at |-> "noting", seen |-> seen]
  <2>1. /\ at[Boot].at = "launch" /\ at' = [at EXCEPT ![Boot] = w]
        /\ UNCHANGED <<today, digest, days, lock, posts, received, counted>>
        /\ UNCHANGED <<version, product>>
    BY <1>3 DEF Launch, diskVars, netVars
  <2>2. seen \in State
    <3>1. Load(product) \in State /\ version \in Versions  BY <1>1, LoadTyped DEF Shapes
    <3> QED BY <3>1 DEF State, Launched, LaunchState
  <2>3. w \in Where /\ w.at = "noting"
    <3> HIDE DEF seen
    <3> QED BY <2>2, Rests
  <2>4. Running  BY <2>1 DEF Running
  <2>5. lock.by = Boot => lock = Free  BY <1>1, <2>1, Known DEF Machine, Places
  <2> HIDE DEF w
  <2> QED BY <1>1, <2>1, <2>3, <2>4, <2>5, MoveMachine DEF Shapes
<1> QED BY <1>2, <1>3

LEMMA StopMachine == ASSUME Machine, Stop PROVE Machine'
<1>1. /\ at' = [a \in Actors |-> Idle] /\ lock' = Free /\ posts' = {} /\ days' = NoDays
      /\ UNCHANGED <<today, version, digest, product, received, counted>>
  BY DEF Stop, diskVars
<1>2. Shapes'  BY <1>1, Known, Rests DEF Machine, Shapes
<1>3. \A a \in Actors : at'[a] = Idle  BY <1>1
<1>4. Places'  BY <1>1, <1>3, Known DEF Places, Idle
<1>5. ~Running'  BY <1>3, Known DEF Running, Idle
<1>6. Off' /\ Same'  BY <1>1, <1>3, <1>5 DEF Off, Same
<1> QED BY <1>2, <1>4, <1>6 DEF Machine

LEMMA MachineStep == ASSUME Machine, [TelNext]_telVars PROVE Machine'
<1>1. CASE NewDay
  <2>1. /\ today' \in Days
        /\ UNCHANGED <<version, digest, product, days, lock, at, counted, posts, received>>
    BY <1>1 DEF NewDay, diskVars, netVars
  <2> QED BY <2>1, StayMachine DEF Machine, Shapes
<1>2. CASE UNCHANGED telVars
  <2>1. UNCHANGED <<today, version, digest, product, days, lock, at, counted, posts, received>>
    BY <1>2 DEF telVars, diskVars, netVars
  <2> QED BY <2>1, StayMachine DEF Machine, Shapes
<1> QED BY <1>1, <1>2, RequestMachine, WriterMachine, PostMachine, StartMachine, StopMachine,
           SavedMachine DEF TelNext, Requesting, Writing, Sending, Starting

-----------------------------------------------------------------------------
(* What a step does to the counts: Journal is inductive *)

\* While the daemon runs the books are what it holds.
LEMMA BooksAre ==
    /\ Running => Books = days
    /\ (at' = at) => (Running' <=> Running)
    /\ Running' => Books' = days'
    /\ Shapes => Books \in [Days -> SUBSET Counts]
<1>1. Shapes => Books \in [Days -> SUBSET Counts]  BY LoadTyped DEF Shapes, Books
<1> QED BY <1>1 DEF Running, Books

LEMMA InitJournal == TelInit => Journal
<1> SUFFICES ASSUME TelInit PROVE Journal
  OBVIOUS
<1>1. Machine  BY InitMachine
<1>2. digest = [NoDays EXCEPT ![1] = {1}] /\ at[Boot] = Idle
  BY Known DEF TelInit
<1>3. ~Running  BY <1>2 DEF Running, Idle
<1>13. digest # Torn
  <2>1. {1} \in SUBSET Counts  BY Known DEF Counts
  <2>2. digest \in [Days -> SUBSET Counts]  BY <1>2, <2>1, Known
  <2> QED BY <2>2, Known
<1>4. \A d \in Days : Books[d] = IF d = 1 THEN {1} ELSE {}
  BY <1>2, <1>3, <1>13, Known DEF Books, LoadDays, NoDays
<1>5. Sheets = {} /\ posts = {} /\ lock.posts = {}  BY DEF TelInit, Free, Sheets
<1>6. \A c \in Counts : received[c] = 0  BY DEF TelInit
<1>7. 1 .. Len(counted) = {1} /\ counted[1] = 1  BY DEF TelInit
<1>8. Entered(1)  BY <1>4, Known DEF Entered
<1>9. Dated  BY <1>4, <1>5, <1>6, <1>7 DEF Dated
<1>10. Single  BY <1>5 DEF Single
<1>11. OnlyOnce  BY <1>6 DEF OnlyOnce
<1>12. Somewhere  BY <1>7, <1>8 DEF Somewhere
<1> QED BY <1>9, <1>10, <1>11, <1>12 DEF Journal

\* Nothing moves but a post from the lock's holder to its task.
LEMMA StillJournal ==
    ASSUME Journal, Books' = Books, Sheets' = Sheets, posts' \cap lock'.posts = {},
           \A p \in lock'.posts : p.at = "sent",
           UNCHANGED <<received, unsure, lost, counted>>
    PROVE  Journal'
<1>1. \A c : (Entered(c)' <=> Entered(c)) /\ (Flying(c)' <=> Flying(c))
  BY DEF Entered, Flying, Sheets
<1>2. Dated'  BY DEF Journal, Dated
<1>3. Single'  BY <1>1 DEF Journal, Single
<1>4. OnlyOnce'  BY <1>1 DEF Journal, OnlyOnce
<1>5. Somewhere'  BY <1>1 DEF Journal, Somewhere
<1> QED BY <1>2, <1>3, <1>4, <1>5 DEF Journal

\* bump: a count of today that nothing knows of yet.
LEMMA BumpJournal ==
    ASSUME Machine, Journal, Running, at' = at, lock.posts = {}, lock'.posts = {},
           Len(counted) < MaxCounts,
           days' = [days EXCEPT ![today] = @ \cup {Len(counted) + 1}],
           counted' = Append(counted, today), UNCHANGED <<posts, received, unsure, lost>>
    PROVE  Journal'
<1> DEFINE n == Len(counted) + 1
<1>1. /\ Books = days /\ Books' = days' /\ Sheets' = Sheets
      /\ days \in [Days -> SUBSET Counts] /\ today \in Days /\ counted \in Seq(Days)
      /\ MaxCounts \in Nat
  BY BooksAre, Known DEF Machine, Shapes, Sheets
<1>2. /\ Len(counted) \in Nat /\ n \in Nat /\ n > Len(counted) /\ n \in Counts /\ n \in 1 .. n
      /\ Len(counted') = n /\ counted'[n] = today
      /\ \A c \in 1 .. Len(counted) : counted'[c] = counted[c] /\ c \in 1 .. n /\ c # n
      /\ \A c \in 1 .. n : c \in 1 .. Len(counted) \/ c = n
  BY <1>1 DEF Counts
<1>3. \A d \in Days : Books'[d] = IF d = today THEN Books[d] \cup {n} ELSE Books[d]
  BY <1>1
<1> HIDE DEF n
<1>4. /\ \A c : Entered(c)' <=> Entered(c) \/ c = n
      /\ \A c : Flying(c)' <=> Flying(c)
  BY <1>1, <1>3 DEF Entered, Flying, Sheets
<1>5. ~Entered(n) /\ ~Flying(n) /\ received[n] = 0 /\ \A p \in Sheets : n \notin p.counts
  <2>1. n \notin 1 .. Len(counted) /\ ~(n <= Len(counted)) /\ received[n] \in Nat
    BY <1>2 DEF Machine, Shapes
  <2> QED BY <1>1, <1>2, <2>1 DEF Journal, Dated, Entered, Flying, Sheets
<1>6. Dated'
  <2>1. \A c \in Counts : received[c] > 0 => c <= n
    BY <1>2 DEF Journal, Dated, Counts
  <2>2. \A p \in Sheets : \A c \in p.counts : c \in 1 .. n /\ counted'[c] = p.day
    BY <1>2 DEF Journal, Dated
  <2>3. \A d \in Days : \A c \in Books'[d] : c \in 1 .. n /\ counted'[c] = d
    <3>1. \A d \in Days : \A c \in Books'[d] : c \in Books[d] \/ (c = n /\ d = today)
      BY <1>3
    <3>2. \A d \in Days : \A c \in Books[d] : c \in 1 .. n /\ counted'[c] = d
      BY <1>2 DEF Journal, Dated
    <3> QED BY <1>2, <3>1, <3>2
  <2> QED BY <1>1, <1>2, <2>1, <2>2, <2>3 DEF Dated
<1>7. Single'  BY <1>1, <1>4, <1>5 DEF Journal, Single
<1>8. OnlyOnce'  BY <1>4, <1>5 DEF Journal, OnlyOnce
<1>9. Somewhere'  BY <1>2, <1>4 DEF Journal, Somewhere
<1> QED BY <1>6, <1>7, <1>8, <1>9 DEF Journal

\* take_completed: what is over leaves the books for a post of its own, or is dropped.
LEMMA ShipJournal ==
    ASSUME Machine, Journal, Running, at' = at, lock.posts = {}, lock'.posts = NewPosts,
           days' = Taken(Completed),
           lost' = lost \cup UNION {days[d] : d \in Completed \ Kept(Completed)},
           UNCHANGED <<posts, received, unsure, counted>>
    PROVE  Journal'
<1>1. Books = days /\ Books' = days' /\ Sheets = posts /\ Sheets' = posts \cup NewPosts
  BY BooksAre DEF Sheets
<1>2. \A d \in Days : Books'[d] = IF d \in Completed THEN {} ELSE Books[d]
  BY <1>1, TakenTyped, NewPostsTyped DEF Machine
<1>3. /\ Kept(Completed) \subseteq Completed /\ Completed \in SUBSET Days
      /\ \A p \in NewPosts : /\ p.day \in Kept(Completed) /\ p.day \in Days
                             /\ p.counts = Books[p.day] /\ p.at = "sent"
      /\ \A p, q \in NewPosts : p.day = q.day => p = q
      /\ \A d \in Kept(Completed) : \E p \in NewPosts : p.day = d
  BY <1>1, NewPostsTyped DEF Machine
<1>4. \A d \in Days : \A c \in Books[d] : c \in 1 .. Len(counted) /\ counted[c] = d
  BY DEF Journal, Dated
<1>5. \A c : Entered(c)' => Entered(c)  BY <1>2 DEF Entered
<1>6. \A p \in NewPosts : \A c \in p.counts : Entered(c) /\ ~Entered(c)' /\ counted[c] = p.day
  BY <1>2, <1>3, <1>4 DEF Entered
<1>7. \A c : Flying(c)' => Flying(c) \/ Entered(c)
  BY <1>1, <1>6 DEF Flying, Sheets
<1>8. \A p \in posts : \A c \in p.counts : ~Entered(c)  BY <1>1 DEF Journal, Single
<1>9. Dated'
  <2>1. \A p \in Sheets' : \A c \in p.counts : c \in 1 .. Len(counted) /\ counted[c] = p.day
    BY <1>1, <1>3, <1>4 DEF Journal, Dated
  <2>2. \A d \in Days : \A c \in Books'[d] : c \in 1 .. Len(counted) /\ counted[c] = d
    BY <1>2, <1>4
  <2> QED BY <2>1, <2>2 DEF Journal, Dated
<1>10. Single'
  <2>1. \A p \in Sheets' : \A c \in p.counts : ~Entered(c)'  BY <1>1, <1>5, <1>6, <1>8
  <2>2. ASSUME NEW p \in Sheets', NEW q \in Sheets', NEW c \in p.counts, c \in q.counts
        PROVE  p = q
    <3>1. CASE p \in NewPosts /\ q \in NewPosts  BY <1>3, <1>6, <2>2, <3>1
    <3>2. CASE p \in posts /\ q \in posts  BY <1>1, <2>2, <3>2 DEF Journal, Single
    <3>3. CASE p \in posts /\ q \in NewPosts  BY <1>6, <1>8, <2>2, <3>3
    <3>4. CASE p \in NewPosts /\ q \in posts  BY <1>6, <1>8, <2>2, <3>4
    <3> QED BY <1>1, <3>1, <3>2, <3>3, <3>4
  <2>3. \A p, q \in Sheets' : p # q => p.counts \cap q.counts = {}  BY <2>2
  <2>4. posts \cap NewPosts = {}
    <3>1. \A p \in posts : \E c : c \in p.counts  BY DEF Machine, Shapes, Post
    <3> QED BY <1>6, <1>8, <3>1
  <2> QED BY <1>3, <2>1, <2>3, <2>4 DEF Single
<1>11. OnlyOnce'  BY <1>5, <1>7 DEF Journal, OnlyOnce
<1>12. ASSUME NEW c \in 1 .. Len(counted)
       PROVE  Entered(c)' \/ Flying(c)' \/ received[c] > 0 \/ c \in lost'
  <2>1. CASE Flying(c)
    <3>1. Flying(c)'  BY <1>1, <2>1 DEF Flying, Sheets
    <3> QED BY <3>1
  <2>2. CASE Entered(c)
    <3>1. PICK d \in Days : c \in Books[d]  BY <2>2 DEF Entered
    <3>2. CASE d \notin Completed
      <4>1. Entered(c)'  BY <1>2, <3>1, <3>2 DEF Entered
      <4> QED BY <4>1
    <3>3. CASE d \in Kept(Completed)
      <4>1. PICK p \in NewPosts : p.day = d  BY <1>3, <3>3
      <4>2. c \in p.counts /\ p.at # "arrived" /\ p \in Sheets'  BY <1>1, <1>3, <3>1, <4>1
      <4>3. Flying(c)'  BY <4>2 DEF Flying, Sheets
      <4> QED BY <4>3
    <3>4. CASE d \in Completed \ Kept(Completed)
      <4>1. c \in UNION {days[e] : e \in Completed \ Kept(Completed)}  BY <1>1, <3>1, <3>4
      <4> QED BY <4>1
    <3> QED BY <3>2, <3>3, <3>4
  <2> QED BY <2>1, <2>2 DEF Journal, Somewhere
<1>13. Somewhere'  BY <1>12 DEF Somewhere
<1> QED BY <1>9, <1>10, <1>11, <1>13 DEF Journal

\* A post is at another stage, or done with: the others are as they were.
LEMMA OtherPosts ==
    ASSUME Machine, Journal, NEW p \in posts, NEW ps, posts' = (posts \ {p}) \cup ps,
           lock' = lock, UNCHANGED <<days, digest, at>>
    PROVE  /\ Books' = Books /\ \A c : Entered(c)' <=> Entered(c)
           /\ Sheets' = (Sheets \ {p}) \cup ps
           /\ \A q \in Sheets \ {p} : p.counts \cap q.counts = {}
           /\ \A c \in p.counts : ~Entered(c)
           /\ p \in Sheets /\ \A q \in lock.posts : q.at = "sent"
<1>1. Books' = Books  BY DEF Books, Running
<1>2. p \notin lock.posts  BY DEF Journal, Single
<1>3. Sheets' = (Sheets \ {p}) \cup ps  BY <1>2 DEF Sheets
<1> QED BY <1>1, <1>3 DEF Journal, Single, Sheets, Entered

LEMMA ArriveJournal == ASSUME Machine, Journal, NEW p \in posts, Arrive(p) PROVE Journal'
<1> DEFINE q == [p EXCEPT !.at = "arrived"]
<1>1. /\ p \in Post /\ p.at = "sent" /\ q.counts = p.counts /\ q.day = p.day
      /\ q.at = "arrived"
  BY DEF Arrive, Machine, Shapes, Post
<1>2. /\ posts' = (posts \ {p}) \cup {q} /\ lock' = lock
      /\ UNCHANGED <<days, digest, at, unsure, lost, counted>>
      /\ received' = [c \in Counts |-> received[c] + IF c \in p.counts THEN 1 ELSE 0]
  BY DEF Arrive, diskVars
<1>3. \A c \in Counts : /\ received[c] \in Nat
                        /\ c \in p.counts => received'[c] = received[c] + 1
                        /\ c \notin p.counts => received'[c] = received[c]
  BY <1>2 DEF Machine, Shapes
<1> HIDE DEF q
<1>4. /\ Books' = Books /\ \A c : Entered(c)' <=> Entered(c)
      /\ Sheets' = (Sheets \ {p}) \cup {q}
      /\ \A x \in Sheets \ {p} : p.counts \cap x.counts = {}
      /\ \A c \in p.counts : ~Entered(c)
      /\ p \in Sheets /\ \A x \in lock.posts : x.at = "sent"
  BY <1>2, OtherPosts
<1>5. \A c \in p.counts : Flying(c) /\ ~Flying(c)'
  <2>1. \A c \in p.counts : Flying(c)  BY <1>1 DEF Flying
  <2>2. \A c \in p.counts : ~\E x \in Sheets' : c \in x.counts /\ x.at # "arrived"
    BY <1>1, <1>4
  <2> QED BY <2>1, <2>2 DEF Flying, Sheets
<1>6. \A c : c \notin p.counts => (Flying(c)' <=> Flying(c))
  <2>1. \A c : c \notin p.counts =>
          ((\E x \in Sheets' : c \in x.counts /\ x.at # "arrived")
             <=> \E x \in Sheets : c \in x.counts /\ x.at # "arrived")
    BY <1>1, <1>4
  <2> QED BY <2>1 DEF Flying, Sheets
<1>7. Dated'
  <2>1. \A c \in p.counts : c \in 1 .. Len(counted)  BY <1>4 DEF Journal, Dated
  <2>2. \A c \in Counts : received'[c] > 0 => c <= Len(counted)
    <3>1. Len(counted) \in Nat  BY DEF Machine, Shapes
    <3> QED BY <1>3, <2>1, <3>1 DEF Journal, Dated
  <2>3. \A x \in Sheets' : \A c \in x.counts : c \in 1 .. Len(counted) /\ counted[c] = x.day
    BY <1>1, <1>4 DEF Journal, Dated
  <2> QED BY <1>2, <1>4, <2>2, <2>3 DEF Journal, Dated
<1>8. Single'
  <2>1. \A x \in Sheets' : \A c \in x.counts : ~Entered(c)'
    BY <1>1, <1>4 DEF Journal, Single
  <2>2. \A x, y \in Sheets' : x # y => x.counts \cap y.counts = {}
    BY <1>1, <1>4 DEF Journal, Single
  <2>3. posts' \cap lock'.posts = {}
    BY <1>1, <1>2, <1>4 DEF Journal, Single
  <2> QED BY <1>2, <1>4, <2>1, <2>2, <2>3 DEF Single
<1>9. OnlyOnce'
  <2>1. ASSUME NEW c \in Counts \ unsure
        PROVE  received'[c] <= 1 /\ (received'[c] = 1 => ~Entered(c)' /\ ~Flying(c)')
    <3>1. received[c] <= 1 /\ (received[c] = 1 => ~Entered(c) /\ ~Flying(c))
      BY DEF Journal, OnlyOnce
    <3>2. CASE c \in p.counts
      <4>1. received[c] = 0  BY <1>3, <1>5, <3>1, <3>2
      <4> QED BY <1>3, <1>4, <1>5, <3>2, <4>1
    <3>3. CASE c \notin p.counts  BY <1>3, <1>4, <1>6, <3>1, <3>3
    <3> QED BY <3>2, <3>3
  <2> QED BY <1>2, <2>1 DEF OnlyOnce
<1>10. Somewhere'
  <2>1. ASSUME NEW c \in 1 .. Len(counted)
        PROVE  Entered(c)' \/ Flying(c)' \/ received'[c] > 0 \/ c \in lost'
    <3>1. c \in Counts  BY Known DEF Machine, Shapes, Counts
    <3>2. Entered(c) \/ Flying(c) \/ received[c] > 0 \/ c \in lost
      BY DEF Journal, Somewhere
    <3>3. CASE c \in p.counts
      <4>1. received'[c] > 0  BY <1>3, <3>1, <3>3
      <4> QED BY <4>1
    <3>4. CASE c \notin p.counts  BY <1>2, <1>3, <1>4, <1>6, <3>1, <3>2, <3>4
    <3> QED BY <3>3, <3>4
  <2> QED BY <1>2, <2>1 DEF Somewhere
<1> QED BY <1>7, <1>8, <1>9, <1>10 DEF Journal

LEMMA AnswerJournal == ASSUME Machine, Journal, NEW p \in posts, Answer(p) PROVE Journal'
<1>1. /\ p.at = "arrived" /\ posts' = (posts \ {p}) \cup {} /\ lock' = lock
      /\ UNCHANGED <<days, digest, at, unsure, lost, counted, received>>
  BY DEF Answer, diskVars
<1>2. /\ Books' = Books /\ \A c : Entered(c)' <=> Entered(c)
      /\ Sheets' = Sheets \ {p} /\ \A q \in lock.posts : q.at = "sent"
  BY <1>1, OtherPosts
<1>3. \A c : Flying(c)' <=> Flying(c)
  <2>1. \A c : (\E x \in Sheets' : c \in x.counts /\ x.at # "arrived")
                 <=> \E x \in Sheets : c \in x.counts /\ x.at # "arrived"
    BY <1>1, <1>2
  <2> QED BY <2>1 DEF Flying, Sheets
<1>4. Dated'  BY <1>1, <1>2 DEF Journal, Dated
<1>5. Single'  BY <1>1, <1>2 DEF Journal, Single
<1>6. OnlyOnce'  BY <1>1, <1>2, <1>3 DEF Journal, OnlyOnce
<1>7. Somewhere'  BY <1>1, <1>2, <1>3 DEF Journal, Somewhere
<1> QED BY <1>4, <1>5, <1>6, <1>7 DEF Journal

LEMMA FailJournal == ASSUME Machine, Journal, NEW p \in posts, Fail(p) PROVE Journal'
<1> DEFINE q == [p EXCEPT !.at = "failed"]
<1>1. /\ p \in Post /\ p.at \in {"sent", "arrived"} /\ q.counts = p.counts /\ q.day = p.day
      /\ q.at = "failed"
  BY DEF Fail, Machine, Shapes, Post
<1>2. /\ posts' = (posts \ {p}) \cup {q} /\ lock' = lock
      /\ UNCHANGED <<days, digest, at, received, lost, counted>>
      /\ unsure \subseteq unsure' /\ (p.at = "arrived" => p.counts \subseteq unsure')
  BY DEF Fail, diskVars
<1> HIDE DEF q
<1>3. /\ Books' = Books /\ \A c : Entered(c)' <=> Entered(c)
      /\ Sheets' = (Sheets \ {p}) \cup {q}
      /\ \A x \in Sheets \ {p} : p.counts \cap x.counts = {}
      /\ \A c \in p.counts : ~Entered(c)
      /\ p \in Sheets /\ \A x \in lock.posts : x.at = "sent"
  BY <1>2, OtherPosts
<1>4. /\ \A c : Flying(c) => Flying(c)'
      /\ \A c : Flying(c)' => Flying(c) \/ c \in unsure'
  <2>1. \A c : (\E x \in Sheets : c \in x.counts /\ x.at # "arrived")
                 => \E x \in Sheets' : c \in x.counts /\ x.at # "arrived"
    BY <1>1, <1>3
  <2>2. \A c : (\E x \in Sheets' : c \in x.counts /\ x.at # "arrived")
                 => (\E x \in Sheets : c \in x.counts /\ x.at # "arrived") \/ c \in unsure'
    BY <1>1, <1>2, <1>3
  <2> QED BY <2>1, <2>2 DEF Flying, Sheets
<1>5. Dated'
  <2>1. \A x \in Sheets' : \A c \in x.counts : c \in 1 .. Len(counted) /\ counted[c] = x.day
    BY <1>1, <1>3 DEF Journal, Dated
  <2> QED BY <1>2, <1>3, <2>1 DEF Journal, Dated
<1>6. Single'
  <2>1. \A x \in Sheets' : \A c \in x.counts : ~Entered(c)'
    BY <1>1, <1>3 DEF Journal, Single
  <2>2. \A x, y \in Sheets' : x # y => x.counts \cap y.counts = {}
    BY <1>1, <1>3 DEF Journal, Single
  <2>3. posts' \cap lock'.posts = {}
    BY <1>1, <1>2, <1>3 DEF Journal, Single
  <2> QED BY <1>2, <1>3, <2>1, <2>2, <2>3 DEF Single
<1>7. OnlyOnce'  BY <1>2, <1>3, <1>4 DEF Journal, OnlyOnce
<1>8. Somewhere'  BY <1>2, <1>3, <1>4 DEF Journal, Somewhere
<1> QED BY <1>5, <1>6, <1>7, <1>8 DEF Journal

\* restore: the counts of a failed post go back under their day.
LEMMA RestoreJournal == ASSUME Machine, Journal, NEW p \in posts, Restore(p) PROVE Journal'
<1>1. /\ p \in Post /\ p.at = "failed" /\ Running /\ p.day \in Days
      /\ lock = Free /\ lock'.posts = {} /\ posts' = posts \ {p} /\ days' = Merged(p)
      /\ UNCHANGED <<at, received, unsure, lost, counted>>
  BY AtWork DEF Restore, Restored, Change, Machine, Shapes, Post
<1>2. Books = days /\ Books' = days' /\ Sheets = posts /\ Sheets' = posts \ {p}
  BY <1>1, BooksAre DEF Sheets, Free
<1>3. \A d \in Days : Books'[d] = IF d = p.day THEN Books[d] \cup p.counts ELSE Books[d]
  BY <1>1, <1>2, MergedTyped DEF Machine
<1>4. \A c : Entered(c)' <=> Entered(c) \/ c \in p.counts
  <2>1. \A c : (\E d \in Days : c \in Books'[d])
                 <=> (\E d \in Days : c \in Books[d]) \/ c \in p.counts
    BY <1>1, <1>3
  <2> QED BY <2>1 DEF Entered
<1>5. /\ \A c : Flying(c)' => Flying(c)
      /\ \A c : Flying(c) => Flying(c)' \/ c \in p.counts
      /\ \A c \in p.counts : Flying(c)
  <2>1. /\ \A c : (\E x \in Sheets' : c \in x.counts /\ x.at # "arrived")
                    => \E x \in Sheets : c \in x.counts /\ x.at # "arrived"
        /\ \A c : (\E x \in Sheets : c \in x.counts /\ x.at # "arrived")
                    => (\E x \in Sheets' : c \in x.counts /\ x.at # "arrived")
                       \/ c \in p.counts
        /\ \A c \in p.counts : \E x \in Sheets : c \in x.counts /\ x.at # "arrived"
    BY <1>1, <1>2
  <2> QED BY <2>1 DEF Flying, Sheets
<1>6. Dated'
  <2>1. \A c \in p.counts : c \in 1 .. Len(counted) /\ counted[c] = p.day
    BY <1>2 DEF Journal, Dated
  <2>2. \A d \in Days : \A c \in Books'[d] : c \in 1 .. Len(counted) /\ counted[c] = d
    BY <1>3, <2>1 DEF Journal, Dated
  <2> QED BY <1>1, <1>2, <2>2 DEF Journal, Dated
<1>7. Single'
  <2>1. \A x \in Sheets' : \A c \in x.counts : ~Entered(c)'
    BY <1>2, <1>4 DEF Journal, Single
  <2> QED BY <1>1, <1>2, <2>1 DEF Journal, Single
<1>8. OnlyOnce'  BY <1>1, <1>4, <1>5 DEF Journal, OnlyOnce
<1>9. Somewhere'  BY <1>1, <1>4, <1>5 DEF Journal, Somewhere
<1> QED BY <1>6, <1>7, <1>8, <1>9 DEF Journal

\* What dies with the daemon is known to be lost.
LEMMA StopJournal == ASSUME Machine, Journal, Stop PROVE Journal'
<1> DEFINE dying == {p \in posts \cup lock.posts : p.at # "arrived"}
<1>1. /\ at[Boot] # Idle /\ at' = [a \in Actors |-> Idle] /\ lock' = Free /\ posts' = {}
      /\ UNCHANGED <<digest, received, unsure, counted>>
  BY DEF Stop, diskVars
<1>2. /\ lost \subseteq lost' /\ UNION {p.counts : p \in dying} \subseteq lost'
      /\ digest = Torn => All(days) \subseteq lost'
  <2> DEFINE held == IF digest = Torn THEN All(days) ELSE {}
             gone == UNION {p.counts : p \in dying}
  <2>1. lost' = lost \cup gone \cup held  BY Zenon DEF Stop
  <2>2. digest = Torn => held = All(days)  OBVIOUS
  <2> HIDE DEF held, gone
  <2>3. lost \subseteq lost' /\ gone \subseteq lost' /\ held \subseteq lost'  BY <2>1
  <2> QED BY <2>2, <2>3 DEF gone
<1>3. Running /\ ~Running'
  <2>1. at'[Boot] = Idle  BY <1>1, Known
  <2> QED BY <1>1, <2>1, AtWork DEF Running, Idle
<1>4. Books = days /\ Books' = LoadDays(digest)
  BY <1>1, <1>3 DEF Books
<1>5. /\ digest # Torn => Books' = Books
      /\ digest = Torn => Books' = NoDays
  BY <1>3, <1>4 DEF Machine, Same, LoadDays
<1>6. \A d \in Days : Books'[d] \subseteq Books[d]
  BY <1>5 DEF NoDays
<1>7. \A c : Entered(c)' => Entered(c)  BY <1>6 DEF Entered
<1>8. \A c : Entered(c) => Entered(c)' \/ c \in lost'
  <2>1. CASE digest = Torn  BY <1>2, <1>4, <2>1 DEF Entered, All
  <2>2. CASE digest # Torn  BY <1>5, <2>2 DEF Entered
  <2> QED BY <2>1, <2>2
<1>9. Sheets' = {}  BY <1>1 DEF Sheets, Free
<1>10. \A c : Flying(c) => c \in lost'
  <2>1. \A c : Flying(c) => \E p \in dying : c \in p.counts  BY DEF Flying
  <2> HIDE DEF dying
  <2> QED BY <1>2, <2>1
<1>11. \A c : ~Flying(c)'  BY <1>9 DEF Flying, Sheets
<1> HIDE DEF dying
<1>12. Dated'  BY <1>1, <1>6, <1>9 DEF Journal, Dated
<1>13. Single'  BY <1>1, <1>9 DEF Single, Free
<1>14. OnlyOnce'  BY <1>1, <1>7, <1>11 DEF Journal, OnlyOnce
<1>15. Somewhere'  BY <1>1, <1>2, <1>8, <1>10 DEF Journal, Somewhere
<1> QED BY <1>12, <1>13, <1>14, <1>15 DEF Journal

LEMMA SavedJournal == ASSUME Machine, Journal, Saved PROVE Journal'
<1>1. /\ lock # Free /\ lock' = Free /\ posts' = posts \cup lock.posts /\ digest' = days
      /\ UNCHANGED <<days, received, unsure, lost, counted>>
  BY DEF Saved
<1>2. Running /\ Machine'  BY <1>1, AtWork, SavedMachine
<1>3. Books' = Books
  <2>1. ~Running' => Books' = days /\ days \in [Days -> SUBSET Counts]
    <3>1. days \in [Days -> SUBSET Counts]  BY DEF Machine, Shapes
    <3> QED BY <1>1, <3>1, Rests, Known DEF Books, LoadDays
  <2> QED BY <1>1, <1>2, <2>1, BooksAre
<1>4. Sheets' = Sheets /\ lock'.posts = {}  BY <1>1 DEF Sheets, Free
<1> QED BY <1>1, <1>3, <1>4, StillJournal

\* The steps that leave every count where it is.
LEMMA QuietJournal ==
    ASSUME Machine, Journal, UNCHANGED <<days, digest, lock, posts>>,
           Running' <=> Running, UNCHANGED <<received, unsure, lost, counted>>
    PROVE  Journal'
<1>1. Books' = Books /\ Sheets' = Sheets  BY DEF Books, Sheets
<1>2. posts' \cap lock'.posts = {} /\ \A p \in lock'.posts : p.at = "sent"
  BY DEF Journal, Single
<1> QED BY <1>1, <1>2, StillJournal

LEMMA MoverRuns ==
    ASSUME Machine, NEW a \in Actors, NEW w, at' = [at EXCEPT ![a] = w],
           Running, a = Boot => w.at # "idle"
    PROVE  Running'
<1>1. at' = [at EXCEPT ![a] = w] /\ at \in [Actors -> Where]  BY DEF Machine, Shapes
<1> QED BY <1>1, Known DEF Running

LEMMA RequestJournal ==
    ASSUME Machine, Journal, NEW r \in Calls, Command(r) \/ Bump(r) \/ Send(r)
    PROVE  Journal'
<1>1. r \in Actors /\ r # Boot  BY Known
<1>2. Running  BY <1>1, AtWork DEF Command, Bump, Send
<1>3. CASE Command(r)
  <2> DEFINE w == IF Load(product).day = today THEN [at |-> "count"]
                  ELSE [at |-> "noting", seen |-> [Load(product) EXCEPT !.day = today]]
  <2>1. at' = [at EXCEPT ![r] = w]  BY <1>3 DEF Command
  <2>2. UNCHANGED <<days, digest, lock, posts, received, unsure, lost, counted>>
    BY <1>3 DEF Command, diskVars, netVars
  <2> HIDE DEF w
  <2> QED BY <1>1, <1>2, <2>1, <2>2, MoverRuns, QuietJournal
<1>4. CASE Bump(r)
  <2>1. lock = Free /\ UNCHANGED <<posts, received, unsure, lost>>
    BY <1>4 DEF Bump, netVars
  <2>2. CASE Len(counted) < MaxCounts
    <3>1. /\ days' = [days EXCEPT ![today] = @ \cup {Len(counted) + 1}]
          /\ counted' = Append(counted, today) /\ at' = at /\ lock'.posts = {}
      BY <1>4, <2>2 DEF Bump, Change
    <3> QED BY <1>2, <2>1, <2>2, <3>1, BumpJournal DEF Free
  <2>3. CASE ~(Len(counted) < MaxCounts)
    <3> DEFINE w == [at |-> "ship"]
    <3>1. at' = [at EXCEPT ![r] = w] /\ UNCHANGED <<days, digest, lock, counted>>
      BY <1>4, <2>3 DEF Bump
    <3> HIDE DEF w
    <3> QED BY <1>1, <1>2, <2>1, <3>1, MoverRuns, QuietJournal
  <2> QED BY <2>2, <2>3
<1>5. CASE Send(r)
  <2> DEFINE w == [at |-> "count"]
  <2>1. /\ at' = [at EXCEPT ![r] = w]
        /\ UNCHANGED <<days, digest, lock, posts, received, unsure, lost, counted>>
    BY <1>5 DEF Send, diskVars, netVars
  <2> HIDE DEF w
  <2> QED BY <1>1, <1>2, <2>1, MoverRuns, QuietJournal
<1> QED BY <1>3, <1>4, <1>5

LEMMA WriterJournal ==
    ASSUME Machine, Journal, NEW a \in Actors, Empty(a) \/ Fill(a) \/ Ship(a)
    PROVE  Journal'
<1>1. Running /\ at \in [Actors -> Where]
  BY AtWork DEF Empty, Fill, Ship, Machine, Shapes
<1>2. CASE Empty(a)
  <2> DEFINE w == [at[a] EXCEPT !.at = "filling"]
  <2>1. w.at = "filling"
    <3>1. at[a].at = "noting" /\ Shapes  BY <1>2 DEF Empty, Machine
    <3>2. w = [at |-> "filling", seen |-> at[a].seen]  BY <3>1, WhereIs
    <3> QED BY <3>2
  <2>2. /\ at' = [at EXCEPT ![a] = w]
        /\ UNCHANGED <<days, digest, lock, posts, received, unsure, lost, counted>>
    BY <1>2 DEF Empty, netVars
  <2> HIDE DEF w
  <2> QED BY <1>1, <2>1, <2>2, MoverRuns, QuietJournal
<1>3. CASE Fill(a)
  <2> DEFINE w == IF a = Boot THEN [at |-> "ship"]
                  ELSE [at |-> "sending", day |-> at[a].seen.day]
  <2>1. a = Boot => w.at # "idle"  OBVIOUS
  <2>2. /\ at' = [at EXCEPT ![a] = w]
        /\ UNCHANGED <<days, digest, lock, posts, received, unsure, lost, counted>>
    BY <1>3 DEF Fill, netVars
  <2> HIDE DEF w
  <2> QED BY <1>1, <2>1, <2>2, MoverRuns, QuietJournal
<1>4. CASE Ship(a)
  <2>1. lock = Free /\ UNCHANGED <<posts, received, unsure, counted>>
    BY <1>4 DEF Ship, netVars
  <2>2. CASE Completed = {}
    <3> DEFINE w == IF a = Boot THEN [at |-> "up"] ELSE Idle
    <3>1. a = Boot => w.at # "idle"  OBVIOUS
    <3>2. at' = [at EXCEPT ![a] = w] /\ UNCHANGED <<days, digest, lock, lost>>
      BY <1>4, <2>2 DEF Ship
    <3> HIDE DEF w
    <3> QED BY <1>1, <2>1, <3>1, <3>2, MoverRuns, QuietJournal
  <2>3. CASE Completed # {}
    <3>1. /\ days' = Taken(Completed) /\ lock'.posts = NewPosts /\ at' = at
          /\ lost' = lost \cup UNION {days[d] : d \in Completed \ Kept(Completed)}
      BY <1>4, <2>3 DEF Ship, Change, Remaining, NewPosts
    <3> QED BY <1>1, <2>1, <3>1, ShipJournal DEF Free
  <2> QED BY <2>2, <2>3
<1> QED BY <1>2, <1>3, <1>4

\* A start takes up the books where the file has them.
LEMMA StartJournal == ASSUME Machine, Journal, Start \/ Launch PROVE Journal'
<1>1. at \in [Actors -> Where] /\ Boot \in Actors  BY Known DEF Machine, Shapes
<1>2. CASE Start
  <2>1. /\ at[Boot] = Idle /\ at' = [at EXCEPT ![Boot] = [at |-> "launch"]]
        /\ days' = LoadDays(digest)
        /\ UNCHANGED <<digest, lock, posts, received, unsure, lost, counted>>
    BY <1>2 DEF Start, diskVars, netVars
  <2>2. ~Running /\ Running'  BY <1>1, <2>1 DEF Running, Idle
  <2>3. Books' = Books /\ Sheets' = Sheets  BY <2>1, <2>2 DEF Books, Sheets
  <2>4. posts' \cap lock'.posts = {} /\ \A p \in lock'.posts : p.at = "sent"
    BY <2>1 DEF Journal, Single
  <2> QED BY <2>1, <2>3, <2>4, StillJournal
<1>3. CASE Launch
  <2> DEFINE w == [at |-> "noting", seen |-> Launched(Load(product))]
  <2>1. /\ at[Boot].at = "launch" /\ at' = [at EXCEPT ![Boot] = w]
        /\ UNCHANGED <<days, digest, lock, posts, received, unsure, lost, counted>>
    BY <1>3 DEF Launch, diskVars, netVars
  <2>2. w.at # "idle" /\ Running  BY <2>1 DEF Running
  <2> HIDE DEF w
  <2> QED BY <1>1, <2>1, <2>2, MoverRuns, QuietJournal
<1> QED BY <1>2, <1>3

LEMMA JournalStep == ASSUME Machine, Journal, [TelNext]_telVars PROVE Journal'
<1>1. CASE NewDay
  <2>1. UNCHANGED <<days, digest, lock, at, posts, received, unsure, lost, counted>>
    BY <1>1 DEF NewDay, diskVars, netVars
  <2> QED BY <2>1, BooksAre, QuietJournal
<1>2. CASE UNCHANGED telVars
  <2>1. UNCHANGED <<days, digest, lock, at, posts, received, unsure, lost, counted>>
    BY <1>2 DEF telVars, diskVars, netVars
  <2> QED BY <2>1, BooksAre, QuietJournal
<1> QED BY <1>1, <1>2, RequestJournal, WriterJournal, StartJournal, SavedJournal, StopJournal,
           ArriveJournal, AnswerJournal, FailJournal, RestoreJournal
        DEF TelNext, Requesting, Writing, Sending, Starting

-----------------------------------------------------------------------------
(* The day that is written down: Remembered is inductive *)

LEMMA NotedGrows ==
    ASSUME commands \subseteq commands', cut \subseteq cut',
           \A r \in Calls : at[r].at = "sending" =>
              at'[r] = at[r] \/ at[r].day \in commands' \cup cut'
    PROVE  Noted \subseteq Noted'
<1>1. ASSUME NEW r \in Calls, at[r].at = "sending" PROVE at[r].day \in Noted'
  BY <1>1 DEF Noted
<1> QED BY <1>1 DEF Noted

LEMMA StillRemembered ==
    ASSUME Remembered, Noted \subseteq Noted', product' \in {product, Torn},
           at'[Boot].at \in {"noting", "filling"} =>
              at[Boot].at \in {"noting", "filling"} /\ at'[Boot].seen = at[Boot].seen
    PROVE  Remembered'
<1>1. Load(product)'.day \in Noted' \cup {0}
  <2>1. CASE product' = product  BY <2>1 DEF Remembered, Load
  <2>2. CASE product' = Torn  BY <2>2 DEF Load, Unset
  <2> QED BY <2>1, <2>2
<1> QED BY <1>1 DEF Remembered

\* One actor moves that was not about to send: nothing is forgotten.
LEMMA MoverNoted ==
    ASSUME Machine, NEW a \in Actors, NEW w, at' = [at EXCEPT ![a] = w],
           at[a].at # "sending", UNCHANGED <<commands, cut>>
    PROVE  Noted \subseteq Noted' /\ at'[a] = w /\ (a # Boot => at'[Boot] = at[Boot])
<1>1. at \in [Actors -> Where] /\ Boot \in Actors /\ Calls \subseteq Actors
  BY Known DEF Machine, Shapes
<1>2. at'[a] = w /\ \A b \in Actors : b # a => at'[b] = at[b]  BY <1>1
<1> QED BY <1>1, <1>2, NotedGrows

LEMMA RequestRemembered ==
    ASSUME Machine, Remembered, NEW r \in Calls, Command(r) \/ Bump(r) \/ Send(r)
    PROVE  Remembered'
<1>1. r \in Actors /\ r # Boot /\ product' = product /\ cut' = cut
  BY Known DEF Command, Bump, Send, diskVars
<1>2. CASE Command(r)
  <2> DEFINE w == IF Load(product).day = today THEN [at |-> "count"]
                  ELSE [at |-> "noting", seen |-> [Load(product) EXCEPT !.day = today]]
  <2>1. at' = [at EXCEPT ![r] = w] /\ at[r].at # "sending" /\ UNCHANGED <<commands, cut>>
    BY <1>2 DEF Command, Idle, eventVars
  <2> HIDE DEF w
  <2> QED BY <1>1, <2>1, MoverNoted, StillRemembered
<1>3. CASE Bump(r)
  <2>1. at[r].at # "sending" /\ UNCHANGED <<commands, cut>>  BY <1>3 DEF Bump, eventVars
  <2>2. CASE at' = at
    <3>1. Noted \subseteq Noted'  BY <2>1, <2>2 DEF Noted
    <3> QED BY <1>1, <2>2, <3>1, StillRemembered
  <2>3. CASE at' # at
    <3> DEFINE w == [at |-> "ship"]
    <3>1. at' = [at EXCEPT ![r] = w]  BY <1>3, <2>3 DEF Bump
    <3> HIDE DEF w
    <3> QED BY <1>1, <2>1, <3>1, MoverNoted, StillRemembered
  <2> QED BY <2>2, <2>3
<1>4. CASE Send(r)
  <2> DEFINE w == [at |-> "count"]
  <2>1. at' = [at EXCEPT ![r] = w] /\ commands' = commands \cup {at[r].day}
    BY <1>4 DEF Send
  <2>2. at \in [Actors -> Where] /\ Boot \in Actors /\ Calls \subseteq Actors
    BY Known DEF Machine, Shapes
  <2>3. \A b \in Actors : b # r => at'[b] = at[b]  BY <2>1, <2>2
  <2>4. Noted \subseteq Noted'  BY <1>1, <2>1, <2>2, <2>3, NotedGrows
  <2> QED BY <1>1, <2>2, <2>3, <2>4, StillRemembered
<1> QED BY <1>2, <1>3, <1>4

LEMMA WriterRemembered ==
    ASSUME Machine, Remembered, NEW a \in Actors, Empty(a) \/ Fill(a) \/ Ship(a)
    PROVE  Remembered'
<1>1. /\ at[a].at # "sending" /\ UNCHANGED <<commands, cut>> /\ Boot \in Actors
      /\ (a = Boot \/ a \in Calls) /\ at \in [Actors -> Where] /\ Shapes
  BY Known DEF Empty, Fill, Ship, eventVars, Actors, Machine, Shapes
<1>2. CASE Empty(a)
  <2> DEFINE w == [at |-> "filling", seen |-> at[a].seen]
  <2>1. at[a].at = "noting" /\ product' = Torn /\ at' = [at EXCEPT ![a] = w]
    <3>1. at[a].at = "noting" /\ product' = Torn
          /\ at' = [at EXCEPT ![a] = [at[a] EXCEPT !.at = "filling"]]
      BY <1>2 DEF Empty
    <3> QED BY <1>1, <3>1, WhereIs
  <2>2. w.seen = at[a].seen  OBVIOUS
  <2> HIDE DEF w
  <2>3. Noted \subseteq Noted' /\ at'[a] = w /\ (a # Boot => at'[Boot] = at[Boot])
    BY <1>1, <2>1, MoverNoted
  <2> QED BY <2>1, <2>2, <2>3, StillRemembered
<1>3. CASE Fill(a)
  <2> DEFINE w == IF a = Boot THEN [at |-> "ship"]
                  ELSE [at |-> "sending", day |-> at[a].seen.day]
  <2>1. /\ at[a].at = "filling" /\ product' \in {at[a].seen, Torn}
        /\ at' = [at EXCEPT ![a] = w]
    BY <1>3 DEF Fill, Filled
  <2>2. /\ a = Boot => w.at = "ship"
        /\ a # Boot => w.at = "sending" /\ w.day = at[a].seen.day
    OBVIOUS
  <2> HIDE DEF w
  <2>3. Noted \subseteq Noted' /\ at'[a] = w /\ (a # Boot => at'[Boot] = at[Boot])
    BY <1>1, <2>1, MoverNoted
  <2>4. at[a].seen.day \in Noted' \cup {0}
    <3>1. CASE a = Boot  BY <2>1, <2>3, <3>1 DEF Remembered
    <3>2. CASE a # Boot
      <4>1. a \in Calls /\ at'[a].at = "sending" /\ at'[a].day = at[a].seen.day
        BY <1>1, <2>2, <2>3, <3>2
      <4> QED BY <4>1 DEF Noted
    <3> QED BY <3>1, <3>2
  <2>5. Load(product)'.day \in Noted' \cup {0}
    <3>1. CASE product' = Torn  BY <3>1 DEF Load, Unset
    <3>2. CASE product' # Torn  BY <2>1, <2>4, <3>2 DEF Load
    <3> QED BY <3>1, <3>2
  <2>6. at'[Boot].at \in {"noting", "filling"} => at'[Boot].seen.day \in Noted' \cup {0}
    BY <2>2, <2>3 DEF Remembered
  <2> QED BY <2>5, <2>6 DEF Remembered
<1>4. CASE Ship(a)
  <2>1. product' = product  BY <1>4 DEF Ship
  <2>2. CASE at' = at
    <3>1. Noted \subseteq Noted'  BY <1>1, <2>2 DEF Noted
    <3> QED BY <2>1, <2>2, <3>1, StillRemembered
  <2>3. CASE at' # at
    <3> DEFINE w == IF a = Boot THEN [at |-> "up"] ELSE Idle
    <3>1. at' = [at EXCEPT ![a] = w]  BY <1>4, <2>3 DEF Ship
    <3>2. w.at \notin {"noting", "filling"}  BY DEF Idle
    <3> HIDE DEF w
    <3>3. Noted \subseteq Noted' /\ at'[a] = w /\ (a # Boot => at'[Boot] = at[Boot])
      BY <1>1, <3>1, MoverNoted
    <3> QED BY <2>1, <3>2, <3>3, StillRemembered
  <2> QED BY <2>2, <2>3
<1> QED BY <1>2, <1>3, <1>4

LEMMA StartRemembered == ASSUME Machine, Remembered, Start \/ Launch PROVE Remembered'
<1>1. Boot \in Actors /\ product' = product /\ UNCHANGED <<commands, cut>>
  BY Known DEF Start, Launch, diskVars, eventVars
<1>2. CASE Start
  <2> DEFINE w == [at |-> "launch"]
  <2>1. at' = [at EXCEPT ![Boot] = w] /\ at[Boot].at # "sending"
    BY <1>2 DEF Start, Idle
  <2>2. w.at = "launch"  OBVIOUS
  <2> HIDE DEF w
  <2> QED BY <1>1, <2>1, <2>2, MoverNoted, StillRemembered
<1>3. CASE Launch
  <2> DEFINE w == [at |-> "noting", seen |-> Launched(Load(product))]
  <2>1. at' = [at EXCEPT ![Boot] = w] /\ at[Boot].at # "sending"
    BY <1>3 DEF Launch
  <2>2. w.seen.day = Load(product).day
    <3>1. Load(product) \in State  BY LoadTyped DEF Machine
    <3> QED BY <3>1 DEF State, Launched, LaunchState
  <2> HIDE DEF w
  <2>3. Noted \subseteq Noted' /\ at'[Boot] = w  BY <1>1, <2>1, MoverNoted
  <2>4. Load(product)' = Load(product)  BY <1>1 DEF Load
  <2> QED BY <2>2, <2>3, <2>4 DEF Remembered
<1> QED BY <1>2, <1>3

LEMMA SavedRemembered == ASSUME Machine, Remembered, Saved PROVE Remembered'
<1>1. product' = product /\ UNCHANGED <<commands, cut>> /\ lock # Free
  BY DEF Saved, eventVars
<1>2. lock.by = Task \/ (lock.by \in Actors /\ at[lock.by].at \in {"count", "ship"})
  BY <1>1 DEF Machine, Places
<1>3. CASE at' = at
  <2>1. Noted \subseteq Noted'  BY <1>1, <1>3 DEF Noted
  <2> QED BY <1>1, <1>3, <2>1, StillRemembered
<1>4. CASE at' # at
  <2> DEFINE a == lock.by
             w == IF a = Boot THEN [at |-> "up"]
                  ELSE IF at[a].at = "count" THEN [at |-> "ship"] ELSE Idle
  <2>1. at' = [at EXCEPT ![a] = w] /\ a \in Actors /\ at[a].at # "sending"
    BY <1>2, <1>4 DEF Saved
  <2>2. w.at \notin {"noting", "filling"}  BY DEF Idle
  <2> HIDE DEF a, w
  <2>3. Noted \subseteq Noted' /\ at'[a] = w /\ (a # Boot => at'[Boot] = at[Boot])
    BY <1>1, <2>1, MoverNoted
  <2> QED BY <1>1, <2>2, <2>3, StillRemembered
<1> QED BY <1>3, <1>4

LEMMA StopRemembered == ASSUME Machine, Remembered, Stop PROVE Remembered'
<1>1. /\ product' = product /\ commands' = commands
      /\ at' = [a \in Actors |-> Idle]
      /\ cut' = cut \cup {at[r].day : r \in {r \in Calls : at[r].at = "sending"}}
  BY DEF Stop, diskVars, eventVars
<1>2. at'[Boot].at = "idle"  BY <1>1, Known DEF Idle
<1>3. Noted \subseteq Noted'  BY <1>1 DEF Noted
<1> QED BY <1>1, <1>2, <1>3, StillRemembered

LEMMA RememberedStep == ASSUME Machine, Remembered, [TelNext]_telVars PROVE Remembered'
<1>1. ASSUME UNCHANGED <<product, at, commands, cut>> PROVE Remembered'
  <2>1. Noted \subseteq Noted'  BY <1>1 DEF Noted
  <2> QED BY <1>1, <2>1, StillRemembered
<1>2. CASE NewDay  BY <1>1, <1>2 DEF NewDay, diskVars, eventVars
<1>3. CASE UNCHANGED telVars  BY <1>1, <1>3 DEF telVars, diskVars, eventVars
<1>4. ASSUME NEW p \in posts, Arrive(p) \/ Answer(p) \/ Fail(p) \/ Restore(p)
      PROVE  Remembered'
  BY <1>1, <1>4 DEF Arrive, Answer, Fail, Restore, diskVars, eventVars
<1> QED BY <1>2, <1>3, <1>4, RequestRemembered, WriterRemembered, StartRemembered,
           SavedRemembered, StopRemembered DEF TelNext, Requesting, Writing, Sending, Starting

-----------------------------------------------------------------------------
(* The theorems *)

\* The daemon's telemetry keeps its shapes, its locks and its two files.
THEOREM TelemetryTypes == TelSpec => []Machine
<1>1. TelInit => Machine  BY InitMachine
<1>2. Machine /\ [TelNext]_telVars => Machine'  BY MachineStep
<1> QED BY <1>1, <1>2, PTL DEF TelSpec

\* What has been counted is in the books, in a post or received, across
\* failures, stops and files cut short, unless it died with the daemon.
THEOREM CountsStayKept == TelSpec => []CountsKept
<1>1. TelInit => Machine /\ Journal  BY InitMachine, InitJournal
<1>2. Machine /\ Journal /\ [TelNext]_telVars => Machine' /\ Journal'
  BY MachineStep, JournalStep
<1>3. Machine /\ Journal => CountsKept
  <2> SUFFICES ASSUME Machine, Journal, NEW c \in 1 .. Len(counted)
               PROVE  \/ IF Running THEN InBooks(c) ELSE Saves(c)
                      \/ Flying(c) \/ received[c] > 0 \/ c \in lost
    BY DEF CountsKept
  <2>1. Entered(c) => IF Running THEN InBooks(c) ELSE Saves(c)
    <3>1. CASE Running  BY <3>1 DEF Entered, Books, InBooks
    <3>2. CASE ~Running  BY <3>2 DEF Entered, Books, Saves, LoadDays, NoDays
    <3> QED BY <3>1, <3>2
  <2> QED BY <2>1 DEF Journal, Somewhere
<1> QED BY <1>1, <1>2, <1>3, PTL DEF TelSpec

\* A count is never sent again unless the answer to a post that had arrived was
\* lost, and one that waits is still under the day it was made on.
THEOREM SentStaysOnce == TelSpec => []SentOnce
<1>1. TelInit => Machine /\ Journal  BY InitMachine, InitJournal
<1>2. Machine /\ Journal /\ [TelNext]_telVars => Machine' /\ Journal'
  BY MachineStep, JournalStep
<1>3. Machine /\ Journal => SentOnce
  <2> SUFFICES ASSUME Machine, Journal PROVE SentOnce
    OBVIOUS
  <2>1. CASE Running
    <3>1. Books = days  BY <2>1 DEF Books
    <3>2. \A c : InBooks(c) <=> Entered(c)  BY <3>1 DEF InBooks, Entered
    <3> QED BY <3>1, <3>2 DEF SentOnce, Journal, OnlyOnce, Dated
  <2>2. CASE ~Running
    <3>1. days = NoDays  BY <2>2 DEF Machine, Off
    <3>2. \A d \in Days : days[d] = {}  BY <3>1 DEF NoDays
    <3>3. \A c : ~InBooks(c)  BY <3>2 DEF InBooks
    <3> QED BY <3>2, <3>3 DEF SentOnce, Journal, OnlyOnce
  <2> QED BY <2>1, <2>2
<1> QED BY <1>1, <1>2, <1>3, PTL DEF TelSpec

\* A day that is written down has its event, however requests overlap, unless
\* the daemon died between the two.
THEOREM DaysStayNoted == TelSpec => []DaysNoted
<1>1. TelInit => Machine /\ Remembered
  <2> SUFFICES ASSUME TelInit PROVE Remembered
    BY InitMachine
  <2>1. product = [version |-> 1, day |-> 1] /\ commands = {1} /\ at[Boot] = Idle
    BY Known DEF TelInit
  <2>2. Load(product).day = 1 \/ Load(product).day = 0  BY <2>1 DEF Load, Unset
  <2> QED BY <2>1, <2>2 DEF Remembered, Noted, Idle
<1>2. Machine /\ Remembered /\ [TelNext]_telVars => Machine' /\ Remembered'
  BY MachineStep, RememberedStep
<1>3. Remembered => DaysNoted  BY DEF Remembered, DaysNoted, Noted
<1> QED BY <1>1, <1>2, <1>3, PTL DEF TelSpec

=============================================================================
