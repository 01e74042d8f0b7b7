----------------------------- MODULE DaemonProofs -----------------------------
(***************************************************************************)
(* What the pidfile and the swap of binaries keep, for any number of       *)
(* daemons, tools, ports and faults.  A tool's step is followed on the     *)
(* record of that tool alone: first what such a record may be (Sound),     *)
(* then what it says of the binaries while the tool replaces them (Whole). *)
(*                                                                         *)
(* After them, what a daemon and a tool are for, each an instance: a data  *)
(* command does the same with and without the daemon (C, of Cli), and the  *)
(* model a daemon loads is loaded, used and fetched once (E, of Embedder). *)
(***************************************************************************)
EXTENDS Daemon, TLAPS

-----------------------------------------------------------------------------
\* Types.

\* What a tool does and has, by where it is.
Fits(r) ==
    /\ r.pc \in {"start", "spawn", "await"} => r.kind \notin {"stop", "export"}
    /\ r.pc \in {"stop", "stopping"} => r.kind \in {"stop", "restart", "upgrade", "rollback"}
    /\ r.pc \in {"fetch", "download", "sum", "unpack", "drop", "keep", "install", "verify", "restore"}
          => r.kind = "upgrade"
    /\ r.pc \in {"look", "aside", "back", "put"} => r.kind = "rollback"
    /\ r.pc \in {"probe", "reprobe"} => r.kind \in {"write", "ask"}
    /\ r.pc = "direct" => r.kind \in {"write", "ask", "export"}
    /\ r.pc \in {"await", "stopping"} => r.pid \in Daemons
    /\ r.pc = "sum" => r.staged # None
    /\ r.kind = "upgrade" /\ r.pc \in {"unpack", "stop", "stopping", "drop", "keep", "install"}
          => r.staged = Latest
    /\ r.pc \in {"fetch", "download", "sum", "unpack", "look", "stop", "stopping", "drop", "keep"}
          => r.from = None /\ ~r.second
    /\ r.pc \in {"install", "verify", "restore"} => ~r.second
    /\ r.result # "none" => r.pc = "done"

Sound(r) == r \in ToolState /\ Fits(r)

AllSound == TypeOK /\ \A t \in Tools : Fits(tool[t])

LEMMA PortsDefault == DefaultPort \in Ports
  BY DaemonAssumption DEF DefaultPort

LEMMA EndSound ==
    ASSUME NEW r \in ToolState, NEW result \in Results
    PROVE  Sound(End(r, result)) /\ End(r, result).pc = "done" /\ End(r, result).kind = r.kind
                /\ End(r, result).result = result
<1>1. Idle \in ToolState  BY PortsDefault DEF Idle, ToolState, Pcs, Bins, Commands, Results
<1>2. End(r, result) \in ToolState  BY <1>1 DEF End, ToolState, Pcs
<1>3. Fits(End(r, result))  BY DEF End, Idle, Fits
<1> QED BY <1>2, <1>3 DEF Sound, End, Idle

LEMMA StartReturnsSound ==
    ASSUME NEW r, Sound(r), r.pc \in {"start", "spawn", "await"}, NEW ok \in BOOLEAN
    PROVE  Sound(StartReturns(r, ok))
<1>1. CASE r.kind \in {"write", "ask"}
  BY <1>1 DEF StartReturns, Sound, Fits, ToolState, Pcs
<1>2. CASE r.kind \notin {"write", "ask"}
  <2>1. CASE r.second \/ ok
    BY <1>2, <2>1, EndSound DEF StartReturns, Sound, Results
  <2>2. CASE ~(r.second \/ ok)
    <3>1. CASE r.kind = "upgrade"  BY <1>2, <2>2, <3>1 DEF StartReturns, Sound, Fits, ToolState, Pcs
    <3>2. CASE r.kind = "rollback"  BY <1>2, <2>2, <3>2 DEF StartReturns, Sound, Fits, ToolState, Pcs
    <3>3. CASE r.kind \notin {"upgrade", "rollback"}
      BY <1>2, <2>2, <3>3, EndSound DEF StartReturns, Sound, Results
    <3> QED BY <3>1, <3>2, <3>3
  <2> QED BY <2>1, <2>2
<1> QED BY <1>1, <1>2

LEMMA StopReturnsSound ==
    ASSUME NEW r, Sound(r), r.pc \in {"stop", "stopping"}, NEW stopped \in BOOLEAN
    PROVE  Sound(StopReturns(r, stopped))
<1>1. CASE r.kind = "stop"  BY <1>1, EndSound DEF StopReturns, Sound, Results
<1>2. CASE r.kind = "restart"  BY <1>2 DEF StopReturns, Sound, Fits, ToolState, Pcs
<1>3. CASE r.kind = "upgrade"  BY <1>3 DEF StopReturns, Sound, Fits, ToolState, Pcs
<1>4. CASE r.kind = "rollback"  BY <1>4 DEF StopReturns, Sound, Fits, ToolState, Pcs
<1> QED BY <1>1, <1>2, <1>3, <1>4 DEF Sound, Fits

LEMMA StartAgainSound ==
    ASSUME NEW r \in ToolState, r.kind \in {"upgrade", "rollback"}, r.result = "none", NEW v \in Bins
    PROVE  Sound(StartAgain(r, v))
<1>1. CASE r.was  BY <1>1 DEF StartAgain, Sound, Fits, ToolState, Pcs
<1>2. CASE ~r.was  BY <1>2, EndSound DEF StartAgain, Sound, Results
<1> QED BY <1>1, <1>2
LEMMA BinsVersions == None \in Bins /\ Installed \in Bins /\ Latest \in Bins /\ Latest # None
  BY DaemonAssumption DEF Bins, None, Versions

\* A tool of the record another leaves in its place.
LEMMA GoSound ==
    ASSUME AllSound, NEW t \in Tools, NEW r, Sound(r), Go(t, r)
    PROVE  tool' \in [Tools -> ToolState] /\ \A u \in Tools : Fits(tool'[u])
<1>1. tool' = [tool EXCEPT ![t] = r] /\ tool \in [Tools -> ToolState] /\ r \in ToolState /\ Fits(r)
  BY DEF Go, AllSound, TypeOK, Sound
<1>2. \A u \in Tools : tool'[u] = IF u = t THEN r ELSE tool[u]  BY <1>1
<1> QED BY <1>1, <1>2 DEF AllSound

LEMMA DiedTypes ==
    ASSUME AllSound, NEW d \in Daemons, proc' = Died(d)
    PROVE  proc' \in [Daemons -> Process] /\ \A e \in Daemons : proc'[e].term => Alive(e)'
<1>1. Unborn \in Process  BY PortsDefault DEF Unborn, Process, Phases, Bins
<1>2. proc' = [proc EXCEPT ![d] = [Unborn EXCEPT !.phase = "dead", !.port = proc[d].port]]
  BY DEF Died
<1>3. proc \in [Daemons -> Process]  BY DEF AllSound, TypeOK
<1>4. /\ [Unborn EXCEPT !.phase = "dead", !.port = proc[d].port] \in Process
      /\ ~[Unborn EXCEPT !.phase = "dead", !.port = proc[d].port].term
  BY <1>1, <1>3 DEF Process, Phases, Unborn
<1> QED BY <1>2, <1>3, <1>4 DEF AllSound, TypeOK, Alive

LEMMA DaemonStepTypes ==
    ASSUME AllSound, NEW d \in Daemons, DaemonStep(d)
    PROVE  AllSound'
<1> USE DEF AllSound
<1>0. /\ proc \in [Daemons -> Process] /\ proc[d] \in Process
      /\ \A e \in Daemons : proc[e].term => Alive(e)
      /\ faults \in 0 .. MaxFaults /\ MaxFaults \in Nat
  BY DaemonAssumption DEF TypeOK
<1>a. /\ UNCHANGED <<tool, binVars, mixed>>
      /\ file' \in Daemons \cup {Nobody} /\ orphaned' \subseteq Daemons
      /\ faults' \in 0 .. MaxFaults
  <2>1. Writers \subseteq Daemons /\ file \in Daemons \cup {Nobody} /\ orphaned \subseteq Daemons
    BY DEF Writers, TypeOK
  <2>2. /\ UNCHANGED <<tool, binVars, mixed>>
        /\ file' \in {file, d, Nobody} /\ orphaned' \in {orphaned, orphaned \cup ({file} \cap Writers)}
    BY DEF DaemonStep, Boot, Check, Bind, Publish, Open, OpenRefused, Terminated, Drain,
       OwnFileGone, Exit, Crash, Reuse, ghostVars
  <2>3. Fault \/ UNCHANGED faults
    BY DEF DaemonStep, Boot, Check, Bind, Publish, Open, OpenRefused, Terminated, Drain,
       Exit, Crash, Reuse, ghostVars
  <2> QED BY <1>0, <2>1, <2>2, <2>3 DEF Fault
<1>b. proc' \in [Daemons -> Process] /\ \A e \in Daemons : proc'[e].term => Alive(e)'
  <2>1. CASE proc' = Died(d)  BY <2>1, DiedTypes
  <2>2. ASSUME NEW p \in Ports, Boot(d, p)
        PROVE  proc' \in [Daemons -> Process] /\ \A e \in Daemons : proc'[e].term => Alive(e)'
    BY <1>0, <2>2 DEF Boot, Process, Phases, Alive, TypeOK
  <2>3. CASE Check(d) /\ ~Live
    <3>1. {e \in Daemons : proc[e].phase \in {"checked", "bound"}} \in SUBSET Daemons  OBVIOUS
    <3> QED BY <1>0, <2>3, <3>1 DEF Check, Process, Phases, Alive
  <2>4. CASE Bind(d) /\ ~Held(proc[d].port)  BY <1>0, <2>4 DEF Bind, Process, Phases, Alive
  <2>5. CASE Publish(d)  BY <1>0, <2>5 DEF Publish, Process, Phases, Alive
  <2>6. CASE Open(d)  BY <1>0, <2>6 DEF Open, Process, Phases, Alive
  <2>7. CASE Drain(d)  BY <1>0, <2>7 DEF Drain, Process, Phases, Alive
  <2>8. CASE Reuse(d)  BY <1>0, <2>8 DEF Reuse, Process, Phases, Alive
  <2> QED BY <2>1, <2>2, <2>3, <2>4, <2>5, <2>6, <2>7, <2>8
       DEF DaemonStep, Check, Bind, OpenRefused, Terminated, Exit, Crash
<1> QED BY <1>a, <1>b DEF TypeOK, binVars

\* Every step of a tool leaves a sound record.
LEMMA ToolGoes ==
    ASSUME AllSound, NEW t \in Tools, ToolStep(t)
    PROVE  \E s : Sound(s) /\ Go(t, s)
<1>0. PICK r : r = tool[t]  OBVIOUS
<1>1. /\ Sound(r) /\ r \in ToolState /\ Fits(r)
      /\ \A k \in Results : Sound(End(r, k))
  BY <1>0, EndSound DEF AllSound, TypeOK, Sound
<1>2. /\ {"ok", "absent", "error", "restored", "killed", "served"} \subseteq Results
      /\ Live \in BOOLEAN /\ Answers \in BOOLEAN
      /\ bin \in Bins /\ prev \in Bins /\ file \in Daemons \cup {Nobody}
      /\ r.result = "none" \/ r.pc = "done"
  BY <1>1 DEF Results, Live, Answers, AllSound, TypeOK, Fits
<1>3. ASSUME NEW k \in Kinds, NEW p \in Ports, Invoke(t, k, p)  PROVE  \E s : Sound(s) /\ Go(t, s)
  <2>1. k \in Commands  BY DaemonAssumption
  <2>2. PICK s : s = [Idle EXCEPT !.kind = k, !.pc = FirstStep(k), !.port = p, !.exe = bin]  OBVIOUS
  <2>3. /\ FirstStep(k) \in {"start", "stop", "fetch", "look", "probe", "direct"}
        /\ FirstStep(k) = "start" => k = "start"
        /\ FirstStep(k) = "stop" => k \in {"stop", "restart"}
        /\ FirstStep(k) = "fetch" => k = "upgrade"
        /\ FirstStep(k) = "look" => k = "rollback"
        /\ FirstStep(k) = "probe" => k \in {"write", "ask"}
        /\ FirstStep(k) = "direct" => k = "export"
    BY <2>1 DEF Commands, FirstStep
  <2>4. s = [kind |-> k, pc |-> FirstStep(k), port |-> p, exe |-> bin, pid |-> Nobody, was |-> FALSE,
             second |-> FALSE, from |-> None, staged |-> None, result |-> "none"]
    BY <2>2 DEF Idle
  <2>5. s \in ToolState
    BY <2>1, <2>3, <2>4, <1>2, BinsVersions DEF ToolState, Pcs, Results
  <2>6. Fits(s)  BY <2>3, <2>4 DEF Fits
  <2> QED BY <1>3, <2>2, <2>5, <2>6 DEF Invoke, Sound
<1>4. ASSUME r.pc \in {"start", "spawn", "await"}
      PROVE  /\ \A ok \in BOOLEAN : Sound(StartReturns(r, ok))
             /\ r.pc = "start" => Sound([r EXCEPT !.pc = "spawn"])
             /\ r.pc = "spawn" => \A d \in Daemons : Sound([r EXCEPT !.pc = "await", !.pid = d])
  <2>1. \A ok \in BOOLEAN : Sound(StartReturns(r, ok))  BY <1>1, <1>4, StartReturnsSound
  <2>2. r.pc = "start" => Sound([r EXCEPT !.pc = "spawn"])
    BY <1>1, <1>2 DEF Sound, Fits, ToolState, Pcs
  <2>3. r.pc = "spawn" => \A d \in Daemons : Sound([r EXCEPT !.pc = "await", !.pid = d])
    BY <1>1, <1>2 DEF Sound, Fits, ToolState, Pcs
  <2> QED BY <2>1, <2>2, <2>3
<1>5. CASE StartRead(t)  BY <1>0, <1>2, <1>4, <1>5 DEF StartRead, At
<1>6. ASSUME NEW d \in Daemons, Spawn(t, d)  PROVE  \E s : Sound(s) /\ Go(t, s)
  BY <1>0, <1>4, <1>6 DEF Spawn, At
<1>7. CASE StartSeen(t) \/ StartChildExited(t) \/ StartTimeout(t)
  BY <1>0, <1>2, <1>4, <1>7 DEF StartSeen, StartChildExited, StartTimeout, At
<1>8. CASE StopRead(t) \/ StopSeen(t) \/ StopTimeout(t)
  <2>1. r.pc \in {"stop", "stopping"}  BY <1>0, <1>8 DEF StopRead, StopSeen, StopTimeout, At
  <2>2. \A b \in BOOLEAN : Sound(StopReturns(r, b))  BY <1>1, <2>1, StopReturnsSound
  <2>3. r.pc = "stop" => \A d \in Daemons : Sound([r EXCEPT !.pc = "stopping", !.pid = d])
    BY <1>1, <1>2 DEF Sound, Fits, ToolState, Pcs
  <2>4. Live => file \in Daemons  BY <1>2 DEF Live
  <2> QED BY <1>0, <1>1, <1>2, <1>8, <2>2, <2>3, <2>4 DEF StopRead, StopSeen, StopTimeout, At
<1>9. CASE Probe(t) \/ Reprobe(t) \/ DirectEnds(t)
  <2>1. r.pc \in {"probe", "reprobe"} =>
           /\ Sound([r EXCEPT !.pc = "direct"])
           /\ Sound([r EXCEPT !.pc = "start"])
    BY <1>1, <1>2 DEF Sound, Fits, ToolState, Pcs
  <2> QED BY <1>0, <1>1, <1>2, <1>9, <2>1 DEF Probe, Reprobe, DirectEnds, At
<1>10. CASE (\E force \in BOOLEAN : Fetch(t, force)) \/ Download(t) \/ VerifySum(t) \/ Extract(t)
  <2>1. r.pc = "fetch" => Sound([r EXCEPT !.pc = "download"])
    BY <1>1, <1>2 DEF Sound, Fits, ToolState, Pcs
  <2>2. r.pc = "download" => /\ Sound([r EXCEPT !.pc = "sum", !.staged = Latest])
                             /\ Sound([r EXCEPT !.pc = "sum", !.staged = Garbled])
    BY <1>1, <1>2, BinsVersions DEF Sound, Fits, ToolState, Pcs, Garbled, None
  <2>3. r.pc = "sum" /\ SumMatches(r.staged) => Sound([r EXCEPT !.pc = "unpack"])
    BY <1>1, <1>2 DEF Sound, Fits, ToolState, Pcs, SumMatches
  <2>4. r.pc = "unpack" => Sound([r EXCEPT !.pc = "stop"])
    BY <1>1, <1>2 DEF Sound, Fits, ToolState, Pcs
  <2> QED BY <1>0, <1>1, <1>2, <1>10, <2>1, <2>2, <2>3, <2>4
       DEF Fetch, Download, VerifySum, Extract, Fails, At
<1>11. CASE DropPrev(t) \/ KeepCurrent(t) \/ Install(t)
  <2>1. r.pc = "drop" => Sound([r EXCEPT !.pc = "keep"])
    BY <1>1, <1>2 DEF Sound, Fits, ToolState, Pcs
  <2>2. r.pc = "keep" => /\ Sound([r EXCEPT !.pc = "install", !.from = bin])
                         /\ Sound([r EXCEPT !.pc = "install"])
    BY <1>1, <1>2 DEF Sound, Fits, ToolState, Pcs
  <2>3. r.pc = "install" => Sound([r EXCEPT !.pc = "verify"])
    BY <1>1, <1>2 DEF Sound, Fits, ToolState, Pcs
  <2> QED BY <1>0, <1>1, <1>2, <1>11, <2>1, <2>2, <2>3 DEF DropPrev, KeepCurrent, Install, Fails, At
<1>12. CASE Verify(t) \/ RestorePrevious(t)
  <2>1. r.pc \in {"verify", "restore"} => r.kind = "upgrade"  BY <1>1 DEF Fits
  <2>2. r.pc = "verify" => /\ Sound([r EXCEPT !.pc = "restore"])
                           /\ Sound(StartAgain(r, bin))
    BY <1>1, <1>2, <2>1, StartAgainSound DEF Sound, Fits, ToolState, Pcs
  <2>3. r.pc = "restore" => Sound(StartAgain([r EXCEPT !.second = TRUE], prev))
    <3>1. [r EXCEPT !.second = TRUE] \in ToolState  BY <1>1 DEF ToolState
    <3> QED BY <1>1, <1>2, <2>1, <3>1, StartAgainSound DEF ToolState
  <2> QED BY <1>0, <1>1, <1>2, <1>12, <2>2, <2>3 DEF Verify, RestorePrevious, At
<1>13. CASE Look(t) \/ MoveAside(t) \/ BringBack(t) \/ PutAside(t)
  <2>1. r.pc = "look" => Sound([r EXCEPT !.pc = "stop"])
    BY <1>1, <1>2 DEF Sound, Fits, ToolState, Pcs
  <2>2. r.pc = "aside" => Sound([r EXCEPT !.pc = "back", !.from = IF r.second THEN r.from ELSE bin])
    BY <1>1, <1>2 DEF Sound, Fits, ToolState, Pcs
  <2>3. r.pc = "back" => Sound([r EXCEPT !.pc = "put"])
    BY <1>1, <1>2 DEF Sound, Fits, ToolState, Pcs
  <2>4. r.pc = "put" => Sound(StartAgain(r, bin))
    BY <1>1, <1>2, StartAgainSound DEF Fits
  <2> QED BY <1>0, <1>1, <1>2, <1>13, <2>1, <2>2, <2>3, <2>4
       DEF Look, MoveAside, BringBack, PutAside, Fails, At
<1>14. CASE Kill(t)  BY <1>0, <1>1, <1>2, <1>14 DEF Kill
<1> QED BY <1>3, <1>5, <1>6, <1>7, <1>8, <1>9, <1>10, <1>11, <1>12, <1>13, <1>14 DEF ToolStep

LEMMA ToolStepTypes ==
    ASSUME AllSound, NEW t \in Tools, ToolStep(t)
    PROVE  AllSound'
<1>0. /\ tool \in [Tools -> ToolState] /\ tool[t] \in ToolState /\ Fits(tool[t])
  BY DEF AllSound, TypeOK
<1>1. proc' \in [Daemons -> Process] /\ \A e \in Daemons : proc'[e].term => Alive(e)'
  <2>0. proc \in [Daemons -> Process] /\ \A e \in Daemons : proc[e].term => Alive(e)
    BY DEF AllSound, TypeOK
  <2>1. CASE UNCHANGED proc  BY <2>0, <2>1 DEF Alive
  <2>2. ASSUME NEW d \in Daemons, proc' = [proc EXCEPT ![d].term = TRUE], Alive(d)
        PROVE  proc' \in [Daemons -> Process] /\ \A e \in Daemons : proc'[e].term => Alive(e)'
    <3>1. [proc[d] EXCEPT !.term = TRUE] \in Process  BY <2>0 DEF Process
    <3>2. \A e \in Daemons : proc'[e] = IF e = d THEN [proc[d] EXCEPT !.term = TRUE] ELSE proc[e]
      BY <2>0, <2>2
    <3>3. \A e \in Daemons : proc'[e].phase = proc[e].phase  BY <2>0, <3>2 DEF Process
    <3> QED BY <2>0, <2>2, <3>1, <3>2, <3>3 DEF Alive
  <2>3. ASSUME NEW d \in Daemons, Spawn(t, d)
        PROVE  proc' \in [Daemons -> Process] /\ \A e \in Daemons : proc'[e].term => Alive(e)'
    <3> DEFINE s == [proc[d] EXCEPT !.phase = "born", !.port = tool[t].port, !.exe = tool[t].exe]
    <3>0. proc[d] \in Process /\ tool[t].port \in Ports /\ tool[t].exe \in Bins
      BY <2>0, <1>0 DEF ToolState
    <3>1. s \in Process /\ s.phase = "born"  BY <3>0 DEF Process, Phases
    <3>2. proc' = proc \/ proc' = [proc EXCEPT ![d] = s]  BY <2>0, <2>3 DEF Spawn
    <3> QED BY <2>0, <3>1, <3>2 DEF Alive
  <2>4. CASE StartTimeout(t)  BY <2>2, <2>4, <1>0 DEF StartTimeout, Sound, Fits, At
  <2>5. CASE StopRead(t)  BY <2>1, <2>2, <2>5 DEF StopRead, Live, AllSound, TypeOK
  <2> QED BY <2>1, <2>3, <2>4, <2>5 DEF ToolStep, Invoke, StartRead, StartSeen, StartChildExited,
       StopSeen, StopTimeout, Probe, Reprobe, DirectEnds, Fetch, Download, VerifySum, Extract, DropPrev,
       KeepCurrent, Install, Verify, RestorePrevious, Look, MoveAside, BringBack, PutAside, Kill, ghostVars
<1>2. /\ file' \in Daemons \cup {Nobody} /\ orphaned' \subseteq Daemons
      /\ mixed' \in BOOLEAN /\ faults' \in 0 .. MaxFaults
  <2>0. faults \in 0 .. MaxFaults /\ MaxFaults \in Nat  BY DaemonAssumption DEF AllSound, TypeOK
  <2>1. NoFault \/ Fault => faults' \in 0 .. MaxFaults  BY <2>0 DEF NoFault, Fault
  <2>2. Mix(t) \/ UNCHANGED mixed => mixed' \in BOOLEAN  BY DEF Mix, AllSound, TypeOK
  <2>3. file \in Daemons \cup {Nobody} /\ orphaned \subseteq Daemons  BY DEF AllSound, TypeOK
  <2>4. file' \in {file, Nobody} /\ orphaned' \in {orphaned, orphaned \cup ({file} \cap Daemons)}
    BY <2>3 DEF ToolStep, Invoke, StartRead, Spawn, StartSeen, StartChildExited, StartTimeout, StopRead,
       StopSeen, StopTimeout, Probe, Reprobe, DirectEnds, Fetch, Download, VerifySum, Extract, DropPrev,
       KeepCurrent, Install, Verify, RestorePrevious, Look, MoveAside, BringBack, PutAside, Kill,
       ghostVars, Live
  <2>5. /\ NoFault \/ Fault
        /\ Mix(t) \/ UNCHANGED mixed
    BY DEF ToolStep, Invoke, StartRead, Spawn, StartSeen, StartChildExited, StartTimeout, StopRead,
       StopSeen, StopTimeout, Probe, Reprobe, DirectEnds, Fetch, Download, VerifySum, Extract, DropPrev,
       KeepCurrent, Install, Verify, RestorePrevious, Look, MoveAside, BringBack, PutAside, Kill,
       ghostVars, Fails, NoFault
  <2> QED BY <2>1, <2>2, <2>3, <2>4, <2>5
<1>3. bin' \in Bins /\ prev' \in Bins /\ aside' \in [Tools -> Bins]
  <2>0. bin \in Bins /\ prev \in Bins /\ aside \in [Tools -> Bins] /\ None \in Bins
    BY BinsVersions DEF AllSound, TypeOK
  <2>1. CASE UNCHANGED binVars  BY <2>0, <2>1 DEF binVars
  <2>2. CASE DropPrev(t)  BY <2>0, <2>2 DEF DropPrev
  <2>3. CASE KeepCurrent(t)  BY <2>0, <2>3 DEF KeepCurrent, Kept
  <2>4. CASE Install(t)
    <3>1. tool[t].staged \in Bins
      BY <1>0, <2>4, BinsVersions DEF Install, At, Sound, Fits
    <3> QED BY <2>0, <2>4, <3>1 DEF Install
  <2>5. CASE RestorePrevious(t)  BY <2>0, <2>5 DEF RestorePrevious
  <2>6. CASE MoveAside(t)  BY <2>0, <2>6 DEF MoveAside
  <2>7. CASE BringBack(t)  BY <2>0, <2>7 DEF BringBack
  <2>8. CASE PutAside(t)  BY <2>0, <2>8 DEF PutAside
  <2> QED BY <2>1, <2>2, <2>3, <2>4, <2>5, <2>6, <2>7, <2>8 DEF ToolStep, Invoke, StartRead, Spawn,
       StartSeen, StartChildExited, StartTimeout, StopRead, StopSeen, StopTimeout, Probe, Reprobe,
       DirectEnds, Fetch, Download, VerifySum, Extract, Verify, Look, Kill
<1>4. tool' \in [Tools -> ToolState] /\ \A u \in Tools : Fits(tool'[u])
  BY ToolGoes, GoSound
<1> QED BY <1>1, <1>2, <1>3, <1>4 DEF AllSound, TypeOK

LEMMA InitTypes == Init => AllSound
<1> SUFFICES ASSUME Init  PROVE AllSound
  OBVIOUS
<1>1. Unborn \in Process /\ ~Unborn.term
  BY PortsDefault DEF Unborn, Process, Phases, Bins
<1>2. Idle \in ToolState /\ Fits(Idle)
  BY PortsDefault DEF Idle, ToolState, Fits, Pcs, Bins, Commands, Results
<1>3. 0 \in 0 .. MaxFaults  BY DaemonAssumption
<1> QED BY <1>1, <1>2, <1>3, BinsVersions DEF Init, AllSound, TypeOK

LEMMA NextTypes == AllSound /\ [Next]_vars => AllSound'
<1> SUFFICES ASSUME AllSound, [Next]_vars  PROVE AllSound'
  OBVIOUS
<1>1. CASE UNCHANGED vars
  BY <1>1 DEF vars, binVars, ghostVars, AllSound, TypeOK, Alive, Fits
<1> QED BY <1>1, DaemonStepTypes, ToolStepTypes DEF Next

\* Every process, tool and binary is at all times one the code can be in, and
\* a tool is only at steps of its own command: the phases of serve.rs and the
\* steps of lifecycle.rs, client.rs and update/mod.rs.
THEOREM TypeCorrectness == Spec => []TypeOK
<1>1. AllSound => TypeOK  BY DEF AllSound
<1> QED BY <1>1, InitTypes, NextTypes, PTL DEF Spec

THEOREM SoundAlways == Spec => []AllSound
  BY InitTypes, NextTypes, PTL DEF Spec
-----------------------------------------------------------------------------
\* The pidfile.

\* From the check for a live daemon to the end of the process.
Active == {"checked", "bound", "opening", "serving", "draining"}

\* NoOverlap as it is kept: it says something of a daemon from its check on.
Paired ==
    \A d, e \in Daemons : proc[d].phase \in Active /\ proc[e].phase \in Active =>
        \/ d = e
        \/ d \in proc[e].rivals \/ e \in proc[d].rivals
        \/ {d, e} \cap orphaned # {}

\* ServingIsNamed as it is kept: a daemon that drains is still named.
WritersNamed == \A d \in Writers : file = d \/ d \in orphaned

PidInv == AllSound /\ WritersNamed /\ Paired

\* A writer that nobody orphaned makes the pidfile live.
LEMMA WriterIsLive ==
    ASSUME WritersNamed, ~Live, NEW d \in Writers  PROVE d \in orphaned /\ file # d
  BY DaemonAssumption DEF WritersNamed, Writers, Live, Alive

LEMMA DiedPid ==
    ASSUME PidInv, NEW d \in Daemons, proc' = Died(d), file' = file \/ (file = d /\ file' = Nobody),
           orphaned' = orphaned
    PROVE  WritersNamed' /\ Paired'
<1>1. proc \in [Daemons -> Process]  BY DEF PidInv, AllSound, TypeOK
<1>2. proc'[d].phase = "dead" /\ \A e \in Daemons \ {d} : proc'[e] = proc[e]
  <2> DEFINE s == [Unborn EXCEPT !.phase = "dead", !.port = proc[d].port]
  <2>1. s.phase = "dead"  BY DEF Unborn
  <2>2. proc' = [proc EXCEPT ![d] = s]  BY DEF Died
  <2> HIDE DEF s
  <2> QED BY <1>1, <2>1, <2>2
<1>3. \A e \in Daemons : proc'[e].phase \in Active => e # d /\ proc'[e] = proc[e]
  BY <1>2 DEF Active
<1>4. Writers' \subseteq Writers \ {d}  BY <1>2 DEF Writers
<1>5. WritersNamed'  BY <1>4 DEF PidInv, WritersNamed
<1>6. Paired'  BY <1>3 DEF PidInv, Paired
<1> QED BY <1>5, <1>6

LEMMA DaemonStepPid ==
    ASSUME PidInv, NEW d \in Daemons, DaemonStep(d)
    PROVE  WritersNamed' /\ Paired'
<1>1. proc \in [Daemons -> Process]  BY DEF PidInv, AllSound, TypeOK
<1>2. CASE proc' = Died(d) /\ UNCHANGED <<file, orphaned>>  BY <1>2, DiedPid
<1>3. CASE Exit(d)  BY <1>3, DiedPid DEF Exit, OwnFileGone, ghostVars
<1>4. ASSUME NEW p \in Ports, Boot(d, p)  PROVE WritersNamed' /\ Paired'
  <2>1. proc'[d].phase = "born" /\ \A e \in Daemons \ {d} : proc'[e] = proc[e]
    BY <1>1, <1>4 DEF Boot, Process
  <2> QED BY <1>4, <2>1 DEF Boot, ghostVars, PidInv, WritersNamed, Paired, Writers, Active
<1>5. CASE Check(d) /\ ~Live
  <2>1. /\ proc[d].phase = "born" /\ proc'[d].phase = "checked"
        /\ proc'[d].rivals = {e \in Daemons : proc[e].phase \in {"checked", "bound"}}
        /\ \A e \in Daemons \ {d} : proc'[e] = proc[e]
        /\ UNCHANGED <<file, orphaned>>
    BY <1>1, <1>5 DEF Check, Process, ghostVars
  <2>2. WritersNamed'  BY <2>1 DEF PidInv, WritersNamed, Writers
  <2>3. \A e \in Daemons \ {d} : proc[e].phase \in Active => e \in proc'[d].rivals \/ e \in orphaned
    BY <2>1, <1>5, WriterIsLive DEF PidInv, Writers, Active
  <2> QED BY <2>1, <2>2, <2>3 DEF PidInv, Paired, Active
<1>6. CASE (Bind(d) /\ ~Held(proc[d].port)) \/ Open(d) \/ Drain(d)
  <2>1. /\ UNCHANGED <<file, orphaned>>
        /\ proc'[d].rivals = proc[d].rivals
        /\ proc[d].phase \in Active
        /\ proc'[d].phase \in {"opening", "serving", "draining"} => proc[d].phase \in {"opening", "serving"}
        /\ \A e \in Daemons \ {d} : proc'[e] = proc[e]
    BY <1>1, <1>6 DEF Bind, Open, Drain, Process, ghostVars, Active
  <2> QED BY <2>1 DEF PidInv, WritersNamed, Paired, Writers
<1>7. CASE Publish(d)
  <2>1. /\ proc[d].phase = "bound" /\ proc'[d].phase = "opening" /\ proc'[d].rivals = proc[d].rivals
        /\ \A e \in Daemons \ {d} : proc'[e] = proc[e]
        /\ file' = d /\ orphaned' = orphaned \cup ({file} \cap Writers)
    BY <1>1, <1>7 DEF Publish, Process
  <2>2. WritersNamed'  BY <2>1 DEF PidInv, WritersNamed, Writers
  <2>3. Paired'
    <3>1. \A e \in Daemons : /\ proc'[e].phase \in Active => proc[e].phase \in Active
                             /\ proc'[e].rivals = proc[e].rivals
      BY <2>1 DEF Active
    <3>2. orphaned \subseteq orphaned'  BY <2>1
    <3> QED BY <3>1, <3>2 DEF PidInv, Paired
  <2> QED BY <2>2, <2>3
<1>8. CASE Reuse(d)
  <2>1. proc'[d].phase = "stranger" /\ \A e \in Daemons \ {d} : proc'[e] = proc[e]
    BY <1>1, <1>8 DEF Reuse, Process
  <2> QED BY <1>8, <2>1 DEF Reuse, PidInv, WritersNamed, Paired, Writers, Active
<1> QED BY <1>2, <1>3, <1>4, <1>5, <1>6, <1>7, <1>8
     DEF DaemonStep, Check, Bind, OpenRefused, Terminated, Crash, ghostVars

\* Of a process a tool changes only that it is born or is to stop; of the file
\* only that it is gone, when it names no live daemon or that one is orphaned.
LEMMA ToolStepProc ==
    ASSUME AllSound, NEW t \in Tools, ToolStep(t)
    PROVE  /\ \A d \in Daemons : /\ proc'[d].rivals = proc[d].rivals
                                 /\ proc'[d].phase \in {proc[d].phase, "born"}
           /\ \/ file' = file /\ orphaned' = orphaned
              \/ ~Live /\ file' = Nobody /\ orphaned' = orphaned
              \/ Live /\ file' = Nobody /\ orphaned' = orphaned \cup {file}
<1>1. proc \in [Daemons -> Process] /\ Fits(tool[t])  BY DEF AllSound, TypeOK
<1>2. \A d \in Daemons : /\ proc'[d].rivals = proc[d].rivals
                         /\ proc'[d].phase \in {proc[d].phase, "born"}
  <2>1. CASE UNCHANGED proc  BY <2>1
  <2>2. ASSUME NEW d, proc' = [proc EXCEPT ![d].term = TRUE]
        PROVE  \A e \in Daemons : proc'[e].rivals = proc[e].rivals /\ proc'[e].phase = proc[e].phase
    BY <1>1, <2>2 DEF Process
  <2>3. ASSUME NEW d \in Daemons, Spawn(t, d)
        PROVE  \A e \in Daemons : /\ proc'[e].rivals = proc[e].rivals
                                  /\ proc'[e].phase \in {proc[e].phase, "born"}
    <3>1. \/ proc' = proc
          \/ proc' = [proc EXCEPT ![d] = [proc[d] EXCEPT !.phase = "born", !.port = tool[t].port,
                                                        !.exe = tool[t].exe]]
      BY <1>1, <2>3 DEF Spawn
    <3> DEFINE s == [proc[d] EXCEPT !.phase = "born", !.port = tool[t].port, !.exe = tool[t].exe]
    <3>2. s.phase = "born" /\ s.rivals = proc[d].rivals
      <4>1. proc[d] \in Process  BY <1>1
      <4> QED BY <4>1 DEF Process
    <3> HIDE DEF s
    <3>3. proc' = proc \/ proc' = [proc EXCEPT ![d] = s]  BY <3>1 DEF s
    <3> QED BY <1>1, <3>2, <3>3
  <2>4. CASE StartTimeout(t)  BY <2>2, <2>4 DEF StartTimeout
  <2>5. CASE StopRead(t)  BY <2>1, <2>2, <2>5 DEF StopRead
  <2> QED BY <2>1, <2>3, <2>4, <2>5 DEF ToolStep, Invoke, StartRead, StartSeen, StartChildExited,
       StopSeen, StopTimeout, Probe, Reprobe, DirectEnds, Fetch, Download, VerifySum, Extract, DropPrev,
       KeepCurrent, Install, Verify, RestorePrevious, Look, MoveAside, BringBack, PutAside, Kill, ghostVars
<1>3. \/ file' = file /\ orphaned' = orphaned
      \/ ~Live /\ file' = Nobody /\ orphaned' = orphaned
      \/ Live /\ file' = Nobody /\ orphaned' = orphaned \cup {file}
  BY DEF ToolStep, Invoke, StartRead, Spawn, StartSeen, StartChildExited, StartTimeout, StopRead,
       StopSeen, StopTimeout, Probe, Reprobe, DirectEnds, Fetch, Download, VerifySum, Extract, DropPrev,
       KeepCurrent, Install, Verify, RestorePrevious, Look, MoveAside, BringBack, PutAside, Kill, ghostVars
<1> QED BY <1>2, <1>3

LEMMA ToolStepPid ==
    ASSUME PidInv, NEW t \in Tools, ToolStep(t)
    PROVE  WritersNamed' /\ Paired'
<1>1. \A d \in Daemons : /\ proc'[d].rivals = proc[d].rivals
                         /\ proc'[d].phase \in {proc[d].phase, "born"}
  BY ToolStepProc DEF PidInv
<1>2. \/ file' = file /\ orphaned' = orphaned
      \/ ~Live /\ file' = Nobody /\ orphaned' = orphaned
      \/ Live /\ file' = Nobody /\ orphaned' = orphaned \cup {file}
  BY ToolStepProc DEF PidInv
<1>3. Paired'
  <2>1. \A d \in Daemons : proc'[d].phase \in Active => proc[d].phase \in Active  BY <1>1 DEF Active
  <2>2. orphaned \subseteq orphaned'  BY <1>2
  <2> QED BY <1>1, <2>1, <2>2 DEF PidInv, Paired
<1>4. Writers' \subseteq Writers  BY <1>1 DEF Writers
<1>5. WritersNamed'  BY <1>2, <1>4, WriterIsLive DEF PidInv, WritersNamed
<1> QED BY <1>3, <1>5

LEMMA PidAlways == Spec => []PidInv
<1>1. Init => PidInv
  <2>1. Init => WritersNamed /\ Paired
    BY DEF Init, WritersNamed, Paired, Writers, Active, Unborn
  <2> QED BY <2>1, InitTypes DEF PidInv
<1>2. PidInv /\ [Next]_vars => PidInv'
  <2> SUFFICES ASSUME PidInv, [Next]_vars  PROVE PidInv'
    OBVIOUS
  <2>1. AllSound'  BY NextTypes DEF PidInv
  <2>2. CASE UNCHANGED vars
    BY <2>1, <2>2 DEF vars, ghostVars, PidInv, WritersNamed, Paired, Writers
  <2> QED BY <2>1, <2>2, DaemonStepPid, ToolStepPid DEF PidInv, Next
<1> QED BY <1>1, <1>2, PTL DEF Spec

\* Two daemons have the store open at once only if one was between its check
\* and its pidfile when the other checked, or the file of one was taken away,
\* for any number of daemons, tools, ports and faults (serve.rs, pidfile.rs).
THEOREM OverlapExplained == Spec => []NoOverlap
<1>1. PidInv => NoOverlap  BY DEF PidInv, Paired, NoOverlap, Writers, Active
<1> QED BY <1>1, PidAlways, PTL

\* A daemon that wrote the pidfile and has not stopped is named by it, or a
\* `stop` or a rival took the file away: no cleanup of a stale file and no
\* exit of another daemon does (lifecycle.rs, serve.rs).
THEOREM ServingNamed == Spec => []ServingIsNamed
<1>1. PidInv => ServingIsNamed  BY DEF PidInv, WritersNamed, ServingIsNamed, Writers
<1> QED BY <1>1, PidAlways, PTL
-----------------------------------------------------------------------------
\* The binaries.

\* What is at each place while a tool replaces the binaries, by its step: b at
\* `ling-mem`, p at `ling-mem.prev`, a what it moved aside.  `from` is what it
\* found, and `second` the half that undoes the first.
Undoing(r, b, kept) == /\ r.second => b = r.from
                       /\ ~r.second => kept = r.from

Whole(r, b, p, a) ==
    /\ r.from = None => r.pc \in {"stop", "stopping", "drop", "keep", "aside"} /\ ~r.second
    /\ r.pc \in {"stop", "stopping", "drop", "keep", "verify", "start", "spawn", "await",
                 "restore", "aside", "put"} => b # None
    /\ r.pc \in {"install", "verify", "restore"} => p = r.from
    /\ r.pc \in {"start", "spawn", "await"} => Undoing(r, b, p)
    /\ r.pc = "aside" /\ r.second => p = r.from
    /\ r.pc = "back" => /\ a # None
                        /\ r.second => p = r.from
                        /\ ~r.second => a = r.from
    /\ r.pc = "put" => Undoing(r, b, a)

OneReplaces == \A t, u \in Tools : Replacing(t) /\ Replacing(u) => t = u

\* BinaryKept, where nothing is mixed.
InPlace ==
    /\ bin # None \/ prev # None \/ (\E t \in Tools : aside[t] # None)
    /\ \/ bin # None
       \/ \E t \in Tools : tool[t].pc \in {"install", "back"} \/ tool[t].result = "killed"

SwapInv ==
    AllSound /\ (~mixed => /\ OneReplaces
                           /\ \A t \in Tools : Replacing(t) => Whole(tool[t], bin, prev, aside[t])
                           /\ InPlace)

\* A replacing tool goes from record r to record s and leaves b, p and a: it is
\* whole again or has ended, a binary is kept, and what it answers is true.
Proceeds(r, s, b, p, a) ==
    /\ s.kind = r.kind
    /\ s.pc = "done" \/ Whole(s, b, p, a)
    /\ b # None \/ p # None \/ a # None
    /\ b # None \/ s.pc \in {"install", "back"} \/ s.result = "killed"
    /\ s.result = "ok" => b # None /\ p = r.from
    /\ s.result = "restored" /\ r.from # None => b = r.from

LEMMA StartAgainProceeds ==
    ASSUME NEW r \in ToolState, r.kind \in {"upgrade", "rollback"}, r.result = "none", NEW v \in Bins,
           NEW b, NEW p, NEW a, b # None, r.from # None, Undoing(r, b, p)
    PROVE  Proceeds(r, StartAgain(r, v), b, p, a)
<1>1. CASE r.was
  <2>1. PICK s : s = [r EXCEPT !.pc = "start", !.exe = v]  OBVIOUS
  <2>2. /\ s.kind = r.kind /\ s.pc = "start" /\ s.from = r.from /\ s.second = r.second
        /\ s.result = "none"
    BY <2>1 DEF ToolState
  <2>3. Proceeds(r, s, b, p, a)  BY <2>2 DEF Proceeds, Whole, Undoing
  <2> QED BY <1>1, <2>1, <2>3 DEF StartAgain
<1>2. CASE ~r.was
  <2>1. PICK k : k = IF r.second THEN "restored" ELSE "ok"  OBVIOUS
  <2>2. k \in Results  BY <2>1 DEF Results
  <2>3. /\ End(r, k).pc = "done" /\ End(r, k).kind = r.kind /\ End(r, k).result = k
    BY <2>2, EndSound
  <2>4. Proceeds(r, End(r, k), b, p, a)  BY <2>1, <2>3 DEF Proceeds, Undoing
  <2> QED BY <1>2, <2>1, <2>4 DEF StartAgain
<1> QED BY <1>1, <1>2

LEMMA StartReturnsProceeds ==
    ASSUME NEW r, Sound(r), r.kind \in {"upgrade", "rollback"}, r.pc \in {"start", "spawn", "await"},
           NEW b, NEW p, NEW a, Whole(r, b, p, a), NEW ok \in BOOLEAN
    PROVE  Proceeds(r, StartReturns(r, ok), b, p, a)
<1>1. /\ r \in ToolState /\ b # None /\ r.from # None /\ r.result = "none" /\ Undoing(r, b, p)
  BY DEF Sound, Fits, Whole
<1>2. /\ End(r, "ok").pc = "done" /\ End(r, "ok").kind = r.kind /\ End(r, "ok").result = "ok"
      /\ End(r, "restored").pc = "done" /\ End(r, "restored").kind = r.kind
      /\ End(r, "restored").result = "restored"
  BY <1>1, EndSound DEF Results
<1>3. CASE r.second  BY <1>1, <1>2, <1>3 DEF StartReturns, Proceeds, Undoing
<1>4. CASE ~r.second /\ ok  BY <1>1, <1>2, <1>4 DEF StartReturns, Proceeds, Undoing
<1>5. CASE ~r.second /\ ~ok /\ r.kind = "upgrade"
  <2>1. PICK s : s = [r EXCEPT !.pc = "restore"]  OBVIOUS
  <2>2. /\ s.kind = r.kind /\ s.pc = "restore" /\ s.from = r.from /\ s.second = r.second
        /\ s.result = "none"
    BY <1>1, <2>1 DEF ToolState
  <2>3. Proceeds(r, s, b, p, a)  BY <1>1, <1>5, <2>2 DEF Proceeds, Whole, Undoing
  <2> QED BY <1>5, <2>1, <2>3 DEF StartReturns
<1>6. CASE ~r.second /\ ~ok /\ r.kind = "rollback"
  <2>1. PICK s : s = [r EXCEPT !.pc = "aside", !.second = TRUE]  OBVIOUS
  <2>2. /\ s.kind = r.kind /\ s.pc = "aside" /\ s.from = r.from /\ s.second /\ s.result = "none"
    BY <1>1, <2>1 DEF ToolState
  <2>3. Proceeds(r, s, b, p, a)  BY <1>1, <1>6, <2>2 DEF Proceeds, Whole, Undoing
  <2> QED BY <1>6, <2>1, <2>3 DEF StartReturns
<1> QED BY <1>3, <1>4, <1>5, <1>6

\* A step of a tool that replaces the binaries, by what it does to them.
LEMMA ReplacerStep ==
    ASSUME AllSound, NEW t \in Tools, ToolStep(t), Replacing(t),
           Whole(tool[t], bin, prev, aside[t])
    PROVE  Proceeds(tool[t], tool'[t], bin', prev', aside'[t])
<1>0. PICK r : r = tool[t]  OBVIOUS
<1>1. /\ Sound(r) /\ r \in ToolState /\ Fits(r) /\ r.kind \in {"upgrade", "rollback"}
      /\ Whole(r, bin, prev, aside[t])
      /\ r.pc \notin {"idle", "fetch", "download", "sum", "unpack", "look", "done"}
  BY <1>0 DEF AllSound, TypeOK, Sound, Replacing
<1>2. /\ r.result = "none"
      /\ r.pc \notin {"probe", "reprobe", "direct"}
      /\ \A s : Go(t, s) => tool'[t] = s
  <2>1. r.result = "none" /\ r.pc \notin {"probe", "reprobe", "direct"}  BY <1>1 DEF Fits
  <2>2. tool \in [Tools -> ToolState]  BY DEF AllSound, TypeOK
  <2> QED BY <2>1, <2>2 DEF Go
<1>3. \A k \in {"error", "killed", "restored"} :
         /\ End(r, k).pc = "done" /\ End(r, k).kind = r.kind /\ End(r, k).result = k
  BY <1>1, EndSound DEF Results
<1>4. /\ bin \in Bins /\ prev \in Bins /\ Latest # None
      /\ aside \in [Tools -> Bins]
  BY BinsVersions DEF AllSound, TypeOK
<1>5. CASE StartRead(t) \/ (\E d \in Daemons : Spawn(t, d)) \/ StartSeen(t) \/ StartChildExited(t)
           \/ StartTimeout(t)
  <2>1. r.pc \in {"start", "spawn", "await"} /\ UNCHANGED binVars
    BY <1>0, <1>5 DEF StartRead, Spawn, StartSeen, StartChildExited, StartTimeout, At
  <2>2. \A ok \in BOOLEAN : Proceeds(r, StartReturns(r, ok), bin, prev, aside[t])
    BY <1>1, <2>1, StartReturnsProceeds
  <2>3. ASSUME NEW s, s.kind = r.kind, s.pc \in {"spawn", "await"}, s.from = r.from,
               s.second = r.second, s.result = "none"
        PROVE  Proceeds(r, s, bin, prev, aside[t])
    BY <1>1, <2>1, <2>3 DEF Proceeds, Whole, Undoing
  <2>4. Proceeds(r, [r EXCEPT !.pc = "spawn"], bin, prev, aside[t])
    <3>1. PICK s : s = [r EXCEPT !.pc = "spawn"]  OBVIOUS
    <3>2. Proceeds(r, s, bin, prev, aside[t])  BY <1>1, <1>2, <2>3, <3>1 DEF ToolState
    <3> QED BY <3>1, <3>2
  <2>5. \A d \in Daemons : Proceeds(r, [r EXCEPT !.pc = "await", !.pid = d], bin, prev, aside[t])
    <3> TAKE d \in Daemons
    <3>1. PICK s : s = [r EXCEPT !.pc = "await", !.pid = d]  OBVIOUS
    <3>2. Proceeds(r, s, bin, prev, aside[t])  BY <1>1, <1>2, <2>3, <3>1 DEF ToolState
    <3> QED BY <3>1, <3>2
  <2>6. Live \in BOOLEAN  BY DEF Live
  <2>7. \/ \E ok \in BOOLEAN : Go(t, StartReturns(r, ok))
        \/ Go(t, [r EXCEPT !.pc = "spawn"])
        \/ \E d \in Daemons : Go(t, [r EXCEPT !.pc = "await", !.pid = d])
    BY <1>0, <1>5, <2>6 DEF StartRead, Spawn, StartSeen, StartChildExited, StartTimeout
  <2> QED BY <1>0, <1>2, <2>1, <2>2, <2>4, <2>5, <2>7 DEF binVars
<1>6. CASE StopRead(t) \/ StopSeen(t) \/ StopTimeout(t)
  <2>1. r.pc \in {"stop", "stopping"} /\ UNCHANGED binVars
    BY <1>0, <1>6 DEF StopRead, StopSeen, StopTimeout, At
  <2>2. ASSUME NEW s, s.kind = r.kind, s.pc \in {"stopping", "drop", "aside"}, s.from = r.from,
               s.second = r.second, s.result = "none"
        PROVE  Proceeds(r, s, bin, prev, aside[t])
    BY <1>1, <2>1, <2>2 DEF Proceeds, Whole, Fits
  <2>3. \A d : Proceeds(r, [r EXCEPT !.pc = "stopping", !.pid = d], bin, prev, aside[t])
    <3> TAKE d
    <3>1. PICK s : s = [r EXCEPT !.pc = "stopping", !.pid = d]  OBVIOUS
    <3>2. Proceeds(r, s, bin, prev, aside[t])  BY <1>1, <1>2, <2>2, <3>1 DEF ToolState
    <3> QED BY <3>1, <3>2
  <2>4. \A b \in BOOLEAN : Proceeds(r, StopReturns(r, b), bin, prev, aside[t])
    <3> TAKE b \in BOOLEAN
    <3>1. PICK s : s = StopReturns(r, b)  OBVIOUS
    <3>2. CASE r.kind = "upgrade"  BY <1>1, <1>2, <2>2, <3>1, <3>2 DEF ToolState, StopReturns
    <3>3. CASE r.kind = "rollback"  BY <1>1, <1>2, <2>2, <3>1, <3>3 DEF ToolState, StopReturns
    <3> QED BY <1>1, <3>1, <3>2, <3>3
  <2>5. Proceeds(r, End(r, "error"), bin, prev, aside[t])
    BY <1>1, <1>3, <2>1 DEF Proceeds, Whole
  <2>6. \/ \E b \in BOOLEAN : Go(t, StopReturns(r, b))
        \/ \E d : Go(t, [r EXCEPT !.pc = "stopping", !.pid = d])
        \/ Go(t, End(r, "error"))
    BY <1>0, <1>6 DEF StopRead, StopSeen, StopTimeout
  <2> QED BY <1>0, <1>2, <2>1, <2>3, <2>4, <2>5, <2>6 DEF binVars
<1>7. CASE DropPrev(t)
  <2>1. r.pc = "drop" /\ bin' = bin /\ aside' = aside /\ tool'[t] = [r EXCEPT !.pc = "keep"]
    BY <1>0, <1>2, <1>7 DEF DropPrev, At
  <2>2. PICK s : s = [r EXCEPT !.pc = "keep"]  OBVIOUS
  <2>3. /\ s.kind = r.kind /\ s.pc = "keep" /\ s.from = r.from /\ s.second = r.second
        /\ s.result = "none"
    BY <1>1, <1>2, <2>2 DEF ToolState
  <2>4. Proceeds(r, s, bin', prev', aside'[t])  BY <1>1, <2>1, <2>3 DEF Proceeds, Whole, Fits
  <2> QED BY <1>0, <2>1, <2>2, <2>4
<1>8. CASE KeepCurrent(t)
  <2>1. r.pc = "keep" /\ bin # None /\ aside' = aside /\ ~r.second
    BY <1>0, <1>1, <1>8 DEF KeepCurrent, At, Whole, Fits
  <2>2. CASE prev' = bin /\ bin' = None /\ tool'[t] = [r EXCEPT !.pc = "install", !.from = bin]
    <3>1. PICK s : s = [r EXCEPT !.pc = "install", !.from = bin]  OBVIOUS
    <3>2. /\ s.kind = r.kind /\ s.pc = "install" /\ s.from = bin /\ s.second = r.second
          /\ s.result = "none"
      BY <1>1, <1>2, <3>1 DEF ToolState
    <3>3. Proceeds(r, s, bin', prev', aside'[t])  BY <2>1, <2>2, <3>2 DEF Proceeds, Whole
    <3> QED BY <1>0, <2>2, <3>1, <3>3
  <2>3. CASE UNCHANGED <<prev, bin>> /\ tool'[t] = End(r, "error")
    BY <1>0, <1>3, <2>1, <2>3 DEF Proceeds
  <2> QED BY <1>0, <1>2, <1>8, <2>1, <2>2, <2>3 DEF KeepCurrent, Kept, Fails
<1>9. CASE Install(t)
  <2>1. r.pc = "install" /\ aside' = aside /\ prev = r.from /\ r.from # None /\ ~r.second
    BY <1>0, <1>1, <1>9 DEF Install, At, Whole, Fits
  <2>2. r.kind = "upgrade" /\ r.staged = Latest  BY <1>1, <2>1 DEF Fits
  <2>3. CASE bin' = r.staged /\ tool'[t] = [r EXCEPT !.pc = "verify"] /\ UNCHANGED prev
    <3>1. PICK s : s = [r EXCEPT !.pc = "verify"]  OBVIOUS
    <3>2. /\ s.kind = r.kind /\ s.pc = "verify" /\ s.from = r.from /\ s.second = r.second
          /\ s.result = "none"
      BY <1>1, <1>2, <3>1 DEF ToolState
    <3>3. Proceeds(r, s, bin', prev', aside'[t])  BY <1>4, <2>1, <2>2, <2>3, <3>2 DEF Proceeds, Whole
    <3> QED BY <1>0, <2>3, <3>1, <3>3
  <2>4. CASE bin' = prev /\ tool'[t] = End(r, "restored")
    BY <1>0, <1>3, <2>1, <2>4 DEF Proceeds
  <2> QED BY <1>0, <1>2, <1>9, <2>1, <2>3, <2>4 DEF Install
<1>10. CASE Verify(t)
  <2>1. r.pc = "verify" /\ UNCHANGED binVars /\ bin # None /\ prev = r.from /\ r.from # None /\ ~r.second
    BY <1>0, <1>1, <1>10 DEF Verify, At, Whole, Fits
  <2>2. Proceeds(r, StartAgain(r, bin), bin, prev, aside[t])
    BY <1>1, <1>2, <1>4, <2>1, StartAgainProceeds DEF Undoing
  <2>3. Proceeds(r, [r EXCEPT !.pc = "restore"], bin, prev, aside[t])
    <3>1. PICK s : s = [r EXCEPT !.pc = "restore"]  OBVIOUS
    <3>2. /\ s.kind = r.kind /\ s.pc = "restore" /\ s.from = r.from /\ s.second = r.second
          /\ s.result = "none"
      BY <1>1, <1>2, <3>1 DEF ToolState
    <3>3. Proceeds(r, s, bin, prev, aside[t])  BY <2>1, <3>2 DEF Proceeds, Whole
    <3> QED BY <3>1, <3>3
  <2>4. tool'[t] \in {StartAgain(r, bin), [r EXCEPT !.pc = "restore"]}
    BY <1>0, <1>2, <1>10 DEF Verify
  <2> QED BY <1>0, <2>1, <2>2, <2>3, <2>4 DEF binVars
<1>11. CASE RestorePrevious(t)
  <2>1. /\ r.pc = "restore" /\ prev = r.from /\ r.from # None
        /\ aside' = aside /\ bin' = prev /\ prev' = None
        /\ tool'[t] = StartAgain([r EXCEPT !.second = TRUE], prev)
    BY <1>0, <1>1, <1>2, <1>11 DEF RestorePrevious, At, Whole
  <2>2. PICK s : s = [r EXCEPT !.second = TRUE]  OBVIOUS
  <2>3. /\ s \in ToolState /\ s.kind = r.kind /\ s.from = r.from /\ s.second /\ s.result = "none"
    BY <1>1, <1>2, <2>2 DEF ToolState
  <2>4. Undoing(s, bin', prev')  BY <2>1, <2>3 DEF Undoing
  <2>5. Proceeds(s, StartAgain(s, prev), bin', prev', aside'[t])
    BY <1>1, <1>4, <2>1, <2>3, <2>4, StartAgainProceeds
  <2> QED BY <1>0, <2>1, <2>2, <2>3, <2>5 DEF Proceeds
<1>12. CASE MoveAside(t)
  <2>1. r.pc = "aside" /\ prev' = prev /\ bin # None  BY <1>0, <1>1, <1>12 DEF MoveAside, At, Whole
  <2>2. CASE /\ bin' = None /\ aside' = [aside EXCEPT ![t] = bin]
             /\ tool'[t] = [r EXCEPT !.pc = "back", !.from = IF r.second THEN r.from ELSE bin]
    <3>1. PICK s : s = [r EXCEPT !.pc = "back", !.from = IF r.second THEN r.from ELSE bin]  OBVIOUS
    <3>2. /\ s.kind = r.kind /\ s.pc = "back" /\ s.second = r.second /\ s.result = "none"
          /\ s.from = IF r.second THEN r.from ELSE bin
      BY <1>1, <1>2, <3>1 DEF ToolState
    <3>3. aside'[t] = bin  BY <1>4, <2>2
    <3>4. Proceeds(r, s, bin', prev', aside'[t])
      BY <1>1, <2>1, <3>2, <3>3 DEF Proceeds, Whole
    <3> QED BY <1>0, <2>2, <3>1, <3>4
  <2>3. CASE UNCHANGED <<bin, aside>> /\ tool'[t] = End(r, "error")
    BY <1>0, <1>3, <2>1, <2>3 DEF Proceeds
  <2> QED BY <1>0, <1>2, <1>12, <2>2, <2>3 DEF MoveAside
<1>13. CASE BringBack(t)
  <2>1. /\ r.pc = "back" /\ aside[t] # None /\ r.from # None
        /\ r.second => prev = r.from
        /\ ~r.second => aside[t] = r.from
    BY <1>0, <1>1, <1>13 DEF BringBack, At, Whole
  <2>2. CASE prev # None /\ bin' = prev /\ aside' = aside /\ tool'[t] = [r EXCEPT !.pc = "put"]
    <3>1. PICK s : s = [r EXCEPT !.pc = "put"]  OBVIOUS
    <3>2. /\ s.kind = r.kind /\ s.pc = "put" /\ s.second = r.second /\ s.result = "none"
          /\ s.from = r.from
      BY <1>1, <1>2, <3>1 DEF ToolState
    <3>3. Proceeds(r, s, bin', prev', aside'[t])
      BY <2>1, <2>2, <3>2 DEF Proceeds, Whole, Undoing
    <3> QED BY <1>0, <2>2, <3>1, <3>3
  <2>3. CASE bin' = aside[t] /\ tool'[t] = End(r, IF r.second THEN "error" ELSE "restored")
    <3>1. tool'[t].result = IF r.second THEN "error" ELSE "restored"  BY <1>3, <2>3
    <3>2. tool'[t].pc = "done" /\ tool'[t].kind = r.kind  BY <1>3, <2>3
    <3> QED BY <1>0, <2>1, <2>3, <3>1, <3>2 DEF Proceeds
  <2> QED BY <1>0, <1>2, <1>13, <2>2, <2>3 DEF BringBack
<1>14. CASE PutAside(t)
  <2>1. r.pc = "put" /\ bin' = bin /\ bin # None /\ r.from # None /\ Undoing(r, bin, aside[t])
    BY <1>0, <1>1, <1>14 DEF PutAside, At, Whole
  <2>2. CASE prev' = aside[t] /\ tool'[t] = StartAgain(r, bin)
    BY <1>0, <1>1, <1>2, <1>4, <2>1, <2>2, StartAgainProceeds
  <2>3. CASE tool'[t] = End(r, "error")
    BY <1>0, <1>3, <2>1, <2>3 DEF Proceeds
  <2> QED BY <1>0, <1>2, <1>14, <2>2, <2>3 DEF PutAside, Fails
<1>15. CASE Kill(t)
  <2>1. UNCHANGED binVars /\ tool'[t] = End(r, "killed")  BY <1>0, <1>2, <1>15 DEF Kill
  <2>2. bin # None \/ prev # None \/ aside[t] # None
    <3>1. CASE r.pc \in {"install", "back"}  BY <1>1, <3>1 DEF Whole
    <3>2. CASE r.pc \notin {"install", "back"}
      BY <1>1, <1>2, <3>2 DEF Whole, ToolState, Pcs
    <3> QED BY <3>1, <3>2
  <2> QED BY <1>0, <1>3, <2>1, <2>2 DEF Proceeds, binVars
<1> QED
  BY <1>0, <1>1, <1>2, <1>5, <1>6, <1>7, <1>8, <1>9, <1>10, <1>11, <1>12, <1>13, <1>14, <1>15
     DEF ToolStep, Invoke, Probe, Reprobe, DirectEnds, Fetch, Download, VerifySum, Extract, Look, At
\* A step of a tool that does not replace them leaves the binaries alone; it
\* starts to replace them where it stops the daemon, and notices a mixture.
LEMMA BystanderStep ==
    ASSUME AllSound, NEW t \in Tools, ToolStep(t), ~Replacing(t)
    PROVE  /\ UNCHANGED binVars
           /\ tool[t].pc \notin {"install", "back", "done"}
           /\ Replacing(t)' => /\ Mix(t)
                               /\ tool'[t].pc = "stop" /\ tool'[t].from = None /\ ~tool'[t].second
           /\ tool[t].pc # "idle" => tool'[t].kind = tool[t].kind
           /\ tool[t].kind \in {"upgrade", "rollback"} /\ tool[t].pc # "idle" =>
                 tool'[t].result \notin {"ok", "restored"}
           /\ tool[t].pc = "idle" => tool'[t].result = "none"
<1>0. PICK r : r = tool[t]  OBVIOUS
<1>1. /\ Sound(r) /\ r \in ToolState /\ Fits(r)
      /\ ~(/\ r.kind \in {"upgrade", "rollback"}
           /\ r.pc \notin {"idle", "fetch", "download", "sum", "unpack", "look", "done"})
  BY <1>0 DEF AllSound, TypeOK, Sound, Replacing
<1>2. \A s : Go(t, s) => tool'[t] = s
  <2>1. tool \in [Tools -> ToolState]  BY DEF AllSound, TypeOK
  <2> QED BY <2>1 DEF Go
<1>3. r.pc \notin {"drop", "keep", "install", "verify", "restore", "aside", "back", "put"}
  BY <1>1 DEF Fits
<1>4. r.pc # "done"
  BY <1>0 DEF ToolStep, Invoke, StartRead, Spawn, StartSeen, StartChildExited, StartTimeout,
     StopRead, StopSeen, StopTimeout, Probe, Reprobe, DirectEnds, Fetch, Download, VerifySum, Extract,
     DropPrev, KeepCurrent, Install, Verify, RestorePrevious, Look, MoveAside, BringBack, PutAside, Kill, At
<1>5. r.result = "none"  BY <1>1, <1>4 DEF Fits
<1>6. \A k \in Results : End(r, k).pc = "done" /\ End(r, k).kind = r.kind /\ End(r, k).result = k
  BY <1>1, EndSound
<1>7. {"absent", "error", "killed"} \subseteq Results  BY DEF Results
<1>8. Replacing(t)' <=> /\ tool'[t].kind \in {"upgrade", "rollback"}
                        /\ tool'[t].pc \notin {"idle", "fetch", "download", "sum", "unpack", "look", "done"}
  BY DEF Replacing
<1>9. UNCHANGED binVars
  BY <1>0, <1>3 DEF ToolStep, Invoke, StartRead, Spawn, StartSeen, StartChildExited, StartTimeout,
     StopRead, StopSeen, StopTimeout, Probe, Reprobe, DirectEnds, Fetch, Download, VerifySum, Extract,
     DropPrev, KeepCurrent, Install, Verify, RestorePrevious, Look, MoveAside, BringBack, PutAside, Kill,
     At, binVars
<1>10. ASSUME NEW k \in Kinds, NEW p \in Ports, Invoke(t, k, p)
       PROVE  ~Replacing(t)' /\ tool'[t].result = "none" /\ r.pc = "idle"
  <2>1. k \in Commands  BY DaemonAssumption
  <2>2. tool'[t] = [Idle EXCEPT !.kind = k, !.pc = FirstStep(k), !.port = p, !.exe = bin]
    BY <1>2, <1>10 DEF Invoke
  <2>3. tool'[t].kind = k /\ tool'[t].pc = FirstStep(k) /\ tool'[t].result = "none"
    BY <2>2 DEF Idle
  <2>4. k \in {"upgrade", "rollback"} => FirstStep(k) \in {"fetch", "look"}  BY DEF FirstStep
  <2> QED BY <1>0, <1>8, <1>10, <2>3, <2>4 DEF Invoke, At
<1>11. CASE r.kind \notin {"upgrade", "rollback"} /\ r.pc # "idle"
  <2>1. ASSUME NEW s, Go(t, s), s.kind = r.kind  PROVE ~Replacing(t)' /\ tool'[t].kind = r.kind
    BY <1>2, <1>8, <1>11, <2>1
  <2>2. ~Replacing(t)' /\ tool'[t].kind = r.kind
    <3>1. \A k \in Results : End(r, k).kind = r.kind  BY <1>6
    <3>2. \A c, d : /\ [r EXCEPT !.pc = c].kind = r.kind
                    /\ [r EXCEPT !.pc = c, !.pid = d].kind = r.kind
      BY <1>1 DEF ToolState
    <3>3. \A ok \in BOOLEAN : r.pc \in {"start", "spawn", "await"} => StartReturns(r, ok).kind = r.kind
      BY <1>11, <3>1, <3>2 DEF StartReturns, Results
    <3>4. \A b \in BOOLEAN : r.pc \in {"stop", "stopping"} => StopReturns(r, b).kind = r.kind
      BY <1>1, <1>11, <3>1, <3>2 DEF StopReturns, Results, Fits
    <3>5. Live \in BOOLEAN  BY DEF Live
    <3>6. r.pc \notin {"fetch", "download", "sum", "unpack", "look"}  BY <1>1, <1>11 DEF Fits
    <3>7. CASE StartRead(t) \/ StartSeen(t) \/ StartChildExited(t) \/ StartTimeout(t)
      <4>1. \/ \E ok \in BOOLEAN : Go(t, StartReturns(r, ok))
            \/ Go(t, [r EXCEPT !.pc = "spawn"])
        BY <1>0, <3>5, <3>7 DEF StartRead, StartSeen, StartChildExited, StartTimeout
      <4>2. r.pc \in {"start", "spawn", "await"}
        BY <1>0, <3>7 DEF StartRead, StartSeen, StartChildExited, StartTimeout, At
      <4> QED BY <2>1, <3>2, <3>3, <4>1, <4>2
    <3>8. ASSUME NEW d \in Daemons, Spawn(t, d)  PROVE ~Replacing(t)' /\ tool'[t].kind = r.kind
      <4>1. r.pc = "spawn" /\ (Go(t, [r EXCEPT !.pc = "await", !.pid = d]) \/ Go(t, StartReturns(r, FALSE)))
        BY <1>0, <3>8 DEF Spawn, At
      <4> QED BY <2>1, <3>2, <3>3, <4>1
    <3>9. CASE StopRead(t) \/ StopSeen(t) \/ StopTimeout(t)
      <4>1. \/ \E b \in BOOLEAN : Go(t, StopReturns(r, b))
            \/ \E d : Go(t, [r EXCEPT !.pc = "stopping", !.pid = d])
            \/ Go(t, End(r, "error"))
        BY <1>0, <3>9 DEF StopRead, StopSeen, StopTimeout
      <4>2. r.pc \in {"stop", "stopping"}  BY <1>0, <3>9 DEF StopRead, StopSeen, StopTimeout, At
      <4> QED BY <1>7, <2>1, <3>1, <3>2, <3>4, <4>1, <4>2
    <3>10. CASE Probe(t) \/ Reprobe(t) \/ DirectEnds(t) \/ Kill(t)
      <4>1. \/ \E k \in Results : Go(t, End(r, k))
            \/ \E c : Go(t, [r EXCEPT !.pc = c])
        BY <1>0, <3>10 DEF Probe, Reprobe, DirectEnds, Kill, Results
      <4> QED BY <2>1, <3>1, <3>2, <4>1
    <3> QED BY <1>0, <1>3, <1>11, <3>6, <3>7, <3>8, <3>9, <3>10
         DEF ToolStep, Invoke, Fetch, Download, VerifySum, Extract, DropPrev, KeepCurrent, Install, Verify,
         RestorePrevious, Look, MoveAside, BringBack, PutAside, At
  <2> QED BY <1>0, <1>3, <1>4, <1>9, <1>11, <2>2
<1>12. CASE r.kind \in {"upgrade", "rollback"} /\ r.pc # "idle"
  <2>1. r.pc \in {"fetch", "download", "sum", "unpack", "look"}  BY <1>1, <1>4, <1>12
  <2>2. ASSUME NEW k \in {"absent", "error", "killed"}, Go(t, End(r, k))
        PROVE  /\ ~Replacing(t)' /\ tool'[t].kind = r.kind
               /\ tool'[t].result \notin {"ok", "restored"}
    BY <1>2, <1>6, <1>7, <1>8, <2>2
  <2>3. ASSUME NEW c \in {"download", "unpack"}, Go(t, [r EXCEPT !.pc = c])
        PROVE  /\ ~Replacing(t)' /\ tool'[t].kind = r.kind
               /\ tool'[t].result \notin {"ok", "restored"}
    BY <1>1, <1>2, <1>5, <1>8, <2>3 DEF ToolState
  <2>4. ASSUME NEW v, Go(t, [r EXCEPT !.pc = "sum", !.staged = v])
        PROVE  /\ ~Replacing(t)' /\ tool'[t].kind = r.kind
               /\ tool'[t].result \notin {"ok", "restored"}
    BY <1>1, <1>2, <1>5, <1>8, <2>4 DEF ToolState
  <2>5. ASSUME Go(t, [r EXCEPT !.pc = "stop"])
        PROVE  /\ tool'[t].pc = "stop" /\ tool'[t].from = None /\ ~tool'[t].second
               /\ tool'[t].kind = r.kind
               /\ tool'[t].result \notin {"ok", "restored"}
    <3>1. tool'[t] = [r EXCEPT !.pc = "stop"]  BY <1>2, <2>5
    <3>2. r.from = None /\ ~r.second  BY <1>1, <2>1 DEF Fits
    <3> QED BY <1>1, <1>5, <3>1, <3>2 DEF ToolState
  <2>6. \/ \E k \in {"absent", "error", "killed"} : Go(t, End(r, k))
        \/ \E c \in {"download", "unpack"} : Go(t, [r EXCEPT !.pc = c])
        \/ \E v : Go(t, [r EXCEPT !.pc = "sum", !.staged = v])
        \/ Go(t, [r EXCEPT !.pc = "stop"]) /\ Mix(t)
    BY <1>0, <2>1 DEF ToolStep, Invoke, StartRead, Spawn, StartSeen, StartChildExited, StartTimeout,
       StopRead, StopSeen, StopTimeout, Probe, Reprobe, DirectEnds, Fetch, Download, VerifySum, Extract,
       DropPrev, KeepCurrent, Install, Verify, RestorePrevious, Look, MoveAside, BringBack, PutAside, Kill,
       At, Fails
  <2> QED BY <1>0, <1>3, <1>4, <1>9, <1>12, <2>2, <2>3, <2>4, <2>5, <2>6
<1>13. CASE r.pc = "idle"
  <2>1. PICK k \in Kinds, p \in Ports : Invoke(t, k, p)
    BY <1>0, <1>13 DEF ToolStep, StartRead, Spawn, StartSeen, StartChildExited, StartTimeout,
       StopRead, StopSeen, StopTimeout, Probe, Reprobe, DirectEnds, Fetch, Download, VerifySum, Extract,
       DropPrev, KeepCurrent, Install, Verify, RestorePrevious, Look, MoveAside, BringBack, PutAside, Kill, At
  <2> QED BY <1>0, <1>9, <1>10, <1>13, <2>1
<1> QED BY <1>11, <1>12, <1>13
\* A tool's step, with no mixture after it: its own steps keep what it has
\* replaced whole, everyone else's find nothing to disturb.
LEMMA ToolStepSwap ==
    ASSUME SwapInv, NEW t \in Tools, ToolStep(t), ~mixed'
    PROVE  /\ OneReplaces'
           /\ \A u \in Tools : Replacing(u)' => Whole(tool[u], bin, prev, aside[u])'
           /\ InPlace'
           /\ Replacing(t) => Proceeds(tool[t], tool'[t], bin', prev', aside'[t])
<1>1. ~mixed
  BY DEF ToolStep, Invoke, StartRead, Spawn, StartSeen, StartChildExited, StartTimeout,
     StopRead, StopSeen, StopTimeout, Probe, Reprobe, DirectEnds, Fetch, Download, VerifySum, Extract,
     DropPrev, KeepCurrent, Install, Verify, RestorePrevious, Look, MoveAside, BringBack, PutAside, Kill,
     Mix, ghostVars
<1>2. /\ AllSound /\ OneReplaces /\ InPlace
      /\ \A u \in Tools : Replacing(u) => Whole(tool[u], bin, prev, aside[u])
  BY <1>1 DEF SwapInv
<1>3. \A u \in Tools \ {t} : tool'[u] = tool[u] /\ (Replacing(u)' <=> Replacing(u))
  <2>1. \A u \in Tools \ {t} : tool'[u] = tool[u]  BY <1>2, ToolGoes DEF AllSound, TypeOK, Go
  <2> QED BY <2>1 DEF Replacing
<1>4. CASE ~Replacing(t)
  <2>1. /\ UNCHANGED binVars
        /\ tool[t].pc \notin {"install", "back", "done"}
        /\ Replacing(t)' => /\ Mix(t)
                            /\ tool'[t].pc = "stop" /\ tool'[t].from = None /\ ~tool'[t].second
    BY <1>2, <1>4, BystanderStep
  <2>2. tool[t].result # "killed"  BY <1>2, <2>1 DEF AllSound, Fits
  <2>3. InPlace'
    <3>1. UNCHANGED <<bin, prev, aside>>  BY <2>1 DEF binVars
    <3> QED BY <1>2, <1>3, <2>1, <2>2, <3>1 DEF InPlace
  <2>4. Replacing(t)' => bin # None /\ \A u \in Tools \ {t} : ~Replacing(u)
    BY <2>1 DEF Mix
  <2>5. OneReplaces'  BY <1>2, <1>3, <2>4 DEF OneReplaces
  <2>6. \A u \in Tools : Replacing(u)' => Whole(tool[u], bin, prev, aside[u])'
    <3>1. UNCHANGED <<bin, prev, aside>>  BY <2>1 DEF binVars
    <3>2. Replacing(t)' => Whole(tool[t], bin, prev, aside[t])'
      BY <2>1, <2>4, <3>1 DEF Whole
    <3> QED BY <1>2, <1>3, <3>1, <3>2
  <2> QED BY <1>4, <2>3, <2>5, <2>6
<1>5. CASE Replacing(t)
  <2>1. \A u \in Tools \ {t} : ~Replacing(u)'  BY <1>2, <1>3, <1>5 DEF OneReplaces
  <2>2. Proceeds(tool[t], tool'[t], bin', prev', aside'[t])  BY <1>2, <1>5, ReplacerStep
  <2>3. OneReplaces'  BY <2>1 DEF OneReplaces
  <2>4. \A u \in Tools : Replacing(u)' => Whole(tool[u], bin, prev, aside[u])'
    BY <2>1, <2>2 DEF Proceeds, Replacing
  <2>5. InPlace'  BY <2>2 DEF InPlace, Proceeds
  <2> QED BY <2>2, <2>3, <2>4, <2>5
<1> QED BY <1>4, <1>5

LEMMA SwapAlways == Spec => []SwapInv
<1>1. Init => SwapInv
  <2>1. Init => InPlace  BY BinsVersions, DaemonAssumption DEF Init, InPlace, Versions, None
  <2>2. Init => \A t \in Tools : ~Replacing(t)  BY DEF Init, Replacing, Idle
  <2> QED BY <2>1, <2>2, InitTypes DEF SwapInv, OneReplaces
<1>2. SwapInv /\ [Next]_vars => SwapInv'
  <2> SUFFICES ASSUME SwapInv, [Next]_vars  PROVE SwapInv'
    OBVIOUS
  <2>1. AllSound'  BY NextTypes DEF SwapInv
  <2>2. ASSUME UNCHANGED <<tool, binVars, mixed>>  PROVE SwapInv'
    BY <2>1, <2>2 DEF SwapInv, OneReplaces, Replacing, InPlace, binVars
  <2>3. CASE UNCHANGED vars  BY <2>2, <2>3 DEF vars, ghostVars
  <2>4. ASSUME NEW d \in Daemons, DaemonStep(d)  PROVE SwapInv'
    BY <2>2, <2>4 DEF DaemonStep, Boot, Check, Bind, Publish, Open, OpenRefused, Terminated, Drain,
       Exit, Crash, Reuse, ghostVars
  <2>5. ASSUME NEW t \in Tools, ToolStep(t)  PROVE SwapInv'
    BY <2>1, <2>5, ToolStepSwap DEF SwapInv
  <2> QED BY <2>3, <2>4, <2>5 DEF Next
<1> QED BY <1>1, <1>2, PTL DEF Spec

\* Unless two tools mixed their steps, a binary that ran is always kept under
\* some name, and `ling-mem` is missing only within a swap or where a tool was
\* killed in one: swap_binary, restore_previous and swap_with_prev.
THEOREM BinaryAlwaysKept == Spec => []BinaryKept
<1>1. SwapInv => BinaryKept  BY DEF SwapInv, InPlace, BinaryKept
<1> QED BY <1>1, SwapAlways, PTL

\* What an upgrade or a rollback answers is true of the binaries it leaves,
\* whatever fails, unless another tool's steps were mixed with its own.
THEOREM AnswersAreTrue == Spec => AnswersTrue
<1> DEFINE True(t) ==
        (tool'[t].kind \in {"upgrade", "rollback"} /\ tool[t].pc # "done" /\ ~mixed') =>
            /\ tool'[t].result = "ok" => bin' # None /\ prev' = tool[t].from
            /\ (tool'[t].result = "restored" /\ tool[t].from # None) => bin' = tool[t].from
<1>1. SwapInv /\ [Next]_vars => [\A t \in Tools : True(t)]_vars
  <2> SUFFICES ASSUME SwapInv, Next, NEW t \in Tools  PROVE True(t)
    OBVIOUS
  <2>0. AllSound /\ (tool[t].pc # "done" => tool[t].result = "none")
    BY DEF SwapInv, AllSound, Fits
  <2>1. CASE tool'[t] = tool[t]  BY <2>0, <2>1
  <2>2. CASE ToolStep(t)
    <3>1. CASE Replacing(t)
      <4>1. ~mixed' => Proceeds(tool[t], tool'[t], bin', prev', aside'[t])
        BY <2>2, <3>1, ToolStepSwap
      <4> QED BY <4>1 DEF Proceeds
    <3>2. CASE ~Replacing(t)
      <4>1. /\ tool[t].pc # "idle" => tool'[t].kind = tool[t].kind
            /\ tool[t].kind \in {"upgrade", "rollback"} /\ tool[t].pc # "idle" =>
                  tool'[t].result \notin {"ok", "restored"}
            /\ tool[t].pc = "idle" => tool'[t].result = "none"
        BY <2>0, <2>2, <3>2, BystanderStep
      <4> QED BY <4>1
    <3> QED BY <3>1, <3>2
  <2>3. CASE ~ToolStep(t)
    <3>1. tool'[t] = tool[t]
      <4>1. ASSUME NEW d \in Daemons, DaemonStep(d)  PROVE tool' = tool
        BY <4>1 DEF DaemonStep, Boot, Check, Bind, Publish, Open, OpenRefused, Terminated, Drain,
           Exit, Crash, Reuse
      <4>2. ASSUME NEW u \in Tools \ {t}, ToolStep(u)  PROVE tool'[t] = tool[t]
        BY <2>0, <4>2, ToolGoes DEF AllSound, TypeOK, Go
      <4> QED BY <2>3, <4>1, <4>2 DEF Next
    <3> QED BY <2>1, <3>1
  <2> QED BY <2>2, <2>3
<1>2. SwapInv /\ [Next]_vars => [\A t \in Tools :
        (tool'[t].kind \in {"upgrade", "rollback"} /\ tool[t].pc # "done" /\ ~mixed') =>
            /\ tool'[t].result = "ok" => bin' # None /\ prev' = tool[t].from
            /\ (tool'[t].result = "restored" /\ tool[t].from # None) => bin' = tool[t].from]_vars
  BY <1>1
<1> QED BY <1>2, SwapAlways, PTL DEF Spec, AnswersTrue

-----------------------------------------------------------------------------
(* A data command does the same with and without the daemon: for every     *)
(* combination of options, every row and every directory.                  *)

\* Of Cli; what an option that is not given has is Absent here.
CONSTANTS Ids, Contents, Apps, Sessions, Dirs, Days, Hosts, DayStart, DayEnd, Beneath,
          ScopeDirs, Clean, MaxSteps, Absent
VARIABLES tables, dump, steps

C == INSTANCE Cli WITH file <- dump, None <- Absent

\* What a request says is what the daemon reads.
LEMMA Carried ==
    ASSUME NEW o, NEW dir
    PROVE  C!DtoFilters([C!FilterBody(o) EXCEPT !.root = dir]) = C!FiltersOf(o, dir)
<1> DEFINE w == [C!FilterBody(o) EXCEPT !.root = dir]
<1>1. /\ w.apps = o.apps /\ w.contextsAny = {} /\ w.type = Absent /\ w.types = o.types
      /\ w.excluded = {} /\ w.indexed = o.indexed /\ w.session = o.session
      /\ w.tier = o.tier /\ w.from = o.from /\ w.outcome = o.outcome
  BY DEF C!FilterBody
<1>2. /\ w.since = o.since /\ w.until = C!Stricter(o.until, o.older) /\ w.day = o.day
      /\ w.root = dir /\ w.expired = o.expired /\ w.successor = o.successor
  BY DEF C!FilterBody
<1> HIDE DEF w
<1>3. w.apps \cup w.contextsAny = o.apps
  BY <1>1
<1>4. w.types \cup (IF w.type = Absent THEN {} ELSE {w.type}) = o.types
  BY <1>1
<1>5. C!DtoFilters(w) = C!FiltersOf(o, dir)
  BY <1>1, <1>2, <1>3, <1>4 DEF C!DtoFilters, C!FiltersOf
<1> QED
  BY <1>5 DEF w

\* A search or list selects the same rows on both ways: the request carries
\* every option, and the daemon reads each as the command line itself would.
THEOREM ReadsAgree ==
    ASSUME NEW o \in C!Options
    PROVE  C!DtoFilters(C!PushScopeRoot(o, C!FilterBody(o))) = C!IntoFilters(o)
BY Carried DEF C!PushScopeRoot, C!IntoFilters

\* A bulk delete through the daemon reads the options as the command line does,
\* the recall root left out.
LEMMA ForgetReads ==
    ASSUME NEW o
    PROVE  C!DtoFilters(C!FilterBody(o)) = C!FiltersOf(o, Absent)
<1>1. [C!FilterBody(o) EXCEPT !.root = Absent] = C!FilterBody(o)
  BY DEF C!FilterBody
<1> QED
  BY <1>1, Carried

\* So it deletes what the command line alone would, unless it names a recall
\* root, or is narrowed only by what the handler takes for no narrowing at all.
THEOREM ForgetAgrees ==
    ASSUME NEW o \in C!Options, NEW T, o.root = Absent, C!NarrowForHandler(C!IntoFilters(o))
    PROVE  C!DaemonForgets(o, T) = C!DirectForgets(o, T)
<1>1. C!DtoFilters(C!FilterBody(o)) = C!IntoFilters(o)
  BY ForgetReads DEF C!IntoFilters
<1>2. C!NarrowForStore(C!IntoFilters(o))
  BY DEF C!NarrowForStore
<1> QED
  BY <1>1, <1>2 DEF C!DaemonForgets, C!DirectForgets

\* Whatever a bulk delete through the daemon is given, rows that one of its
\* options does not select stay, and a recall root on its own deletes nothing.
THEOREM ForgetIsNarrow ==
    ASSUME NEW o \in C!Options, NEW T
    PROVE  /\ \A r \in T : ~C!Admits(C!FiltersOf(o, Absent), r)
                             => r \in C!DaemonForgets(o, T)
           /\ ~C!NarrowForHandler(C!FiltersOf(o, Absent)) => C!DaemonForgets(o, T) = T
BY ForgetReads DEF C!DaemonForgets, C!Without

\* An add that names a tier of the long-term table, no index on a core row, a
\* summary of one short line and directories of the session writes the same row
\* on both ways: what the daemon decides by itself is all that differs.
THEOREM AddsAgree ==
    ASSUME NEW a \in C!Adds, a.tier \in {"core", "semantic"}, Absent \notin C!Tiers,
           ~(a.tier = "core" /\ a.indexed), Clean[a.summary] = a.summary,
           a.scope \in C!Opt(ScopeDirs), a.cwd \in C!Opt(ScopeDirs)
    PROVE  C!DaemonAdds(a) = C!DirectAdds(a, FALSE)
<1>1. a.tier # Absent /\ C!DaemonTier(a) = a.tier /\ C!DirectTier(a.tier, FALSE) = a.tier
  BY DEF C!DaemonTier, C!DirectTier, C!Else, C!Tiers
<1>2. a.indexed \in BOOLEAN
  BY DEF C!Adds
<1>3. (a.indexed /\ a.tier # "core") = a.indexed
  BY <1>2
<1>4. C!DaemonScope(a) = C!Else(a.scope, a.cwd)
  BY DEF C!DaemonScope, C!Else, C!Opt
<1> QED
  BY <1>1, <1>3, <1>4 DEF C!DaemonAdds, C!DirectAdds

\* An edit of a row that is not the user's, or that the user asked for, writes the
\* same row on both ways, unless it makes or leaves it a core row.
THEOREM EditsAgree ==
    ASSUME NEW r, NEW e \in C!Edits, e.content = Absent \/ r.from # "user" \/ e.voice,
           Clean[e.summary] = e.summary, C!Patch(r, e).tier # "core"
    PROVE  C!DaemonEdits(r, e) = C!DirectEdits(r, e)
<1>1. [e EXCEPT !.summary = Clean[@]] = e
  BY DEF C!Edits
<1>2. e.voice \in BOOLEAN
  BY DEF C!Edits
<1> HIDE DEF C!Patch
<1> QED
  BY <1>1, <1>2 DEF C!DaemonEdits, C!DirectEdits

\* Import undoes export: of a table without archived rows nothing is lost and
\* nothing altered, and what comes back to the staging table is staged.
THEOREM RoundTrip ==
    ASSUME NEW T, \A r \in T : r.expired = FALSE
    PROVE  /\ C!Imported(C!Exported(T), FALSE) = T
           /\ (\A r \in T : C!Staged(r) = r) => C!Imported(C!Exported(T), TRUE) = T
<1>1. ASSUME NEW r \in T PROVE C!Admits(C!Everything, r)
  <2>1. \A k \in {"indexed", "session", "tier", "from", "outcome"} : C!Everything[k] = Absent
    BY DEF C!Everything
  <2>2. /\ C!Everything.apps = {} /\ C!Everything.types = {} /\ C!Everything.excluded = {}
        /\ C!Everything.since = Absent /\ C!Everything.until = Absent
        /\ C!Everything.successor = Absent /\ C!Everything.root = Absent
    BY DEF C!Everything
  <2> QED
    BY <2>1, <2>2 DEF C!Admits
<1>2. C!Exported(T) = T
  BY <1>1 DEF C!Exported
<1> QED
  BY <1>2 DEF C!Imported

-----------------------------------------------------------------------------
(* What the gate, the shared load and the fetched files keep, for any      *)
(* number of requests, files and failures of the model hosts.  The gate    *)
(* and the permit are never left behind, whoever hangs up.  One pass and   *)
(* one load at a time needs clients that wait; a ref that names whole      *)
(* files needs, beside that, no command that loads for itself.             *)

\* Of Embedder; its commands are Loaders, the file a thread fetches fetching, its
\* faults losses.
CONSTANTS Calls, Warm, Loaders, Files, CanLeave
VARIABLES pc, ready, permit, gate, pass, at, fetching, opened, got, tampered, bytes, part,
          snapshot, ref, losses

E == INSTANCE Embedder WITH Commands <- Loaders, file <- fetching, faults <- losses

\* Loads and commands touch the files, requests what requests share.
LEMMA OnlyRequests ==
    ASSUME [E!Next]_(E!vars)
    PROVE  (\E c \in Calls : E!Request(c)) \/ UNCHANGED E!callVars
<1>1. ASSUME NEW t \in E!Threads, E!TryHub(t) \/ E!Fetch(t) PROVE UNCHANGED E!callVars
  BY <1>1 DEF E!TryHub, E!Fetch, E!CheckFile, E!CreatePart, E!WritePiece, E!LosePart,
     E!VerifyPart, E!Rename, E!WriteRef
<1>2. ASSUME NEW t \in Loaders, E!StartCommand(t) \/ E!Kill(t) PROVE UNCHANGED E!callVars
  BY <1>2 DEF E!StartCommand, E!Kill
<1> QED BY <1>1, <1>2 DEF E!Next, E!vars

\* The values where requests and passes are.
Lives ==
    /\ pc \in [Calls -> {"idle", "asking", "loading", "queued", "embedding", "done",
                         "failed", "left"}]
    /\ pass \in [Calls -> {"none", "running", "over"}]

\* They keep to them.
LEMMA LivesKept == E!Spec => []Lives
<1>1. E!Init => Lives  BY DEF E!Init, Lives
<1>2. Lives /\ [E!Next]_(E!vars) => Lives'
  <2> SUFFICES ASSUME Lives, [E!Next]_(E!vars) PROVE Lives'  OBVIOUS
  <2> USE DEF Lives, E!To
  <2>1. ASSUME NEW c \in Calls, E!Request(c) PROVE Lives'
    BY <2>1 DEF E!Request, E!Ask, E!Share, E!Load, E!Loaded, E!StartPass, E!EndPass, E!Embedded, E!Leave
  <2>2. ASSUME UNCHANGED E!callVars PROVE Lives'  BY <2>2 DEF E!callVars
  <2> QED BY <2>1, <2>2, OnlyRequests
<1> QED BY <1>1, <1>2, PTL DEF E!Spec

(***************************************************************************)
(* Whoever gives up and wherever, no request is left with a gate or a      *)
(* permit it does not use, and none is without one it needs.               *)
(***************************************************************************)
THEOREM NeverLeftBehind ==
    ASSUME Nobody \notin Calls
    PROVE  E!Spec => []E!HeldByOwner
<1>1. E!Init => E!HeldByOwner  BY DEF E!Init, E!HeldByOwner
<1>2. Lives /\ E!HeldByOwner /\ [E!Next]_(E!vars) => E!HeldByOwner'
  <2> SUFFICES ASSUME Lives, E!HeldByOwner, [E!Next]_(E!vars) PROVE E!HeldByOwner'  OBVIOUS
  <2> USE DEF Lives, E!HeldByOwner, E!To
  <2>1. ASSUME NEW c \in Calls, E!Request(c) PROVE E!HeldByOwner'
    <3>1. CASE E!Ask(c)  BY <3>1 DEF E!Ask
    <3>2. CASE E!Share(c)  BY <3>2 DEF E!Share
    <3>3. CASE E!Load(c)  BY <3>3 DEF E!Load
    <3>4. CASE E!Loaded(c)  BY <3>4 DEF E!Loaded
    <3>5. CASE E!StartPass(c)  BY <3>5 DEF E!StartPass
    <3>6. CASE E!EndPass(c)  BY <3>6 DEF E!EndPass
    <3>7. CASE E!Embedded(c)  BY <3>7 DEF E!Embedded
    <3>8. CASE E!Leave(c)  BY <3>8 DEF E!Leave
    <3> QED BY <2>1, <3>1, <3>2, <3>3, <3>4, <3>5, <3>6, <3>7, <3>8 DEF E!Request
  <2>2. ASSUME UNCHANGED E!callVars PROVE E!HeldByOwner'  BY <2>2 DEF E!callVars
  <2> QED BY <2>1, <2>2, OnlyRequests
<1> QED BY <1>1, <1>2, LivesKept, PTL DEF E!Spec

\* A pass that runs has the gate, while clients wait for theirs.
PassHasGate == \A c \in Calls : pass[c] = "running" => gate = c

(***************************************************************************)
(* One pass at a time, as the gate's comment says, when every client waits *)
(* for its answer: a dropped request gives the gate to the next while its  *)
(* own pass still runs.                                                    *)
(***************************************************************************)
THEOREM OnePassAtATime ==
    ASSUME Nobody \notin Calls, ~CanLeave
    PROVE  E!Spec => []E!OnePass
<1>1. E!Init => PassHasGate  BY DEF E!Init, PassHasGate
<1>2. Lives /\ E!HeldByOwner /\ PassHasGate /\ [E!Next]_(E!vars) => PassHasGate'
  <2> SUFFICES ASSUME Lives, E!HeldByOwner, PassHasGate, [E!Next]_(E!vars) PROVE PassHasGate'  OBVIOUS
  <2> USE DEF Lives, PassHasGate, E!To
  <2>1. ASSUME NEW c \in Calls, E!Request(c) PROVE PassHasGate'
    <3>1. CASE E!Ask(c) \/ E!Share(c) \/ E!Load(c) \/ E!Loaded(c)
      BY <3>1 DEF E!Ask, E!Share, E!Load, E!Loaded
    <3>2. CASE E!StartPass(c)  BY <3>2 DEF E!StartPass
    <3>3. CASE E!EndPass(c)  BY <3>3 DEF E!EndPass
    <3>4. CASE E!Embedded(c)  BY <3>4 DEF E!Embedded, E!HeldByOwner
    <3>5. CASE E!Leave(c)  BY <3>5 DEF E!Leave
    <3> QED BY <2>1, <3>1, <3>2, <3>3, <3>4, <3>5 DEF E!Request
  <2>2. ASSUME UNCHANGED E!callVars PROVE PassHasGate'  BY <2>2 DEF E!callVars
  <2> QED BY <2>1, <2>2, OnlyRequests
<1>3. PassHasGate => E!OnePass  BY DEF PassHasGate, E!OnePass
<1> QED BY <1>1, <1>2, <1>3, LivesKept, NeverLeftBehind, PTL DEF E!Spec

\* A load that runs has the permit, while clients wait.
LoadHasPermit ==
    /\ at \in [E!Threads -> {"none", "hub", "check", "create", "write", "rename", "ref",
                            "built", "failed"}]
    /\ \A c \in Calls : E!Loading(c) => permit = c

\* A load goes on from where it is, and only a load.
LEMMA LoadsGoOn ==
    ASSUME LoadHasPermit, NEW t \in E!Threads, E!TryHub(t) \/ E!Fetch(t)
    PROVE  /\ E!Loading(t)
           /\ at' \in [E!Threads -> {"none", "hub", "check", "create", "write", "rename", "ref",
                                    "built", "failed"}]
           /\ \A s \in E!Threads \ {t} : at'[s] = at[s]
<1> USE DEF LoadHasPermit, E!Goes, E!To, E!Loading
<1>1. CASE E!TryHub(t)  BY <1>1 DEF E!TryHub
<1>2. CASE E!CheckFile(t)  BY <1>2 DEF E!CheckFile
<1>3. CASE E!CreatePart(t)  BY <1>3 DEF E!CreatePart
<1>4. CASE E!WritePiece(t)  BY <1>4 DEF E!WritePiece
<1>5. CASE E!LosePart(t)  BY <1>5 DEF E!LosePart
<1>6. CASE E!VerifyPart(t)  BY <1>6 DEF E!VerifyPart
<1>7. CASE E!Rename(t)  BY <1>7 DEF E!Rename
<1>8. CASE E!WriteRef(t)  BY <1>8 DEF E!WriteRef
<1> QED BY <1>1, <1>2, <1>3, <1>4, <1>5, <1>6, <1>7, <1>8 DEF E!Fetch

\* The permit is its load's at every step.
LEMMA PermitKept ==
    ASSUME Nobody \notin Calls, Calls \cap Loaders = {}, ~CanLeave
    PROVE  E!Spec => []LoadHasPermit
<1>1. E!Init => LoadHasPermit  BY DEF E!Init, LoadHasPermit, E!Loading, E!Threads
<1>2. Lives /\ E!HeldByOwner /\ LoadHasPermit /\ [E!Next]_(E!vars) => LoadHasPermit'
  <2> SUFFICES ASSUME Lives, E!HeldByOwner, LoadHasPermit, [E!Next]_(E!vars) PROVE LoadHasPermit'
    OBVIOUS
  <2> USE DEF LoadHasPermit, E!Loading
  <2>1. ASSUME NEW c \in Calls, E!Request(c) PROVE LoadHasPermit'
    <3>1. CASE E!Load(c)  BY <3>1 DEF E!Load, E!Goes, E!To, E!Threads
    <3>2. CASE E!Loaded(c)  BY <3>2 DEF E!Loaded, E!threadVars, E!HeldByOwner
    <3>3. CASE E!Ask(c) \/ E!Share(c) \/ E!StartPass(c) \/ E!EndPass(c) \/ E!Embedded(c)
      BY <3>3 DEF E!Ask, E!Share, E!StartPass, E!EndPass, E!Embedded, E!threadVars
    <3>4. CASE E!Leave(c)  BY <3>4 DEF E!Leave
    <3> QED BY <2>1, <3>1, <3>2, <3>3, <3>4 DEF E!Request
  <2>2. ASSUME NEW t \in E!Threads, E!TryHub(t) \/ E!Fetch(t) PROVE LoadHasPermit'
    <3>1. UNCHANGED permit
      BY <2>2 DEF E!TryHub, E!Fetch, E!CheckFile, E!CreatePart, E!WritePiece, E!LosePart, E!VerifyPart,
                  E!Rename, E!WriteRef, E!callVars
    <3> QED BY <2>2, <3>1, LoadsGoOn DEF E!Threads
  <2>3. ASSUME NEW t \in Loaders, E!StartCommand(t) \/ E!Kill(t) PROVE LoadHasPermit'
    BY <2>3 DEF E!StartCommand, E!Kill, E!Goes, E!To, E!callVars, E!Threads
  <2>4. CASE UNCHANGED E!vars  BY <2>4 DEF E!vars, E!callVars, E!threadVars
  <2> QED BY <2>1, <2>2, <2>3, <2>4 DEF E!Next
<1> QED BY <1>1, <1>2, LivesKept, NeverLeftBehind, PTL DEF E!Spec

(***************************************************************************)
(* One load at a time in the daemon, as load_once.rs says, when every      *)
(* client waits: a dropped request gives the permit to the next while its  *)
(* load still runs.                                                        *)
(***************************************************************************)
THEOREM OneLoadAtATime ==
    ASSUME Nobody \notin Calls, Calls \cap Loaders = {}, ~CanLeave
    PROVE  E!Spec => []E!OneLoad
<1>1. LoadHasPermit => E!OneLoad  BY DEF LoadHasPermit, E!OneLoad
<1> QED BY <1>1, PermitKept, PTL

\* What the names on the disk stand for: a part of its own file, whole ones only
\* where the loader looks.
Places(f) == E!Threads \X {f}
Disk ==
    /\ bytes \in [E!Threads \X (1 .. Files) -> SUBSET E!Pieces]
    /\ part \in [1 .. Files -> {E!NoFile} \cup E!Threads \X (1 .. Files)]
    /\ snapshot \in [1 .. Files -> {E!NoFile} \cup E!Threads \X (1 .. Files)]
    /\ \A f \in 1 .. Files : part[f] # E!NoFile => part[f] \in Places(f)
    /\ \A f \in 1 .. Files : snapshot[f] # E!NoFile => snapshot[f] \in Places(f) /\ E!Whole(f)
    /\ ref = "fallback" => \A f \in 1 .. Files : snapshot[f] # E!NoFile

Counted ==
    /\ fetching \in [E!Threads -> Nat \ {0}]
    /\ opened \in [E!Threads -> {E!NoFile} \cup E!Threads \X (1 .. Files)]
    /\ got \in [E!Threads -> 0 .. 2]
    /\ tampered \in [E!Threads -> BOOLEAN]

\* How far a load is, the files before its own being there.
Behind(t) == \A f \in 1 .. Files : f < fetching[t] => snapshot[f] # E!NoFile
Ahead(t) ==
    /\ at[t] \in {"create", "write", "rename"} => fetching[t] <= Files /\ snapshot[fetching[t]] = E!NoFile
    /\ at[t] \in {"write", "rename"} => part[fetching[t]] # E!NoFile /\ opened[t] = part[fetching[t]]
    /\ at[t] = "write" /\ ~tampered[t] => bytes[opened[t]] = 1 .. got[t]
    /\ at[t] = "rename" => bytes[opened[t]] = E!Pieces
    /\ at[t] = "ref" => fetching[t] > Files

Fetched == Disk /\ Counted /\ \A t \in E!Threads : Behind(t) /\ Ahead(t)

\* A step of the one load there is keeps what it has found and its place.
LEMMA LoadKeeps ==
    ASSUME Files \in Nat, Fetched, LoadHasPermit, NEW t \in E!Threads, E!TryHub(t) \/ E!Fetch(t)
    PROVE  /\ Disk' /\ Counted' /\ Behind(t)' /\ Ahead(t)'
           /\ \A s \in E!Threads \ {t} : fetching'[s] = fetching[s]
           /\ \A f \in 1 .. Files : snapshot[f] # E!NoFile => snapshot'[f] # E!NoFile
<1>0. /\ Disk /\ Counted /\ Behind(t) /\ Ahead(t) /\ fetching[t] \in Nat \ {0}
      /\ at \in [E!Threads -> {"none", "hub", "check", "create", "write", "rename", "ref",
                              "built", "failed"}]
  BY DEF Fetched, LoadHasPermit, Counted
<1>1. CASE E!TryHub(t)
  BY <1>0, <1>1 DEF E!TryHub, Disk, Counted, Behind, Ahead, E!Goes, E!To, E!Whole
<1>2. CASE E!CheckFile(t)
  <2>1. /\ UNCHANGED <<opened, got, tampered, E!diskVars>>
        /\ \/ fetching' = fetching /\ at' = [at EXCEPT ![t] = "ref"] /\ fetching[t] > Files
           \/ /\ fetching' = [fetching EXCEPT ![t] = fetching[t] + 1]
              /\ at' = at /\ at[t] = "check" /\ E!Whole(fetching[t])
           \/ /\ fetching' = fetching /\ at' = [at EXCEPT ![t] = "create"] /\ fetching[t] <= Files
              /\ ~E!Whole(fetching[t])
    BY <1>0, <1>2 DEF E!CheckFile, E!Goes, E!To
  <2>2. Disk'  BY <1>0, <2>1 DEF Disk, E!diskVars, E!Whole
  <2>5. Counted'  BY <1>0, <2>1 DEF Counted
  <2>3. Behind(t)'  BY <1>0, <2>1 DEF Behind, Counted, E!diskVars, E!Whole
  <2>4. Ahead(t)'  BY <1>0, <2>1 DEF Ahead, Disk, E!diskVars, E!Whole, Counted
  <2> QED BY <1>0, <2>1, <2>2, <2>3, <2>4, <2>5 DEF Counted, E!diskVars
<1>3. CASE E!CreatePart(t)
  <2> DEFINE g == fetching[t]
             p == IF part[g] = E!NoFile THEN <<t, g>> ELSE part[g]
  <2>1. at[t] = "create" /\ g \in 1 .. Files /\ snapshot[g] = E!NoFile
    BY <1>0, <1>3 DEF E!CreatePart, Ahead
  <2>2. /\ part' = [part EXCEPT ![g] = p] /\ bytes' = [bytes EXCEPT ![p] = {}]
        /\ opened' = [opened EXCEPT ![t] = p] /\ got' = [got EXCEPT ![t] = 0]
        /\ tampered' = [tampered EXCEPT ![t] = FALSE] /\ at' = [at EXCEPT ![t] = "write"]
        /\ UNCHANGED <<fetching, snapshot, ref>>
    BY <1>3 DEF E!CreatePart, E!Goes, E!To
  <2>3. p \in Places(g) /\ p \in E!Threads \X (1 .. Files) /\ p # E!NoFile
    BY <1>0, <2>1 DEF Disk, Places, E!NoFile
  <2> HIDE DEF p
  <2>4. \A f \in 1 .. Files : snapshot[f] # E!NoFile => snapshot[f] # p
    BY <1>0, <2>1, <2>3 DEF Disk, Places
  <2>5. Disk'
    <3>1. \A f \in 1 .. Files : snapshot'[f] # E!NoFile => snapshot'[f] \in Places(f) /\ E!Whole(f)'
      BY <1>0, <2>2, <2>3, <2>4 DEF Disk, E!Whole
    <3>2. \A f \in 1 .. Files : part'[f] # E!NoFile => part'[f] \in Places(f)
      BY <1>0, <2>1, <2>2, <2>3 DEF Disk
    <3>3. /\ bytes' \in [E!Threads \X (1 .. Files) -> SUBSET E!Pieces]
          /\ part' \in [1 .. Files -> {E!NoFile} \cup E!Threads \X (1 .. Files)]
      BY <1>0, <2>1, <2>2, <2>3 DEF Disk
    <3> QED BY <1>0, <2>2, <3>1, <3>2, <3>3 DEF Disk
  <2>6. Counted'  BY <1>0, <2>2, <2>3 DEF Counted
  <2>7. Behind(t)'  BY <1>0, <2>2 DEF Behind
  <2>8. Ahead(t)'
    <3>1. bytes'[p] = {} /\ part'[g] = p /\ opened'[t] = p /\ got'[t] = 0 /\ at'[t] = "write"
      BY <1>0, <2>1, <2>2, <2>3 DEF Disk, Counted
    <3>2. 1 .. got'[t] = {}  BY <3>1
    <3>3. fetching'[t] = g /\ g <= Files /\ snapshot'[g] = E!NoFile
      BY <1>0, <2>1, <2>2
    <3> HIDE DEF g
    <3> QED BY <2>3, <3>1, <3>2, <3>3 DEF Ahead
  <2> QED BY <2>2, <2>5, <2>6, <2>7, <2>8
<1>4. CASE E!WritePiece(t)
  <2> DEFINE p == opened[t]
             i == got[t] + 1
  <2>1. /\ at[t] = "write" /\ fetching[t] \in 1 .. Files /\ snapshot[fetching[t]] = E!NoFile
        /\ part[fetching[t]] # E!NoFile /\ p = part[fetching[t]] /\ got[t] \in 0 .. 1
    BY <1>0, <1>4 DEF E!WritePiece, Ahead, Counted
  <2>2. p \in Places(fetching[t]) /\ p \in E!Threads \X (1 .. Files)
    BY <1>0, <2>1 DEF Disk
  <2>3. /\ got' = [got EXCEPT ![t] = i] /\ UNCHANGED <<at, fetching, opened, part, snapshot, ref>>
        /\ \/ bytes' = [bytes EXCEPT ![p] = bytes[p] \cup {i}] /\ tampered' = tampered
           \/ bytes' = [bytes EXCEPT ![p] = bytes[p] \ {i}] /\ tampered' = [tampered EXCEPT ![t] = TRUE]
    BY <1>4 DEF E!WritePiece, E!To
  <2> HIDE DEF p
  <2>4. \A f \in 1 .. Files : snapshot[f] # E!NoFile => snapshot[f] # p
    BY <1>0, <2>1, <2>2 DEF Disk, Places
  <2>5. Disk'
    <3>1. \A f \in 1 .. Files : snapshot'[f] # E!NoFile => snapshot'[f] \in Places(f) /\ E!Whole(f)'
      BY <1>0, <2>2, <2>3, <2>4 DEF Disk, E!Whole
    <3>2. bytes' \in [E!Threads \X (1 .. Files) -> SUBSET E!Pieces]
      <4>1. PICK b : bytes' = [bytes EXCEPT ![p] = b] /\ (b = bytes[p] \cup {i} \/ b = bytes[p] \ {i})
        BY <2>3
      <4>2. i \in E!Pieces  BY <2>1 DEF E!Pieces
      <4>3. bytes \in [E!Threads \X (1 .. Files) -> SUBSET E!Pieces]  BY <1>0 DEF Disk
      <4>4. bytes[p] \in SUBSET E!Pieces  BY <2>2, <4>3
      <4>5. b \in SUBSET E!Pieces  BY <4>1, <4>2, <4>4
      <4> QED BY <4>1, <4>3, <4>5
    <3> QED BY <1>0, <2>3, <3>1, <3>2 DEF Disk
  <2>6. Counted'
    <3>1. got' \in [E!Threads -> 0 .. 2]  BY <1>0, <2>1, <2>3 DEF Counted
    <3>2. tampered' \in [E!Threads -> BOOLEAN]  BY <1>0, <2>3 DEF Counted
    <3> QED BY <1>0, <2>3, <3>1, <3>2 DEF Counted
  <2>7. Behind(t)'  BY <1>0, <2>3 DEF Behind
  <2>8. Ahead(t)'
    <3>1. CASE tampered'[t]  BY <1>0, <2>1, <2>3, <3>1 DEF Ahead, p
    <3>2. CASE ~tampered'[t]
      <4>1. /\ bytes' = [bytes EXCEPT ![p] = bytes[p] \cup {i}] /\ ~tampered[t]
        BY <1>0, <2>3, <3>2 DEF Counted
      <4>2. bytes[p] = 1 .. got[t]  BY <1>0, <2>1, <4>1 DEF Ahead, p
      <4>5. 1 .. i = (1 .. got[t]) \cup {i}  BY <2>1
      <4>6. bytes'[p] = bytes[p] \cup {i}  BY <1>0, <2>2, <4>1 DEF Disk
      <4>3. bytes'[p] = 1 .. i  BY <4>2, <4>5, <4>6
      <4>4. got'[t] = i  BY <1>0, <2>3 DEF Counted
      <4> QED BY <1>0, <2>1, <2>3, <4>3, <4>4 DEF Ahead, p
    <3> QED BY <3>1, <3>2
  <2> QED BY <2>3, <2>5, <2>6, <2>7, <2>8
<1>5. CASE E!LosePart(t)
  BY <1>0, <1>5 DEF E!LosePart, Disk, Counted, Behind, Ahead, E!Goes, E!To, E!Whole, E!diskVars
<1>6. CASE E!VerifyPart(t)
  <2>1. /\ at[t] = "write" /\ got[t] = 2 /\ fetching[t] \in 1 .. Files
        /\ UNCHANGED <<fetching, opened, got, tampered, bytes, snapshot, ref>>
        /\ \/ part' = [part EXCEPT ![fetching[t]] = E!NoFile] /\ at' = [at EXCEPT ![t] = "failed"]
           \/ part' = part /\ at' = [at EXCEPT ![t] = "rename"] /\ ~tampered[t]
    BY <1>0, <1>6 DEF E!VerifyPart, Ahead, E!Goes, E!To
  <2>2. Disk' /\ Counted' /\ Behind(t)'
    BY <1>0, <2>1 DEF Disk, Counted, Behind, E!Whole
  <2>3. Ahead(t)'
    BY <1>0, <2>1 DEF Ahead, E!Pieces
  <2> QED BY <2>1, <2>2, <2>3
<1>7. CASE E!Rename(t)
  <2>1. /\ at[t] = "rename" /\ fetching[t] \in 1 .. Files /\ part[fetching[t]] # E!NoFile
        /\ bytes[part[fetching[t]]] = E!Pieces /\ part[fetching[t]] \in Places(fetching[t])
    BY <1>0, <1>7 DEF E!Rename, Ahead, Disk
  <2>2. /\ snapshot' = [snapshot EXCEPT ![fetching[t]] = part[fetching[t]]]
        /\ part' = [part EXCEPT ![fetching[t]] = E!NoFile]
        /\ fetching' = [fetching EXCEPT ![t] = fetching[t] + 1]
        /\ at' = [at EXCEPT ![t] = "check"]
        /\ UNCHANGED <<opened, got, tampered, bytes, ref>>
    BY <1>7, <2>1 DEF E!Rename, E!Goes, E!To
  <2>3. Disk' /\ Counted'  BY <1>0, <2>1, <2>2 DEF Disk, Counted, E!Whole
  <2>4. Behind(t)'  BY <1>0, <2>1, <2>2 DEF Behind, Disk, Counted
  <2>5. Ahead(t)'  BY <1>0, <2>2 DEF Ahead
  <2>6. \A f \in 1 .. Files : snapshot[f] # E!NoFile => snapshot'[f] # E!NoFile
    BY <1>0, <2>1, <2>2 DEF Disk
  <2> QED BY <1>0, <2>2, <2>3, <2>4, <2>5, <2>6 DEF Counted
<1>8. CASE E!WriteRef(t)
  <2>1. \A f \in 1 .. Files : snapshot[f] # E!NoFile
    BY <1>0, <1>8 DEF E!WriteRef, Ahead, Behind
  <2>2. /\ UNCHANGED <<fetching, opened, got, tampered, bytes, part, snapshot>>
        /\ at' = [at EXCEPT ![t] = "built"] \/ at' = [at EXCEPT ![t] = "failed"]
    BY <1>8 DEF E!WriteRef, E!Goes, E!To
  <2> QED BY <1>0, <2>1, <2>2 DEF Disk, Counted, Behind, Ahead, E!Whole
<1> QED BY <1>1, <1>2, <1>3, <1>4, <1>5, <1>6, <1>7, <1>8 DEF E!Fetch

\* So every load of the daemon keeps them, when nothing else writes to the disk.
LEMMA FetchedKept ==
    ASSUME Nobody \notin Calls, Loaders = {}, ~CanLeave, Files \in Nat
    PROVE  E!Spec => []Fetched
<1>1. E!Init => Fetched
  BY DEF E!Init, Fetched, Disk, Counted, Behind, Ahead, E!NoFile
<1>2. LoadHasPermit /\ Fetched /\ [E!Next]_(E!vars) => Fetched'
  <2> SUFFICES ASSUME LoadHasPermit, Fetched, [E!Next]_(E!vars) PROVE Fetched'  OBVIOUS
  <2>1. ASSUME NEW c \in Calls, E!Request(c) PROVE Fetched'
    <3>1. UNCHANGED <<fetching, opened, got, tampered, E!diskVars>>
      BY <2>1 DEF E!Request, E!Ask, E!Share, E!Load, E!Loaded, E!StartPass, E!EndPass, E!Embedded,
         E!Leave, E!threadVars
    <3>2. Disk' /\ Counted' /\ \A t \in E!Threads : Behind(t)'
      BY <3>1 DEF Fetched, Disk, Counted, Behind, E!Whole, E!diskVars
    <3>3. \A t \in E!Threads : at'[t] = at[t] \/ at'[t] = "hub"
      BY <2>1 DEF E!Request, E!Ask, E!Share, E!Load, E!Loaded, E!StartPass, E!EndPass, E!Embedded, E!Leave,
                  E!threadVars, E!Goes, E!To, LoadHasPermit, E!Threads
    <3>4. \A t \in E!Threads : Ahead(t)'
      BY <3>1, <3>3 DEF Fetched, Ahead, E!diskVars
    <3> QED BY <3>2, <3>4 DEF Fetched
  <2>2. ASSUME NEW t \in E!Threads, E!TryHub(t) \/ E!Fetch(t) PROVE Fetched'
    <3>1. /\ Disk' /\ Counted' /\ Behind(t)' /\ Ahead(t)'
          /\ \A s \in E!Threads \ {t} : fetching'[s] = fetching[s]
          /\ \A f \in 1 .. Files : snapshot[f] # E!NoFile => snapshot'[f] # E!NoFile
      BY <2>2, LoadKeeps
    <3>2. \A s \in E!Threads \ {t} : ~E!Loading(s) /\ at'[s] = at[s]
      BY <2>2, LoadsGoOn DEF LoadHasPermit, E!Threads
    <3>3. \A s \in E!Threads \ {t} : Behind(s)'
      BY <3>1 DEF Fetched, Behind
    <3>4. \A s \in E!Threads \ {t} : Ahead(s)'
      BY <3>2 DEF E!Loading, Ahead, LoadHasPermit
    <3> QED BY <3>1, <3>3, <3>4 DEF Fetched
  <2>3. CASE UNCHANGED E!vars
    BY <2>3 DEF E!vars, E!threadVars, E!diskVars, Fetched, Disk, Counted, Behind, Ahead, E!Whole
  <2> QED BY <2>1, <2>2, <2>3 DEF E!Next
<1>3. E!Spec => []LoadHasPermit  BY PermitKept
<1> QED BY <1>1, <1>2, <1>3, PTL DEF E!Spec

(***************************************************************************)
(* The ref of the fallback never names a file that is not whole, when the  *)
(* daemon's clients wait and no command loads for itself: two loads share  *)
(* the name of the .part file, and the second empties what the first has   *)
(* verified and is about to rename.                                        *)
(***************************************************************************)
THEOREM RefNamesWhole ==
    ASSUME Nobody \notin Calls, Loaders = {}, ~CanLeave, Files \in Nat
    PROVE  E!Spec => []E!RefIsWhole
<1>1. Fetched => E!RefIsWhole  BY DEF Fetched, Disk, E!RefIsWhole
<1> QED BY <1>1, FetchedKept, PTL
=============================================================================
