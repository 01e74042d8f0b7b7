------------------------------- MODULE Daemon -------------------------------
(***************************************************************************)
(* Daemon processes over one data directory, the command line tools that   *)
(* start, stop, upgrade and roll them back, and the data commands that     *)
(* use a daemon or open the store themselves.  What they share: the        *)
(* pidfile daemon.json, the listening port, signals, and the two binaries  *)
(* `ling-mem` and `ling-mem.prev` (src/src/daemon/lifecycle.rs, pidfile.rs *)
(* and serve.rs, src/src/update/mod.rs, src/src/cli/client.rs).            *)
(*                                                                         *)
(* One step of a process is what it does between two points at which it    *)
(* waits, sleeps or runs another program.  pidfile::write renames a        *)
(* complete file into place: one step.  Time is not modelled: a wait may   *)
(* run out at any moment, which counts as a fault, as do a process that is *)
(* killed, a rename that fails, a binary that does not answer --version, a *)
(* store that refuses to open and a pid that the system gives to another   *)
(* process.                                                                *)
(***************************************************************************)
EXTENDS Naturals, Sequences, FiniteSets

CONSTANTS
    Daemons,    \* `serve` processes, each started at most once: the pids
    Tools,      \* other ling-mem processes, each run at most once
    Ports,      \* ports a daemon is asked to bind
    Kinds,      \* commands the tools run in this instance
    Installed,  \* version of the binary at first
    Latest,     \* version of the latest release
    Nobody,     \* no process
    MaxFaults   \* bound: faults

\* "write" stands for the data commands, "ask" for those that only a daemon
\* answers (days, sweep, issues), "export" for those that never ask one.
Commands == {"start", "stop", "restart", "upgrade", "rollback", "write", "ask", "export"}

Versions == Seq(Nat) \ {<<>>}

ASSUME DaemonAssumption ==
    /\ Nobody \notin Daemons
    /\ Ports # {}
    /\ Kinds \subseteq Commands
    /\ Installed \in Versions /\ Latest \in Versions
    /\ MaxFaults \in Nat

VARIABLES
    proc,       \* daemon -> how far it is, its port, its version, SIGTERM pending
    file,       \* daemon.json: the daemon it names, or Nobody
    tool,       \* tool -> its command and how far it is
    bin, prev,  \* versions at `ling-mem` and `ling-mem.prev`, <<>> when missing
    aside,      \* tool -> version it has moved aside, or <<>>
    orphaned,   \* ghost: live daemons whose pidfile another process took away
    mixed,      \* ghost: a tool replaced binaries under another, or after a killed one
    faults      \* faults so far

binVars == <<bin, prev, aside>>
ghostVars == <<orphaned, mixed, faults>>
vars == <<proc, file, tool, binVars, ghostVars>>

None == <<>>

\* What a download that was cut short contains.
Garbled == <<0>>

-----------------------------------------------------------------------------
\* Versions.

\* A missing component counts as 0.
Part(v, i) == IF i <= Len(v) THEN v[i] ELSE 0

VersionLt(a, b) ==
    \E i \in 1 .. (Len(a) + Len(b)) :
        /\ Part(a, i) < Part(b, i)
        /\ \A j \in 1 .. (i - 1) : Part(a, j) = Part(b, j)

MajorOf(v) == Part(v, 1)

-----------------------------------------------------------------------------
\* Processes and the pidfile.

\* DEFAULT_PORT.
DefaultPort == CHOOSE p \in Ports : TRUE

\* "checked": found no live daemon; "bound": listens; "opening": wrote the
\* pidfile; "draining": no longer listens; "stranger": the pid is another
\* program's.
Phases == {"unborn", "born", "checked", "bound", "opening", "serving", "draining",
           "stranger", "dead"}

Unborn == [phase |-> "unborn", port |-> DefaultPort, exe |-> None,
           term |-> FALSE, rivals |-> {}]

Alive(d) == proc[d].phase \notin {"unborn", "dead"}

\* The port a daemon of the file's port would find bound.
Held(p) == \E d \in Daemons : proc[d].port = p /\ proc[d].phase \in {"bound", "opening", "serving"}

Died(d) == [proc EXCEPT ![d] = [Unborn EXCEPT !.phase = "dead", !.port = proc[d].port]]

\* Daemons that have the store open.
Writers == {d \in Daemons : proc[d].phase \in {"opening", "serving", "draining"}}

\* Mutant: a daemon that the file names is taken for live.
Named == file # Nobody

\* Mutant: only a daemon that answers is.
Answering == file # Nobody /\ proc[file].phase = "serving"

Live == file # Nobody /\ Alive(file)

\* The pid is gone and its port is bound: neither live nor removable.
Stuck == file # Nobody /\ ~Alive(file) /\ Held(proc[file].port)

\* The probe binds: a sandbox or a connection that lingers fails it as well.
SeemsStuck == file # Nobody /\ ~Alive(file) /\ ~Stuck

Pcs == {"idle", "probe", "start", "spawn", "await", "reprobe", "direct", "stop", "stopping",
        "fetch", "download", "sum", "unpack", "look", "drop", "keep", "install", "verify", "restore",
        "aside", "back", "put", "done"}

Results == {"none", "ok", "absent", "error", "restored", "killed", "served"}

\* `second` is the second half of an upgrade that failed: the old binary again.
Idle == [kind |-> "start", pc |-> "idle", port |-> DefaultPort, exe |-> None,
         pid |-> Nobody, was |-> FALSE, second |-> FALSE, from |-> None, staged |-> None,
         result |-> "none"]

Bins == {None, Installed, Latest}

Process == [phase : Phases, port : Ports, exe : Bins, term : BOOLEAN, rivals : SUBSET Daemons]

ToolState == [kind : Commands, pc : Pcs, port : Ports, exe : Bins, pid : Daemons \cup {Nobody},
              was : BOOLEAN, second : BOOLEAN, from : Bins, staged : {None, Latest, Garbled},
              result : Results]

TypeOK ==
    /\ proc \in [Daemons -> Process]
    /\ file \in Daemons \cup {Nobody}
    /\ tool \in [Tools -> ToolState]
    /\ \A d \in Daemons : proc[d].term => Alive(d)
    /\ {bin, prev} \subseteq Bins
    /\ aside \in [Tools -> Bins]
    /\ orphaned \subseteq Daemons
    /\ mixed \in BOOLEAN
    /\ faults \in 0 .. MaxFaults

Init ==
    /\ proc = [d \in Daemons |-> Unborn]
    /\ file = Nobody
    /\ tool = [t \in Tools |-> Idle]
    /\ bin = Installed /\ prev = None
    /\ aside = [t \in Tools |-> None]
    /\ orphaned = {} /\ mixed = FALSE /\ faults = 0

Fault == faults < MaxFaults /\ faults' = faults + 1
NoFault == UNCHANGED faults

-----------------------------------------------------------------------------
\* A daemon: `ling-mem serve`.

\* Someone runs `serve` itself.
Boot(d, p) ==
    /\ proc[d].phase = "unborn" /\ bin # None
    /\ proc' = [proc EXCEPT ![d].phase = "born", ![d].port = p, ![d].exe = bin]
    /\ UNCHANGED <<file, tool, binVars, ghostVars>>

\* run: a live daemon in the pidfile makes it give up; a stale file stays.
\* `rivals` is a ghost: who has checked before it and not yet written the file.
Check(d) ==
    /\ proc[d].phase = "born"
    /\ proc' = IF Live THEN Died(d)
               ELSE [proc EXCEPT
                        ![d].phase = "checked",
                        ![d].rivals = {e \in Daemons : proc[e].phase \in {"checked", "bound"}}]
    /\ UNCHANGED <<file, tool, binVars, ghostVars>>

Bind(d) ==
    /\ proc[d].phase = "checked"
    /\ proc' = IF Held(proc[d].port) THEN Died(d) ELSE [proc EXCEPT ![d].phase = "bound"]
    /\ UNCHANGED <<file, tool, binVars, ghostVars>>

Publish(d) ==
    /\ proc[d].phase = "bound"
    /\ file' = d
    /\ orphaned' = orphaned \cup ({file} \cap Writers)
    /\ proc' = [proc EXCEPT ![d].phase = "opening"]
    /\ UNCHANGED <<tool, binVars, mixed, faults>>

\* The stores open, the change log is attached, the server answers.
Open(d) ==
    /\ proc[d].phase = "opening"
    /\ proc' = [proc EXCEPT ![d].phase = "serving"]
    /\ UNCHANGED <<file, tool, binVars, ghostVars>>

\* An error from here on leaves run by `?`, past the removal of the file.
OpenRefused(d) ==
    /\ proc[d].phase = "opening" /\ Fault
    /\ proc' = Died(d)
    /\ UNCHANGED <<file, tool, binVars, orphaned, mixed>>

\* The handler of SIGTERM is installed with the server: before it, and in a
\* stranger, the signal kills.
Terminated(d) ==
    /\ proc[d].term /\ proc[d].phase \in {"born", "checked", "bound", "opening", "stranger"}
    /\ proc' = Died(d)
    /\ UNCHANGED <<file, tool, binVars, ghostVars>>

\* shutdown_signal: the listener is dropped, open requests go on.
Drain(d) ==
    /\ proc[d].term /\ proc[d].phase = "serving"
    /\ proc' = [proc EXCEPT ![d].phase = "draining"]
    /\ UNCHANGED <<file, tool, binVars, ghostVars>>

\* Mutant: whoever stops removes the file.
AnyFile(d) == Nobody

\* Only the file this process wrote.
OwnFileGone(d) == IF file = d THEN Nobody ELSE file

Exit(d) ==
    /\ proc[d].phase = "draining"
    /\ file' = OwnFileGone(d)
    /\ proc' = Died(d)
    /\ UNCHANGED <<tool, binVars, ghostVars>>

Crash(d) ==
    /\ Alive(d) /\ proc[d].phase # "stranger" /\ Fault
    /\ proc' = Died(d)
    /\ UNCHANGED <<file, tool, binVars, orphaned, mixed>>

\* The pid a stale file names is given to another program.
Reuse(d) ==
    /\ proc[d].phase = "dead" /\ file = d /\ Fault
    /\ proc' = [proc EXCEPT ![d].phase = "stranger"]
    /\ UNCHANGED <<file, tool, binVars, orphaned, mixed>>

-----------------------------------------------------------------------------
\* Where a tool goes when its `start` or its `stop` returns.

End(r, result) == [Idle EXCEPT !.kind = r.kind, !.pc = "done", !.result = result]

\* Mutant: an upgrade whose daemon does not start answers without restoring.
StartReturnsAtOnce(r, ok) ==
    IF r.kind \in {"write", "ask"} THEN [r EXCEPT !.pc = IF ok THEN "reprobe" ELSE "direct"]
    ELSE End(r, IF ok THEN "ok" ELSE "restored")

StartReturns(r, ok) ==
    IF r.kind \in {"write", "ask"} THEN [r EXCEPT !.pc = IF ok THEN "reprobe" ELSE "direct"]
    ELSE IF r.second THEN End(r, "restored")
    ELSE IF ok THEN End(r, "ok")
    ELSE CASE r.kind = "upgrade"  -> [r EXCEPT !.pc = "restore"]
           [] r.kind = "rollback" -> [r EXCEPT !.pc = "aside", !.second = TRUE]
           [] OTHER               -> End(r, "error")

StopReturns(r, stopped) ==
    CASE r.kind = "stop"     -> End(r, IF stopped THEN "ok" ELSE "absent")
      [] r.kind = "restart"  -> [r EXCEPT !.pc = "start"]
      [] r.kind = "upgrade"  -> [r EXCEPT !.pc = "drop", !.was = stopped]
      [] r.kind = "rollback" -> [r EXCEPT !.pc = "aside", !.was = stopped]

\* `ling-mem start` of the binary at the canonical path, if one ran before.
StartAgain(r, version) ==
    IF r.was THEN [r EXCEPT !.pc = "start", !.exe = version]
    ELSE End(r, IF r.second THEN "restored" ELSE "ok")

Go(t, r) == tool' = [tool EXCEPT ![t] = r]
At(t, pc) == tool[t].pc = pc

\* Which function the command calls first: cli::run.
FirstStep(kind) ==
    CASE kind = "start"    -> "start"
      [] kind \in {"stop", "restart"} -> "stop"
      [] kind = "upgrade"  -> "fetch"
      [] kind = "rollback" -> "look"
      [] kind \in {"write", "ask"}    -> "probe"
      [] kind = "export"   -> "direct"

\* `stop` and the data commands take no --port.
Invoke(t, kind, p) ==
    /\ At(t, "idle") /\ bin # None
    /\ kind \notin {"start", "restart", "upgrade", "rollback"} => p = DefaultPort
    /\ Go(t, [Idle EXCEPT !.kind = kind, !.pc = FirstStep(kind), !.port = p, !.exe = bin])
    /\ UNCHANGED <<proc, file, binVars, ghostVars>>

-----------------------------------------------------------------------------
\* lifecycle::start.

\* live_pidfile: a stale file is removed when its port is free.
StartRead(t) ==
    /\ At(t, "start")
    /\ \/ /\ Live \/ Stuck
          /\ Go(t, StartReturns(tool[t], Live)) /\ UNCHANGED file /\ NoFault
       \/ /\ ~Live /\ ~Stuck
          /\ Go(t, [tool[t] EXCEPT !.pc = "spawn"]) /\ file' = Nobody /\ NoFault
       \/ /\ SeemsStuck
          /\ Go(t, StartReturns(tool[t], FALSE)) /\ UNCHANGED file /\ Fault
    /\ UNCHANGED <<proc, binVars, orphaned, mixed>>

\* The program spawned is the one that runs, wherever it has been moved to.
OnDisk(v) == v \in {bin, prev} \cup {aside[t] : t \in Tools}

Spawn(t, d) ==
    /\ At(t, "spawn") /\ proc[d].phase = "unborn"
    /\ IF OnDisk(tool[t].exe)
       THEN /\ proc' = [proc EXCEPT ![d].phase = "born", ![d].port = tool[t].port,
                                    ![d].exe = tool[t].exe]
            /\ Go(t, [tool[t] EXCEPT !.pc = "await", !.pid = d])
       ELSE Go(t, StartReturns(tool[t], FALSE)) /\ UNCHANGED proc
    /\ UNCHANGED <<file, binVars, ghostVars>>

\* Any live daemon in the pidfile ends the wait, whoever started it.
StartSeen(t) ==
    /\ At(t, "await") /\ (Live \/ Stuck)
    /\ Go(t, StartReturns(tool[t], Live))
    /\ UNCHANGED <<proc, file, binVars, ghostVars>>

StartChildExited(t) ==
    /\ At(t, "await") /\ ~Live /\ ~Stuck /\ ~Alive(tool[t].pid)
    /\ file' = Nobody
    /\ Go(t, StartReturns(tool[t], FALSE))
    /\ UNCHANGED <<proc, binVars, ghostVars>>

StartTimeout(t) ==
    /\ At(t, "await") /\ ~Live /\ ~Stuck /\ Alive(tool[t].pid) /\ Fault
    /\ file' = Nobody
    /\ proc' = [proc EXCEPT ![tool[t].pid].term = TRUE]
    /\ Go(t, StartReturns(tool[t], FALSE))
    /\ UNCHANGED <<binVars, orphaned, mixed>>

-----------------------------------------------------------------------------
\* lifecycle::stop.

StopRead(t) ==
    /\ At(t, "stop")
    /\ \/ /\ Live
          /\ proc' = [proc EXCEPT ![file].term = TRUE]
          /\ Go(t, [tool[t] EXCEPT !.pc = "stopping", !.pid = file])
          /\ UNCHANGED file /\ NoFault
       \/ /\ ~Live /\ ~Stuck
          /\ file' = Nobody
          /\ Go(t, StopReturns(tool[t], FALSE))
          /\ UNCHANGED proc /\ NoFault
       \/ /\ Stuck \/ SeemsStuck
          /\ Go(t, End(tool[t], "error"))
          /\ UNCHANGED <<proc, file>> /\ IF Stuck THEN NoFault ELSE Fault
    /\ UNCHANGED <<binVars, orphaned, mixed>>

\* Polled: by now the file may name another daemon, and is removed all the same.
StopSeen(t) ==
    /\ At(t, "stopping") /\ ~Alive(tool[t].pid)
    /\ file' = Nobody
    /\ orphaned' = IF Live THEN orphaned \cup {file} ELSE orphaned
    /\ Go(t, StopReturns(tool[t], TRUE))
    /\ UNCHANGED <<proc, binVars, mixed, faults>>

StopTimeout(t) ==
    /\ At(t, "stopping") /\ Alive(tool[t].pid) /\ Fault
    /\ Go(t, End(tool[t], "error"))
    /\ UNCHANGED <<proc, file, binVars, orphaned, mixed>>

-----------------------------------------------------------------------------
\* Data commands: try_running_or_start.

Answers == file # Nobody /\ proc[file].phase = "serving"

Probe(t) ==
    /\ At(t, "probe")
    /\ \/ Answers /\ Go(t, End(tool[t], "served")) /\ NoFault
       \/ ~Answers /\ Go(t, [tool[t] EXCEPT !.pc = "start"]) /\ NoFault
       \/ Answers /\ Fault /\ Go(t, [tool[t] EXCEPT !.pc = "start"])
    /\ UNCHANGED <<proc, file, binVars, orphaned, mixed>>

Reprobe(t) ==
    /\ At(t, "reprobe")
    /\ Go(t, IF Answers THEN End(tool[t], "served") ELSE [tool[t] EXCEPT !.pc = "direct"])
    /\ UNCHANGED <<proc, file, binVars, ghostVars>>

\* The command has opened the store itself; one that needs a daemon then
\* finds that it has no other way.
DirectEnds(t) ==
    /\ At(t, "direct")
    /\ Go(t, End(tool[t], IF tool[t].kind = "ask" THEN "error" ELSE "ok"))
    /\ UNCHANGED <<proc, file, binVars, ghostVars>>

-----------------------------------------------------------------------------
\* update::apply.

\* Replacing the binaries, from the stopping of the daemon to the answer.
Replacing(t) ==
    /\ tool[t].kind \in {"upgrade", "rollback"}
    /\ tool[t].pc \notin {"idle", "fetch", "download", "sum", "unpack", "look", "done"}

\* ... or it goes on from where a killed one left.
Mix(t) == mixed' = (mixed \/ bin = None \/ \E u \in Tools \ {t} : Replacing(u))

Fails(t) == Fault /\ Go(t, End(tool[t], "error"))

\* The latest release is newer; one without an asset for the platform fails.
Available(v) == VersionLt(v, Latest)

\* check and the refusals.
Fetch(t, force) ==
    /\ At(t, "fetch")
    /\ \/ /\ ~Available(tool[t].exe) /\ ~force
          /\ Go(t, End(tool[t], "absent")) /\ NoFault
       \/ /\ Available(tool[t].exe) /\ MajorOf(tool[t].exe) # MajorOf(Latest) /\ ~force
          /\ Go(t, End(tool[t], "error")) /\ NoFault
       \/ /\ (~Available(tool[t].exe) \/ MajorOf(tool[t].exe) # MajorOf(Latest)) => force
          /\ Go(t, [tool[t] EXCEPT !.pc = "download"]) /\ NoFault
       \/ Fails(t)
    /\ UNCHANGED <<proc, file, binVars, orphaned, mixed>>

\* Into a staging directory beside the binary.
Download(t) ==
    /\ At(t, "download")
    /\ \/ NoFault /\ Go(t, [tool[t] EXCEPT !.pc = "sum", !.staged = Latest])
       \/ Fault /\ Go(t, [tool[t] EXCEPT !.pc = "sum", !.staged = Garbled])
       \/ Fails(t)
    /\ UNCHANGED <<proc, file, binVars, orphaned, mixed>>

SumMatches(v) == v # Garbled

VerifySum(t) ==
    /\ At(t, "sum")
    /\ Go(t, IF SumMatches(tool[t].staged) THEN [tool[t] EXCEPT !.pc = "unpack"]
             ELSE End(tool[t], "error"))
    /\ UNCHANGED <<proc, file, binVars, ghostVars>>

\* tar, and `--version` of what it unpacked.
Extract(t) ==
    /\ At(t, "unpack")
    /\ \/ NoFault /\ Go(t, [tool[t] EXCEPT !.pc = "stop"]) /\ Mix(t)
       \/ Fails(t) /\ UNCHANGED mixed
    /\ UNCHANGED <<proc, file, binVars, orphaned>>

\* swap_binary, in the order of its file operations.
DropPrev(t) ==
    /\ At(t, "drop")
    /\ prev' = None
    /\ Go(t, [tool[t] EXCEPT !.pc = "keep"])
    /\ UNCHANGED <<proc, file, bin, aside, ghostVars>>

\* Mutant: the running binary is dropped, not kept.
Discarded == None

Kept == bin

KeepCurrent(t) ==
    /\ At(t, "keep")
    /\ \/ /\ bin # None
          /\ prev' = Kept /\ bin' = None
          /\ Go(t, [tool[t] EXCEPT !.pc = "install", !.from = bin]) /\ NoFault
       \/ /\ bin = None
          /\ Go(t, [tool[t] EXCEPT !.pc = "install"]) /\ UNCHANGED <<prev, bin>> /\ NoFault
       \/ bin # None /\ Fails(t) /\ UNCHANGED <<prev, bin>>
    /\ UNCHANGED <<proc, file, aside, orphaned, mixed>>

Install(t) ==
    /\ At(t, "install")
    /\ \/ /\ NoFault
          /\ bin' = tool[t].staged
          /\ Go(t, [tool[t] EXCEPT !.pc = "verify"])
          /\ UNCHANGED prev
       \/ /\ Fault
          /\ bin' = IF prev # None THEN prev ELSE bin
          /\ prev' = None
          /\ Go(t, End(tool[t], "restored"))
    /\ UNCHANGED <<proc, file, aside, orphaned, mixed>>

\* start_swapped: --version at the real path, then `start`.
Verify(t) ==
    /\ At(t, "verify")
    /\ \/ bin # None /\ NoFault /\ Go(t, StartAgain(tool[t], bin))
       \/ bin = None /\ NoFault /\ Go(t, [tool[t] EXCEPT !.pc = "restore"])
       \/ bin # None /\ Fault /\ Go(t, [tool[t] EXCEPT !.pc = "restore"])
    /\ UNCHANGED <<proc, file, binVars, orphaned, mixed>>

\* restore_previous, and the old daemon again.
RestorePrevious(t) ==
    /\ At(t, "restore")
    /\ IF prev = None
       THEN Go(t, End(tool[t], "error")) /\ UNCHANGED <<bin, prev>>
       ELSE /\ bin' = prev /\ prev' = None
            /\ Go(t, StartAgain([tool[t] EXCEPT !.second = TRUE], prev))
    /\ UNCHANGED <<proc, file, aside, ghostVars>>

-----------------------------------------------------------------------------
\* update::rollback and swap_with_prev.

Look(t) ==
    /\ At(t, "look")
    /\ Go(t, IF prev = None THEN End(tool[t], "error") ELSE [tool[t] EXCEPT !.pc = "stop"])
    /\ IF prev = None THEN UNCHANGED mixed ELSE Mix(t)
    /\ UNCHANGED <<proc, file, binVars, orphaned, faults>>

\* The previous binary must answer --version before anything moves.
MoveAside(t) ==
    /\ At(t, "aside")
    /\ \/ /\ prev # None /\ bin # None /\ NoFault
          /\ aside' = [aside EXCEPT ![t] = bin]
          /\ bin' = None
          /\ Go(t, [tool[t] EXCEPT !.pc = "back", !.from = IF tool[t].second THEN @ ELSE bin])
       \/ /\ prev = None \/ bin = None
          /\ NoFault
          /\ Go(t, End(tool[t], "error")) /\ UNCHANGED <<bin, aside>>
       \/ /\ prev # None /\ bin # None /\ Fault
          /\ Go(t, End(tool[t], "error")) /\ UNCHANGED <<bin, aside>>
    /\ UNCHANGED <<proc, file, prev, orphaned, mixed>>

BringBack(t) ==
    /\ At(t, "back")
    /\ \/ /\ prev # None /\ NoFault
          /\ bin' = prev /\ prev' = None
          /\ Go(t, [tool[t] EXCEPT !.pc = "put"])
          /\ UNCHANGED aside
       \/ /\ IF prev = None THEN NoFault ELSE Fault
          /\ bin' = aside[t] /\ aside' = [aside EXCEPT ![t] = None]
          /\ Go(t, End(tool[t], IF tool[t].second THEN "error" ELSE "restored"))
          /\ UNCHANGED prev
    /\ UNCHANGED <<proc, file, orphaned, mixed>>

PutAside(t) ==
    /\ At(t, "put")
    /\ \/ /\ prev' = aside[t] /\ aside' = [aside EXCEPT ![t] = None]
          /\ Go(t, StartAgain(tool[t], bin)) /\ NoFault
       \/ Fails(t) /\ UNCHANGED <<prev, aside>>
    /\ UNCHANGED <<proc, file, bin, orphaned, mixed>>

-----------------------------------------------------------------------------
\* A tool is interrupted.
Kill(t) ==
    /\ ~At(t, "idle") /\ ~At(t, "done") /\ Fault
    /\ Go(t, End(tool[t], "killed"))
    /\ UNCHANGED <<proc, file, binVars, orphaned, mixed>>

DaemonStep(d) ==
    \/ \E p \in Ports : Boot(d, p)
    \/ Check(d) \/ Bind(d) \/ Publish(d) \/ Open(d) \/ OpenRefused(d)
    \/ Terminated(d) \/ Drain(d) \/ Exit(d) \/ Crash(d) \/ Reuse(d)

ToolStep(t) ==
    \/ \E k \in Kinds, p \in Ports : Invoke(t, k, p)
    \/ StartRead(t) \/ (\E d \in Daemons : Spawn(t, d))
    \/ StartSeen(t) \/ StartChildExited(t) \/ StartTimeout(t)
    \/ StopRead(t) \/ StopSeen(t) \/ StopTimeout(t)
    \/ Probe(t) \/ Reprobe(t) \/ DirectEnds(t)
    \/ (\E force \in BOOLEAN : Fetch(t, force)) \/ Download(t) \/ VerifySum(t) \/ Extract(t)
    \/ DropPrev(t) \/ KeepCurrent(t) \/ Install(t) \/ Verify(t) \/ RestorePrevious(t)
    \/ Look(t) \/ MoveAside(t) \/ BringBack(t) \/ PutAside(t)
    \/ Kill(t)

Next == (\E d \in Daemons : DaemonStep(d)) \/ (\E t \in Tools : ToolStep(t))

Spec == Init /\ [][Next]_vars

-----------------------------------------------------------------------------
\* Two daemons have the store open at once only if the later one had looked
\* for a live daemon before the earlier one wrote the pidfile, or if a process
\* had taken the pidfile away from one of them: the check of serve.rs and the
\* removals of the file never let a third case through.
NoOverlap ==
    \A d, e \in Writers :
        \/ d = e
        \/ d \in proc[e].rivals \/ e \in proc[d].rivals
        \/ {d, e} \cap orphaned # {}

\* A daemon that has written the pidfile and has not stopped is the one the
\* pidfile names, except where a `stop` that had waited for an older daemon
\* removed the file, or a rival wrote over it: nobody who finds a file stale
\* and no daemon that exits takes a live one's file away.
ServingIsNamed ==
    \A d \in Daemons : proc[d].phase \in {"opening", "serving"} => file = d \/ d \in orphaned

\* Unless two tools replace binaries at once, or one goes on from where a
\* killed one left, a binary that ran is
\* kept under some name whatever is interrupted or fails, and the canonical
\* path is empty only in the middle of a swap or where one was killed.
BinaryKept ==
    mixed \/ /\ bin # None \/ prev # None \/ (\E t \in Tools : aside[t] # None)
             /\ \/ bin # None
                \/ \E t \in Tools : tool[t].pc \in {"install", "back"} \/ tool[t].result = "killed"

\* What an upgrade or a rollback answers is true of the binaries: success
\* means another binary with the replaced one kept for a rollback, "the
\* previous one is restored" means the one it found.
AnswersTrue ==
    [][\A t \in Tools :
        (tool'[t].kind \in {"upgrade", "rollback"} /\ tool[t].pc # "done" /\ ~mixed') =>
            /\ tool'[t].result = "ok" => bin' # None /\ prev' = tool[t].from
            /\ (tool'[t].result = "restored" /\ tool[t].from # None) =>
                  bin' = tool[t].from]_vars

-----------------------------------------------------------------------------
\* client.rs: "there's exactly one writer (the daemon)".  Not so: a command
\* that probes a daemon whose stores are still opening goes to the store.
OneWriter == \A t \in Tools : At(t, "direct") /\ tool[t].kind = "write" => Writers = {}

\* lifecycle.rs: "a file this process cannot prove stale is not its to
\* delete".  Not so: stop removes the file of a daemon started meanwhile.
NothingOrphaned == orphaned = {}

\* serve.rs: "Refuse to start if another daemon is already live".  Not so
\* where both looked first and bind different ports.
OneDaemon == Cardinality(Writers) <= 1

\* apply: "Spawn the *new* binary explicitly".  Its `start` answers success
\* for any live daemon: one started meanwhile by the old binary stays.
RestartedOnNew ==
    [][\A t \in Tools :
        (tool[t].kind = "upgrade" /\ tool[t].pc # "done" /\ tool'[t].result = "ok" /\ tool[t].was) =>
            Live' /\ proc'[file'].exe = Latest]_vars
=============================================================================
