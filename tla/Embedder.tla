------------------------------ MODULE Embedder ------------------------------
(***************************************************************************)
(* The embedding model: the value the daemon loads once and shares         *)
(* (src/src/embed/load_once.rs), the passes over it, one at a time         *)
(* (src/src/embed/mod.rs), and the files a load fetches when the model hub *)
(* does not answer (src/src/embed/model_fetch.rs).                         *)
(*                                                                         *)
(* A load and a pass run on threads of their own, which the request only   *)
(* waits for: when its client gives up, the request is dropped with        *)
(* whatever it holds, and its threads go on.  A command with no daemon     *)
(* loads the model in its own process, into the same files.  A download is *)
(* written to a .part file, whose name all share: creating it again        *)
(* empties the file another still writes to.                               *)
(***************************************************************************)
EXTENDS Naturals

CONSTANTS
    Calls,      \* requests of the daemon that embed
    Warm,       \* the warm-up the daemon starts with, one of Calls
    Commands,   \* commands that embed by themselves
    Files,      \* how many files the model has
    CanLeave,   \* whether clients give up
    MaxFaults,  \* bound: calls to a model host that fail, deaths
    Nobody

Threads == Calls \cup Commands
Pieces == {1, 2}    \* of a file

VARIABLES
    pc,         \* call -> where its request is
    ready,      \* the model is there to be shared
    permit,     \* the call that loads it
    gate,       \* the call that may run a pass
    pass,       \* call -> its pass
    at,         \* thread -> where its load is
    file,       \* thread -> the file it is at
    opened,     \* thread -> the .part file it writes to, by the first who made it
    got,        \* thread -> pieces that came
    tampered,   \* thread -> whether one of them was wrong
    bytes,      \* .part file -> pieces it holds
    part,       \* file -> what its .part name stands for
    snapshot,   \* file -> what its own name stands for
    ref,        \* the snapshot the loader is pointed to
    faults

callVars == <<pc, ready, permit, gate, pass>>
threadVars == <<at, file, opened, got, tampered>>
diskVars == <<bytes, part, snapshot, ref>>
vars == <<callVars, threadVars, diskVars, faults>>

Init ==
    /\ pc = [c \in Calls |-> IF c = Warm THEN "asking" ELSE "idle"]
    /\ ready = FALSE /\ permit = Nobody /\ gate = Nobody
    /\ pass = [c \in Calls |-> "none"]
    /\ at = [t \in Threads |-> "none"]
    /\ file = [t \in Threads |-> 1]
    /\ opened = [t \in Threads |-> <<Nobody, 0>>]
    /\ got = [t \in Threads |-> 0] /\ tampered = [t \in Threads |-> FALSE]
    /\ bytes = [p \in Threads \X (1 .. Files) |-> {}]
    /\ part = [f \in 1 .. Files |-> <<Nobody, 0>>]
    /\ snapshot = [f \in 1 .. Files |-> <<Nobody, 0>>]
    /\ ref = "none"
    /\ faults = 0

NoFile == <<Nobody, 0>>
Whole(f) == snapshot[f] # NoFile /\ bytes[snapshot[f]] = Pieces
Fault == faults < MaxFaults /\ faults' = faults + 1
To(f, k, v) == [f EXCEPT ![k] = v]
-----------------------------------------------------------------------------
(***************************************************************************)
(* A load: Embedder::new.                                                  *)
(***************************************************************************)
Goes(t, where) == at' = To(at, t, where)

\* from_hf: what the files at hand allow, or the hub's own.
TryHub(t) ==
    /\ at[t] = "hub"
    /\ \/ /\ ref = "fallback"
          /\ IF \A f \in 1 .. Files : Whole(f) THEN Goes(t, "built")
             ELSE Goes(t, "built") \/ Goes(t, "check")
          /\ UNCHANGED <<ref, faults>>
       \/ ref = "hub" /\ Goes(t, "built") /\ UNCHANGED <<ref, faults>>
       \/ ref = "none" /\ Goes(t, "built") /\ ref' = "hub" /\ UNCHANGED faults
       \/ ref = "none" /\ Fault /\ Goes(t, "check") /\ UNCHANGED ref
    /\ UNCHANGED <<callVars, file, opened, got, tampered, bytes, part, snapshot>>

\* ensure_model_cached_at: a file that is right is kept, then the next one's turn.
CheckFile(t) ==
    /\ at[t] = "check"
    /\ IF file[t] > Files THEN Goes(t, "ref") /\ UNCHANGED file
       ELSE IF Whole(file[t]) THEN file' = To(file, t, file[t] + 1) /\ UNCHANGED at
       ELSE Goes(t, "create") /\ UNCHANGED file
    /\ UNCHANGED <<callVars, opened, got, tampered, diskVars, faults>>

\* File::create.
CreatePart(t) ==
    /\ at[t] = "create"
    /\ LET f == file[t]
           p == IF part[f] = NoFile THEN <<t, f>> ELSE part[f]
       IN  /\ part' = To(part, f, p)
           /\ bytes' = To(bytes, p, {})
           /\ opened' = To(opened, t, p)
    /\ got' = To(got, t, 0) /\ tampered' = To(tampered, t, FALSE)
    /\ Goes(t, "write")
    /\ UNCHANGED <<callVars, file, snapshot, ref, faults>>

\* A piece comes, as it should be or not.
WritePiece(t) ==
    /\ at[t] = "write" /\ got[t] < 2
    /\ got' = To(got, t, got[t] + 1)
    /\ LET i == got[t] + 1
           p == opened[t]
       IN  \/ bytes' = To(bytes, p, bytes[p] \cup {i}) /\ UNCHANGED <<tampered, faults>>
           \/ /\ Fault
              /\ bytes' = To(bytes, p, bytes[p] \ {i}) /\ tampered' = To(tampered, t, TRUE)
    /\ UNCHANGED <<callVars, at, file, opened, part, snapshot, ref>>

\* The host does not answer, or the connection breaks: the .part file stays.
LosePart(t) ==
    /\ at[t] = "create" \/ (at[t] = "write" /\ got[t] < 2)
    /\ Fault
    /\ Goes(t, "failed")
    /\ UNCHANGED <<callVars, file, opened, got, tampered, diskVars>>

\* What came is compared with the pinned hash; a wrong file is removed by name.
VerifyPart(t) ==
    /\ at[t] = "write" /\ got[t] = 2
    /\ IF tampered[t] THEN part' = To(part, file[t], NoFile) /\ Goes(t, "failed")
       ELSE Goes(t, "rename") /\ UNCHANGED part
    /\ UNCHANGED <<callVars, file, opened, got, tampered, bytes, snapshot, ref, faults>>

\* The name may stand for nothing by now.
Rename(t) ==
    /\ at[t] = "rename"
    /\ LET f == file[t]
       IN  IF part[f] = NoFile THEN Goes(t, "failed") /\ UNCHANGED <<file, part, snapshot>>
           ELSE /\ snapshot' = To(snapshot, f, part[f])
                /\ part' = To(part, f, NoFile)
                /\ file' = To(file, t, f + 1)
                /\ Goes(t, "check")
    /\ UNCHANGED <<callVars, opened, got, tampered, bytes, ref, faults>>

\* "Written last", and the load tried again: it asks the network nothing now.
WriteRef(t) ==
    /\ at[t] = "ref"
    /\ ref' = "fallback"
    /\ \/ Goes(t, "built")
       \/ (\E f \in 1 .. Files : ~Whole(f)) /\ Goes(t, "failed")
    /\ UNCHANGED <<callVars, file, opened, got, tampered, bytes, part, snapshot, faults>>

Fetch(t) ==
    \/ CheckFile(t) \/ CreatePart(t) \/ WritePiece(t) \/ LosePart(t) \/ VerifyPart(t)
    \/ Rename(t) \/ WriteRef(t)
-----------------------------------------------------------------------------
(***************************************************************************)
(* Requests.                                                               *)
(***************************************************************************)
Ask(c) ==
    /\ pc[c] = "idle"
    /\ pc' = To(pc, c, "asking")
    /\ UNCHANGED <<ready, permit, gate, pass, threadVars, diskVars, faults>>

\* LoadOnce::get, of what is there ...
Share(c) ==
    /\ pc[c] = "asking" /\ ready
    /\ pc' = To(pc, c, "queued")
    /\ UNCHANGED <<ready, permit, gate, pass, threadVars, diskVars, faults>>

\* ... or is not, and nobody is loading.
Load(c) ==
    /\ pc[c] = "asking" /\ ~ready /\ permit = Nobody
    /\ pc' = To(pc, c, "loading")
    /\ permit' = c
    /\ Goes(c, "hub")
    /\ UNCHANGED <<ready, gate, pass, file, opened, got, tampered, diskVars, faults>>

\* A failed load is not kept: who waits behind it tries again.
Loaded(c) ==
    /\ pc[c] = "loading" /\ at[c] \in {"built", "failed"}
    /\ permit' = Nobody
    /\ IF at[c] = "built" THEN ready' = TRUE /\ pc' = To(pc, c, "queued")
       ELSE pc' = To(pc, c, "failed") /\ UNCHANGED ready
    /\ UNCHANGED <<gate, pass, threadVars, diskVars, faults>>

\* embed_passage, embed_passages, embed_query_serialized.
StartPass(c) ==
    /\ pc[c] = "queued" /\ gate = Nobody
    /\ pc' = To(pc, c, "embedding")
    /\ gate' = c
    /\ pass' = To(pass, c, "running")
    /\ UNCHANGED <<ready, permit, threadVars, diskVars, faults>>

EndPass(c) ==
    /\ pass[c] = "running"
    /\ pass' = To(pass, c, "over")
    /\ UNCHANGED <<pc, ready, permit, gate, threadVars, diskVars, faults>>

Embedded(c) ==
    /\ pc[c] = "embedding" /\ pass[c] = "over"
    /\ pc' = To(pc, c, "done")
    /\ gate' = Nobody
    /\ UNCHANGED <<ready, permit, pass, threadVars, diskVars, faults>>

\* The client hangs up: the request is dropped where it waits.
Leave(c) ==
    /\ CanLeave /\ c # Warm
    /\ pc[c] \in {"asking", "loading", "queued", "embedding"}
    /\ pc' = To(pc, c, "left")
    /\ permit' = IF permit = c THEN Nobody ELSE permit
    /\ gate' = IF gate = c THEN Nobody ELSE gate
    /\ UNCHANGED <<ready, pass, threadVars, diskVars, faults>>

\* embed_missing of a command.
StartCommand(t) ==
    /\ at[t] = "none"
    /\ Goes(t, "hub")
    /\ UNCHANGED <<callVars, file, opened, got, tampered, diskVars, faults>>

\* A command is killed in its load.
Kill(t) ==
    /\ at[t] \notin {"none", "built", "failed"}
    /\ Fault
    /\ Goes(t, "failed")
    /\ UNCHANGED <<callVars, file, opened, got, tampered, diskVars>>

Request(c) ==
    \/ Ask(c) \/ Share(c) \/ Load(c) \/ Loaded(c) \/ StartPass(c) \/ EndPass(c) \/ Embedded(c)
    \/ Leave(c)

Next ==
    \/ \E c \in Calls : Request(c)
    \/ \E t \in Threads : TryHub(t) \/ Fetch(t)
    \/ \E t \in Commands : StartCommand(t) \/ Kill(t)

Spec == Init /\ [][Next]_vars

\* Threads run on, and so do requests; a waiting one comes to its turn (tokio's
\* semaphores are fair).
FairSpec ==
    /\ Spec
    /\ \A t \in Threads : WF_vars(TryHub(t) \/ Fetch(t))
    /\ \A c \in Calls :
          /\ WF_vars(Share(c) \/ Loaded(c) \/ EndPass(c) \/ Embedded(c))
          /\ SF_vars(Load(c)) /\ SF_vars(StartPass(c))
-----------------------------------------------------------------------------
(***************************************************************************)
(* Properties                                                              *)
(***************************************************************************)
\* embed/mod.rs: "One inference at a time keeps resident memory flat".
OnePass == \A c, d \in Calls : pass[c] = "running" /\ pass[d] = "running" => c = d

Loading(t) == at[t] \notin {"none", "built", "failed"}

\* load_once.rs: "Concurrent callers share one load".
OneLoad == \A c, d \in Calls : Loading(c) /\ Loading(d) => c = d

\* model_fetch.rs: "a ref must never name an incomplete snapshot".
RefIsWhole == ref = "fallback" => \A f \in 1 .. Files : Whole(f)

\* Nobody holds the gate but a request that runs a pass, nobody the permit but
\* one that waits for its own load: neither is left behind by a request that is
\* dropped or fails.
HeldByOwner ==
    /\ \A c \in Calls : gate = c <=> pc[c] = "embedding"
    /\ \A c \in Calls : permit = c <=> pc[c] = "loading"

\* A request whose client stays is answered.
Answered == \A c \in Calls : pc[c] = "asking" ~> pc[c] \in {"done", "failed", "left"}
=============================================================================
