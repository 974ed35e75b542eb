----------------------------- MODULE CodingTask -----------------------------
(***************************************************************************)
(* Coding tasks: CodingDomainController in the host process, the Python    *)
(* process PythonCodingControllerBridge spawns for each task, with its     *)
(* EscalationController, and the workspace those processes patch.          *)
(*                                                                         *)
(* An action of the host is what it does between two awaits.  An action of *)
(* a runtime ends where it waits for a model, a git command or a           *)
(* validation; a rollback is two actions per file, which truncate and      *)
(* write it, because the host may kill the process anywhere in it.  A git  *)
(* command that outlives a killed runtime takes effect when the runtime    *)
(* dies.                                                                   *)
(*                                                                         *)
(* Prompts, contexts, complexity scores and the texts of patches and       *)
(* answers are left out: what a model, a gate or a validation says is a    *)
(* choice.  So are the memory context the orchestrator adds to a request,  *)
(* the reasons of answers, and the audit entry, which no step here reads.  *)
(***************************************************************************)
EXTENDS Naturals, Sequences, FiniteSets

CONSTANTS
  Tasks,        \* requests
  Mutating,     \* those of type draft_patch or propose_fix
  Files,        \* files of the workspace a patch may change
  Original,     \* the version of a file nobody has patched,
  Torn,         \*   and of one truncated to be written again
  None,
  RepairLimit,  \* max_local_repair_attempts
  MaxTexts,     \* oversized texts one answer may carry
  MaxPatching,  \* bounds: patching runtimes alive at once,
  MaxCrashes,   \*         crashes of the host,
  MaxFaults     \*         failed writes, spawns and runtimes

ASSUME ConstantsAssumption ==
  /\ IsFiniteSet(Tasks) /\ Mutating \subseteq Tasks
  /\ {Original, Torn} \cap (Tasks \X (1 .. RepairLimit + 1)) = {} /\ Original # Torn
  /\ RepairLimit \in Nat /\ MaxTexts \in Nat /\ MaxPatching \in Nat \ {0}
  /\ MaxCrashes \in Nat /\ MaxFaults \in Nat

VARIABLES
  call,       \* executeTask of each task, in the host
  runtime,    \* the Python process of each task
  workspace,  \* the version each file holds
  traces,     \* local_agent_trace: the statuses of each task, in order
  outputs,    \* tool output: the texts with a file, and those with a row
  base,       \* history: the workspace when the last patching runtime started
  crashes, faults

hostVars == <<call, traces, outputs, crashes>>
vars == <<hostVars, runtime, workspace, base, faults>>

-----------------------------------------------------------------------------
Attempts == 1 .. RepairLimit + 1
Versions == {Original, Torn} \cup (Tasks \X Attempts)
Snapshots == UNION {[S -> Versions] : S \in SUBSET Files}
TextIds == Tasks \X (1 .. MaxTexts)

Status == {"success", "fail", "escalate"}
Call == [pc : {"idle", "running", "prepare", "audit", "returned", "threw", "lost"},
         answer : Status \cup {None}, texts : 0 .. MaxTexts]
Runtime ==
  [pc : {"off", "preflight", "generate", "apply", "validate", "undo",
         "exited", "killed", "gone"},
   attempt : Attempts,
   snapshot : Snapshots,      \* of the files the manifest of the patch at hand names
   outside : SUBSET Files,    \* those it deletes or renames without a name there
   failed : SUBSET Attempts,  \* the attempts whose validations failed
   applied : BOOLEAN,         \* the validations list an applied patch
   todo : SUBSET Files,       \* files a rollback has yet to restore,
   writing : SUBSET Files,    \*   and the one of them it has truncated
   then : {"retry", "validation", "apply"},  \* what follows the rollback
   result : Status \cup {None},
   spilled : BOOLEAN,         \* history: it rolled back a patch, not all of it
   end : {"open", "kept", "undone", "spilled", "broken"}]  \* history: how it ended

Off == [pc |-> "off", attempt |-> 1, snapshot |-> <<>>, outside |-> {}, failed |-> {},
        applied |-> FALSE, todo |-> {}, writing |-> {}, then |-> "retry", result |-> None,
        spilled |-> FALSE, end |-> "open"]

Patching == {t \in Mutating : runtime[t].pc \notin {"off", "gone"}}

Init ==
  /\ call = [t \in Tasks |-> [pc |-> "idle", answer |-> None, texts |-> 0]]
  /\ runtime = [t \in Tasks |-> Off]
  /\ workspace = [f \in Files |-> Original]
  /\ traces = [t \in Tasks |-> <<>>]
  /\ outputs = [files |-> {}, rows |-> {}]
  /\ base = workspace
  /\ crashes = 0 /\ faults = 0

Fault == faults < MaxFaults /\ faults' = faults + 1

\* What git apply changes: more than the manifest names.
Touched(t) == DOMAIN runtime[t].snapshot \cup runtime[t].outside

Patched(t, S) ==
  [f \in Files |-> IF f \in S THEN <<t, runtime[t].attempt>> ELSE workspace[f]]

(***************************************************************************)
(* The host: executeTask of the controller and of the bridge.              *)
(***************************************************************************)
Start(t) ==
  /\ call[t].pc = "idle"
  /\ t \in Mutating => Cardinality(Patching) < MaxPatching
  /\ traces' = [traces EXCEPT ![t] = Append(@, "started")]
  /\ call' = [call EXCEPT ![t].pc = "running"]
  /\ runtime' = [runtime EXCEPT ![t].pc = "preflight"]
  /\ base' = IF t \in Mutating THEN workspace ELSE base
  /\ UNCHANGED <<workspace, outputs, crashes, faults>>

\* The promise of the bridge resolves; prepareToolOutputs begins.
Settle(t, answer, texts) ==
  call' = [call EXCEPT ![t] = [pc |-> "prepare", answer |-> answer, texts |-> texts]]

SpawnError(t) ==
  /\ call[t].pc = "running" /\ runtime[t].pc = "preflight"
  /\ Fault
  /\ runtime' = [runtime EXCEPT ![t] = [Off EXCEPT !.pc = "gone", !.end = "broken"]]
  /\ Settle(t, "escalate", 0)
  /\ UNCHANGED <<workspace, traces, outputs, base, crashes>>

\* The runtime dies where it is; a git command it waits for goes on alone.
Dies(t) ==
  IF runtime[t].pc \in {"exited", "killed"} THEN UNCHANGED <<runtime, workspace>>
  ELSE /\ runtime' = [runtime EXCEPT ![t] = [Off EXCEPT !.pc = "killed", !.end = "broken"]]
       /\ IF runtime[t].pc = "apply"
          THEN \E S \in SUBSET Touched(t) : workspace' = Patched(t, S)
          ELSE UNCHANGED workspace

\* Mutant: the timer gives up only a runtime that has written its answer.
Timeout_WhenAnswered(t) ==
  /\ call[t].pc = "running" /\ runtime[t].pc = "exited"
  /\ Dies(t)
  /\ Settle(t, "escalate", 0)
  /\ UNCHANGED <<traces, outputs, base, crashes, faults>>

\* The timer fires: child.kill(), and the promise resolves at once.
Timeout(t) ==
  /\ call[t].pc = "running"
  /\ Dies(t)
  /\ Settle(t, "escalate", 0)
  /\ UNCHANGED <<traces, outputs, base, crashes, faults>>

\* normalizeBridgeResponse: output that does not parse is an escalation.
Reported(r) ==
  IF r.pc = "exited" THEN r.result ELSE "escalate"

\* Mutant: the close event answers whatever has been answered before.
Close_Unsettled(t) ==
  /\ runtime[t].pc \in {"exited", "killed"}
  /\ runtime' = [runtime EXCEPT ![t].pc = "gone", ![t].result = None]
  /\ call' = [call EXCEPT ![t].answer = Reported(runtime[t]),
                          ![t].pc = IF @ = "running" THEN "prepare" ELSE @]
  /\ UNCHANGED <<workspace, traces, outputs, base, crashes, faults>>

\* The close event: it answers only a call that is not settled.
Close(t) ==
  /\ runtime[t].pc \in {"exited", "killed"}
  /\ runtime' = [runtime EXCEPT ![t].pc = "gone", ![t].result = None]
  /\ IF call[t].pc = "running"
     THEN \E n \in 0 .. MaxTexts : Settle(t, Reported(runtime[t]), n)
     ELSE UNCHANGED call
  /\ UNCHANGED <<workspace, traces, outputs, base, crashes, faults>>

\* prepareToolOutputs: the texts over budget are saved, some at once, so that
\* a call that has thrown for one may still save the others.
Saving(t, i) == call[t].pc \in {"prepare", "threw"} /\ i \in 1 .. call[t].texts

SaveFile(t, i) ==
  /\ Saving(t, i) /\ <<t, i>> \notin outputs.files
  /\ outputs' = [outputs EXCEPT !.files = @ \cup {<<t, i>>}]
  /\ UNCHANGED <<call, runtime, workspace, traces, base, crashes, faults>>

\* Mutant: the row goes first.
SaveRow_First(t, i) ==
  /\ Saving(t, i) /\ <<t, i>> \notin outputs.rows
  /\ outputs' = [outputs EXCEPT !.rows = @ \cup {<<t, i>>}]
  /\ UNCHANGED <<call, runtime, workspace, traces, base, crashes, faults>>

SaveRow(t, i) ==
  /\ Saving(t, i) /\ <<t, i>> \in outputs.files \ outputs.rows
  /\ outputs' = [outputs EXCEPT !.rows = @ \cup {<<t, i>>}]
  /\ UNCHANGED <<call, runtime, workspace, traces, base, crashes, faults>>

RecordTrace(t) ==
  /\ call[t].pc = "prepare"
  /\ \A i \in 1 .. call[t].texts : <<t, i>> \in outputs.rows
  /\ traces' = [traces EXCEPT ![t] =
                  Append(@, IF call[t].answer = "success" THEN "succeeded" ELSE "failed")]
  /\ call' = [call EXCEPT ![t].pc = "audit"]
  /\ UNCHANGED <<runtime, workspace, outputs, base, crashes, faults>>

\* recordAction does not throw, and nobody looks at what it answers.
Return(t) ==
  /\ call[t].pc = "audit"
  /\ call' = [call EXCEPT ![t].pc = "returned"]
  /\ UNCHANGED <<runtime, workspace, traces, outputs, base, crashes, faults>>

\* A text or the trace cannot be stored: executeTask throws, with no more traces.
StoreFails(t) ==
  /\ call[t].pc = "prepare"
  /\ Fault
  /\ call' = [call EXCEPT ![t].pc = "threw"]
  /\ UNCHANGED <<runtime, workspace, traces, outputs, base, crashes>>

\* The host dies; the runtimes go on, with nobody to answer or to stop them.
HostCrash ==
  /\ crashes < MaxCrashes
  /\ crashes' = crashes + 1
  /\ call' = [t \in Tasks |->
                IF call[t].pc \in {"idle", "returned"} THEN call[t]
                ELSE [call[t] EXCEPT !.pc = "lost"]]
  /\ UNCHANGED <<runtime, workspace, traces, outputs, base, faults>>

(***************************************************************************)
(* The runtime: handle of the controller and the tools it calls.           *)
(***************************************************************************)
Exit(t, status, end) ==
  runtime' = [runtime EXCEPT ![t] =
    [Off EXCEPT !.pc = "exited", !.result = status,
                !.end = IF runtime[t].spilled /\ end # "broken" THEN "spilled" ELSE end]]

\* A result that lists the validations, an applied patch among them, holds the
\* bytes of its snapshot.  json.dumps refuses them, and main answers "fail".
ExitListing(t, status, end) ==
  Exit(t, IF runtime[t].applied THEN "fail" ELSE status, end)

\* _preflight_decide; it raises where the file to slice cannot be read.
Preflight(t) ==
  /\ runtime[t].pc = "preflight"
  /\ \/ Exit(t, "escalate", "undone")
     \/ Exit(t, "fail", "undone")
     \/ runtime' = [runtime EXCEPT ![t].pc = "generate"]
  /\ UNCHANGED <<hostVars, workspace, base, faults>>

\* The worker answers a read-only task.
Advise(t) ==
  /\ runtime[t].pc = "generate" /\ t \notin Mutating
  /\ \E status \in Status : Exit(t, status, "undone")
  /\ UNCHANGED <<hostVars, workspace, base, faults>>

\* The worker answers a mutating one: no patch, or one that passes the gates of
\* apply_unified_diff or does not; of a patch that does, the files after "+++" are
\* snapshot, which leaves out those it deletes and those it renames as they are.
Generate(t) ==
  /\ runtime[t].pc = "generate" /\ t \in Mutating
  /\ \/ \E status \in {"fail", "escalate"} : Exit(t, status, "undone")
     \/ ExitListing(t, "escalate", "undone")
     \/ \E S \in (SUBSET Files) \ {{}}, D \in SUBSET Files :
          /\ S \cap D = {}
          /\ runtime' = [runtime EXCEPT ![t].pc = "apply", ![t].outside = D,
                                        ![t].snapshot = [f \in S |-> workspace[f]]]
  /\ UNCHANGED <<hostVars, workspace, base, faults>>

\* A rollback begins, of a patch that has changed some files.
RollBack(r, changed, next) ==
  [r EXCEPT !.pc = "undo", !.todo = DOMAIN r.snapshot, !.then = next,
            !.spilled = @ \/ changed \cap r.outside # {}]

\* The dry run refuses, or git apply does all or fails somewhere, and what it did
\* to the files of the snapshot is rolled back.
ApplyPatch(t) ==
  LET r == runtime[t] IN
  /\ r.pc = "apply"
  /\ \/ ExitListing(t, "escalate", "undone") /\ UNCHANGED workspace
     \/ /\ workspace' = Patched(t, Touched(t))
        /\ runtime' = [runtime EXCEPT ![t].pc = "validate", ![t].applied = TRUE]
     \/ \E part \in SUBSET Touched(t) :
          /\ workspace' = Patched(t, part)
          /\ runtime' = [runtime EXCEPT ![t] = RollBack(r, part, "apply")]
  /\ UNCHANGED <<hostVars, base, faults>>

\* Mutant: an attempt that is to be repaired is left in place.
AfterFailure_NoUndo(t, r) ==
  IF r.attempt > RepairLimit THEN RollBack(r, Touched(t), "validation")
  ELSE [r EXCEPT !.pc = "generate", !.attempt = @ + 1, !.snapshot = <<>>, !.outside = {}]

\* Mutant: one attempt too many.
AfterFailure_OffByOne(t, r) ==
  RollBack(r, Touched(t), IF r.attempt > RepairLimit + 1 THEN "validation" ELSE "retry")

\* An attempt that does not pass is rolled back, to be repaired or given up.
AfterFailure(t, r) ==
  RollBack(r, Touched(t), IF r.attempt > RepairLimit THEN "validation" ELSE "retry")

\* failed_validations ranges over the validations of every attempt so far.
Validate(t) ==
  LET r == runtime[t] IN
  /\ r.pc = "validate"
  /\ \E failed \in {r.failed, r.failed \cup {r.attempt}} :
       IF failed = {} THEN ExitListing(t, "success", "kept")
       ELSE runtime' = [runtime EXCEPT ![t] = AfterFailure(t, [r EXCEPT !.failed = failed])]
  /\ UNCHANGED <<hostVars, workspace, base, faults>>

\* rollback_files restores the snapshot, one file after another: write_bytes
\* truncates the file ...
TruncateFile(t, f) ==
  /\ runtime[t].pc = "undo" /\ runtime[t].writing = {} /\ f \in runtime[t].todo
  /\ workspace' = [workspace EXCEPT ![f] = Torn]
  /\ runtime' = [runtime EXCEPT ![t].writing = {f}]
  /\ UNCHANGED <<hostVars, base, faults>>

\* ... and then it writes it.
RestoreFile(t, f) ==
  /\ runtime[t].pc = "undo" /\ f \in runtime[t].writing
  /\ workspace' = [workspace EXCEPT ![f] = runtime[t].snapshot[f]]
  /\ runtime' = [runtime EXCEPT ![t].todo = @ \ {f}, ![t].writing = {}]
  /\ UNCHANGED <<hostVars, base, faults>>

Undone(t) ==
  LET r == runtime[t] IN
  /\ r.pc = "undo" /\ r.todo = {}
  /\ IF r.then = "retry"
     THEN runtime' = [runtime EXCEPT ![t] = [r EXCEPT !.pc = "generate", !.attempt = @ + 1,
                                                      !.snapshot = <<>>, !.outside = {}]]
     ELSE ExitListing(t, "escalate", "undone")
  /\ UNCHANGED <<hostVars, workspace, base, faults>>

\* A file cannot be truncated or written: the rollback stops there.
UndoFails(t) ==
  LET r == runtime[t] IN
  /\ r.pc = "undo" /\ r.todo # {}
  /\ Fault
  /\ IF r.then = "apply" THEN ExitListing(t, "escalate", "broken")
     ELSE Exit(t, "escalate", "broken")
  /\ UNCHANGED <<hostVars, workspace, base>>

\* The process dies by itself.
RuntimeDies(t) ==
  /\ runtime[t].pc \in {"preflight", "generate", "apply", "validate", "undo"}
  /\ Fault
  /\ Dies(t)
  /\ UNCHANGED <<hostVars, base>>

-----------------------------------------------------------------------------
HostStep(t) ==
  \/ Timeout(t) \/ Close(t) \/ RecordTrace(t) \/ Return(t)
  \/ \E i \in 1 .. MaxTexts : SaveFile(t, i) \/ SaveRow(t, i)

RuntimeStep(t) ==
  \/ Preflight(t) \/ Advise(t) \/ Generate(t) \/ ApplyPatch(t) \/ Validate(t)
  \/ (\E f \in Files : TruncateFile(t, f) \/ RestoreFile(t, f)) \/ Undone(t)

Next ==
  \/ \E t \in Tasks :
       \/ Start(t) \/ HostStep(t) \/ RuntimeStep(t)
       \/ SpawnError(t) \/ StoreFails(t) \/ UndoFails(t) \/ RuntimeDies(t)
  \/ HostCrash

Spec == Init /\ [][Next]_vars

\* The host's timers and callbacks run; a runtime may hang for ever.
FairSpec == Spec /\ \A t \in Tasks : WF_vars(HostStep(t))

-----------------------------------------------------------------------------
(* Properties.                                                             *)

\* Every variable keeps its type.
TypeOK ==
  /\ call \in [Tasks -> Call] /\ runtime \in [Tasks -> Runtime]
  /\ workspace \in [Files -> Versions]
  /\ base \in [Files -> Versions]
  /\ traces \in [Tasks -> Seq({"started", "succeeded", "failed"})]
  /\ outputs \in [files : SUBSET TextIds, rows : SUBSET TextIds]
  /\ crashes \in 0 .. MaxCrashes /\ faults \in 0 .. MaxFaults

\* A task is traced once as started and at most once as ended, and the end it
\* is traced with is the one it is answered with, whichever of the timer, the
\* error and the close event comes first (the settled flag of the bridge).
TraceMatchesAnswer ==
  \A t \in Tasks : LET last == traces[t][Len(traces[t])] IN
    /\ Len(traces[t]) <= 2
    /\ call[t].pc \in {"audit", "returned"} => Len(traces[t]) = 2
    /\ Len(traces[t]) = 2 => (last = "succeeded" <=> call[t].answer = "success")

\* Every text an answer refers to can be read when the answer is given, and no
\* row ever refers to a text that cannot, also when another text of the answer
\* cannot be stored or the host dies (save writes the file, then the row).
SpilloverReadable ==
  /\ outputs.rows \subseteq outputs.files
  /\ \A t \in Tasks : call[t].pc \in {"audit", "returned"} =>
       \A i \in 1 .. call[t].texts : <<t, i>> \in outputs.rows

Ended(t) == call[t].pc \in {"returned", "threw", "lost"}

\* A started task is answered even if its runtime hangs, because the timer
\* answers it; or executeTask throws or dies with the host.
EveryTaskAnswered == \A t \in Tasks : (call[t].pc = "running") ~> Ended(t)

\* With one patching runtime at a time, the workspace is transactional: each task
\* keeps one patch or leaves no trace, unless it is killed, a rollback fails, or what
\* it rolls back has changed files that its manifest does not name.
InFlight(t) == t \in Mutating /\ runtime[t].pc # "off" /\ runtime[t].end = "open"

Settled == IF \E t \in Tasks : InFlight(t) THEN base ELSE workspace

Outcome == [t \in Tasks |-> runtime[t].end]

Transactions == INSTANCE WorkspaceTransactions WITH
  files <- Settled, outcome <- Outcome, VersionsOf <- [t \in Tasks |-> {t} \X Attempts]
ImplementsTransactions == Transactions!Spec

\* A task that is answered with "fail" leaves nothing of its own in the
\* workspace ("no unintended changes occur", of the coordination policy).
FailLeavesNoPatch ==
  \A t \in Tasks : (call[t].pc = "returned" /\ call[t].answer = "fail") =>
    \A f \in Files : workspace[f] \notin {t} \X Attempts

\* What is rolled back for good has failed its validations ("Deterministic
\* validation failed after local repair attempts").
GivenUpOnlyOnFailure ==
  \A t \in Tasks : (runtime[t].pc = "undo" /\ runtime[t].then = "validation") =>
    runtime[t].attempt \in runtime[t].failed
=============================================================================
