-------------------------- MODULE CodingTaskProofs --------------------------
(***************************************************************************)
(* Theorems about CodingTask, for every value of its constants: types, the *)
(* host's book-keeping, and, with one patching runtime at a time, that the *)
(* workspace is transactional.                                             *)
(***************************************************************************)
EXTENDS CodingTask, TLAPS, FiniteSetTheorems, SequenceTheorems

\* A rollback restores files of the snapshot and has truncated at most one of them,
\* and one that is to be followed by another attempt has one left.
RollbackOK(r) ==
  /\ r.pc = "undo" => /\ r.todo \subseteq DOMAIN r.snapshot
                      /\ r.writing \subseteq r.todo
                      /\ \A f, g \in r.writing : f = g
                      /\ r.then = "retry" => r.attempt \in 1 .. RepairLimit
  /\ r.pc # "undo" => r.writing = {}

\* Where the host and its runtime stand: a call that has not begun has none, and
\* one that waits has one that has not been closed.
Calls == \A t \in Tasks :
  /\ call[t].pc = "idle" => runtime[t].pc = "off"
  /\ call[t].pc = "running" => runtime[t].pc \notin {"off", "gone"}

Shape == TypeOK /\ Calls /\ \A t \in Tasks : RollbackOK(runtime[t])

\* The empty snapshot, and the records a runtime ends with.
LEMMA EndedRecords ==
  /\ Off \in Runtime
  /\ \A s \in Status \cup {None}, e \in {"open", "kept", "undone", "spilled", "broken"},
        p \in {"exited", "killed", "gone"} :
       [Off EXCEPT !.pc = p, !.result = s, !.end = e] \in Runtime
  /\ [Off EXCEPT !.pc = "killed", !.end = "broken"] \in Runtime
  /\ [Off EXCEPT !.pc = "gone", !.end = "broken"] \in Runtime
<1>1. <<>> \in Snapshots
  <2>1. <<>> \in [{} -> Versions]
    OBVIOUS
  <2> QED
    BY <2>1 DEF Snapshots
<1>2. 1 \in Attempts
  BY ConstantsAssumption DEF Attempts
<1> QED
  BY <1>1, <1>2 DEF Off, Runtime

LEMMA TypeInit == Init => TypeOK
<1> SUFFICES ASSUME Init PROVE TypeOK
  OBVIOUS
<1>1. runtime \in [Tasks -> Runtime]
  BY EndedRecords DEF Init
<1>2. call \in [Tasks -> Call]
  BY ConstantsAssumption DEF Init, Call
<1>3. traces \in [Tasks -> Seq({"started", "succeeded", "failed"})]
  BY DEF Init
<1>4. crashes \in 0 .. MaxCrashes /\ faults \in 0 .. MaxFaults
  BY ConstantsAssumption DEF Init
<1> QED
  BY <1>1, <1>2, <1>3, <1>4 DEF Init, TypeOK, Versions

\* The record of a runtime after a step of its own.
LEMMA NextRecords ==
  ASSUME NEW r \in Runtime
  PROVE  /\ [r EXCEPT !.pc = "preflight"] \in Runtime
         /\ [r EXCEPT !.pc = "generate"] \in Runtime
         /\ [r EXCEPT !.pc = "gone", !.result = None] \in Runtime
         /\ \A s \in Snapshots, D \in SUBSET Files :
              [r EXCEPT !.pc = "apply", !.outside = D, !.snapshot = s] \in Runtime
         /\ [r EXCEPT !.pc = "validate", !.applied = TRUE] \in Runtime
         /\ \A f \in Files : [r EXCEPT !.writing = {f}] \in Runtime
         /\ \A S \in SUBSET Files : [r EXCEPT !.todo = S, !.writing = {}] \in Runtime
BY DEF Runtime

\* The record of a rollback that begins.
LEMMA RollBackRecord ==
  ASSUME NEW r \in Runtime, NEW changed, NEW next \in {"retry", "validation", "apply"}
  PROVE  /\ RollBack(r, changed, next) \in Runtime
         /\ RollBack(r, changed, next).pc = "undo"
         /\ RollBack(r, changed, next).todo = DOMAIN r.snapshot
         /\ RollBack(r, changed, next).then = next
         /\ RollBack(r, changed, next).snapshot = r.snapshot
         /\ RollBack(r, changed, next).outside = r.outside
         /\ RollBack(r, changed, next).attempt = r.attempt
         /\ RollBack(r, changed, next).writing = r.writing
         /\ RollBack(r, changed, next).end = r.end
         /\ ~ RollBack(r, changed, next).spilled
              => ~ r.spilled /\ changed \cap r.outside = {}
         /\ RollBack(r, changed, next).spilled \in BOOLEAN
<1> DEFINE now == r.spilled \/ changed \cap r.outside # {}
           after == [r EXCEPT !.pc = "undo", !.todo = DOMAIN r.snapshot, !.then = next,
                              !.spilled = now]
<1>1. RollBack(r, changed, next) = after
  BY DEF RollBack
<1>2. now \in BOOLEAN /\ DOMAIN r.snapshot \in SUBSET Files
  BY DEF Runtime, Snapshots
<1>3. ~ now => ~ r.spilled /\ changed \cap r.outside = {}
  OBVIOUS
<1> HIDE DEF now
<1>4. /\ after \in Runtime /\ after.pc = "undo" /\ after.todo = DOMAIN r.snapshot
      /\ after.then = next /\ after.snapshot = r.snapshot /\ after.outside = r.outside
      /\ after.attempt = r.attempt /\ after.writing = r.writing /\ after.end = r.end
      /\ after.spilled = now
  BY <1>2 DEF Runtime
<1> HIDE DEF after
<1> QED
  BY <1>1, <1>2, <1>3, <1>4

\* The end of a runtime that exits with e, and its record.
EndOf(t, e) == IF runtime[t].spilled /\ e # "broken" THEN "spilled" ELSE e

Exited(a, e) == [Off EXCEPT !.pc = "exited", !.result = a, !.end = e]

LEMMA ExitRecord ==
  ASSUME NEW t, NEW s, NEW e, Exit(t, s, e) \/ ExitListing(t, s, e)
  PROVE  \/ runtime' = [runtime EXCEPT ![t] = Exited(s, EndOf(t, e))]
         \/ runtime' = [runtime EXCEPT ![t] = Exited("fail", EndOf(t, e))]
BY DEF Exit, ExitListing, EndOf, Exited

LEMMA ExitedFields ==
  ASSUME NEW a, NEW e
  PROVE  /\ Exited(a, e).pc = "exited" /\ Exited(a, e).writing = {}
         /\ Exited(a, e).end = e
BY DEF Exited, Off

LEMMA ExitsAs ==
  ASSUME NEW t, NEW s, NEW e, Exit(t, s, e) \/ ExitListing(t, s, e)
  PROVE  \E r : /\ runtime' = [runtime EXCEPT ![t] = r]
                /\ r.pc = "exited" /\ r.end = EndOf(t, e)
<1>1. \A a : Exited(a, EndOf(t, e)).pc = "exited" /\ Exited(a, EndOf(t, e)).end = EndOf(t, e)
  BY ExitedFields
<1>2. CASE runtime' = [runtime EXCEPT ![t] = Exited(s, EndOf(t, e))]
  BY <1>1, <1>2
<1>3. CASE runtime' = [runtime EXCEPT ![t] = Exited("fail", EndOf(t, e))]
  BY <1>1, <1>3
<1> QED
  BY <1>2, <1>3, ExitRecord

\* An attempt that does not pass is rolled back.
LEMMA AfterRecord ==
  ASSUME NEW t, NEW r \in Runtime
  PROVE  \/ AfterFailure(t, r) = RollBack(r, Touched(t), "validation")
         \/ /\ r.attempt \in 1 .. RepairLimit
            /\ AfterFailure(t, r) = RollBack(r, Touched(t), "retry")
<1>1. r.attempt > RepairLimit \/ r.attempt \in 1 .. RepairLimit
  BY ConstantsAssumption DEF Attempts, Runtime
<1> QED
  BY <1>1 DEF AfterFailure

\* A runtime's record takes the place of another.
LEMMA PutType ==
  ASSUME TypeOK, NEW t \in Tasks, NEW r \in Runtime
  PROVE  [runtime EXCEPT ![t] = r] \in [Tasks -> Runtime]
BY DEF TypeOK

\* The versions a patch writes.
LEMMA PatchedType ==
  ASSUME TypeOK, NEW t \in Tasks, NEW S
  PROVE  Patched(t, S) \in [Files -> Versions]
BY DEF TypeOK, Patched, Versions, Runtime

\* A runtime that exits, or dies.
LEMMA ExitType ==
  ASSUME TypeOK, NEW t \in Tasks, NEW s \in Status,
         NEW e \in {"open", "kept", "undone", "spilled", "broken"},
         Exit(t, s, e) \/ ExitListing(t, s, e)
  PROVE  runtime' \in [Tasks -> Runtime]
<1>1. EndOf(t, e) \in {"open", "kept", "undone", "spilled", "broken"}
  BY DEF EndOf
<1>2. \A a \in Status : Exited(a, EndOf(t, e)) \in Runtime
  BY <1>1, EndedRecords DEF Exited
<1>3. Exited(s, EndOf(t, e)) \in Runtime /\ Exited("fail", EndOf(t, e)) \in Runtime
  BY <1>2 DEF Status
<1> QED
  BY <1>3, ExitRecord, PutType

LEMMA DiesType ==
  ASSUME TypeOK, NEW t \in Tasks, Dies(t)
  PROVE  runtime' \in [Tasks -> Runtime] /\ workspace' \in [Files -> Versions]
<1>1. [Off EXCEPT !.pc = "killed", !.end = "broken"] \in Runtime
  BY EndedRecords
<1> QED
  BY <1>1, PatchedType DEF Dies, TypeOK

LEMMA FaultType == TypeOK /\ Fault => faults' \in 0 .. MaxFaults
BY ConstantsAssumption DEF TypeOK, Fault

\* The steps of the host keep the types.
LEMMA HostTypes ==
  ASSUME TypeOK, NEW t \in Tasks,
         Start(t) \/ HostStep(t) \/ SpawnError(t) \/ StoreFails(t)
  PROVE  TypeOK'
<1> USE DEF hostVars
<1>0. runtime[t] \in Runtime
  BY DEF TypeOK
<1>1. ASSUME Start(t) PROVE TypeOK'
  <2>1. call' \in [Tasks -> Call]
    BY <1>1 DEF Start, TypeOK, Call
  <2>2. traces' \in [Tasks -> Seq({"started", "succeeded", "failed"})]
    BY <1>1 DEF Start, TypeOK
  <2>3. runtime' \in [Tasks -> Runtime]
    BY <1>0, <1>1, NextRecords DEF Start, TypeOK
  <2> QED
    BY <1>1, <2>1, <2>2, <2>3 DEF Start, TypeOK
<1>2. ASSUME SpawnError(t) PROVE TypeOK'
  <2>1. runtime' \in [Tasks -> Runtime]
    BY <1>2, EndedRecords DEF SpawnError, TypeOK
  <2>2. call' \in [Tasks -> Call]
    BY <1>2, ConstantsAssumption DEF SpawnError, Settle, TypeOK, Call, Status
  <2> QED
    BY <1>2, <2>1, <2>2, FaultType DEF SpawnError, TypeOK
<1>3. ASSUME Timeout(t) PROVE TypeOK'
  <2>1. call' \in [Tasks -> Call]
    BY <1>3, ConstantsAssumption DEF Timeout, Settle, TypeOK, Call, Status
  <2> QED
    BY <1>3, <2>1, DiesType DEF Timeout, TypeOK
<1>4. ASSUME Close(t) PROVE TypeOK'
  <2>1. runtime' \in [Tasks -> Runtime]
    BY <1>0, <1>4, NextRecords DEF Close, TypeOK
  <2>2. Reported(runtime[t]) \in Status \cup {None}
    BY DEF Reported, TypeOK, Runtime, Status
  <2>3. call' \in [Tasks -> Call]
    <3>1. \A n \in 0 .. MaxTexts :
            [pc |-> "prepare", answer |-> Reported(runtime[t]), texts |-> n] \in Call
      BY <2>2 DEF Call
    <3>2. call \in [Tasks -> Call]
      BY DEF TypeOK
    <3> QED
      BY <1>4, <3>1, <3>2 DEF Close, Settle
  <2> QED
    BY <1>4, <2>1, <2>3 DEF Close, TypeOK
<1>5. ASSUME NEW i \in 1 .. MaxTexts, SaveFile(t, i) \/ SaveRow(t, i) PROVE TypeOK'
  <2>1. <<t, i>> \in TextIds
    BY DEF TextIds
  <2>2. outputs' \in [files : SUBSET TextIds, rows : SUBSET TextIds]
    <3>1. outputs \in [files : SUBSET TextIds, rows : SUBSET TextIds]
      BY DEF TypeOK
    <3>2. \/ outputs' = [outputs EXCEPT !.files = @ \cup {<<t, i>>}]
          \/ outputs' = [outputs EXCEPT !.rows = @ \cup {<<t, i>>}]
      BY <1>5 DEF SaveFile, SaveRow
    <3> QED
      BY <2>1, <3>1, <3>2
  <2> QED
    BY <1>5, <2>2 DEF SaveFile, SaveRow, TypeOK
<1>6. ASSUME RecordTrace(t) PROVE TypeOK'
  <2>1. traces' \in [Tasks -> Seq({"started", "succeeded", "failed"})]
    BY <1>6 DEF RecordTrace, TypeOK
  <2>2. call' \in [Tasks -> Call]
    BY <1>6 DEF RecordTrace, TypeOK, Call
  <2> QED
    BY <1>6, <2>1, <2>2 DEF RecordTrace, TypeOK
<1>7. ASSUME Return(t) PROVE TypeOK'
  BY <1>7 DEF Return, TypeOK, Call
<1>8. ASSUME StoreFails(t) PROVE TypeOK'
  <2>1. call' \in [Tasks -> Call]
    BY <1>8 DEF StoreFails, TypeOK, Call
  <2> QED
    BY <1>8, <2>1, FaultType DEF StoreFails, TypeOK
<1> QED
  BY <1>1, <1>2, <1>3, <1>4, <1>5, <1>6, <1>7, <1>8 DEF HostStep

\* The steps of a runtime keep the types.
LEMMA RuntimeTypes ==
  ASSUME Shape, NEW t \in Tasks,
         RuntimeStep(t) \/ UndoFails(t) \/ RuntimeDies(t)
  PROVE  TypeOK'
<1> USE DEF hostVars
<1>0. TypeOK /\ RollbackOK(runtime[t]) /\ runtime[t] \in Runtime
  BY DEF Shape, TypeOK
<1>1. ASSUME Preflight(t) PROVE TypeOK'
  <2>1. [runtime EXCEPT ![t].pc = "generate"] \in [Tasks -> Runtime]
    BY <1>0, NextRecords DEF TypeOK
  <2> QED
    BY <1>0, <1>1, <2>1, ExitType DEF Preflight, TypeOK, Status
<1>2. ASSUME Advise(t) PROVE TypeOK'
  BY <1>0, <1>2, ExitType DEF Advise, TypeOK
<1>3. ASSUME Generate(t) PROVE TypeOK'
  <2>1. \A S \in SUBSET Files : [f \in S |-> workspace[f]] \in Snapshots
    <3>1. SUFFICES ASSUME NEW S \in SUBSET Files
                   PROVE  [f \in S |-> workspace[f]] \in [S -> Versions]
      BY DEF Snapshots
    <3> QED
      BY <1>0 DEF TypeOK
  <2>2. \A S, D \in SUBSET Files :
          [runtime EXCEPT ![t].pc = "apply", ![t].outside = D,
                          ![t].snapshot = [f \in S |-> workspace[f]]] \in [Tasks -> Runtime]
    <3>1. \A S, D \in SUBSET Files :
            [runtime[t] EXCEPT !.pc = "apply", !.outside = D,
                               !.snapshot = [f \in S |-> workspace[f]]] \in Runtime
      BY <1>0, <2>1, NextRecords
    <3> QED
      BY <1>0, <3>1 DEF TypeOK
  <2>3. ASSUME runtime' \in [Tasks -> Runtime] PROVE TypeOK'
    BY <1>0, <1>3, <2>3 DEF Generate, TypeOK
  <2>4. CASE \E s \in Status : Exit(t, s, "undone") \/ ExitListing(t, s, "undone")
    BY <1>0, <2>3, <2>4, ExitType
  <2>5. CASE \E S \in (SUBSET Files) \ {{}}, D \in SUBSET Files :
               /\ S \cap D = {}
               /\ runtime' = [runtime EXCEPT ![t].pc = "apply", ![t].outside = D,
                                             ![t].snapshot = [f \in S |-> workspace[f]]]
    <3>1. PICK S \in SUBSET Files, D \in SUBSET Files :
            runtime' = [runtime EXCEPT ![t].pc = "apply", ![t].outside = D,
                                       ![t].snapshot = [f \in S |-> workspace[f]]]
      BY <2>5
    <3> QED
      BY <2>2, <2>3, <3>1
  <2> QED
    BY <1>3, <2>4, <2>5 DEF Generate, Status
<1>4. DOMAIN runtime[t].snapshot \in SUBSET Files
  BY <1>0 DEF Runtime, Snapshots
<1>5. ASSUME ApplyPatch(t) PROVE TypeOK'
  <2>1. \A part : [runtime EXCEPT ![t] = RollBack(runtime[t], part, "apply")]
                    \in [Tasks -> Runtime]
    BY <1>0, RollBackRecord, PutType
  <2>2. [runtime EXCEPT ![t].pc = "validate", ![t].applied = TRUE] \in [Tasks -> Runtime]
    BY <1>0, NextRecords DEF TypeOK
  <2> QED
    <3>1. runtime' \in [Tasks -> Runtime]
      <4>1. CASE ExitListing(t, "escalate", "undone")
        BY <1>0, <4>1, ExitType DEF Status
      <4>2. CASE \E part :
                   runtime' = [runtime EXCEPT ![t] = RollBack(runtime[t], part, "apply")]
        BY <2>1, <4>2
      <4> QED
        BY <1>5, <2>2, <4>1, <4>2 DEF ApplyPatch
    <3>2. workspace' \in [Files -> Versions]
      BY <1>0, <1>5, PatchedType DEF ApplyPatch, TypeOK
    <3> QED
      BY <1>0, <1>5, <3>1, <3>2 DEF ApplyPatch, TypeOK
<1>6. ASSUME Validate(t) PROVE TypeOK'
  <2>1. \A failed \in {runtime[t].failed, runtime[t].failed \cup {runtime[t].attempt}} :
          AfterFailure(t, [runtime[t] EXCEPT !.failed = failed]) \in Runtime
    <3> TAKE failed \in {runtime[t].failed, runtime[t].failed \cup {runtime[t].attempt}}
    <3> DEFINE r == [runtime[t] EXCEPT !.failed = failed]
    <3>1. r \in Runtime
      BY <1>0 DEF Runtime
    <3> HIDE DEF r
    <3>2. AfterFailure(t, r) \in Runtime
      BY <3>1, AfterRecord, RollBackRecord
    <3> QED
      BY <3>2 DEF r
  <2> QED
    BY <1>0, <1>6, <2>1, ExitType DEF Validate, TypeOK, Status
<1>7. ASSUME NEW f \in Files, TruncateFile(t, f) PROVE TypeOK'
  <2>1. [runtime EXCEPT ![t].writing = {f}] \in [Tasks -> Runtime]
    BY <1>0, NextRecords DEF TypeOK
  <2>2. [workspace EXCEPT ![f] = Torn] \in [Files -> Versions]
    BY <1>0 DEF TypeOK, Versions
  <2> QED
    BY <1>0, <1>7, <2>1, <2>2 DEF TruncateFile, TypeOK
<1>11. ASSUME NEW f \in Files, RestoreFile(t, f) PROVE TypeOK'
  <2>1. f \in DOMAIN runtime[t].snapshot
    BY <1>0, <1>11 DEF RestoreFile, RollbackOK
  <2>2. runtime[t].snapshot[f] \in Versions
    BY <1>0, <2>1 DEF Runtime, Snapshots
  <2>3. runtime[t].todo \ {f} \in SUBSET Files
    BY <1>0 DEF Runtime
  <2>4. [runtime EXCEPT ![t].todo = @ \ {f}, ![t].writing = {}] \in [Tasks -> Runtime]
    BY <1>0, <2>3, NextRecords DEF TypeOK
  <2> QED
    BY <1>0, <1>11, <2>2, <2>4 DEF RestoreFile, TypeOK
<1>8. ASSUME Undone(t) PROVE TypeOK'
  <2>1. CASE runtime[t].then = "retry"
    <3>1. runtime[t].attempt + 1 \in Attempts
      BY <1>0, <1>8, <2>1, ConstantsAssumption DEF Undone, RollbackOK, Attempts
    <3>2. <<>> \in Snapshots
      BY EndedRecords DEF Off, Runtime
    <3>3. [runtime[t] EXCEPT !.pc = "generate", !.attempt = @ + 1, !.snapshot = <<>>,
                             !.outside = {}] \in Runtime
      BY <1>0, <3>1, <3>2 DEF Runtime
    <3> QED
      BY <1>0, <1>8, <2>1, <3>3, PutType DEF Undone, TypeOK
  <2>2. CASE runtime[t].then # "retry"
    BY <1>0, <1>8, <2>2, ExitType DEF Undone, TypeOK, Status
  <2> QED
    BY <2>1, <2>2
<1>9. ASSUME UndoFails(t) PROVE TypeOK'
  BY <1>0, <1>9, ExitType, FaultType DEF UndoFails, TypeOK, Status
<1>10. ASSUME RuntimeDies(t) PROVE TypeOK'
  BY <1>0, <1>10, DiesType, FaultType DEF RuntimeDies, TypeOK
<1> QED
  BY <1>1, <1>2, <1>3, <1>5, <1>6, <1>7, <1>8, <1>9, <1>10, <1>11 DEF RuntimeStep

\* A runtime that moves by itself is neither off nor gone afterwards.
LEMMA RuntimeMoves ==
  ASSUME runtime \in [Tasks -> Runtime], NEW t \in Tasks,
         RuntimeStep(t) \/ UndoFails(t) \/ RuntimeDies(t)
  PROVE  /\ runtime'[t].pc \notin {"off", "gone"}
         /\ \A u \in Tasks \ {t} : runtime'[u] = runtime[u]
<1>0. runtime[t] \in Runtime
  OBVIOUS
<1> DEFINE Goal == /\ runtime'[t].pc \notin {"off", "gone"}
                   /\ \A u \in Tasks \ {t} : runtime'[u] = runtime[u]
<1>1. ASSUME NEW s, NEW e, Exit(t, s, e) \/ ExitListing(t, s, e) PROVE Goal
  <2>1. \A a : Exited(a, EndOf(t, e)).pc = "exited"
    BY ExitedFields
  <2> QED
    BY <1>1, <2>1, ExitRecord
<1>2. CASE Preflight(t)
  BY <1>0, <1>1, <1>2 DEF Preflight, Runtime
<1>3. CASE Advise(t)
  BY <1>1, <1>3 DEF Advise
<1>4. CASE Generate(t)
  <2>1. CASE \E S \in (SUBSET Files) \ {{}}, D \in SUBSET Files :
               /\ S \cap D = {}
               /\ runtime' = [runtime EXCEPT ![t].pc = "apply", ![t].outside = D,
                                             ![t].snapshot = [f \in S |-> workspace[f]]]
    <3>1. PICK S, D : runtime' = [runtime EXCEPT ![t].pc = "apply", ![t].outside = D,
                                    ![t].snapshot = [f \in S |-> workspace[f]]]
      BY <2>1
    <3> DEFINE s == [f \in S |-> workspace[f]]
    <3>2. runtime' = [runtime EXCEPT ![t].pc = "apply", ![t].outside = D, ![t].snapshot = s]
      BY <3>1
    <3> HIDE DEF s
    <3> QED
      BY <1>0, <3>2 DEF Runtime
  <2>2. CASE \E s, e : Exit(t, s, e) \/ ExitListing(t, s, e)
    BY <1>1, <2>2
  <2> HIDE DEF Goal
  <2> QED
    BY <1>4, <2>1, <2>2 DEF Generate
<1>5. CASE ApplyPatch(t)
  <2>1. \A part : RollBack(runtime[t], part, "apply").pc = "undo"
    BY <1>0, RollBackRecord
  <2>2. [runtime[t] EXCEPT !.pc = "validate", !.applied = TRUE].pc = "validate"
    BY <1>0 DEF Runtime
  <2> QED
    BY <1>0, <1>1, <1>5, <2>1, <2>2 DEF ApplyPatch
<1>6. CASE Validate(t)
  <2>1. \A failed \in {runtime[t].failed, runtime[t].failed \cup {runtime[t].attempt}} :
          AfterFailure(t, [runtime[t] EXCEPT !.failed = failed]).pc = "undo"
    <3> TAKE failed \in {runtime[t].failed, runtime[t].failed \cup {runtime[t].attempt}}
    <3> DEFINE r == [runtime[t] EXCEPT !.failed = failed]
    <3>1. r \in Runtime
      BY <1>0 DEF Runtime
    <3> HIDE DEF r
    <3>2. AfterFailure(t, r).pc = "undo"
      BY <3>1, AfterRecord, RollBackRecord
    <3> QED
      BY <3>2 DEF r
  <2> QED
    BY <1>0, <1>1, <1>6, <2>1 DEF Validate
<1>7. ASSUME NEW f \in Files, TruncateFile(t, f) \/ RestoreFile(t, f)
      PROVE  /\ runtime'[t].pc \notin {"off", "gone"}
             /\ \A u \in Tasks \ {t} : runtime'[u] = runtime[u]
  <2>1. runtime[t].pc = "undo"
        \/ runtime[t].pc \notin {"off", "gone"}
    BY <1>0, <1>7 DEF TruncateFile, RestoreFile
  <2> QED
    BY <1>0, <1>7, <2>1 DEF TruncateFile, RestoreFile, Runtime
<1>8. CASE Undone(t)
  <2> DEFINE again == [runtime[t] EXCEPT !.pc = "generate", !.attempt = @ + 1,
                                         !.snapshot = <<>>, !.outside = {}]
  <2>1. again.pc = "generate"
    BY <1>0 DEF Runtime
  <2>2. runtime' = [runtime EXCEPT ![t] = again] \/ ExitListing(t, "escalate", "undone")
    BY <1>8 DEF Undone
  <2> HIDE DEF again
  <2> QED
    BY <1>0, <1>1, <2>1, <2>2
<1>9. CASE UndoFails(t)
  BY <1>1, <1>9 DEF UndoFails
<1>10. CASE RuntimeDies(t)
  BY <1>10 DEF RuntimeDies, Dies, Off
<1> QED
  BY <1>2, <1>3, <1>4, <1>5, <1>6, <1>7, <1>8, <1>9, <1>10 DEF RuntimeStep

LEMMA CallsNext == Shape /\ [Next]_vars => Calls'
<1> SUFFICES ASSUME Shape, Calls, [Next]_vars PROVE Calls'
  BY DEF Shape
<1>0. call \in [Tasks -> Call] /\ runtime \in [Tasks -> Runtime]
  BY DEF Shape, TypeOK
<1>1. CASE UNCHANGED vars
  BY <1>1 DEF vars, hostVars, Calls
<1>2. CASE HostCrash
  <2>1. ASSUME NEW t \in Tasks
        PROVE  call'[t] = call[t] \/ call'[t].pc = "lost"
    BY <1>0, <1>2 DEF HostCrash, Call
  <2> QED
    BY <1>2, <2>1 DEF HostCrash, Calls
<1>3. ASSUME NEW t \in Tasks, RuntimeStep(t) \/ UndoFails(t) \/ RuntimeDies(t)
      PROVE  Calls'
  <2>1. UNCHANGED call /\ runtime[t].pc \in
          {"preflight", "generate", "apply", "validate", "undo"}
    BY <1>3 DEF RuntimeStep, UndoFails, RuntimeDies, Preflight, Advise, Generate,
                ApplyPatch, Validate, TruncateFile, RestoreFile, Undone, hostVars
  <2>2. /\ runtime'[t].pc \notin {"off", "gone"}
        /\ \A u \in Tasks \ {t} : runtime'[u] = runtime[u]
    BY <1>0, <1>3, RuntimeMoves
  <2> QED
    BY <1>0, <2>1, <2>2 DEF Calls
<1>4. ASSUME NEW t \in Tasks,
             Start(t) \/ HostStep(t) \/ SpawnError(t) \/ StoreFails(t)
      PROVE  Calls'
  <2>0. call[t] \in Call /\ runtime[t] \in Runtime
    BY <1>0
  <2>1. CASE Start(t)
    BY <1>0, <2>0, <2>1 DEF Start, Calls, Call, Runtime
  <2>2. CASE SpawnError(t)
    BY <1>0, <2>2 DEF SpawnError, Settle, Calls, Off
  <2>3. CASE Timeout(t)
    BY <1>0, <2>3 DEF Timeout, Settle, Dies, Calls, Off
  <2>4. CASE Close(t)
    <3>1. runtime'[t].pc = "gone" /\ \A u \in Tasks \ {t} : runtime'[u] = runtime[u]
      BY <1>0, <2>0, <2>4 DEF Close, Runtime
    <3>2. \A u \in Tasks \ {t} : call'[u] = call[u]
      BY <1>0, <2>4 DEF Close, Settle
    <3>3. call'[t].pc \notin {"idle", "running"}
      BY <1>0, <2>0, <2>4 DEF Close, Settle, Calls
    <3> QED
      BY <3>1, <3>2, <3>3 DEF Calls
  <2>5. CASE Return(t) \/ StoreFails(t) \/ RecordTrace(t)
    BY <1>0, <2>0, <2>5 DEF Return, StoreFails, RecordTrace, Calls, Call
  <2>6. ASSUME NEW i \in 1 .. MaxTexts, SaveFile(t, i) \/ SaveRow(t, i)
        PROVE  Calls'
    BY <2>6 DEF SaveFile, SaveRow, Calls
  <2> QED
    BY <1>4, <2>1, <2>2, <2>3, <2>4, <2>5, <2>6 DEF HostStep
<1> QED
  BY <1>1, <1>2, <1>3, <1>4 DEF Next

\* A rollback in progress stays one that can be finished.
LEMMA RollbackKept ==
  ASSUME Shape, NEW t \in Tasks, NEW r,
         \/ runtime' = [runtime EXCEPT ![t] = r] /\ RollbackOK(r)
         \/ UNCHANGED runtime
  PROVE  \A u \in Tasks : RollbackOK(runtime'[u])
BY DEF Shape, TypeOK

LEMMA NoRollback == \A r : r.pc # "undo" /\ r.writing = {} => RollbackOK(r)
BY DEF RollbackOK

LEMMA ExitRolls ==
  ASSUME Shape, NEW t \in Tasks, NEW s, NEW e, Exit(t, s, e) \/ ExitListing(t, s, e)
  PROVE  \A u \in Tasks : RollbackOK(runtime'[u])
<1>1. \A a : Exited(a, EndOf(t, e)).pc # "undo" /\ Exited(a, EndOf(t, e)).writing = {}
  BY ExitedFields
<1> QED
  BY <1>1, ExitRecord, RollbackKept, NoRollback

LEMMA DiesRolls ==
  ASSUME Shape, NEW t \in Tasks, Dies(t)
  PROVE  \A u \in Tasks : RollbackOK(runtime'[u])
<1> DEFINE r == [Off EXCEPT !.pc = "killed", !.end = "broken"]
<1>1. r.pc # "undo" /\ r.writing = {}
  BY DEF Off
<1>2. runtime' = [runtime EXCEPT ![t] = r] \/ UNCHANGED runtime
  BY DEF Dies
<1> HIDE DEF r
<1> QED
  BY <1>1, <1>2, RollbackKept, NoRollback

\* A step after which a runtime rolls nothing back.
LEMMA QuietRolls ==
  ASSUME Shape, NEW t \in Tasks, NEW r, runtime' = [runtime EXCEPT ![t] = r],
         r.pc # "undo", r.writing = {}
  PROVE  \A u \in Tasks : RollbackOK(runtime'[u])
BY RollbackKept, NoRollback

\* A runtime that begins to roll back has truncated nothing.
LEMMA BeginsRolls ==
  ASSUME NEW r \in Runtime, NEW changed, NEW next \in {"retry", "validation", "apply"},
         r.writing = {}, next = "retry" => r.attempt \in 1 .. RepairLimit
  PROVE  RollbackOK(RollBack(r, changed, next))
BY RollBackRecord DEF RollbackOK

LEMMA RollbackNext ==
  ASSUME Shape, [Next]_vars
  PROVE  \A u \in Tasks : RollbackOK(runtime'[u])
<1> DEFINE Goal == \A u \in Tasks : RollbackOK(runtime'[u])
<1>1. ASSUME UNCHANGED runtime PROVE Goal
  BY <1>1 DEF Shape
<1> SUFFICES ASSUME NEW t \in Tasks,
                    \/ Start(t) \/ HostStep(t) \/ RuntimeStep(t) \/ SpawnError(t)
                    \/ StoreFails(t) \/ UndoFails(t) \/ RuntimeDies(t)
             PROVE  Goal
  BY <1>1 DEF Next, HostCrash, vars
<1>0. runtime[t] \in Runtime /\ runtime \in [Tasks -> Runtime] /\ RollbackOK(runtime[t])
  BY DEF Shape, TypeOK
<1>2. ASSUME Start(t) PROVE Goal
  <2> DEFINE r == [runtime[t] EXCEPT !.pc = "preflight"]
  <2>1. runtime' = [runtime EXCEPT ![t] = r]
    BY <1>0, <1>2 DEF Start
  <2>2. runtime[t].writing = {}
    BY <1>0, <1>2 DEF Start, Shape, Calls, RollbackOK
  <2>3. r.pc # "undo" /\ r.writing = {}
    BY <1>0, <2>2 DEF Runtime
  <2> HIDE DEF r
  <2> QED
    BY <2>1, <2>3, QuietRolls
<1>3. ASSUME SpawnError(t) PROVE Goal
  <2> DEFINE r == [Off EXCEPT !.pc = "gone", !.end = "broken"]
  <2>1. r.pc # "undo" /\ r.writing = {} /\ runtime' = [runtime EXCEPT ![t] = r]
    BY <1>3 DEF Off, SpawnError
  <2> HIDE DEF r
  <2> QED
    BY <2>1, QuietRolls
<1>4. ASSUME HostStep(t) PROVE Goal
  <2>1. CASE Timeout(t)
    BY <2>1, DiesRolls DEF Timeout
  <2>2. CASE Close(t)
    <3> DEFINE r == [runtime[t] EXCEPT !.pc = "gone", !.result = None]
    <3>1. r.pc # "undo" /\ r.writing = {}
      BY <1>0, <2>2 DEF Close, Runtime, RollbackOK
    <3>2. runtime' = [runtime EXCEPT ![t] = r]
      BY <1>0, <2>2 DEF Close
    <3> HIDE DEF r
    <3> QED
      BY <3>1, <3>2, QuietRolls
  <2> QED
    BY <1>1, <1>4, <2>1, <2>2 DEF HostStep, RecordTrace, Return, SaveFile, SaveRow
<1>5. ASSUME StoreFails(t) PROVE Goal
  BY <1>1, <1>5 DEF StoreFails
<1>6. ASSUME UndoFails(t) PROVE Goal
  BY <1>6, ExitRolls DEF UndoFails
<1>7. ASSUME RuntimeDies(t) PROVE Goal
  BY <1>7, DiesRolls DEF RuntimeDies
<1>8. ASSUME RuntimeStep(t) PROVE Goal
  <2>1. CASE Preflight(t)
    <3> DEFINE r == [runtime[t] EXCEPT !.pc = "generate"]
    <3>1. r.pc # "undo" /\ r.writing = {}
      BY <1>0, <2>1 DEF Preflight, Runtime, RollbackOK
    <3>2. runtime' = [runtime EXCEPT ![t].pc = "generate"]
            => runtime' = [runtime EXCEPT ![t] = r]
      BY <1>0
    <3> HIDE DEF r
    <3> QED
      BY <2>1, <3>1, <3>2, ExitRolls, QuietRolls DEF Preflight
  <2>2. CASE Advise(t)
    BY <2>2, ExitRolls DEF Advise
  <2>3. CASE Generate(t)
    <3>1. ASSUME NEW s, NEW D,
                 runtime' = [runtime EXCEPT ![t].pc = "apply", ![t].outside = D,
                                            ![t].snapshot = s]
          PROVE  Goal
      <4> DEFINE r == [runtime[t] EXCEPT !.pc = "apply", !.outside = D, !.snapshot = s]
      <4>1. r.pc # "undo" /\ r.writing = {}
        BY <1>0, <2>3 DEF Generate, Runtime, RollbackOK
      <4>2. runtime' = [runtime EXCEPT ![t] = r]
        BY <1>0, <3>1
      <4> HIDE DEF r
      <4> QED
        BY <4>1, <4>2, QuietRolls
    <3> QED
      BY <2>3, <3>1, ExitRolls DEF Generate
  <2>4. CASE ApplyPatch(t)
    <3>1. runtime[t].writing = {}
      BY <1>0, <2>4 DEF ApplyPatch, RollbackOK
    <3>2. CASE runtime' = [runtime EXCEPT ![t].pc = "validate", ![t].applied = TRUE]
      <4> DEFINE r == [runtime[t] EXCEPT !.pc = "validate", !.applied = TRUE]
      <4>1. r.pc # "undo" /\ r.writing = {} /\ runtime' = [runtime EXCEPT ![t] = r]
        BY <1>0, <3>1, <3>2 DEF Runtime
      <4> HIDE DEF r
      <4> QED
        BY <4>1, QuietRolls
    <3>3. ASSUME NEW part,
                 runtime' = [runtime EXCEPT ![t] = RollBack(runtime[t], part, "apply")]
          PROVE  Goal
      <4>1. RollbackOK(RollBack(runtime[t], part, "apply"))
        BY <1>0, <3>1, BeginsRolls
      <4> QED
        BY <3>3, <4>1, RollbackKept
    <3> QED
      BY <2>4, <3>2, <3>3, ExitRolls DEF ApplyPatch
  <2>5. CASE Validate(t)
    <3>1. runtime[t].writing = {}
      BY <1>0, <2>5 DEF Validate, RollbackOK
    <3>2. ASSUME NEW S \in {runtime[t].failed, runtime[t].failed \cup {runtime[t].attempt}}
          PROVE  RollbackOK(AfterFailure(t, [runtime[t] EXCEPT !.failed = S]))
      <4> DEFINE r == [runtime[t] EXCEPT !.failed = S]
      <4>1. /\ r \in Runtime /\ r.writing = {} /\ r.attempt \in Attempts
            /\ r.attempt = runtime[t].attempt
        BY <1>0, <3>1 DEF Runtime
      <4> HIDE DEF r
      <4>3. RollbackOK(AfterFailure(t, r))
        BY <4>1, AfterRecord, BeginsRolls
      <4> QED
        BY <4>3 DEF r
    <3> QED
      BY <2>5, <3>2, ExitRolls, RollbackKept DEF Validate
  <2>6. ASSUME NEW f \in Files, TruncateFile(t, f) \/ RestoreFile(t, f) PROVE Goal
    <3>1. CASE TruncateFile(t, f)
      <4>1. RollbackOK([runtime[t] EXCEPT !.writing = {f}])
        BY <1>0, <3>1 DEF Runtime, RollbackOK, TruncateFile
      <4> QED
        BY <3>1, <4>1, RollbackKept DEF TruncateFile
    <3>2. CASE RestoreFile(t, f)
      <4> DEFINE r == [runtime[t] EXCEPT !.todo = @ \ {f}, !.writing = {}]
      <4>1. RollbackOK(r)
        BY <1>0, <3>2 DEF Runtime, RollbackOK, RestoreFile
      <4>2. runtime' = [runtime EXCEPT ![t] = r]
        BY <1>0, <3>2 DEF RestoreFile
      <4> HIDE DEF r
      <4> QED
        BY <4>1, <4>2, RollbackKept
    <3> QED
      BY <2>6, <3>1, <3>2
  <2>7. CASE Undone(t)
    <3> DEFINE r == [runtime[t] EXCEPT !.pc = "generate", !.attempt = @ + 1,
                                       !.snapshot = <<>>, !.outside = {}]
    <3>1. r.pc # "undo" /\ r.writing = {}
      BY <1>0, <2>7 DEF Undone, Runtime, RollbackOK
    <3>2. runtime' = [runtime EXCEPT ![t] = r] \/ ExitListing(t, "escalate", "undone")
      BY <2>7 DEF Undone
    <3> HIDE DEF r
    <3> QED
      BY <3>1, <3>2, ExitRolls, QuietRolls
  <2> QED
    BY <1>8, <2>1, <2>2, <2>3, <2>4, <2>5, <2>6, <2>7 DEF RuntimeStep
<1> QED
  BY <1>2, <1>3, <1>4, <1>5, <1>6, <1>7, <1>8

LEMMA ShapeInvariant == Spec => []Shape
<1>1. Init => Shape
  BY TypeInit DEF Init, Shape, RollbackOK, Calls, Off
<1>2. Shape /\ [Next]_vars => Shape'
  <2> SUFFICES ASSUME Shape, [Next]_vars PROVE TypeOK'
    BY RollbackNext, CallsNext DEF Shape
  <2>1. CASE UNCHANGED vars
    BY <2>1 DEF Shape, TypeOK, vars, hostVars
  <2>2. CASE HostCrash
    <3>1. call' \in [Tasks -> Call]
      BY <2>2 DEF HostCrash, Shape, TypeOK, Call
    <3> QED
      BY <2>2, <3>1, ConstantsAssumption DEF HostCrash, Shape, TypeOK
  <2>3. ASSUME NEW t \in Tasks, RuntimeStep(t) \/ UndoFails(t) \/ RuntimeDies(t)
        PROVE  TypeOK'
    BY <2>3, RuntimeTypes
  <2>4. ASSUME NEW t \in Tasks,
               Start(t) \/ HostStep(t) \/ SpawnError(t) \/ StoreFails(t)
        PROVE  TypeOK'
    BY <2>4, HostTypes DEF Shape
  <2> QED
    BY <2>1, <2>2, <2>3, <2>4 DEF Next
<1> QED
  BY <1>1, <1>2, PTL DEF Spec

\* Types hold for any number of tasks, files, attempts, crashes and faults.
THEOREM TypeCorrect == Spec => []TypeOK
BY ShapeInvariant, PTL DEF Shape

-----------------------------------------------------------------------------
(* The host's book-keeping.  How far a call is fixes how often it has been  *)
(* traced, and once it is settled its answer does not change.               *)

TraceOK(c, trace) ==
  /\ Len(trace) <= 2
  /\ c.pc = "idle" => Len(trace) = 0
  /\ c.pc \in {"running", "prepare"} => Len(trace) = 1
  /\ c.pc \in {"audit", "returned"} => Len(trace) = 2
  /\ Len(trace) = 2 => (trace[2] = "succeeded" <=> c.answer = "success")

TextsOK(t, c, rows) ==
  c.pc \in {"audit", "returned"} => \A i \in 1 .. c.texts : <<t, i>> \in rows

Books ==
  /\ \A t \in Tasks : TraceOK(call[t], traces[t]) /\ TextsOK(t, call[t], outputs.rows)
  /\ outputs.rows \subseteq outputs.files

LEMMA AppendedSecond ==
  ASSUME NEW S, NEW trace \in Seq(S), NEW s \in S, Len(trace) = 1
  PROVE  Len(Append(trace, s)) = 2 /\ Append(trace, s)[2] = s
<1>1. /\ Len(Append(trace, s)) = Len(trace) + 1
      /\ Append(trace, s)[Len(trace) + 1] = s
  BY AppendProperties
<1>2. Len(trace) + 1 = 2
  OBVIOUS
<1> QED
  BY <1>1, <1>2

\* A step of one call, which may add rows, keeps the books of the others.
LEMMA OneCall ==
  ASSUME Shape, Books, NEW t \in Tasks, NEW c,
         call' = [call EXCEPT ![t] = c],
         \A u \in Tasks \ {t} : traces'[u] = traces[u],
         outputs.rows \subseteq outputs'.rows, outputs'.rows \subseteq outputs'.files,
         TraceOK(c, traces'[t]), TextsOK(t, c, outputs'.rows)
  PROVE  Books'
<1>1. call \in [Tasks -> Call]
  BY DEF Shape, TypeOK
<1>2. ASSUME NEW u \in Tasks
      PROVE  TraceOK(call'[u], traces'[u]) /\ TextsOK(u, call'[u], outputs'.rows)
  BY <1>1 DEF Books, TextsOK
<1> QED
  BY <1>2 DEF Books

\* A step that moves a call and neither traces nor stores.
LEMMA QuietCall ==
  ASSUME Shape, Books, NEW t \in Tasks, NEW c,
         call' = [call EXCEPT ![t] = c], UNCHANGED <<traces, outputs>>,
         TraceOK(c, traces[t]), TextsOK(t, c, outputs.rows)
  PROVE  Books'
BY OneCall DEF Books

\* The promise of the bridge settles a running call.
LEMMA SettleBooks ==
  ASSUME Shape, Books, NEW t \in Tasks, NEW answer, NEW n, call[t].pc = "running",
         Settle(t, answer, n), UNCHANGED <<traces, outputs>>
  PROVE  Books'
<1> DEFINE c == [pc |-> "prepare", answer |-> answer, texts |-> n]
<1>1. TraceOK(c, traces[t])
  BY DEF Books, TraceOK
<1>2. TextsOK(t, c, outputs.rows)
  BY DEF TextsOK
<1> QED
  BY <1>1, <1>2, QuietCall DEF Settle

LEMMA BooksNext == Shape /\ Books /\ [Next]_vars => Books'
<1> SUFFICES ASSUME Shape, Books, [Next]_vars PROVE Books'
  OBVIOUS
<1>0. ASSUME UNCHANGED <<call, traces, outputs>> PROVE Books'
  BY <1>0 DEF Books
<1>1. CASE HostCrash
  <2>1. ASSUME NEW u \in Tasks
        PROVE  TraceOK(call'[u], traces[u]) /\ TextsOK(u, call'[u], outputs.rows)
    <3>1. call'[u] = call[u] \/ call'[u] = [call[u] EXCEPT !.pc = "lost"]
      BY <1>1 DEF HostCrash
    <3>2. call[u] \in Call
      BY DEF Shape, TypeOK
    <3> QED
      BY <3>1, <3>2 DEF Books, TraceOK, TextsOK, Call
  <2> QED
    BY <1>1, <2>1 DEF Books, HostCrash
<1>2. ASSUME NEW t \in Tasks, RuntimeStep(t) \/ UndoFails(t) \/ RuntimeDies(t)
      PROVE  Books'
  BY <1>0, <1>2 DEF RuntimeStep, UndoFails, RuntimeDies, Preflight, Advise, Generate,
                    ApplyPatch, Validate, TruncateFile, RestoreFile, Undone, hostVars
<1>3. ASSUME NEW t \in Tasks,
             Start(t) \/ HostStep(t) \/ SpawnError(t) \/ StoreFails(t)
      PROVE  Books'
  <2>0. /\ call[t] \in Call /\ traces[t] \in Seq({"started", "succeeded", "failed"})
        /\ traces \in [Tasks -> Seq({"started", "succeeded", "failed"})]
        /\ outputs \in [files : SUBSET TextIds, rows : SUBSET TextIds]
        /\ TraceOK(call[t], traces[t]) /\ TextsOK(t, call[t], outputs.rows)
    BY DEF Shape, TypeOK, Books
  <2>1. CASE Start(t)
    <3> DEFINE c == [call[t] EXCEPT !.pc = "running"]
    <3>1. call' = [call EXCEPT ![t] = c] /\ UNCHANGED outputs
      BY <2>1 DEF Start
    <3>2. Len(traces[t]) = 0 /\ traces'[t] = Append(traces[t], "started")
      BY <2>0, <2>1 DEF Start, TraceOK
    <3>3. TraceOK(c, traces'[t])
      BY <2>0, <3>2 DEF TraceOK, Call
    <3>4. TextsOK(t, c, outputs.rows)
      BY <2>0 DEF TextsOK, Call
    <3>5. \A u \in Tasks \ {t} : traces'[u] = traces[u]
      BY <2>0, <2>1 DEF Start
    <3> QED
      BY <3>1, <3>3, <3>4, <3>5, OneCall DEF Books
  <2>2. CASE SpawnError(t)
    BY <2>2, SettleBooks DEF SpawnError
  <2>3. CASE Timeout(t)
    BY <2>3, SettleBooks DEF Timeout
  <2>4. CASE Close(t)
    BY <1>0, <2>4, SettleBooks DEF Close
  <2>5. CASE Return(t)
    <3> DEFINE c == [call[t] EXCEPT !.pc = "returned"]
    <3>1. call' = [call EXCEPT ![t] = c] /\ UNCHANGED <<traces, outputs>>
      BY <2>5 DEF Return
    <3>2. TraceOK(c, traces[t]) /\ TextsOK(t, c, outputs.rows)
      BY <2>0, <2>5 DEF Return, TraceOK, TextsOK, Call
    <3> QED
      BY <3>1, <3>2, QuietCall
  <2>6. CASE StoreFails(t)
    <3> DEFINE c == [call[t] EXCEPT !.pc = "threw"]
    <3>1. call' = [call EXCEPT ![t] = c] /\ UNCHANGED <<traces, outputs>>
      BY <2>6 DEF StoreFails
    <3>2. TraceOK(c, traces[t]) /\ TextsOK(t, c, outputs.rows)
      BY <2>0 DEF TraceOK, TextsOK, Call
    <3> QED
      BY <3>1, <3>2, QuietCall
  <2>7. CASE RecordTrace(t)
    <3> DEFINE c == [call[t] EXCEPT !.pc = "audit"]
               s == IF call[t].answer = "success" THEN "succeeded" ELSE "failed"
    <3>1. call' = [call EXCEPT ![t] = c] /\ UNCHANGED outputs
      BY <2>7 DEF RecordTrace
    <3>2. Len(traces[t]) = 1 /\ traces'[t] = Append(traces[t], s)
      BY <2>0, <2>7 DEF RecordTrace, TraceOK
    <3>3. c.pc = "audit" /\ c.answer = call[t].answer /\ c.texts = call[t].texts
      BY <2>0 DEF Call
    <3>4. Len(traces'[t]) = 2 /\ traces'[t][2] = s
      <4>1. s \in {"started", "succeeded", "failed"}
        OBVIOUS
      <4> HIDE DEF s
      <4> QED
        BY <2>0, <3>2, <4>1, AppendedSecond
    <3>5. TraceOK(c, traces'[t])
      BY <3>3, <3>4 DEF TraceOK
    <3>6. TextsOK(t, c, outputs.rows)
      BY <2>7, <3>3 DEF RecordTrace, TextsOK
    <3>7. \A u \in Tasks \ {t} : traces'[u] = traces[u]
      BY <2>0, <2>7 DEF RecordTrace
    <3> QED
      BY <3>1, <3>5, <3>6, <3>7, OneCall DEF Books
  <2>8. ASSUME NEW i \in 1 .. MaxTexts, SaveFile(t, i) \/ SaveRow(t, i)
        PROVE  Books'
    <3>1. UNCHANGED <<call, traces>> /\ outputs.rows \subseteq outputs'.rows
      BY <2>0, <2>8 DEF SaveFile, SaveRow
    <3>2. outputs'.rows \subseteq outputs'.files
      BY <2>0, <2>8 DEF SaveFile, SaveRow, Books
    <3> QED
      BY <3>1, <3>2 DEF Books, TextsOK
  <2> QED
    BY <1>3, <2>1, <2>2, <2>3, <2>4, <2>5, <2>6, <2>7, <2>8 DEF HostStep
<1>4. CASE UNCHANGED vars
  BY <1>0, <1>4 DEF vars, hostVars
<1> QED
  BY <1>1, <1>2, <1>3, <1>4 DEF Next

LEMMA BooksInvariant == Spec => [](Shape /\ Books)
<1>1. Init => Books
  BY DEF Init, Books, TraceOK, TextsOK
<1> QED
  BY <1>1, BooksNext, ShapeInvariant, PTL DEF Spec

\* Whichever of the timer, the spawn error and the close event settles a call, it
\* is traced once as started and once as ended with the answer it is given.
THEOREM TraceIsAnswer == Spec => []TraceMatchesAnswer
<1>1. Shape /\ Books => TraceMatchesAnswer
  BY DEF Books, TraceOK, TraceMatchesAnswer
<1> QED
  BY <1>1, BooksInvariant, PTL

\* No row and no answer ever refers to a text that cannot be read.
THEOREM SpilloverIsReadable == Spec => []SpilloverReadable
<1>1. Shape /\ Books => SpilloverReadable
  BY DEF Books, TextsOK, SpilloverReadable
<1> QED
  BY <1>1, BooksInvariant, PTL

-----------------------------------------------------------------------------
(* The workspace.  With one patching runtime at a time, what differs from   *)
(* the workspace it started with is its patch or a file being restored, and *)
(* the snapshot holds what was there before: that is what makes a rollback  *)
(* exact, until one has to leave files its manifest does not name.          *)

Ended3 == {"exited", "killed", "gone"}

PhaseOK(t, r) ==
  /\ r.pc = "off" => r = Off
  /\ r.end = "open" <=> r.pc \notin Ended3
  /\ r.pc \in {"apply", "validate", "undo"} => t \in Mutating

\* What a task may write.
Own(t) == {t} \X Attempts

\* The files a patch changes, and those that may hold the patch at hand.
Reach(r) == DOMAIN r.snapshot \cup r.outside

Dirty(r) ==
  IF r.pc = "validate" THEN Reach(r) ELSE IF r.pc = "undo" THEN r.todo ELSE {}

PatchOK(t, r, files) ==
  /\ \A f \in DOMAIN r.snapshot :
       \/ r.snapshot[f] = base[f]
       \/ r.spilled /\ r.snapshot[f] \in Own(t)
  /\ r.pc \in {"apply", "validate"} => DOMAIN r.snapshot # {}
  /\ \A f \in Files :
       \/ files[f] = base[f]
       \/ (r.spilled \/ f \in Dirty(r)) /\ files[f] \in Own(t)
       \/ f \in r.writing /\ files[f] = Torn
  /\ r.pc = "validate" => \A f \in Reach(r) : files[f] = <<t, r.attempt>>

Phases == \A t \in Tasks : PhaseOK(t, runtime[t])
OneAtATime == \A t, u \in Patching : t = u
Patches == \A t \in Tasks : InFlight(t) => PatchOK(t, runtime[t], workspace)
Transactional == Shape /\ Phases /\ OneAtATime /\ Patches

LEMMA OthersNotInFlight ==
  ASSUME Transactional, NEW t \in Mutating, runtime[t].pc \notin {"off", "gone"}
  PROVE  \A u \in Tasks \ {t} : ~ InFlight(u)
BY DEF Transactional, Phases, PhaseOK, Ended3, OneAtATime, Patching, InFlight

\* A step of one live runtime keeps the invariant if it keeps its own part of it.
LEMMA PatchesMove ==
  ASSUME Transactional, NEW t \in Tasks, NEW r, runtime[t].pc \notin {"off", "gone"},
         runtime' = [runtime EXCEPT ![t] = r], UNCHANGED base,
         r.pc # "off", PhaseOK(t, r),
         t \notin Mutating => UNCHANGED workspace,
         t \in Mutating /\ r.end = "open" => PatchOK(t, r, workspace')
  PROVE  Phases' /\ OneAtATime' /\ Patches'
<1>0. runtime \in [Tasks -> Runtime] /\ Mutating \subseteq Tasks
  BY ConstantsAssumption DEF Transactional, Shape, TypeOK
<1>1. runtime'[t] = r /\ \A u \in Tasks \ {t} : runtime'[u] = runtime[u]
  BY <1>0
<1>2. Phases'
  BY <1>1 DEF Phases, PhaseOK, Transactional
<1>3. OneAtATime'
  <2>1. Patching' \subseteq Patching
    BY <1>0, <1>1 DEF Patching
  <2> QED
    BY <2>1 DEF OneAtATime, Transactional
<1>4. Patches'
  <2> SUFFICES ASSUME NEW u \in Tasks, InFlight(u)'
               PROVE  PatchOK(u, runtime[u], workspace)'
    BY DEF Patches
  <2>1. CASE u = t
    BY <1>1, <2>1 DEF InFlight, PatchOK, Dirty, Reach
  <2>2. CASE u # t
    <3>1. InFlight(u)
      BY <1>1, <2>2 DEF InFlight
    <3>2. t \notin Mutating
      BY <2>2, <3>1, OthersNotInFlight
    <3> QED
      BY <1>1, <2>2, <3>1, <3>2 DEF Transactional, Patches, PatchOK, Dirty, Reach
  <2> QED
    BY <2>1, <2>2
<1> QED
  BY <1>2, <1>3, <1>4

\* A live runtime that does not end is invisible to the abstract specification.
LEMMA StaysSettled ==
  ASSUME Transactional, NEW t \in Tasks, NEW r, runtime[t].pc \notin {"off", "gone"},
         runtime' = [runtime EXCEPT ![t] = r], UNCHANGED base,
         r.pc # "off", r.end = runtime[t].end,
         t \notin Mutating \/ r.end # "open" => UNCHANGED workspace
  PROVE  UNCHANGED <<Settled, Outcome>>
<1>0. runtime \in [Tasks -> Runtime] /\ Mutating \subseteq Tasks
  BY ConstantsAssumption DEF Transactional, Shape, TypeOK
<1>1. runtime'[t] = r /\ \A u \in Tasks \ {t} : runtime'[u] = runtime[u]
  BY <1>0
<1>2. \A u \in Tasks : InFlight(u)' <=> InFlight(u)
  BY <1>1 DEF InFlight
<1>3. UNCHANGED Outcome
  BY <1>0, <1>1 DEF Outcome
<1>4. CASE UNCHANGED workspace
  BY <1>2, <1>3, <1>4 DEF Settled
<1>5. CASE InFlight(t)
  BY <1>2, <1>3, <1>5 DEF Settled
<1> QED
  BY <1>4, <1>5 DEF InFlight

\* When a runtime ends, what it leaves in the workspace becomes visible.
LEMMA EndsSettled ==
  ASSUME Transactional, NEW t \in Tasks, NEW r,
         runtime[t].pc \notin {"off", "exited", "killed", "gone"},
         runtime' = [runtime EXCEPT ![t] = r], UNCHANGED base, r.end # "open"
  PROVE  /\ Outcome[t] = "open" /\ Outcome' = [Outcome EXCEPT ![t] = r.end]
         /\ t \in Mutating => Settled = base /\ Settled' = workspace'
         /\ t \notin Mutating /\ UNCHANGED workspace => UNCHANGED Settled
<1>0. runtime \in [Tasks -> Runtime] /\ Mutating \subseteq Tasks
  BY ConstantsAssumption DEF Transactional, Shape, TypeOK
<1>1. runtime'[t] = r /\ \A u \in Tasks \ {t} : runtime'[u] = runtime[u]
  BY <1>0
<1>2. runtime[t].end = "open"
  BY DEF Transactional, Phases, PhaseOK, Ended3
<1>3. Outcome[t] = "open" /\ Outcome' = [Outcome EXCEPT ![t] = r.end]
  BY <1>0, <1>1, <1>2 DEF Outcome
<1>4. CASE t \in Mutating
  <2>1. InFlight(t)
    BY <1>2, <1>4 DEF InFlight
  <2>2. \A u \in Tasks : ~ InFlight(u)'
    BY <1>1, <1>4, OthersNotInFlight DEF InFlight
  <2> QED
    BY <1>3, <1>4, <2>1, <2>2 DEF Settled
<1>5. CASE t \notin Mutating
  <2>1. \A u \in Tasks : InFlight(u)' <=> InFlight(u)
    BY <1>1, <1>5 DEF InFlight
  <2> QED
    BY <1>3, <1>5, <2>1 DEF Settled
<1> QED
  BY <1>4, <1>5

-----------------------------------------------------------------------------
(* Each step keeps the invariant, and maps to a step of                     *)
(* WorkspaceTransactions or to a stutter.                                   *)

Kept == Phases' /\ OneAtATime' /\ Patches'
Mapped == Transactions!Next \/ UNCHANGED <<Settled, Outcome>>

\* What a patching runtime in flight has made of the workspace.
LEMMA WorkspaceInFlight ==
  ASSUME Transactional, NEW t \in Tasks, InFlight(t)
  PROVE  LET r == runtime[t] IN
         /\ \A f \in Files : workspace[f] \in {base[f]} \cup (Own(t) \cup {Torn})
         /\ r.writing = {} => \A f \in Files : workspace[f] \in {base[f]} \cup Own(t)
         /\ r.writing = {} /\ Dirty(r) = {} /\ ~ r.spilled => workspace = base
         /\ r.pc = "validate" /\ ~ r.spilled =>
              workspace = [f \in Files |-> IF f \in Reach(r) THEN <<t, r.attempt>> ELSE base[f]]
<1> DEFINE r == runtime[t]
<1>1. PatchOK(t, r, workspace)
  BY DEF Transactional, Patches
<1>2. /\ workspace \in [Files -> Versions] /\ base \in [Files -> Versions]
      /\ RollbackOK(r)
  BY DEF Transactional, Shape, TypeOK
<1> HIDE DEF r
<1>3. \A f \in Files : workspace[f] \in {base[f]} \cup (Own(t) \cup {Torn})
  BY <1>1 DEF PatchOK
<1>4. ASSUME r.writing = {} PROVE \A f \in Files : workspace[f] \in {base[f]} \cup Own(t)
  BY <1>1, <1>4 DEF PatchOK
<1>5. ASSUME r.writing = {}, Dirty(r) = {}, ~ r.spilled PROVE workspace = base
  BY <1>1, <1>2, <1>5 DEF PatchOK
<1>6. ASSUME r.pc = "validate", ~ r.spilled
      PROVE  workspace = [f \in Files |->
                            IF f \in Reach(r) THEN <<t, r.attempt>> ELSE base[f]]
  <2>1. ASSUME NEW f \in Files
        PROVE  workspace[f] = IF f \in Reach(r) THEN <<t, r.attempt>> ELSE base[f]
    <3>1. Dirty(r) = Reach(r) /\ r.writing = {}
      BY <1>2, <1>6 DEF Dirty, RollbackOK
    <3> QED
      BY <1>1, <1>6, <3>1 DEF PatchOK
  <2> QED
    BY <1>2, <2>1
<1> QED
  BY <1>3, <1>4, <1>5, <1>6 DEF r

\* The versions of this attempt are versions the task may write.
LEMMA OwnVersion ==
  ASSUME Transactional, NEW t \in Tasks
  PROVE  <<t, runtime[t].attempt>> \in Own(t)
<1>1. runtime[t] \in Runtime
  BY DEF Transactional, Shape, TypeOK
<1> QED
  BY <1>1 DEF Runtime, Own

LEMMA OwnVersions == \A t \in Tasks : [u \in Tasks |-> {u} \X Attempts][t] = Own(t)
BY DEF Own

LEMMA SettledType ==
  ASSUME TypeOK
  PROVE  Settled = [f \in Files |-> Settled[f]]
<1>1. Settled = workspace \/ Settled = base
  BY DEF Settled
<1>2. Settled \in [Files -> Versions]
  BY <1>1 DEF TypeOK
<1> QED
  BY <1>2

Live(t) == runtime[t].pc \in {"preflight", "generate", "apply", "validate", "undo"}

\* A runtime that ends.
LEMMA EndKeeps ==
  ASSUME Transactional, NEW t \in Tasks, NEW r, Live(t),
         runtime' = [runtime EXCEPT ![t] = r], UNCHANGED base,
         r.pc \in Ended3, r.end # "open", t \notin Mutating => UNCHANGED workspace
  PROVE  Kept
<1>1. PhaseOK(t, r)
  BY DEF PhaseOK, Ended3
<1> QED
  BY <1>1, PatchesMove DEF Kept, Live, Ended3

\* What a runtime leaves when it ends without having undone its patch.
LEMMA EndLeaves ==
  ASSUME Transactional, NEW t \in Tasks, NEW r, NEW texts, Live(t),
         runtime' = [runtime EXCEPT ![t] = r], UNCHANGED base, r.end # "open",
         t \notin Mutating => UNCHANGED workspace,
         t \in Mutating => /\ workspace' \in [Files -> Versions]
                           /\ \A f \in Files : workspace'[f] \in {base[f]} \cup texts
  PROVE  /\ Outcome[t] = "open" /\ Outcome' = [Outcome EXCEPT ![t] = r.end]
         /\ Settled' = [f \in Files |-> Settled'[f]]
         /\ \A f \in Files : Settled'[f] \in {Settled[f]} \cup texts
<1>0. runtime[t].pc \notin {"off", "exited", "killed", "gone"}
  BY DEF Live
<1>1. /\ Outcome[t] = "open" /\ Outcome' = [Outcome EXCEPT ![t] = r.end]
      /\ t \in Mutating => Settled = base /\ Settled' = workspace'
      /\ t \notin Mutating /\ UNCHANGED workspace => UNCHANGED Settled
  BY <1>0, EndsSettled
<1>2. CASE t \in Mutating
  <2>1. Settled = base /\ Settled' = workspace'
    BY <1>1, <1>2
  <2>2. workspace' = [f \in Files |-> workspace'[f]]
    BY <1>2
  <2> QED
    BY <1>1, <1>2, <2>1, <2>2
<1>3. CASE t \notin Mutating
  <2>1. UNCHANGED Settled
    BY <1>1, <1>3
  <2>2. Settled = [f \in Files |-> Settled[f]]
    BY SettledType DEF Transactional, Shape
  <2> QED
    BY <1>1, <2>1, <2>2
<1> QED
  BY <1>2, <1>3

LEMMA BrokenStep ==
  ASSUME Transactional, NEW t \in Tasks, NEW r, Live(t),
         runtime' = [runtime EXCEPT ![t] = r], UNCHANGED base,
         r.pc \in Ended3, r.end = "broken",
         t \notin Mutating => UNCHANGED workspace,
         t \in Mutating =>
           /\ workspace' \in [Files -> Versions]
           /\ \A f \in Files : workspace'[f] \in {base[f]} \cup (Own(t) \cup {Torn})
  PROVE  Kept /\ Mapped
<1>0. r.end # "open"
  OBVIOUS
<1>1. /\ Outcome[t] = "open" /\ Outcome' = [Outcome EXCEPT ![t] = r.end]
      /\ Settled' = [f \in Files |-> Settled'[f]]
      /\ \A f \in Files : Settled'[f] \in {Settled[f]} \cup (Own(t) \cup {Torn})
  BY <1>0, EndLeaves
<1>2. Transactions!BreakOff(t)
  BY <1>1, OwnVersions DEF Transactions!BreakOff, Transactions!End, Transactions!Leaves
<1>3. Mapped
  BY <1>2 DEF Mapped, Transactions!Next
<1>4. Kept
  BY <1>0, EndKeeps
<1> QED
  BY <1>3, <1>4

LEMMA SpilledStep ==
  ASSUME Transactional, NEW t \in Tasks, NEW r, Live(t),
         runtime' = [runtime EXCEPT ![t] = r], UNCHANGED <<base, workspace>>,
         r.pc \in Ended3, r.end = "spilled", runtime[t].writing = {}
  PROVE  Kept /\ Mapped
<1>0. r.end # "open" /\ UNCHANGED base /\ UNCHANGED workspace
  OBVIOUS
<1>1. ASSUME t \in Mutating
      PROVE  /\ workspace' \in [Files -> Versions]
             /\ \A f \in Files : workspace'[f] \in {base[f]} \cup Own(t)
  <2>1. InFlight(t)
    BY <1>1 DEF Live, Transactional, Phases, PhaseOK, Ended3, InFlight
  <2>2. workspace \in [Files -> Versions]
    BY DEF Transactional, Shape, TypeOK
  <2> QED
    BY <1>0, <2>1, <2>2, WorkspaceInFlight
<1>2. /\ Outcome[t] = "open" /\ Outcome' = [Outcome EXCEPT ![t] = r.end]
      /\ Settled' = [f \in Files |-> Settled'[f]]
      /\ \A f \in Files : Settled'[f] \in {Settled[f]} \cup Own(t)
  BY <1>0, <1>1, EndLeaves
<1>3. Transactions!Spill(t)
  BY <1>2, OwnVersions DEF Transactions!Spill, Transactions!End, Transactions!Leaves
<1>4. Mapped
  BY <1>3 DEF Mapped, Transactions!Next
<1>5. Kept
  BY <1>0, EndKeeps
<1> QED
  BY <1>4, <1>5

LEMMA UndoneStep ==
  ASSUME Transactional, NEW t \in Tasks, NEW r, Live(t),
         runtime' = [runtime EXCEPT ![t] = r], UNCHANGED <<base, workspace>>,
         r.pc \in Ended3, r.end = "undone", Dirty(runtime[t]) = {},
         runtime[t].writing = {}, ~ runtime[t].spilled
  PROVE  Kept /\ Mapped
<1>0. /\ runtime[t].pc \notin {"off", "exited", "killed", "gone"} /\ r.end # "open"
      /\ UNCHANGED base /\ UNCHANGED workspace
  BY DEF Live
<1>1. /\ Outcome[t] = "open" /\ Outcome' = [Outcome EXCEPT ![t] = r.end]
      /\ t \in Mutating => Settled = base /\ Settled' = workspace'
      /\ t \notin Mutating /\ UNCHANGED workspace => UNCHANGED Settled
  BY <1>0, EndsSettled
<1>2. UNCHANGED Settled
  <2>1. ASSUME t \in Mutating PROVE workspace = base
    <3>1. InFlight(t)
      BY <1>0, <2>1 DEF Transactional, Phases, PhaseOK, Ended3, InFlight
    <3> QED
      BY <3>1, WorkspaceInFlight
  <2> QED
    BY <1>0, <1>1, <2>1
<1>3. Transactions!Undo(t)
  BY <1>1, <1>2 DEF Transactions!Undo, Transactions!End
<1>4. Mapped
  BY <1>3 DEF Mapped, Transactions!Next
<1>5. Kept
  BY <1>0, EndKeeps
<1> QED
  BY <1>4, <1>5

LEMMA KeptStep ==
  ASSUME Transactional, NEW t \in Tasks, NEW r, runtime[t].pc = "validate",
         runtime' = [runtime EXCEPT ![t] = r], UNCHANGED <<base, workspace>>,
         r.pc \in Ended3, r.end = "kept", ~ runtime[t].spilled
  PROVE  Kept /\ Mapped
<1> DEFINE S == Reach(runtime[t])
<1>0. /\ runtime[t].pc \notin {"off", "exited", "killed", "gone"} /\ r.end # "open"
      /\ UNCHANGED base /\ UNCHANGED workspace /\ Live(t)
  BY DEF Live
<1>1. t \in Mutating /\ InFlight(t)
  BY DEF Transactional, Phases, PhaseOK, Ended3, InFlight
<1>2. /\ Outcome[t] = "open" /\ Outcome' = [Outcome EXCEPT ![t] = r.end]
      /\ t \in Mutating => Settled = base /\ Settled' = workspace'
  BY <1>0, EndsSettled
<1>3. Settled' = [f \in Files |-> IF f \in S THEN <<t, runtime[t].attempt>> ELSE Settled[f]]
  BY <1>0, <1>1, <1>2, WorkspaceInFlight
<1>4. S \in (SUBSET Files) \ {{}}
  <2>1. runtime[t] \in Runtime
    BY DEF Transactional, Shape, TypeOK
  <2>2. S \in SUBSET Files
    BY <2>1 DEF Runtime, Snapshots, Reach
  <2>3. S # {}
    BY <1>1 DEF Transactional, Patches, PatchOK, Reach
  <2> QED
    BY <2>2, <2>3
<1>5. Transactions!Keep(t)
  <2> HIDE DEF S
  <2>1. \E v \in [u \in Tasks |-> {u} \X Attempts][t] :
          Settled' = [f \in Files |-> IF f \in S THEN v ELSE Settled[f]]
    BY <1>3, OwnVersion, OwnVersions
  <2> QED
    BY <1>2, <1>4, <2>1 DEF Transactions!Keep, Transactions!End
<1>6. Mapped
  BY <1>5 DEF Mapped, Transactions!Next
<1>7. Kept
  BY <1>0, EndKeeps
<1> QED
  BY <1>6, <1>7

\* A runtime that goes on.
LEMMA LiveStep ==
  ASSUME Transactional, NEW t \in Tasks, NEW r, Live(t),
         runtime' = [runtime EXCEPT ![t] = r], UNCHANGED base,
         r.pc \in {"preflight", "generate", "apply", "validate", "undo"},
         r.pc \in {"apply", "validate", "undo"} => t \in Mutating,
         r.end = runtime[t].end,
         t \notin Mutating => UNCHANGED workspace,
         t \in Mutating => PatchOK(t, r, workspace')
  PROVE  Kept /\ Mapped
<1>1. /\ runtime[t].pc \notin {"off", "gone"} /\ r.pc # "off"
      /\ runtime[t].end = "open" /\ r.end = "open"
  BY DEF Live, Transactional, Phases, PhaseOK, Ended3
<1>2. PhaseOK(t, r)
  BY <1>1 DEF PhaseOK, Ended3
<1>3. Kept
  BY <1>1, <1>2, PatchesMove DEF Kept
<1>4. UNCHANGED <<Settled, Outcome>>
  BY <1>1, StaysSettled
<1> QED
  BY <1>3, <1>4 DEF Mapped

\* What PatchOK says of a live runtime.
LEMMA LivePatch ==
  ASSUME Transactional, NEW t \in Tasks, Live(t)
  PROVE  /\ t \in Mutating => InFlight(t) /\ PatchOK(t, runtime[t], workspace)
         /\ runtime[t].pc \in {"apply", "validate", "undo"} => t \in Mutating
         /\ runtime[t].pc # "undo" => runtime[t].writing = {}
         /\ (t \in Mutating /\ runtime[t].writing = {} /\ Dirty(runtime[t]) = {}
               /\ ~ runtime[t].spilled) => workspace = base
         /\ t \in Mutating =>
              \A f \in Files : workspace[f] \in {base[f]} \cup (Own(t) \cup {Torn})
         /\ t \in Mutating /\ runtime[t].writing = {} =>
              \A f \in Files : workspace[f] \in {base[f]} \cup Own(t)
         /\ runtime[t] \in Runtime /\ DOMAIN runtime[t].snapshot \subseteq Files
<1>1. t \in Mutating => InFlight(t)
  BY DEF Live, Transactional, Phases, PhaseOK, Ended3, InFlight
<1>2. runtime[t].pc \in {"apply", "validate", "undo"} => t \in Mutating
  BY DEF Transactional, Phases, PhaseOK
<1>3. runtime[t] \in Runtime
  BY DEF Transactional, Shape, TypeOK
<1>4. DOMAIN runtime[t].snapshot \subseteq Files
  BY <1>3 DEF Runtime, Snapshots
<1>5. t \in Mutating => PatchOK(t, runtime[t], workspace)
  BY <1>1 DEF Transactional, Patches
<1>6. (t \in Mutating /\ runtime[t].writing = {} /\ Dirty(runtime[t]) = {}
         /\ ~ runtime[t].spilled) => workspace = base
  BY <1>1, WorkspaceInFlight
<1>7. t \in Mutating =>
        \A f \in Files : workspace[f] \in {base[f]} \cup (Own(t) \cup {Torn})
  BY <1>1, WorkspaceInFlight
<1>8. t \in Mutating /\ runtime[t].writing = {} =>
        \A f \in Files : workspace[f] \in {base[f]} \cup Own(t)
  BY <1>1, WorkspaceInFlight
<1>9. runtime[t].pc # "undo" => runtime[t].writing = {}
  BY DEF Transactional, Shape, RollbackOK
<1> QED
  BY <1>1, <1>2, <1>3, <1>4, <1>5, <1>6, <1>7, <1>8, <1>9

\* A runtime that ends with its patch undone, as far as it can be, or without one.
LEMMA ExitStep ==
  ASSUME Transactional, NEW t \in Tasks, NEW s, Live(t),
         Exit(t, s, "undone") \/ ExitListing(t, s, "undone"),
         UNCHANGED <<base, workspace>>, Dirty(runtime[t]) = {}, runtime[t].writing = {}
  PROVE  Kept /\ Mapped
<1>1. PICK r : /\ runtime' = [runtime EXCEPT ![t] = r] /\ r.pc = "exited"
               /\ r.end = EndOf(t, "undone")
  BY ExitsAs
<1>2. r.pc \in Ended3
  BY <1>1 DEF Ended3
<1>3. CASE runtime[t].spilled
  BY <1>1, <1>2, <1>3, SpilledStep DEF EndOf
<1>4. CASE ~ runtime[t].spilled
  BY <1>1, <1>2, <1>4, UndoneStep DEF EndOf
<1> QED
  BY <1>3, <1>4

\* A runtime that breaks off and leaves the workspace as it is.
LEMMA BreaksOff ==
  ASSUME Transactional, NEW t \in Tasks, NEW r, Live(t),
         runtime' = [runtime EXCEPT ![t] = r], r.pc \in Ended3, r.end = "broken",
         UNCHANGED <<base, workspace>>
  PROVE  Kept /\ Mapped
<1>1. workspace \in [Files -> Versions]
  BY DEF Transactional, Shape, TypeOK
<1>2. t \in Mutating =>
        \A f \in Files : workspace[f] \in {base[f]} \cup (Own(t) \cup {Torn})
  BY LivePatch
<1> QED
  BY <1>1, <1>2, BrokenStep

\* What a git apply that reaches some files makes of the workspace.
LEMMA PatchedInFlight ==
  ASSUME Transactional, NEW t \in Tasks, NEW S, Live(t), runtime[t].pc = "apply",
         workspace' = Patched(t, S)
  PROVE  /\ workspace' \in [Files -> Versions]
         /\ \A f \in Files :
              workspace'[f] = IF f \in S THEN <<t, runtime[t].attempt>> ELSE workspace[f]
         /\ \A f \in Files : workspace'[f] \in {base[f]} \cup Own(t)
<1>1. workspace' \in [Files -> Versions]
  BY PatchedType DEF Transactional, Shape
<1>2. \A f \in Files :
        workspace'[f] = IF f \in S THEN <<t, runtime[t].attempt>> ELSE workspace[f]
  BY DEF Patched
<1>3. \A f \in Files : workspace[f] \in {base[f]} \cup Own(t)
  BY LivePatch
<1>4. <<t, runtime[t].attempt>> \in Own(t)
  BY OwnVersion
<1> QED
  BY <1>1, <1>2, <1>3, <1>4

\* A live runtime that is killed.
LEMMA DiesStep ==
  ASSUME Transactional, NEW t \in Tasks, Live(t), Dies(t), UNCHANGED base
  PROVE  Kept /\ Mapped
<1> DEFINE r == [Off EXCEPT !.pc = "killed", !.end = "broken"]
<1>1. r.pc \in Ended3 /\ r.end = "broken" /\ runtime' = [runtime EXCEPT ![t] = r]
  BY DEF Off, Ended3, Dies, Live
<1> HIDE DEF r
<1>2. CASE runtime[t].pc # "apply"
  <2>1. UNCHANGED workspace
    BY <1>2 DEF Dies, Live
  <2> QED
    BY <1>1, <2>1, BreaksOff
<1>3. CASE runtime[t].pc = "apply"
  <2>1. t \in Mutating
    BY <1>3, LivePatch
  <2>2. PICK S \in SUBSET Touched(t) : workspace' = Patched(t, S)
    BY <1>3 DEF Dies
  <2>3. /\ workspace' \in [Files -> Versions]
        /\ \A f \in Files : workspace'[f] \in {base[f]} \cup (Own(t) \cup {Torn})
    BY <1>3, <2>2, PatchedInFlight
  <2> QED
    BY <1>1, <2>1, <2>3, BrokenStep
<1> QED
  BY <1>2, <1>3

\* A step that moves no runtime.
LEMMA NoStep ==
  ASSUME Transactional, UNCHANGED <<runtime, workspace, base>>
  PROVE  Kept /\ Mapped
<1>1. Kept
  BY DEF Kept, Transactional, Phases, OneAtATime, Patching, Patches, InFlight, PatchOK, Dirty, Reach
<1>2. Mapped
  BY DEF Mapped, Settled, Outcome, InFlight
<1> QED
  BY <1>1, <1>2

LEMMA StartOutcome ==
  ASSUME Transactional, NEW t \in Tasks, Start(t)
  PROVE  UNCHANGED Outcome
<1>1. runtime \in [Tasks -> Runtime]
  BY DEF Transactional, Shape, TypeOK
<1>2. \A u \in Tasks : runtime'[u].end = runtime[u].end
  BY <1>1 DEF Start, Runtime
<1> QED
  BY <1>2 DEF Outcome

\* A patching runtime starts when no other one is alive: its base is the workspace.
LEMMA StartStep ==
  ASSUME MaxPatching = 1, Transactional, NEW t \in Tasks, Start(t)
  PROVE  Kept /\ Mapped
<1>0. /\ runtime \in [Tasks -> Runtime] /\ Mutating \subseteq Tasks
      /\ runtime[t].pc = "off" /\ runtime[t] = Off /\ UNCHANGED workspace
  BY ConstantsAssumption DEF Start, Transactional, Shape, Calls, TypeOK, Phases, PhaseOK
<1>1. /\ runtime'[t] = [Off EXCEPT !.pc = "preflight"]
      /\ \A u \in Tasks \ {t} : runtime'[u] = runtime[u]
  BY <1>0 DEF Start
<1>2. runtime'[t].pc = "preflight" /\ runtime'[t].end = "open"
      /\ runtime'[t].snapshot = <<>>
  BY <1>1 DEF Off
<1>3. Phases'
  BY <1>0, <1>1, <1>2 DEF Phases, PhaseOK, Ended3, Transactional
<1>4. t \in Mutating => Patching = {}
  <2> SUFFICES ASSUME t \in Mutating PROVE Patching = {}
    OBVIOUS
  <2>1. IsFiniteSet(Patching) /\ Cardinality(Patching) < 1
    <3>1. Patching \subseteq Tasks
      BY <1>0 DEF Patching
    <3> QED
      BY <3>1, FS_Subset, ConstantsAssumption DEF Start
  <2>2. Cardinality(Patching) \in Nat
    BY <2>1, FS_CardinalityType
  <2>3. Cardinality(Patching) = 0
    BY <2>1, <2>2
  <2> QED
    BY <2>1, <2>3, FS_EmptySet
<1>5. CASE t \notin Mutating
  <2>1. Patching' = Patching /\ \A u \in Tasks : InFlight(u)' <=> InFlight(u)
    BY <1>0, <1>1, <1>5 DEF Patching, InFlight
  <2>2. UNCHANGED base
    BY <1>5 DEF Start
  <2>3. OneAtATime' /\ Patches'
    BY <1>0, <1>1, <1>5, <2>1, <2>2
       DEF OneAtATime, Patches, PatchOK, Dirty, Reach, InFlight, Transactional
  <2>4. UNCHANGED Settled
    BY <1>0, <2>1, <2>2 DEF Settled
  <2> QED
    BY <1>3, <2>3, <2>4, StartOutcome DEF Kept, Mapped
<1>6. CASE t \in Mutating
  <2>1. Patching' \subseteq {t} /\ \A u \in Tasks \ {t} : ~ InFlight(u) /\ ~ InFlight(u)'
    BY <1>0, <1>1, <1>4, <1>6
       DEF Patching, InFlight, Transactional, Phases, PhaseOK, Ended3
  <2>2. ~ InFlight(t) /\ InFlight(t)'
    BY <1>0, <1>2, <1>6 DEF InFlight
  <2>3. base' = workspace
    BY <1>6 DEF Start
  <2>4. PatchOK(t, runtime[t], workspace)'
    <3>1. DOMAIN <<>> = {}
      OBVIOUS
    <3> QED
      BY <1>0, <1>2, <2>3, <3>1 DEF PatchOK, Reach
  <2>5. OneAtATime' /\ Patches'
    BY <2>1, <2>4 DEF OneAtATime, Patches
  <2>6. UNCHANGED Settled
    BY <1>0, <2>1, <2>2, <2>3 DEF Settled
  <2> QED
    BY <1>3, <2>5, <2>6, StartOutcome DEF Kept, Mapped
<1> QED
  BY <1>5, <1>6

\* The steps of the host other than Start.
LEMMA HostMapped ==
  ASSUME Transactional, NEW t \in Tasks,
         HostStep(t) \/ SpawnError(t) \/ StoreFails(t)
  PROVE  Kept /\ Mapped
<1>0. /\ runtime \in [Tasks -> Runtime] /\ runtime[t] \in Runtime
      /\ PhaseOK(t, runtime[t])
  BY DEF Transactional, Shape, TypeOK, Phases
<1>1. CASE SpawnError(t)
  <2> DEFINE r == [Off EXCEPT !.pc = "gone", !.end = "broken"]
  <2>1. r.pc \in Ended3 /\ r.end = "broken" /\ runtime' = [runtime EXCEPT ![t] = r]
    BY <1>1 DEF SpawnError, Off, Ended3
  <2>2. UNCHANGED <<base, workspace>> /\ Live(t)
    BY <1>1 DEF SpawnError, Live
  <2> HIDE DEF r
  <2> QED
    BY <2>1, <2>2, BreaksOff
<1>2. CASE Timeout(t)
  <2>1. UNCHANGED base /\ Dies(t) /\ runtime[t].pc \notin {"off", "gone"}
    BY <1>2 DEF Timeout, Transactional, Shape, Calls
  <2>2. CASE runtime[t].pc \in {"exited", "killed"}
    BY <2>1, <2>2, NoStep DEF Dies
  <2>3. CASE runtime[t].pc \notin {"exited", "killed"}
    BY <1>0, <2>1, <2>3, DiesStep DEF Live, Runtime
  <2> QED
    BY <2>2, <2>3
<1>3. CASE Close(t)
  <2> DEFINE r == [runtime[t] EXCEPT !.pc = "gone", !.result = None]
  <2>1. /\ runtime' = [runtime EXCEPT ![t] = r] /\ UNCHANGED base
        /\ runtime[t].pc \notin {"off", "gone"} /\ UNCHANGED workspace
    BY <1>3 DEF Close
  <2>2. r.pc = "gone" /\ r.end = runtime[t].end /\ r.end # "open"
    BY <1>0, <1>3 DEF Close, Runtime, PhaseOK, Ended3
  <2>3. PhaseOK(t, r)
    BY <2>2 DEF PhaseOK, Ended3
  <2> HIDE DEF r
  <2>4. Kept
    BY <2>1, <2>2, <2>3, PatchesMove DEF Kept
  <2>5. UNCHANGED <<Settled, Outcome>>
    BY <2>1, <2>2, StaysSettled
  <2> QED
    BY <2>4, <2>5 DEF Mapped
<1>4. CASE Return(t) \/ StoreFails(t) \/ RecordTrace(t)
           \/ \E i \in 1 .. MaxTexts : SaveFile(t, i) \/ SaveRow(t, i)
  BY <1>4, NoStep DEF Return, StoreFails, RecordTrace, SaveFile, SaveRow
<1> QED
  BY <1>1, <1>2, <1>3, <1>4 DEF HostStep

\* The steps of a runtime.
LEMMA RuntimeMapped ==
  ASSUME Transactional, NEW t \in Tasks,
         RuntimeStep(t) \/ UndoFails(t) \/ RuntimeDies(t)
  PROVE  Kept /\ Mapped
<1>0. /\ runtime \in [Tasks -> Runtime] /\ runtime[t] \in Runtime
      /\ PhaseOK(t, runtime[t]) /\ RollbackOK(runtime[t])
      /\ workspace \in [Files -> Versions]
  BY DEF Transactional, Shape, TypeOK, Phases
<1>1. Live(t) /\ runtime[t].end = "open" /\ UNCHANGED base
  BY <1>0 DEF RuntimeStep, UndoFails, RuntimeDies, Preflight, Advise, Generate,
              ApplyPatch, Validate, TruncateFile, RestoreFile, Undone, Live, PhaseOK, Ended3
<1>2. /\ t \in Mutating => PatchOK(t, runtime[t], workspace)
      /\ runtime[t].pc \in {"apply", "validate", "undo"} => t \in Mutating
      /\ runtime[t].pc # "undo" => runtime[t].writing = {}
      /\ DOMAIN runtime[t].snapshot \subseteq Files
  BY <1>1, LivePatch
<1>3. CASE Preflight(t)
  <2>1. /\ Dirty(runtime[t]) = {} /\ UNCHANGED <<base, workspace>>
        /\ runtime[t].writing = {}
    BY <1>2, <1>3 DEF Preflight, Dirty
  <2>2. CASE runtime' = [runtime EXCEPT ![t].pc = "generate"]
    <3> DEFINE r == [runtime[t] EXCEPT !.pc = "generate"]
    <3>1. /\ r.pc = "generate" /\ r.end = runtime[t].end
          /\ r.snapshot = runtime[t].snapshot /\ r.attempt = runtime[t].attempt
          /\ r.writing = runtime[t].writing /\ r.spilled = runtime[t].spilled
          /\ runtime' = [runtime EXCEPT ![t] = r]
      BY <1>0, <2>2 DEF Runtime
    <3> HIDE DEF r
    <3>2. t \in Mutating => PatchOK(t, r, workspace')
      BY <1>2, <2>1, <3>1 DEF PatchOK, Dirty, Reach
    <3> QED
      BY <1>1, <2>1, <3>1, <3>2, LiveStep
  <2>3. CASE \E s : Exit(t, s, "undone")
    BY <1>1, <2>1, <2>3, ExitStep
  <2> QED
    BY <1>3, <2>2, <2>3 DEF Preflight
<1>4. CASE Advise(t)
  <2>1. /\ Dirty(runtime[t]) = {} /\ UNCHANGED <<base, workspace>>
        /\ runtime[t].writing = {}
    BY <1>2, <1>4 DEF Advise, Dirty
  <2> QED
    BY <1>1, <1>4, <2>1, ExitStep DEF Advise
<1>5. CASE Generate(t)
  <2>1. /\ Dirty(runtime[t]) = {} /\ UNCHANGED <<base, workspace>>
        /\ t \in Mutating /\ runtime[t].writing = {}
    BY <1>2, <1>5 DEF Generate, Dirty
  <2>2. ASSUME NEW S \in (SUBSET Files) \ {{}}, NEW D \in SUBSET Files,
               runtime' = [runtime EXCEPT ![t].pc = "apply", ![t].outside = D,
                                          ![t].snapshot = [f \in S |-> workspace[f]]]
        PROVE  Kept /\ Mapped
    <3> DEFINE r == [runtime[t] EXCEPT !.pc = "apply", !.outside = D,
                                       !.snapshot = [f \in S |-> workspace[f]]]
    <3>1. /\ r.pc = "apply" /\ r.end = runtime[t].end
          /\ r.snapshot = [f \in S |-> workspace[f]]
          /\ r.writing = {} /\ r.spilled = runtime[t].spilled
          /\ runtime' = [runtime EXCEPT ![t] = r]
      BY <1>0, <2>1, <2>2 DEF Runtime
    <3> HIDE DEF r
    <3>2. DOMAIN r.snapshot = S /\ \A f \in S : r.snapshot[f] = workspace[f]
      BY <3>1
    <3>3. \A f \in Files :
            workspace[f] = base[f] \/ (r.spilled /\ workspace[f] \in Own(t))
      BY <1>2, <2>1, <3>1 DEF PatchOK
    <3>4. PatchOK(t, r, workspace')
      BY <2>1, <3>1, <3>2, <3>3 DEF PatchOK, Dirty
    <3> QED
      BY <1>1, <2>1, <3>1, <3>4, LiveStep
  <2>3. CASE \E s : Exit(t, s, "undone") \/ ExitListing(t, s, "undone")
    BY <1>1, <2>1, <2>3, ExitStep
  <2>4. CASE \E S \in (SUBSET Files) \ {{}}, D \in SUBSET Files :
               /\ S \cap D = {}
               /\ runtime' = [runtime EXCEPT ![t].pc = "apply", ![t].outside = D,
                                             ![t].snapshot = [f \in S |-> workspace[f]]]
    <3> HIDE DEF Kept, Mapped
    <3> QED
      BY <2>2, <2>4
  <2> QED
    BY <1>5, <2>3, <2>4 DEF Generate
<1>6. CASE ApplyPatch(t)
  <2>1. /\ Dirty(runtime[t]) = {} /\ t \in Mutating /\ runtime[t].writing = {}
        /\ runtime[t].pc = "apply" /\ Touched(t) = Reach(runtime[t])
    BY <1>2, <1>6 DEF ApplyPatch, Dirty, Touched, Reach
  <2>2. CASE ExitListing(t, "escalate", "undone") /\ UNCHANGED workspace
    BY <1>1, <2>1, <2>2, ExitStep
  <2>3. /\ DOMAIN runtime[t].snapshot # {}
        /\ \A f \in DOMAIN runtime[t].snapshot :
             \/ runtime[t].snapshot[f] = base[f]
             \/ runtime[t].spilled /\ runtime[t].snapshot[f] \in Own(t)
        /\ \A f \in Files :
             workspace[f] = base[f] \/ (runtime[t].spilled /\ workspace[f] \in Own(t))
    BY <1>2, <2>1 DEF PatchOK
  <2>4. <<t, runtime[t].attempt>> \in Own(t) /\ Reach(runtime[t]) \subseteq Files
    BY <1>0, OwnVersion DEF Reach, Runtime, Snapshots
  <2>5. CASE /\ workspace' = Patched(t, Touched(t))
             /\ runtime' = [runtime EXCEPT ![t].pc = "validate", ![t].applied = TRUE]
    <3> DEFINE r == [runtime[t] EXCEPT !.pc = "validate", !.applied = TRUE]
    <3>1. /\ r.pc = "validate" /\ r.end = runtime[t].end
          /\ r.snapshot = runtime[t].snapshot /\ r.attempt = runtime[t].attempt
          /\ r.outside = runtime[t].outside
          /\ r.writing = {} /\ r.spilled = runtime[t].spilled
          /\ runtime' = [runtime EXCEPT ![t] = r]
      BY <1>0, <2>1, <2>5 DEF Runtime
    <3> HIDE DEF r
    <3>2. \A f \in Files : workspace'[f] = IF f \in Reach(r) THEN <<t, runtime[t].attempt>>
                                           ELSE workspace[f]
      BY <1>1, <2>1, <2>5, <3>1, PatchedInFlight DEF Reach
    <3>3. Dirty(r) = Reach(r) /\ Reach(r) \subseteq Files
      BY <2>4, <3>1 DEF Dirty, Reach
    <3>4. PatchOK(t, r, workspace')
      BY <2>3, <2>4, <3>1, <3>2, <3>3 DEF PatchOK
    <3> QED
      BY <1>1, <2>1, <3>1, <3>4, LiveStep
  <2>6. ASSUME NEW part \in SUBSET Touched(t), workspace' = Patched(t, part),
               runtime' = [runtime EXCEPT ![t] = RollBack(runtime[t], part, "apply")]
        PROVE  Kept /\ Mapped
    <3> DEFINE r == RollBack(runtime[t], part, "apply")
    <3>1. /\ r.pc = "undo" /\ r.end = runtime[t].end /\ r.todo = DOMAIN runtime[t].snapshot
          /\ r.snapshot = runtime[t].snapshot
          /\ ~ r.spilled => ~ runtime[t].spilled /\ part \cap runtime[t].outside = {}
          /\ runtime' = [runtime EXCEPT ![t] = r]
      BY <1>0, <2>6, RollBackRecord
    <3> HIDE DEF r
    <3>2. \A f \in Files : workspace'[f] = IF f \in part THEN <<t, runtime[t].attempt>>
                                           ELSE workspace[f]
      BY <1>1, <2>1, <2>6, PatchedInFlight
    <3>3. ~ r.spilled => part \subseteq Dirty(r)
      BY <2>1, <3>1 DEF Dirty, Reach
    <3>4. PatchOK(t, r, workspace')
      BY <2>3, <2>4, <3>1, <3>2, <3>3 DEF PatchOK
    <3> QED
      BY <1>1, <2>1, <3>1, <3>4, LiveStep
  <2> QED
    BY <1>6, <2>2, <2>5, <2>6 DEF ApplyPatch
<1>7. CASE Validate(t)
  <2>1. /\ t \in Mutating /\ UNCHANGED <<base, workspace>> /\ runtime[t].pc = "validate"
        /\ runtime[t].writing = {} /\ Touched(t) = Reach(runtime[t])
    BY <1>2, <1>7 DEF Validate, Touched, Reach
  <2>2. CASE ExitListing(t, "success", "kept")
    <3>1. PICK r : /\ runtime' = [runtime EXCEPT ![t] = r] /\ r.pc = "exited"
                   /\ r.end = EndOf(t, "kept")
      BY <2>2, ExitsAs
    <3>2. r.pc \in Ended3
      BY <3>1 DEF Ended3
    <3>3. CASE runtime[t].spilled
      BY <1>1, <2>1, <3>1, <3>2, <3>3, SpilledStep DEF EndOf
    <3>4. CASE ~ runtime[t].spilled
      BY <2>1, <3>1, <3>2, <3>4, KeptStep DEF EndOf
    <3> QED
      BY <3>3, <3>4
  <2>3. ASSUME NEW failed \in {runtime[t].failed, runtime[t].failed \cup {runtime[t].attempt}},
               runtime' = [runtime EXCEPT
                             ![t] = AfterFailure(t, [runtime[t] EXCEPT !.failed = failed])]
        PROVE  Kept /\ Mapped
    <3> DEFINE q == [runtime[t] EXCEPT !.failed = failed]
               r == AfterFailure(t, q)
    <3>1. /\ q \in Runtime /\ q.end = runtime[t].end /\ q.snapshot = runtime[t].snapshot
          /\ q.outside = runtime[t].outside /\ q.writing = {}
          /\ q.spilled = runtime[t].spilled
      BY <1>0, <2>1 DEF Runtime
    <3>2. runtime' = [runtime EXCEPT ![t] = r]
      BY <2>3
    <3> HIDE DEF q
    <3>3. \/ r = RollBack(q, Touched(t), "validation") \/ r = RollBack(q, Touched(t), "retry")
      BY <3>1, AfterRecord
    <3> HIDE DEF r
    <3>4. /\ r.pc = "undo" /\ r.end = runtime[t].end /\ r.todo = DOMAIN runtime[t].snapshot
          /\ r.snapshot = runtime[t].snapshot
          /\ ~ r.spilled => ~ runtime[t].spilled /\ Touched(t) \cap runtime[t].outside = {}
      BY <3>1, <3>3, RollBackRecord
    <3>5. Dirty(runtime[t]) = Reach(runtime[t]) /\ Dirty(r) = DOMAIN runtime[t].snapshot
      BY <2>1, <3>4 DEF Dirty
    <3>6. ~ r.spilled => ~ runtime[t].spilled /\ Dirty(runtime[t]) = Dirty(r)
      BY <2>1, <3>4, <3>5 DEF Reach
    <3>7. PatchOK(t, runtime[t], workspace)
      BY <1>2, <2>1
    <3>8. PatchOK(t, r, workspace')
      BY <2>1, <3>4, <3>6, <3>7 DEF PatchOK
    <3> QED
      BY <1>1, <2>1, <3>2, <3>4, <3>8, LiveStep
  <2> QED
    BY <1>7, <2>2, <2>3 DEF Validate
<1>8. ASSUME NEW f \in Files, TruncateFile(t, f) PROVE Kept /\ Mapped
  <2> DEFINE r == [runtime[t] EXCEPT !.writing = {f}]
  <2>1. /\ runtime[t].pc = "undo" /\ t \in Mutating /\ runtime[t].writing = {}
        /\ r.pc = "undo" /\ r.end = runtime[t].end /\ r.todo = runtime[t].todo
        /\ r.snapshot = runtime[t].snapshot /\ r.writing = {f}
        /\ r.spilled = runtime[t].spilled
        /\ runtime' = [runtime EXCEPT ![t] = r]
    BY <1>0, <1>2, <1>8 DEF Runtime, TruncateFile
  <2> HIDE DEF r
  <2>2. workspace'[f] = Torn /\ \A g \in Files \ {f} : workspace'[g] = workspace[g]
    BY <1>0, <1>8 DEF TruncateFile
  <2>3. Dirty(r) = Dirty(runtime[t])
    BY <2>1 DEF Dirty
  <2>4. PatchOK(t, r, workspace')
    BY <1>2, <2>1, <2>2, <2>3 DEF PatchOK
  <2> QED
    BY <1>1, <2>1, <2>4, LiveStep
<1>12. ASSUME NEW f \in Files, RestoreFile(t, f) PROVE Kept /\ Mapped
  <2> DEFINE r == [runtime[t] EXCEPT !.todo = @ \ {f}, !.writing = {}]
  <2>1. /\ runtime[t].pc = "undo" /\ t \in Mutating
        /\ r.pc = "undo" /\ r.end = runtime[t].end /\ r.todo = runtime[t].todo \ {f}
        /\ r.snapshot = runtime[t].snapshot /\ r.writing = {}
        /\ r.spilled = runtime[t].spilled
        /\ runtime' = [runtime EXCEPT ![t] = r]
    BY <1>0, <1>2, <1>12 DEF Runtime, RestoreFile
  <2> HIDE DEF r
  <2>2. f \in DOMAIN runtime[t].snapshot /\ runtime[t].writing \subseteq {f}
    BY <1>0, <1>12 DEF RestoreFile, RollbackOK
  <2>3. /\ workspace'[f] = runtime[t].snapshot[f]
        /\ \A g \in Files \ {f} : workspace'[g] = workspace[g]
    BY <1>0, <1>12 DEF RestoreFile
  <2>4. Dirty(r) = Dirty(runtime[t]) \ {f}
    BY <2>1 DEF Dirty
  <2>5. PatchOK(t, runtime[t], workspace)
    BY <1>2, <2>1
  <2>6. PatchOK(t, r, workspace')
    BY <2>1, <2>2, <2>3, <2>4, <2>5 DEF PatchOK
  <2> QED
    BY <1>1, <2>1, <2>6, LiveStep
<1>9. CASE Undone(t)
  <2>1. /\ Dirty(runtime[t]) = {} /\ t \in Mutating /\ runtime[t].writing = {}
        /\ UNCHANGED <<base, workspace>>
    BY <1>0, <1>2, <1>9 DEF Undone, Dirty, RollbackOK
  <2>2. CASE ExitListing(t, "escalate", "undone")
    BY <1>1, <2>1, <2>2, ExitStep
  <2>3. CASE runtime' = [runtime EXCEPT ![t] = [runtime[t] EXCEPT
                           !.pc = "generate", !.attempt = @ + 1, !.snapshot = <<>>,
                           !.outside = {}]]
    <3> DEFINE r == [runtime[t] EXCEPT !.pc = "generate", !.attempt = @ + 1,
                                       !.snapshot = <<>>, !.outside = {}]
    <3>1. /\ r.pc = "generate" /\ r.end = runtime[t].end /\ r.snapshot = <<>>
          /\ r.writing = {} /\ r.spilled = runtime[t].spilled
          /\ runtime' = [runtime EXCEPT ![t] = r]
      BY <1>0, <2>1, <2>3 DEF Runtime
    <3> HIDE DEF r
    <3>2. DOMAIN <<>> = {}
      OBVIOUS
    <3>3. \A f \in Files :
            workspace[f] = base[f] \/ (r.spilled /\ workspace[f] \in Own(t))
      BY <1>2, <2>1, <3>1 DEF PatchOK
    <3>4. PatchOK(t, r, workspace')
      BY <2>1, <3>1, <3>2, <3>3 DEF PatchOK
    <3> QED
      BY <1>1, <2>1, <3>1, <3>4, LiveStep
  <2> QED
    BY <1>9, <2>2, <2>3 DEF Undone
<1>10. CASE UndoFails(t)
  <2>1. PICK r : /\ runtime' = [runtime EXCEPT ![t] = r] /\ r.pc = "exited"
                 /\ r.end = EndOf(t, "broken")
    BY <1>10, ExitsAs DEF UndoFails
  <2>2. r.pc \in Ended3 /\ r.end = "broken"
    BY <2>1 DEF Ended3, EndOf
  <2>3. UNCHANGED <<base, workspace>>
    BY <1>10 DEF UndoFails
  <2> QED
    BY <1>1, <2>1, <2>2, <2>3, BreaksOff
<1>11. CASE RuntimeDies(t)
  BY <1>1, <1>11, DiesStep DEF RuntimeDies
<1> QED
  BY <1>3, <1>4, <1>5, <1>6, <1>7, <1>8, <1>9, <1>10, <1>11, <1>12
     DEF RuntimeStep

\* Init, and every step, map to the abstract specification.
LEMMA TransactionalNext ==
  ASSUME MaxPatching = 1, Transactional, [Next]_vars
  PROVE  Kept /\ Mapped
<1>1. CASE UNCHANGED vars \/ HostCrash
  BY <1>1, NoStep DEF vars, HostCrash
<1>2. ASSUME NEW t \in Tasks, Start(t) PROVE Kept /\ Mapped
  BY <1>2, StartStep
<1>3. ASSUME NEW t \in Tasks, HostStep(t) \/ SpawnError(t) \/ StoreFails(t)
      PROVE  Kept /\ Mapped
  BY <1>3, HostMapped
<1>4. ASSUME NEW t \in Tasks, RuntimeStep(t) \/ UndoFails(t) \/ RuntimeDies(t)
      PROVE  Kept /\ Mapped
  BY <1>4, RuntimeMapped
<1> QED
  BY <1>1, <1>2, <1>3, <1>4 DEF Next

LEMMA TransactionalInit ==
  ASSUME Init
  PROVE  Phases /\ OneAtATime /\ Patches /\ Transactions!Init
<1>1. \A t \in Tasks : runtime[t].pc = "off" /\ runtime[t].end = "open"
  BY DEF Init, Off
<1>2. Phases
  BY <1>1 DEF Init, Phases, PhaseOK, Ended3
<1>3. Patching = {} /\ \A t \in Tasks : ~ InFlight(t)
  BY <1>1, ConstantsAssumption DEF Patching, InFlight
<1>4. Settled = [f \in Files |-> Original] /\ Outcome = [t \in Tasks |-> "open"]
  BY <1>1, <1>3 DEF Init, Settled, Outcome
<1> QED
  BY <1>2, <1>3, <1>4 DEF OneAtATime, Patches, Transactions!Init

\* With one patching runtime at a time, every task is a transaction on the
\* workspace: whatever attempt its patch fails at, the workspace holds one patch of
\* its own or what was there before; unless it is killed or a rollback fails, which
\* may leave torn files, or it rolls back a patch that has changed files its
\* manifest does not name, which keep a text of the task.
THEOREM WorkspaceIsTransactional == MaxPatching = 1 => (Spec => ImplementsTransactions)
<1> SUFFICES ASSUME MaxPatching = 1 PROVE Spec => ImplementsTransactions
  OBVIOUS
<1>1. Init => Phases /\ OneAtATime /\ Patches /\ Transactions!Init
  BY TransactionalInit
<1>2. Shape /\ Phases /\ OneAtATime /\ Patches /\ [Next]_vars
        => Phases' /\ OneAtATime' /\ Patches' /\ [Transactions!Next]_Transactions!vars
  BY TransactionalNext DEF Transactional, Kept, Mapped, Transactions!vars
<1> QED
  BY <1>1, <1>2, ShapeInvariant, PTL DEF Spec, ImplementsTransactions, Transactions!Spec
=============================================================================
