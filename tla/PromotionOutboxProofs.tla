----------------------- MODULE PromotionOutboxProofs -----------------------
(***************************************************************************)
(* Theorems about PromotionOutbox, for every value of its constants.       *)
(*                                                                         *)
(* Shape strengthens TypeOK with what each call refers to; Progress adds   *)
(* what each call has already written.  Both look at a call through        *)
(* operators of its record and of the stores, so that the calls that do    *)
(* not move are covered by two lemmas, CallKept and DoneKept.              *)
(*                                                                         *)
(* The next parts are about the order of promotions.  Alone, for one       *)
(* worker at a time, and Apart, for any number that never replay, say that *)
(* a call that has claimed an entry finds it open.  Copies (what the       *)
(* copies of a note say) and History (what is superseded by now) follow    *)
(* from either, wherever the notes are written.                            *)
(*                                                                         *)
(* The last part is about one worker at a time and paths made from ids:    *)
(* Circulation (which versions of a note are ever written), Settled (where *)
(* they agree) and Described (what a snapshot may point at).               *)
(***************************************************************************)
EXTENDS PromotionOutbox, TLAPS, FiniteSetTheorems, FunctionTheorems, SequenceTheorems

Deciding == {"created", "checking", "listing", "enqueue"}
Applying == {"file", "row", "clear", "fill"}
Recording == {"draft", "draftRow", "complete", "audit"}
Processing == Applying \cup Recording \cup {"claim", "record", "failing"}

\* What the record of a call refers to exists in the outbox.
CallOK(p, box) ==
  /\ p \in Proc
  /\ p.todo \subseteq 1 .. Len(box)
  /\ p.pc \in Deciding => p.plan \in Plan
  /\ p.pc \in Processing => p.entry \in 1 .. Len(box)
  /\ p.pc \in Applying => p.pos \in 1 .. Len(box[p.entry].writes)
  /\ p.pc \in {"clear", "fill"} => p.store \in 1 .. Len(Stores)

\* The writes of an entry include the note it promotes.
OwnNotes(box) ==
  \A e \in 1 .. Len(box) : \E i \in 1 .. Len(box[e].writes) : box[e].writes[i].id = NoteId(e)

Shape ==
  /\ TypeOK
  /\ IsFiniteSet(DOMAIN vault)
  /\ OwnNotes(outbox)
  /\ \A w \in Workers : CallOK(proc[w], outbox)

\* The outbox box2 has the entries of box, up to their states.
Kept(box, box2) ==
  /\ Len(box) <= Len(box2)
  /\ \A e \in 1 .. Len(box) : /\ box2[e].writes = box[e].writes
                              /\ box2[e].draft = box[e].draft
                              /\ box2[e].body = box[e].body
                              /\ box2[e].current = box[e].current
                              /\ box2[e].after = box[e].after

-----------------------------------------------------------------------------
(* Sequences, functions and records of the model.                          *)

\* A function on 1 .. n is a sequence.
LEMMA FunctionIsSeq ==
  ASSUME NEW S, NEW n \in Nat, NEW f \in [1 .. n -> S]
  PROVE  f \in Seq(S) /\ Len(f) = n
OBVIOUS

\* A directory listing of finitely many notes is a sequence of notes.
LEMMA OrderingIsSeq ==
  ASSUME NEW S, IsFiniteSet(S), S \subseteq Note, NEW f \in Orderings(S)
  PROVE  f \in Seq(Note)
<1>1. Cardinality(S) \in Nat
  BY FS_CardinalityType
<1>2. f \in [1 .. Cardinality(S) -> Note]
  BY DEF Orderings
<1> QED
  BY <1>1, <1>2, FunctionIsSeq

\* The writes of a payload are notes, the promoted one among them.
LEMMA WritesAreNotes ==
  ASSUME NEW plan \in Plan, NEW e \in Entries
  PROVE  /\ CanonicalWrites(plan, e) \in Seq(Note)
         /\ \E i \in 1 .. Len(CanonicalWrites(plan, e)) :
              CanonicalWrites(plan, e)[i].id = NoteId(e)
<1> DEFINE old == Len(plan.older)
           n == CanonicalNote(plan, e)
           new == IF plan.current THEN 2 ELSE 1
           len == old + new
           f == CanonicalWrites(plan, e)
<1>1. plan.older \in Seq(Note) /\ old \in Nat
  BY LenProperties DEF Plan
<1>2. \A i \in 1 .. old : Superseded(plan.older[i], e) \in Note
  <2>1. ASSUME NEW m \in Note PROVE Superseded(m, e) \in Note
    BY DEF Superseded, Note
  <2> QED
    BY <1>1, <2>1, ElementOfSeq
<1>3. n \in Note /\ n.id = NoteId(e)
  BY DEF CanonicalNote, Note, Plan, Paths, NoteIds
<1>4. SnapshotNote(n) \in Note
  BY <1>3, ConstantsAssumption DEF SnapshotNote, Note, Paths, NoteIds
<1>5. f = [i \in 1 .. len |-> IF i <= old THEN Superseded(plan.older[i], e)
                              ELSE IF i = old + 1 THEN n ELSE SnapshotNote(n)]
  BY Zenon DEF CanonicalWrites
<1>6. len \in Nat /\ old + 1 \in 1 .. len
  <2>1. new \in 1 .. 2
    OBVIOUS
  <2> HIDE DEF new, old
  <2> QED
    BY <1>1, <2>1
<1> HIDE DEF f, n, old, len
<1>7. f \in [1 .. len -> Note]
  BY <1>1, <1>2, <1>3, <1>4, <1>5, <1>6
<1>8. f \in Seq(Note) /\ Len(f) = len
  BY <1>6, <1>7, FunctionIsSeq
<1>9. f[old + 1] = n
  BY <1>1, <1>5, <1>6
<1> QED
  BY <1>3, <1>6, <1>8, <1>9 DEF f

-----------------------------------------------------------------------------
(* Calls that do not move, and calls that return.                          *)

\* A call stays in order when entries change state or are appended.
LEMMA CallKept ==
  ASSUME NEW box, NEW box2, Len(box) \in Nat, Len(box2) \in Nat, Kept(box, box2),
         NEW p, CallOK(p, box)
  PROVE  CallOK(p, box2)
<1>1. 1 .. Len(box) \subseteq 1 .. Len(box2)
  BY DEF Kept
<1>2. p.pc \in Processing => box2[p.entry].writes = box[p.entry].writes
  BY DEF Kept, CallOK
<1>3. p.pc \in Applying => p.pc \in Processing
  BY DEF Processing
<1> QED
  BY <1>1, <1>2, <1>3 DEF CallOK

\* An idle call is in order.
LEMMA IdleOK ==
  ASSUME NEW box PROVE CallOK(Idle, box)
BY DEF CallOK, Idle, Proc, Labels, Deciding, Applying, Recording, Processing

\* So is one that returns from processPromotionOutboxEntry.
LEMMA ReturnedOK ==
  ASSUME NEW box, NEW p, CallOK(p, box)
  PROVE  CallOK(Returned(p), box)
<1>1. CASE p.replaying
  BY <1>1 DEF Returned, CallOK, Proc, Labels, Deciding, Applying, Recording, Processing
<1>2. CASE ~ p.replaying
  BY <1>2, IdleOK DEF Returned
<1> QED
  BY <1>1, <1>2

\* A call goes on to the next store of its note ...
LEMMA NextStoreOK ==
  ASSUME NEW box, NEW p, CallOK(p, box), p.pc \in Applying, NEW i \in 1 .. Len(Stores)
  PROVE  CallOK([p EXCEPT !.pc = "clear", !.store = i], box)
<1>1. i \in Nat
  OBVIOUS
<1> QED
  BY <1>1 DEF CallOK, Proc, Labels, Deciding, Applying, Recording, Processing

\* ... and to the next note of its entry.
LEMMA NextNoteOK ==
  ASSUME NEW box, NEW p, CallOK(p, box), p.pc \in Applying,
         NEW i \in 1 .. Len(box[p.entry].writes)
  PROVE  CallOK([p EXCEPT !.pc = "file", !.pos = i, !.store = 0], box)
<1>1. i \in Nat
  OBVIOUS
<1> QED
  BY <1>1 DEF CallOK, Proc, Labels, Deciding, Applying, Recording, Processing

\* An entry changes its state only.
LEMMA StateKept ==
  ASSUME outbox \in Seq(Entry), NEW STATE e, e \in 1 .. Len(outbox),
         NEW s \in {"pending", "processing", "failed", "completed"}, SetState(e, s)
  PROVE  outbox' \in Seq(Entry) /\ Len(outbox') = Len(outbox) /\ Kept(outbox, outbox')
<1> DEFINE x == [outbox[e] EXCEPT !.state = s]
<1>1. outbox[e] \in Entry
  BY ElementOfSeq
<1>2. /\ x \in Entry /\ x.writes = outbox[e].writes
      /\ x.draft = outbox[e].draft /\ x.body = outbox[e].body
      /\ x.current = outbox[e].current /\ x.after = outbox[e].after
  BY <1>1 DEF Entry
<1>3. outbox' = [outbox EXCEPT ![e] = x]
  BY DEF SetState
<1> HIDE DEF x
<1>4. /\ outbox' \in Seq(Entry) /\ Len(outbox') = Len(outbox)
      /\ \A j \in 1 .. Len(outbox) : outbox'[j] = IF j = e THEN x ELSE outbox[j]
  BY <1>2, <1>3, ExceptSeq
<1>5. Len(outbox) \in Nat
  BY LenProperties
<1>6. Kept(outbox, outbox')
  BY <1>2, <1>4, <1>5 DEF Kept
<1> QED
  BY <1>4, <1>6

\* One call moves: the others keep their records.
LEMMA OneCallMoves ==
  ASSUME Shape, NEW w \in Workers, proc' = [proc EXCEPT ![w] = proc'[w]],
         outbox' \in Seq(Entry), Kept(outbox, outbox'), CallOK(proc'[w], outbox')
  PROVE  /\ \A v \in Workers \ {w} : proc'[v] = proc[v]
         /\ \A v \in Workers : CallOK(proc'[v], outbox')
         /\ DOMAIN proc' = Workers /\ \A v \in Workers : proc'[v] \in Proc
<1>1. Len(outbox) \in Nat /\ Len(outbox') \in Nat
  BY LenProperties DEF Shape, TypeOK, OutboxOK
<1>2. DOMAIN proc' = Workers /\ \A v \in Workers \ {w} : proc'[v] = proc[v]
  BY DEF Shape, TypeOK, CallsOK
<1>3. \A v \in Workers : CallOK(proc'[v], outbox')
  BY <1>1, <1>2, CallKept DEF Shape
<1> QED
  BY <1>2, <1>3 DEF CallOK

\* Become(w, p) moves call w to p.
LEMMA BecomeMoves ==
  ASSUME Shape, NEW w \in Workers, NEW STATE p, Become(w, p)
  PROVE  proc'[w] = p /\ proc' = [proc EXCEPT ![w] = proc'[w]]
BY DEF Become, Shape, TypeOK, CallsOK

\* The rest of Shape, for a step of one call that keeps the outbox.
LEMMA QuietOutbox ==
  ASSUME Shape, UNCHANGED outbox
  PROVE  /\ outbox' \in Seq(Entry) /\ Kept(outbox, outbox') /\ Len(outbox') = Len(outbox)
         /\ OwnNotes(outbox')
BY LenProperties DEF Shape, TypeOK, OutboxOK, Kept, OwnNotes

\* Shape after the step of one call, from its parts.
LEMMA ShapeMoves ==
  ASSUME Shape, NEW w \in Workers, NEW STATE p, Become(w, p),
         outbox' \in Seq(Entry), Kept(outbox, outbox'), OwnNotes(outbox'),
         CallOK(p, outbox'), DraftsOK', FilesOK', RowsOK', OutboxOK', IsFiniteSet(DOMAIN vault'),
         redrafts' \in 0 .. MaxRedrafts, crashes' \in 0 .. MaxCrashes,
         faults' \in 0 .. MaxFaults
  PROVE  Shape'
<1>1. proc'[w] = p /\ proc' = [proc EXCEPT ![w] = proc'[w]]
  BY BecomeMoves
<1>2. /\ \A v \in Workers : CallOK(proc'[v], outbox')
      /\ DOMAIN proc' = Workers /\ \A v \in Workers : proc'[v] \in Proc
  BY <1>1, OneCallMoves
<1>3. CallsOK'
  BY <1>2 DEF CallsOK
<1> QED
  BY <1>2, <1>3 DEF Shape, TypeOK

\* A step that only moves a call keeps Shape.
LEMMA ShapeOnlyMoves ==
  ASSUME Shape, NEW w \in Workers, NEW STATE p, Become(w, p), CallOK(p, outbox),
         UNCHANGED stores,
         redrafts' \in 0 .. MaxRedrafts, crashes' \in 0 .. MaxCrashes,
         faults' \in 0 .. MaxFaults
  PROVE  Shape'
<1>1. /\ outbox' \in Seq(Entry) /\ Kept(outbox, outbox') /\ OwnNotes(outbox')
      /\ CallOK(p, outbox')
  BY QuietOutbox DEF stores
<1>2. DraftsOK' /\ FilesOK' /\ RowsOK' /\ OutboxOK' /\ IsFiniteSet(DOMAIN vault')
  BY DEF Shape, TypeOK, stores, DraftsOK, FilesOK, RowsOK, OutboxOK
<1> QED
  BY <1>1, <1>2, ShapeMoves

\* Shape holds at the start.
LEMMA ShapeInit == Init => Shape
<1> SUFFICES ASSUME Init PROVE Shape
  OBVIOUS
<1>1. DraftsOK /\ FilesOK /\ RowsOK
  BY ConstantsAssumption DEF Init, DraftsOK, FilesOK, RowsOK
<1>2. OutboxOK
  BY ConstantsAssumption DEF Init, OutboxOK
<1>3. \A w \in Workers : CallOK(proc[w], outbox) /\ proc[w] \in Proc
  BY IdleOK DEF Init, CallOK
<1>4. CallsOK
  BY <1>3, ConstantsAssumption DEF Init, CallsOK
<1>5. IsFiniteSet(DOMAIN vault) /\ OwnNotes(outbox)
  BY FS_EmptySet DEF Init, OwnNotes
<1> QED
  BY <1>1, <1>2, <1>3, <1>4, <1>5 DEF Shape, TypeOK

\* The counters stay within their bounds.
LEMMA CountersBounded ==
  ASSUME Shape
  PROVE  /\ redrafts \in 0 .. MaxRedrafts /\ crashes \in 0 .. MaxCrashes
         /\ faults \in 0 .. MaxFaults
BY DEF Shape, TypeOK, CallsOK

\* Completed and listed entries are entries of the outbox.
LEMMA CompletedEntries ==
  ASSUME Shape PROVE Completed \in SUBSET Entries /\ Listed \subseteq 1 .. Len(outbox)
BY LenProperties, ConstantsAssumption
DEF Shape, TypeOK, OutboxOK, Completed, Listed, OpenEntries, Entries

\* A listing finds finitely many notes.
LEMMA TopicFinite ==
  ASSUME Shape, NEW d
  PROVE  CurrentOnTopic(d) \subseteq Note /\ IsFiniteSet(CurrentOnTopic(d))
<1> DEFINE P == {q \in DOMAIN vault : vault[q].current /\ SameTopic(vault[q].draft, d)}
           T == {vault[q] : q \in P}
<1>1. IsFiniteSet(P)
  BY FS_Subset DEF Shape
<1>2. [q \in P |-> vault[q]] \in Surjection(P, T)
  BY DEF Surjection
<1>3. IsFiniteSet(T)
  BY <1>1, <1>2, FS_Surjection
<1>4. T \subseteq Note
  BY DEF Shape, TypeOK, FilesOK
<1> QED
  BY <1>3, <1>4 DEF CurrentOnTopic

\* The steps of a call before the outbox.
LEMMA DecidingShape ==
  ASSUME Shape, NEW w \in Workers,
         \/ \E d \in Drafts, b \in Bodies : RewriteDraft(w, d, b)
         \/ UpsertCreatedRow(w)
         \/ \E d \in Drafts, current \in AsCurrent, path \in TargetPaths \cup {None} :
              PromoteDraft(w, d, current, path)
         \/ CheckDuplicate(w) \/ ListSuperseded(w)
  PROVE  Shape'
<1>1. ASSUME NEW d \in Drafts, NEW b \in Bodies, RewriteDraft(w, d, b) PROVE Shape'
  <2> DEFINE p == [Idle EXCEPT !.pc = "created",
                     !.plan = [draft |-> d, body |-> b, current |-> FALSE,
                               path |-> None, older |-> <<>>, after |-> {}]]
  <2>1. CallOK(p, outbox)
    <3>1. [draft |-> d, body |-> b, current |-> FALSE, path |-> None,
           older |-> <<>>, after |-> {}] \in Plan
      BY DEF Plan
    <3> QED
      BY <3>1 DEF CallOK, Idle, Proc, Labels, Deciding, Applying, Recording, Processing
  <2>2. Become(w, p) /\ UNCHANGED <<draftRow, vault, rows, index, outbox, events, accepted,
                                    crashes, faults>>
    BY <1>1 DEF RewriteDraft
  <2> HIDE DEF p
  <2>3. /\ outbox' \in Seq(Entry) /\ Kept(outbox, outbox') /\ OwnNotes(outbox')
        /\ CallOK(p, outbox')
    BY <2>1, <2>2, QuietOutbox
  <2>4. DraftsOK'
    BY <1>1, <2>2 DEF RewriteDraft, Shape, TypeOK, DraftsOK
  <2>5. FilesOK'
    BY <1>1, <2>2 DEF RewriteDraft, Shape, TypeOK, FilesOK
  <2>6. RowsOK' /\ OutboxOK' /\ IsFiniteSet(DOMAIN vault')
    BY <2>2 DEF Shape, TypeOK, RowsOK, OutboxOK
  <2>7. redrafts' \in 0 .. MaxRedrafts
    <3>1. redrafts < MaxRedrafts /\ redrafts' = redrafts + 1
      BY <1>1 DEF RewriteDraft
    <3> QED
      BY <3>1, CountersBounded, ConstantsAssumption
  <2> QED
    BY <2>2, <2>3, <2>4, <2>5, <2>6, <2>7, CountersBounded, ShapeMoves
<1>2. CASE UpsertCreatedRow(w)
  <2>1. proc[w].plan.draft \in Drafts
    BY <1>2 DEF UpsertCreatedRow, At, Shape, CallOK, Deciding, Plan
  <2>2. Become(w, Idle) /\ UNCHANGED <<staging, vault, torn, rows, index, outbox, events,
                                       accepted, redrafts, crashes, faults>>
    BY <1>2 DEF UpsertCreatedRow
  <2>3. DraftsOK'
    BY <1>2, <2>1, <2>2 DEF UpsertCreatedRow, Shape, TypeOK, DraftsOK
  <2>4. FilesOK' /\ RowsOK' /\ OutboxOK' /\ IsFiniteSet(DOMAIN vault')
    BY <2>2 DEF Shape, TypeOK, FilesOK, RowsOK, OutboxOK
  <2> QED
    BY <2>2, <2>3, <2>4, IdleOK, QuietOutbox, CountersBounded, ShapeMoves
<1>3. ASSUME NEW d \in Drafts, NEW current \in AsCurrent,
             NEW path \in TargetPaths \cup {None}, PromoteDraft(w, d, current, path)
      PROVE  Shape'
  <2> DEFINE plan == [draft |-> d, body |-> staging[d].body, current |-> current,
                      path |-> path, older |-> <<>>, after |-> Completed]
             p == [Idle EXCEPT !.pc = "checking", !.plan = plan]
  <2>1. plan \in Plan
    BY CompletedEntries, ConstantsAssumption DEF Plan, Shape, TypeOK, DraftsOK
  <2>2. CallOK(p, outbox)
    BY <2>1 DEF CallOK, Idle, Proc, Labels, Deciding, Applying, Recording, Processing
  <2>3. Become(w, p) /\ UNCHANGED <<stores, redrafts, crashes, faults>>
    BY <1>3 DEF PromoteDraft
  <2> HIDE DEF p
  <2> QED
    BY <2>2, <2>3, CountersBounded, ShapeOnlyMoves
<1>4. CASE CheckDuplicate(w)
  <2> DEFINE p == IF HasLiveTwin(proc[w].plan.body) THEN Idle
                  ELSE [proc[w] EXCEPT !.pc = IF proc[w].plan.current THEN "listing"
                                              ELSE "enqueue"]
  <2>1. CallOK(proc[w], outbox) /\ proc[w].pc = "checking"
    BY <1>4 DEF CheckDuplicate, At, Shape
  <2>2. CallOK(p, outbox)
    BY <2>1, IdleOK DEF CallOK, Proc, Labels, Deciding, Applying, Recording, Processing
  <2>3. Become(w, p) /\ UNCHANGED <<stores, redrafts, crashes, faults>>
    BY <1>4 DEF CheckDuplicate
  <2> HIDE DEF p
  <2> QED
    BY <2>2, <2>3, CountersBounded, ShapeOnlyMoves
<1>5. CASE ListSuperseded(w)
  <2>1. CallOK(proc[w], outbox) /\ proc[w].pc = "listing"
    BY <1>5 DEF ListSuperseded, At, Shape
  <2>2. UNCHANGED <<stores, redrafts, crashes, faults>>
    BY <1>5 DEF ListSuperseded
  <2>3. CASE Become(w, Idle)
    BY <2>2, <2>3, IdleOK, CountersBounded, ShapeOnlyMoves
  <2>4. ASSUME NEW older \in Orderings(CurrentOnTopic(proc[w].plan.draft)),
               Become(w, [proc[w] EXCEPT !.pc = "enqueue", !.plan.older = older])
        PROVE  Shape'
    <3> DEFINE p == [proc[w] EXCEPT !.pc = "enqueue", !.plan.older = older]
    <3>1. /\ CurrentOnTopic(proc[w].plan.draft) \subseteq Note
          /\ IsFiniteSet(CurrentOnTopic(proc[w].plan.draft))
      BY TopicFinite
    <3>2. older \in Seq(Note)
      BY <3>1, OrderingIsSeq
    <3>3. CallOK(p, outbox)
      BY <2>1, <3>2 DEF CallOK, Proc, Plan, Labels, Deciding, Applying, Recording, Processing
    <3> HIDE DEF p
    <3>4. Become(w, p)
      BY <2>4 DEF p
    <3> QED
      BY <2>2, <3>3, <3>4, CountersBounded, ShapeOnlyMoves
  <2> QED
    BY <1>5, <2>3, <2>4 DEF ListSuperseded
<1> QED
  BY <1>1, <1>2, <1>3, <1>4, <1>5

\* A call that works on an entry refers to one, and to a note it writes.
LEMMA EntryInOutbox ==
  ASSUME Shape, NEW w \in Workers, proc[w].pc \in Processing
  PROVE  /\ CallOK(proc[w], outbox) /\ proc[w].entry \in 1 .. Len(outbox)
         /\ EntryOf(w) \in Entry
<1>1. CallOK(proc[w], outbox) /\ proc[w].entry \in 1 .. Len(outbox)
  BY DEF Shape, CallOK
<1>2. outbox \in Seq(Entry)
  BY DEF Shape, TypeOK, OutboxOK
<1>3. outbox[proc[w].entry] \in Entry
  BY <1>1, <1>2, ElementOfSeq
<1> QED
  BY <1>1, <1>3 DEF EntryOf

\* What a call writes is one of the notes of its entry.
LEMMA WritingIsNote ==
  ASSUME Shape, NEW w \in Workers, proc[w].pc \in Applying
  PROVE  Writing(w) \in Note /\ Len(EntryOf(w).writes) \in Nat
<1>1. CallOK(proc[w], outbox) /\ EntryOf(w) \in Entry
  BY EntryInOutbox DEF Processing
<1>2. EntryOf(w).writes \in Seq(Note)
  BY <1>1 DEF Entry
<1>3. proc[w].pos \in 1 .. Len(EntryOf(w).writes)
  BY <1>1 DEF CallOK, EntryOf
<1>4. EntryOf(w).writes[proc[w].pos] \in Note
  BY <1>2, <1>3, ElementOfSeq
<1> QED
  BY <1>2, <1>4, LenProperties DEF Writing

\* A step that changes nothing but the state of the entry of call w.
LEMMA ShapeState ==
  ASSUME Shape, NEW w \in Workers, proc[w].pc \in Processing,
         NEW s \in {"pending", "processing", "failed", "completed"},
         SetState(proc[w].entry, s), NEW STATE p, Become(w, p), CallOK(p, outbox),
         UNCHANGED <<staging, draftRow, vault, torn, rows, index, events, accepted,
                     redrafts, crashes, faults>>
  PROVE  Shape'
<1>1. outbox \in Seq(Entry) /\ proc[w].entry \in 1 .. Len(outbox)
  BY EntryInOutbox DEF Shape, TypeOK, OutboxOK
<1>2. /\ outbox' \in Seq(Entry) /\ Len(outbox') = Len(outbox)
      /\ Kept(outbox, outbox')
  BY <1>1, StateKept
<1>3. Len(outbox) \in Nat
  BY <1>1, LenProperties
<1>4. CallOK(p, outbox')
  BY <1>2, <1>3, CallKept
<1>5. DraftsOK' /\ FilesOK' /\ RowsOK' /\ OutboxOK' /\ IsFiniteSet(DOMAIN vault')
  BY <1>2 DEF Shape, TypeOK, DraftsOK, FilesOK, RowsOK, OutboxOK
<1>6. OwnNotes(outbox')
  BY <1>2, <1>3 DEF Shape, OwnNotes, Kept
<1> QED
  BY <1>2, <1>4, <1>5, <1>6, CountersBounded, ShapeMoves

\* Enqueueing an entry keeps Shape.
LEMMA EnqueueShape ==
  ASSUME Shape, NEW w \in Workers, Enqueue(w)
  PROVE  Shape'
<1> DEFINE plan == proc[w].plan
           e == Len(outbox) + 1
           x == [state |-> "pending", draft |-> plan.draft, body |-> plan.body,
                 current |-> plan.current, writes |-> CanonicalWrites(plan, e),
                 after |-> plan.after]
           p == [Idle EXCEPT !.pc = "claim", !.entry = e]
<1>1. /\ outbox \in Seq(Entry) /\ Len(outbox) \in Nat /\ Len(outbox) <= MaxPromotions
      /\ events \subseteq 1 .. Len(outbox) /\ accepted \subseteq 1 .. Len(outbox)
  BY LenProperties DEF Shape, TypeOK, OutboxOK
<1>2. UNCHANGED <<staging, draftRow, vault, torn, rows, index, events, accepted,
                  redrafts, crashes, faults>>
  BY DEF Enqueue
<1>3. CASE Len(outbox) = MaxPromotions
  <2>1. Become(w, Idle) /\ UNCHANGED stores
    BY <1>2, <1>3 DEF Enqueue, stores
  <2> QED
    BY <1>2, <2>1, IdleOK, CountersBounded, ShapeOnlyMoves
<1>4. CASE Len(outbox) # MaxPromotions
  <2>1. plan \in Plan
    BY DEF Enqueue, At, Shape, CallOK, Deciding
  <2>2. e \in Entries
    BY <1>1, <1>4, ConstantsAssumption DEF Entries
  <2>3. x \in Entry
    <3>1. CanonicalWrites(plan, e) \in Seq(Note)
      BY <2>1, <2>2, WritesAreNotes
    <3> QED
      BY <2>1, <3>1 DEF Plan, Entry
  <2>4. outbox' = Append(outbox, x) /\ Become(w, p)
    BY <1>4 DEF Enqueue
  <2> HIDE DEF x
  <2>5. /\ outbox' \in Seq(Entry) /\ Len(outbox') = e
        /\ \A i \in 1 .. Len(outbox) : outbox'[i] = outbox[i]
    BY <1>1, <2>3, <2>4
  <2>6. Kept(outbox, outbox')
    BY <1>1, <2>5 DEF Kept
  <2>7. OutboxOK'
    BY <1>1, <1>2, <2>2, <2>5 DEF OutboxOK, Entries
  <2>8. CallOK(p, outbox')
    <3>1. p \in Proc
      BY <2>2 DEF Idle, Proc, Labels
    <3>2. e \in 1 .. Len(outbox')
      BY <1>1, <2>5
    <3> HIDE DEF e
    <3> QED
      BY <3>1, <3>2 DEF CallOK, Idle, Deciding, Applying, Recording, Processing
  <2>9. DraftsOK' /\ FilesOK' /\ RowsOK' /\ IsFiniteSet(DOMAIN vault')
    BY <1>2 DEF Shape, TypeOK, DraftsOK, FilesOK, RowsOK
  <2>10. OwnNotes(outbox')
    <3>1. \E i \in 1 .. Len(x.writes) : x.writes[i].id = NoteId(e)
      BY <2>1, <2>2, WritesAreNotes DEF x
    <3>2. outbox'[e] = x
      BY <1>1, <2>4
    <3>3. \A i \in 1 .. e : i = e \/ i \in 1 .. Len(outbox)
      BY <1>1
    <3>4. OwnNotes(outbox)
      BY DEF Shape
    <3> HIDE DEF e
    <3> QED
      BY <2>5, <3>1, <3>2, <3>3, <3>4 DEF OwnNotes
  <2> HIDE DEF p
  <2> QED
    BY <1>2, <2>10, <2>4, <2>5, <2>6, <2>7, <2>8, <2>9, CountersBounded, ShapeMoves
<1> QED
  BY <1>3, <1>4

\* What a step changes but the outbox and the call, once its call is shown to
\* be in order.
LEMMA ShapeQuiet ==
  ASSUME Shape, NEW w \in Workers, NEW STATE p, Become(w, p), CallOK(p, outbox),
         UNCHANGED outbox, events' \subseteq 1 .. Len(outbox),
         accepted' \subseteq 1 .. Len(outbox),
         DraftsOK', FilesOK', RowsOK', IsFiniteSet(DOMAIN vault'),
         redrafts' \in 0 .. MaxRedrafts, crashes' \in 0 .. MaxCrashes,
         faults' \in 0 .. MaxFaults
  PROVE  Shape'
<1>1. /\ outbox' \in Seq(Entry) /\ Kept(outbox, outbox') /\ OwnNotes(outbox')
      /\ CallOK(p, outbox')
  BY QuietOutbox
<1>2. OutboxOK'
  BY DEF Shape, TypeOK, OutboxOK
<1> QED
  BY <1>1, <1>2, ShapeMoves

\* A file write adds at most one path, and a half-written one removes it.
LEMMA FilesMove ==
  ASSUME Shape, NEW STATE n, n \in Note
  PROVE  /\ (vault' = Put(vault, n.path, n) /\ torn' = torn \ {n.path})
              => FilesOK' /\ IsFiniteSet(DOMAIN vault')
         /\ (vault' = Drop(vault, n.path) /\ torn' = torn \cup {n.path})
              => FilesOK' /\ IsFiniteSet(DOMAIN vault')
<1>1. n.path \in Paths
  BY DEF Note
<1>2. FilesOK /\ IsFiniteSet(DOMAIN vault)
  BY DEF Shape, TypeOK
<1>3. ASSUME vault' = Put(vault, n.path, n), torn' = torn \ {n.path}
      PROVE  FilesOK' /\ IsFiniteSet(DOMAIN vault')
  <2>1. /\ DOMAIN vault' = DOMAIN vault \cup {n.path}
        /\ \A x \in DOMAIN vault' : vault'[x] = IF x = n.path THEN n ELSE vault[x]
    BY <1>3 DEF Put
  <2> QED
    <3>1. IsFiniteSet(DOMAIN vault')
      BY <1>2, <2>1, FS_AddElement
    <3>2. FilesOK'
      BY <1>1, <1>2, <1>3, <2>1 DEF FilesOK
    <3> QED
      BY <3>1, <3>2
<1>4. ASSUME vault' = Drop(vault, n.path), torn' = torn \cup {n.path}
      PROVE  FilesOK' /\ IsFiniteSet(DOMAIN vault')
  <2>1. /\ DOMAIN vault' = DOMAIN vault \ {n.path}
        /\ \A x \in DOMAIN vault' : vault'[x] = vault[x]
    BY <1>4 DEF Drop
  <2> QED
    <3>1. IsFiniteSet(DOMAIN vault')
      BY <1>2, <2>1, FS_RemoveElement
    <3>2. FilesOK'
      BY <1>1, <1>2, <1>4, <2>1 DEF FilesOK, FilePaths
    <3> QED
      BY <3>1, <3>2
<1> QED
  BY <1>3, <1>4

\* Clearing or filling one store keeps the types of rows and index.
LEMMA StoreMoves ==
  ASSUME Shape, NEW STATE s, s \in StoreNames, NEW STATE n, n \in Note, UNCHANGED rows,
         \/ index' = [index EXCEPT ![s] = Put(@, n.id, n)]
         \/ index' = [index EXCEPT ![s] = Drop(@, n.id)]
         \/ UNCHANGED index
  PROVE  RowsOK'
<1>1. n.id \in NoteIds /\ RowsOK
  BY DEF Note, Shape, TypeOK
<1>2. CASE index' = [index EXCEPT ![s] = Put(@, n.id, n)]
  BY <1>1, <1>2 DEF RowsOK, Put
<1>3. CASE index' = [index EXCEPT ![s] = Drop(@, n.id)]
  BY <1>1, <1>3 DEF RowsOK, Drop
<1>4. CASE UNCHANGED index
  BY <1>1, <1>4 DEF RowsOK
<1> QED
  BY <1>2, <1>3, <1>4

\* The step that writes one note: its file, its row, its stores.
LEMMA WritingShape ==
  ASSUME Shape, NEW w \in Workers,
         WriteFile(w) \/ UpsertRow(w) \/ ClearStore(w) \/ FillStore(w)
  PROVE  Shape'
<1>1. proc[w].pc \in Applying
  BY DEF WriteFile, UpsertRow, ClearStore, FillStore, At, Applying
<1>2. /\ CallOK(proc[w], outbox) /\ Writing(w) \in Note
      /\ Len(EntryOf(w).writes) \in Nat
      /\ proc[w].pos \in 1 .. Len(EntryOf(w).writes)
  BY <1>1, EntryInOutbox, WritingIsNote DEF Processing, CallOK, EntryOf
<1>3. Stores \in Seq({"chunks", "lexical", "vector"}) /\ Len(Stores) \in Nat \ {0}
  BY ConstantsAssumption, LenProperties
<1>4. /\ DraftsOK /\ FilesOK /\ RowsOK /\ IsFiniteSet(DOMAIN vault)
      /\ events \subseteq 1 .. Len(outbox) /\ accepted \subseteq 1 .. Len(outbox)
  BY DEF Shape, TypeOK, OutboxOK
<1>5. CASE WriteFile(w)
  <2>1. CallOK([proc[w] EXCEPT !.pc = "row"], outbox)
    BY <1>2, <1>5
    DEF WriteFile, At, CallOK, Proc, Labels, Deciding, Applying, Recording, Processing
  <2>2. /\ Become(w, [proc[w] EXCEPT !.pc = "row"])
        /\ UNCHANGED <<staging, draftRow, rows, index, outbox, events, accepted,
                       redrafts, crashes, faults>>
    BY <1>5 DEF WriteFile
  <2>3. FilesOK' /\ IsFiniteSet(DOMAIN vault')
    BY <1>2, <1>5, FilesMove DEF WriteFile
  <2>4. DraftsOK' /\ RowsOK'
    BY <1>4, <2>2 DEF DraftsOK, RowsOK
  <2> QED
    BY <1>4, <2>1, <2>2, <2>3, <2>4, CountersBounded, ShapeQuiet
<1>6. CASE UpsertRow(w)
  <2> DEFINE p == IF PathTaken(Writing(w)) THEN [proc[w] EXCEPT !.pc = "failing"]
                  ELSE [proc[w] EXCEPT !.pc = "clear", !.store = 1]
  <2>1. CallOK(p, outbox)
    <3>1. 1 \in 1 .. Len(Stores) /\ proc[w].pc = "row"
      BY <1>3, <1>6 DEF UpsertRow, At
    <3>2. CallOK([proc[w] EXCEPT !.pc = "failing"], outbox)
      BY <1>2, <3>1 DEF CallOK, Proc, Labels, Deciding, Applying, Recording, Processing
    <3>3. CallOK([proc[w] EXCEPT !.pc = "clear", !.store = 1], outbox)
      BY <1>1, <1>2, <3>1, NextStoreOK
    <3> QED
      BY <3>2, <3>3
  <2>2. /\ Become(w, p)
        /\ UNCHANGED <<staging, draftRow, vault, torn, index, outbox, events, accepted,
                       redrafts, crashes, faults>>
    BY <1>6 DEF UpsertRow
  <2>3. rows' = rows \/ rows' = Put(rows, Writing(w).id, Writing(w))
    BY <1>6 DEF UpsertRow
  <2>4. Writing(w).id \in NoteIds
    BY <1>2 DEF Note
  <2>5. RowsOK'
    BY <1>2, <1>4, <2>2, <2>3, <2>4 DEF RowsOK, Put
  <2>6. DraftsOK' /\ FilesOK' /\ IsFiniteSet(DOMAIN vault')
    BY <1>4, <2>2 DEF DraftsOK, FilesOK
  <2> HIDE DEF p
  <2> QED
    BY <1>4, <2>1, <2>2, <2>5, <2>6, CountersBounded, ShapeQuiet
<1>7. CASE ClearStore(w)
  <2>1. CallOK([proc[w] EXCEPT !.pc = "fill"], outbox)
    BY <1>2, <1>7
    DEF ClearStore, At, CallOK, Proc, Labels, Deciding, Applying, Recording, Processing
  <2>2. /\ Become(w, [proc[w] EXCEPT !.pc = "fill"])
        /\ UNCHANGED <<staging, draftRow, vault, torn, rows, outbox, events, accepted,
                       redrafts, crashes, faults>>
    BY <1>7 DEF ClearStore
  <2>3. Stores[proc[w].store] \in StoreNames
    BY <1>2, <1>7 DEF ClearStore, At, CallOK, StoreNames
  <2>4. RowsOK'
    BY <1>2, <1>7, <2>2, <2>3, StoreMoves DEF ClearStore
  <2>5. DraftsOK' /\ FilesOK' /\ IsFiniteSet(DOMAIN vault')
    BY <1>4, <2>2 DEF DraftsOK, FilesOK
  <2> QED
    BY <1>4, <2>1, <2>2, <2>4, <2>5, CountersBounded, ShapeQuiet
<1>8. CASE FillStore(w)
  <2> DEFINE p == AfterFill(proc[w], EntryOf(w).writes)
  <2>1. proc[w].store \in 1 .. Len(Stores) /\ proc[w].pc = "fill"
    BY <1>2, <1>8 DEF FillStore, At, CallOK
  <2>2. CallOK(p, outbox)
    <3>1. CASE proc[w].store < Len(Stores)
      <4>1. proc[w].store + 1 \in 1 .. Len(Stores)
        BY <1>3, <2>1, <3>1
      <4>2. CallOK([proc[w] EXCEPT !.pc = "clear", !.store = proc[w].store + 1], outbox)
        BY <1>1, <1>2, <4>1, NextStoreOK
      <4> QED
        BY <3>1, <4>2 DEF AfterFill
    <3>2. CASE ~ (proc[w].store < Len(Stores)) /\ proc[w].pos < Len(EntryOf(w).writes)
      <4>1. proc[w].pos + 1 \in 1 .. Len(EntryOf(w).writes)
        BY <1>2, <3>2
      <4>2. CallOK([proc[w] EXCEPT !.pc = "file", !.pos = proc[w].pos + 1, !.store = 0],
                   outbox)
        BY <1>1, <1>2, <4>1, NextNoteOK DEF EntryOf
      <4> QED
        BY <3>2, <4>2 DEF AfterFill
    <3>3. CASE /\ ~ (proc[w].store < Len(Stores))
               /\ ~ (proc[w].pos < Len(EntryOf(w).writes))
      BY <1>2, <2>1, <3>3
      DEF AfterFill, CallOK, Proc, Labels, Deciding, Applying, Recording, Processing
    <3> QED
      BY <3>1, <3>2, <3>3
  <2>3. /\ Become(w, p)
        /\ UNCHANGED <<staging, draftRow, vault, torn, rows, outbox, events, accepted,
                       redrafts, crashes, faults>>
    BY <1>8 DEF FillStore
  <2>4. Stores[proc[w].store] \in StoreNames
    BY <2>1 DEF StoreNames
  <2>5. RowsOK'
    BY <1>2, <1>8, <2>3, <2>4, StoreMoves DEF FillStore
  <2>6. DraftsOK' /\ FilesOK' /\ IsFiniteSet(DOMAIN vault')
    BY <1>4, <2>3 DEF DraftsOK, FilesOK
  <2> HIDE DEF p
  <2> QED
    BY <1>4, <2>2, <2>3, <2>5, <2>6, CountersBounded, ShapeQuiet
<1> QED
  BY <1>5, <1>6, <1>7, <1>8

\* The steps that claim an entry, record it, or end its processing.
LEMMA RecordingShape ==
  ASSUME Shape, NEW w \in Workers,
         \/ Claim(w) \/ RecordPromotion(w) \/ UpdateDraft(w) \/ UpsertDraftRow(w)
         \/ Complete(w) \/ Fail(w) \/ AuditAccepted(w)
  PROVE  Shape'
<1>1. proc[w].pc \in Processing /\ proc[w].pc # "idle"
  BY DEF Claim, RecordPromotion, UpdateDraft, UpsertDraftRow, Complete, Fail, AuditAccepted,
         At, Processing, Recording
<1>2. /\ CallOK(proc[w], outbox) /\ proc[w].entry \in 1 .. Len(outbox)
      /\ EntryOf(w) \in Entry
  BY <1>1, EntryInOutbox
<1>3. /\ DraftsOK /\ FilesOK /\ RowsOK /\ IsFiniteSet(DOMAIN vault)
      /\ events \subseteq 1 .. Len(outbox) /\ accepted \subseteq 1 .. Len(outbox)
  BY DEF Shape, TypeOK, OutboxOK
<1>4. CallOK(Returned(proc[w]), outbox)
  BY <1>2, ReturnedOK
<1>5. CASE Claim(w)
  <2>1. CASE EntryOf(w).state = "completed"
    <3>1. /\ Become(w, Returned(proc[w])) /\ UNCHANGED stores
          /\ UNCHANGED <<redrafts, crashes, faults>>
      BY <1>5, <2>1 DEF Claim, stores
    <3> QED
      BY <1>4, <3>1, CountersBounded, ShapeOnlyMoves
  <2>2. CASE EntryOf(w).state # "completed"
    <3>1. 1 \in 1 .. Len(outbox[proc[w].entry].writes)
      <4>1. \E i \in 1 .. Len(outbox[proc[w].entry].writes) : TRUE
        BY <1>2 DEF Shape, OwnNotes
      <4>2. Len(outbox[proc[w].entry].writes) \in Nat
        BY <1>2, LenProperties DEF EntryOf, Entry
      <4> QED
        BY <4>1, <4>2
    <3>2. CallOK([proc[w] EXCEPT !.pc = "file", !.pos = 1], outbox)
      BY <1>2, <3>1 DEF CallOK, Proc, Labels, Deciding, Applying, Recording, Processing
    <3>3. /\ SetState(proc[w].entry, "processing")
          /\ Become(w, [proc[w] EXCEPT !.pc = "file", !.pos = 1])
          /\ UNCHANGED <<staging, draftRow, vault, torn, rows, index, events, accepted,
                         redrafts, crashes, faults>>
      BY <1>5, <2>2 DEF Claim
    <3> QED
      BY <1>1, <3>2, <3>3, ShapeState
  <2> QED
    BY <2>1, <2>2
<1>6. CASE RecordPromotion(w)
  <2>1. CallOK([proc[w] EXCEPT !.pc = "draft"], outbox)
    BY <1>2 DEF CallOK, Proc, Labels, Deciding, Applying, Recording, Processing
  <2>2. /\ Become(w, [proc[w] EXCEPT !.pc = "draft"])
        /\ events' = events \cup {proc[w].entry}
        /\ UNCHANGED <<staging, draftRow, vault, torn, rows, index, outbox, accepted,
                       redrafts, crashes, faults>>
    BY <1>6 DEF RecordPromotion
  <2>3. DraftsOK' /\ FilesOK' /\ RowsOK' /\ IsFiniteSet(DOMAIN vault')
    BY <1>3, <2>2 DEF DraftsOK, FilesOK, RowsOK
  <2> QED
    BY <1>2, <1>3, <2>1, <2>2, <2>3, CountersBounded, ShapeQuiet
<1>7. CASE UpdateDraft(w)
  <2>1. CallOK([proc[w] EXCEPT !.pc = "draftRow"], outbox)
    BY <1>2 DEF CallOK, Proc, Labels, Deciding, Applying, Recording, Processing
  <2>2. /\ Become(w, [proc[w] EXCEPT !.pc = "draftRow"])
        /\ UNCHANGED <<draftRow, vault, rows, index, outbox, events, accepted,
                       redrafts, crashes, faults>>
    BY <1>7 DEF UpdateDraft
  <2>3. DraftsOK'
    BY <1>2, <1>3, <1>7, <2>2 DEF UpdateDraft, DraftsOK, Entry
  <2>4. FilesOK' /\ RowsOK' /\ IsFiniteSet(DOMAIN vault')
    BY <1>3, <1>7, <2>2 DEF UpdateDraft, FilesOK, RowsOK
  <2> QED
    BY <1>3, <2>1, <2>2, <2>3, <2>4, CountersBounded, ShapeQuiet
<1>8. CASE UpsertDraftRow(w)
  <2>1. CallOK([proc[w] EXCEPT !.pc = "complete"], outbox)
    BY <1>2 DEF CallOK, Proc, Labels, Deciding, Applying, Recording, Processing
  <2>2. /\ Become(w, [proc[w] EXCEPT !.pc = "complete"])
        /\ UNCHANGED <<staging, vault, torn, rows, index, outbox, events, accepted,
                       redrafts, crashes, faults>>
    BY <1>8 DEF UpsertDraftRow
  <2>3. DraftsOK'
    BY <1>2, <1>3, <1>8, <2>2 DEF UpsertDraftRow, DraftsOK, Entry
  <2>4. FilesOK' /\ RowsOK' /\ IsFiniteSet(DOMAIN vault')
    BY <1>3, <2>2 DEF FilesOK, RowsOK
  <2> QED
    BY <1>3, <2>1, <2>2, <2>3, <2>4, CountersBounded, ShapeQuiet
<1>9. CASE Complete(w)
  <2> DEFINE p == IF proc[w].replaying THEN Returned(proc[w])
                  ELSE [proc[w] EXCEPT !.pc = "audit"]
  <2>1. CallOK(p, outbox)
    <3>1. CallOK([proc[w] EXCEPT !.pc = "audit"], outbox)
      BY <1>2 DEF CallOK, Proc, Labels, Deciding, Applying, Recording, Processing
    <3> QED
      BY <1>4, <3>1
  <2>2. /\ SetState(proc[w].entry, "completed") /\ Become(w, p)
        /\ UNCHANGED <<staging, draftRow, vault, torn, rows, index, events, accepted,
                       redrafts, crashes, faults>>
    BY <1>9 DEF Complete
  <2> HIDE DEF p
  <2> QED
    BY <1>1, <2>1, <2>2, ShapeState
<1>10. CASE Fail(w)
  <2>1. /\ SetState(proc[w].entry, "failed") /\ Become(w, Returned(proc[w]))
        /\ UNCHANGED <<staging, draftRow, vault, torn, rows, index, events, accepted,
                       redrafts, crashes, faults>>
    BY <1>10 DEF Fail
  <2> QED
    BY <1>1, <1>4, <2>1, ShapeState
<1>11. CASE AuditAccepted(w)
  <2>1. /\ Become(w, Idle) /\ accepted' \subseteq accepted \cup {proc[w].entry}
        /\ UNCHANGED <<staging, draftRow, vault, torn, rows, index, outbox, events,
                       redrafts, crashes, faults>>
    BY <1>11 DEF AuditAccepted
  <2>2. DraftsOK' /\ FilesOK' /\ RowsOK' /\ IsFiniteSet(DOMAIN vault')
    BY <1>3, <2>1 DEF DraftsOK, FilesOK, RowsOK
  <2> QED
    BY <1>2, <1>3, <2>1, <2>2, IdleOK, CountersBounded, ShapeQuiet
<1> QED
  BY <1>5, <1>6, <1>7, <1>8, <1>9, <1>10, <1>11

\* The steps of a replay between its entries, and what goes wrong.
LEMMA OtherShape ==
  ASSUME Shape, NEW w \in Workers,
         StartReplay(w) \/ NextEntry(w) \/ Throw(w) \/ Crash(w)
  PROVE  Shape'
<1>1. CallOK(proc[w], outbox)
  BY DEF Shape
<1>2. CASE StartReplay(w)
  <2> DEFINE p == IF Listed = {} THEN Idle
                  ELSE [Idle EXCEPT !.pc = "next", !.replaying = TRUE, !.todo = Listed]
  <2>1. Listed \subseteq 1 .. Len(outbox) /\ Listed \subseteq Entries
    BY CompletedEntries, LenProperties, ConstantsAssumption
    DEF Shape, TypeOK, OutboxOK, Entries
  <2>2. [Idle EXCEPT !.pc = "next", !.replaying = TRUE, !.todo = Listed] \in Proc
    BY <2>1 DEF Idle, Proc, Labels
  <2>3. CallOK(p, outbox)
    BY <2>1, <2>2, IdleOK DEF CallOK, Idle, Deciding, Applying, Recording, Processing
  <2>4. Become(w, p) /\ UNCHANGED <<stores, redrafts, crashes, faults>>
    BY <1>2 DEF StartReplay
  <2> HIDE DEF p
  <2> QED
    BY <2>3, <2>4, CountersBounded, ShapeOnlyMoves
<1>3. CASE NextEntry(w)
  <2>1. UNCHANGED <<stores, redrafts, crashes, faults>>
    BY <1>3 DEF NextEntry
  <2>2. CASE Become(w, Idle)
    BY <2>1, <2>2, IdleOK, CountersBounded, ShapeOnlyMoves
  <2>3. ASSUME NEW e \in proc[w].todo,
               Become(w, [proc[w] EXCEPT !.pc = "claim", !.entry = e, !.todo = @ \ {e}])
        PROVE  Shape'
    <3> DEFINE p == [proc[w] EXCEPT !.pc = "claim", !.entry = e, !.todo = @ \ {e}]
    <3>1. CallOK(p, outbox)
      BY <1>1 DEF CallOK, Proc, Labels, Deciding, Applying, Recording, Processing
    <3>2. Become(w, p)
      BY <2>3
    <3> HIDE DEF p
    <3> QED
      BY <2>1, <3>1, <3>2, CountersBounded, ShapeOnlyMoves
  <2> QED
    BY <1>3, <2>2, <2>3 DEF NextEntry
<1>4. CASE Throw(w)
  <2>1. CallOK([proc[w] EXCEPT !.pc = "failing"], outbox)
    BY <1>1, <1>4 DEF Throw, CallOK, Proc, Labels, Deciding, Applying, Recording, Processing
  <2>2. /\ Become(w, [proc[w] EXCEPT !.pc = "failing"])
        /\ UNCHANGED <<stores, redrafts, crashes>>
        /\ faults < MaxFaults /\ faults' = faults + 1
    BY <1>4 DEF Throw
  <2>3. faults' \in 0 .. MaxFaults
    BY <2>2, CountersBounded, ConstantsAssumption
  <2> QED
    BY <2>1, <2>2, <2>3, CountersBounded, ShapeOnlyMoves
<1>5. CASE Crash(w)
  <2>1. /\ Become(w, Idle) /\ crashes < MaxCrashes /\ crashes' = crashes + 1
        /\ UNCHANGED <<staging, draftRow, rows, index, outbox, events, accepted,
                       redrafts, faults>>
    BY <1>5 DEF Crash
  <2>2. crashes' \in 0 .. MaxCrashes
    BY <2>1, CountersBounded, ConstantsAssumption
  <2>3. /\ DraftsOK /\ FilesOK /\ RowsOK /\ IsFiniteSet(DOMAIN vault)
        /\ events \subseteq 1 .. Len(outbox) /\ accepted \subseteq 1 .. Len(outbox)
    BY DEF Shape, TypeOK, OutboxOK
  <2>4. DraftsOK' /\ RowsOK'
    BY <2>1, <2>3 DEF DraftsOK, RowsOK
  <2>5. FilesOK' /\ IsFiniteSet(DOMAIN vault')
    <3>1. CASE UNCHANGED <<vault, torn>>
      BY <2>3, <3>1 DEF FilesOK
    <3>2. CASE /\ At(w, "file") /\ vault' = Drop(vault, Writing(w).path)
               /\ torn' = torn \cup {Writing(w).path}
      <4>1. Writing(w) \in Note
        BY <3>2, WritingIsNote DEF At, Applying
      <4> QED
        BY <3>2, <4>1, FilesMove
    <3>3. CASE /\ At(w, "draft") /\ torn' = torn \cup {DraftId(EntryOf(w).draft)}
               /\ UNCHANGED vault
      <4>1. EntryOf(w) \in Entry
        BY <3>3, EntryInOutbox DEF At, Processing, Recording
      <4> QED
        BY <2>3, <3>3, <4>1 DEF FilesOK, FilePaths, Entry
    <3> QED
      BY <1>5, <3>1, <3>2, <3>3 DEF Crash
  <2> QED
    BY <2>1, <2>2, <2>3, <2>4, <2>5, IdleOK, CountersBounded, ShapeQuiet
<1> QED
  BY <1>2, <1>3, <1>4, <1>5

\* Every step keeps Shape.
LEMMA ShapeNext ==
  Shape /\ [Next]_vars => Shape'
<1> SUFFICES ASSUME Shape, [Next]_vars PROVE Shape'
  OBVIOUS
<1>1. CASE UNCHANGED vars
  BY <1>1 DEF vars, stores, Shape, TypeOK, DraftsOK, FilesOK, RowsOK, OutboxOK, CallsOK
<1>2. ASSUME NEW w \in Workers, Step(w) PROVE Shape'
  BY <1>2, DecidingShape, EnqueueShape, WritingShape, RecordingShape, OtherShape
  DEF Step, ProcessStep
<1>3. ASSUME NEW w \in Workers,
             \/ \E d \in Drafts, b \in Bodies : RewriteDraft(w, d, b)
             \/ \E d \in Drafts, current \in AsCurrent, path \in TargetPaths \cup {None} :
                  PromoteDraft(w, d, current, path)
      PROVE  Shape'
  BY <1>3, DecidingShape
<1>4. ASSUME NEW w \in Workers, StartReplay(w) \/ Throw(w) \/ Crash(w) PROVE Shape'
  BY <1>4, OtherShape
<1> QED
  BY <1>1, <1>2, <1>3, <1>4 DEF Next

\* Shape is an invariant.
LEMMA ShapeInvariant == Spec => []Shape
BY ShapeInit, ShapeNext, PTL DEF Spec

\* Every variable keeps its type, whatever the number of calls, drafts, titles
\* and stores.
THEOREM TypeCorrect == Spec => []TypeOK
BY ShapeInvariant, PTL DEF Shape

-----------------------------------------------------------------------------
(* What calls have written.  R are the ids with a row, F the paths of files, *)
(* ev the recorded entries.                                                *)

Files == (DOMAIN vault \cup torn) \cap Paths

Applied(writes, n, R, F) == \A i \in 1 .. n : writes[i].id \in R /\ writes[i].path \in F

DoneOK(p, box, R, F, ev) ==
  LET writes == box[p.entry].writes IN
  /\ p.pc \in Applying => \A i \in 1 .. Len(writes) :
                            i < p.pos => writes[i].id \in R /\ writes[i].path \in F
  /\ p.pc \in {"row", "clear", "fill"} => writes[p.pos].path \in F
  /\ p.pc \in {"clear", "fill"} => writes[p.pos].id \in R
  /\ p.pc \in {"record"} \cup Recording => Applied(writes, Len(writes), R, F)
  /\ p.pc \in Recording => p.entry \in ev

EventsApplied ==
  \A e \in events : Applied(outbox[e].writes, Len(outbox[e].writes), DOMAIN rows, Files)

PromotedText ==
  \A d \in Drafts : staging[d].state = "promoted" =>
    \E e \in events : outbox[e].draft = d /\ outbox[e].body = staging[d].body

Progress ==
  /\ \A w \in Workers : DoneOK(proc[w], outbox, DOMAIN rows, Files, events)
  /\ EventsApplied
  /\ Completed \subseteq events /\ accepted \subseteq events
  /\ PromotedText

\* What a call has written stays written.
LEMMA DoneKept ==
  ASSUME NEW box, NEW box2, Kept(box, box2), NEW p, CallOK(p, box),
         NEW R, NEW R2, R \subseteq R2, NEW F, NEW F2, F \subseteq F2,
         NEW ev, NEW ev2, ev \subseteq ev2, DoneOK(p, box, R, F, ev)
  PROVE  DoneOK(p, box2, R2, F2, ev2)
<1>1. p.pc \in Processing => box2[p.entry].writes = box[p.entry].writes
  BY DEF Kept, CallOK
<1>2. Applying \subseteq Processing /\ Recording \subseteq Processing
      /\ "record" \in Processing /\ {"row", "clear", "fill"} \subseteq Applying
  BY DEF Applying, Processing
<1> QED
  BY <1>1, <1>2 DEF DoneOK, Applied

\* Calls outside the writing and recording of an entry promise nothing.
LEMMA NothingDone ==
  ASSUME NEW p, p.pc \notin Applying \cup Recording \cup {"record"},
         NEW box, NEW R, NEW F, NEW ev
  PROVE  DoneOK(p, box, R, F, ev)
BY DEF DoneOK, Applying

\* Nothing queued, catalogued, written or recorded is ever withdrawn.
LEMMA NothingWithdrawn ==
  ASSUME Shape, [Next]_vars
  PROVE  /\ Kept(outbox, outbox') /\ Len(outbox) \in Nat /\ Len(outbox') \in Nat
         /\ DOMAIN rows \subseteq DOMAIN rows' /\ Files \subseteq Files'
         /\ events \subseteq events' /\ accepted \subseteq accepted'
<1>1. /\ outbox \in Seq(Entry) /\ Len(outbox) \in Nat
      /\ outbox' \in Seq(Entry) /\ Len(outbox') \in Nat
  BY ShapeNext, LenProperties DEF Shape, TypeOK, OutboxOK
<1>2. Kept(outbox, outbox')
  <2>1. CASE UNCHANGED outbox
    BY <2>1, QuietOutbox
  <2>2. ASSUME NEW w \in Workers, Enqueue(w) PROVE Kept(outbox, outbox')
    <3>1. outbox' = outbox \/ \E x : outbox' = Append(outbox, x)
      BY <2>2 DEF Enqueue
    <3> QED
      BY <1>1, <3>1 DEF Kept
  <2>3. ASSUME NEW w \in Workers, Claim(w) \/ Complete(w) \/ Fail(w)
        PROVE  Kept(outbox, outbox')
    <3>1. proc[w].pc \in Processing
      BY <2>3 DEF Claim, Complete, Fail, At, Processing, Recording
    <3>2. proc[w].entry \in 1 .. Len(outbox)
      BY <3>1, EntryInOutbox
    <3>3. \/ UNCHANGED outbox
          \/ \E s \in {"processing", "completed", "failed"} : SetState(proc[w].entry, s)
      BY <2>3 DEF Claim, Complete, Fail
    <3> QED
      BY <1>1, <3>2, <3>3, <2>1, StateKept
  <2> QED
    BY <2>1, <2>2, <2>3
    DEF Next, Step, ProcessStep, vars, stores, RewriteDraft, UpsertCreatedRow, PromoteDraft,
        CheckDuplicate, ListSuperseded, WriteFile, UpsertRow, ClearStore, FillStore,
        RecordPromotion, UpdateDraft, UpsertDraftRow, AuditAccepted, StartReplay, NextEntry,
        Throw, Crash
<1>3. DOMAIN rows \subseteq DOMAIN rows'
  <2>1. ASSUME NEW w \in Workers, UpsertRow(w) PROVE DOMAIN rows \subseteq DOMAIN rows'
    BY <2>1 DEF UpsertRow, Put
  <2> QED
    BY <2>1
    DEF Next, Step, ProcessStep, vars, stores, RewriteDraft, UpsertCreatedRow, PromoteDraft,
        CheckDuplicate, ListSuperseded, Enqueue, Claim, WriteFile, ClearStore, FillStore,
        RecordPromotion, UpdateDraft, UpsertDraftRow, Complete, Fail, AuditAccepted,
        StartReplay, NextEntry, Throw, Crash
<1>4. events \subseteq events' /\ accepted \subseteq accepted'
  BY DEF Next, Step, ProcessStep, vars, stores, RewriteDraft, UpsertCreatedRow, PromoteDraft,
         CheckDuplicate, ListSuperseded, Enqueue, Claim, WriteFile, UpsertRow, ClearStore,
         FillStore, RecordPromotion, UpdateDraft, UpsertDraftRow, Complete, Fail,
         AuditAccepted, StartReplay, NextEntry, Throw, Crash
<1>5. Files \subseteq Files'
  <2>1. CASE UNCHANGED <<vault, torn>>
    BY <2>1 DEF Files
  <2>2. ASSUME NEW d \in Drafts, UNCHANGED vault,
               torn' = torn \ {DraftId(d)} \/ torn' = torn \cup {DraftId(d)}
        PROVE  Files \subseteq Files'
    BY <2>2, PathsAssumption DEF Files
  <2>3. ASSUME NEW STATE n, vault' = Put(vault, n.path, n), torn' = torn \ {n.path}
        PROVE  Files \subseteq Files'
    <3>1. DOMAIN vault' = DOMAIN vault \cup {n.path}
      BY <2>3 DEF Put
    <3> QED
      BY <2>3, <3>1 DEF Files
  <2>4. ASSUME NEW STATE n, vault' = Drop(vault, n.path), torn' = torn \cup {n.path}
        PROVE  Files \subseteq Files'
    <3>1. DOMAIN vault' = DOMAIN vault \ {n.path}
      BY <2>4 DEF Drop
    <3> QED
      BY <2>4, <3>1 DEF Files
  <2>5. ASSUME NEW w \in Workers, NEW d \in Drafts, NEW b \in Bodies, RewriteDraft(w, d, b)
        PROVE  Files \subseteq Files'
    BY <2>2, <2>5 DEF RewriteDraft
  <2>6. ASSUME NEW w \in Workers, WriteFile(w) PROVE Files \subseteq Files'
    BY <2>3, <2>6 DEF WriteFile
  <2>7. ASSUME NEW w \in Workers, UpdateDraft(w) PROVE Files \subseteq Files'
    <3>1. EntryOf(w).draft \in Drafts
      BY <2>7, EntryInOutbox DEF UpdateDraft, At, Processing, Recording, Entry
    <3> QED
      BY <2>2, <2>7, <3>1 DEF UpdateDraft
  <2>8. ASSUME NEW w \in Workers, Crash(w) PROVE Files \subseteq Files'
    <3>1. CASE At(w, "draft") /\ torn' = torn \cup {DraftId(EntryOf(w).draft)} /\ UNCHANGED vault
      BY <3>1 DEF Files
    <3> QED
      BY <2>1, <2>4, <2>8, <3>1 DEF Crash
  <2> QED
    BY <2>1, <2>5, <2>6, <2>7, <2>8
    DEF Next, Step, ProcessStep, vars, stores, UpsertCreatedRow, PromoteDraft,
        CheckDuplicate, ListSuperseded, Enqueue, Claim, UpsertRow, ClearStore, FillStore,
        RecordPromotion, UpsertDraftRow, Complete, Fail, AuditAccepted, StartReplay,
        NextEntry, Throw
<1> QED
  BY <1>1, <1>2, <1>3, <1>4, <1>5

\* Progress after the step of one call, from what the step adds.
LEMMA ProgressMoves ==
  ASSUME Shape, Progress, [Next]_vars, NEW w \in Workers, \E p : Become(w, p),
         DoneOK(proc'[w], outbox', DOMAIN rows', Files', events'),
         \A e \in events' \ events :
           Applied(outbox'[e].writes, Len(outbox'[e].writes), DOMAIN rows', Files'),
         Completed' \subseteq events', accepted' \subseteq events',
         \A d \in Drafts : staging'[d].state = "promoted" =>
           \/ staging'[d] = staging[d]
           \/ \E e \in events' : outbox'[e].draft = d /\ outbox'[e].body = staging'[d].body
  PROVE  Progress'
<1>1. /\ Kept(outbox, outbox') /\ DOMAIN rows \subseteq DOMAIN rows'
      /\ Files \subseteq Files' /\ events \subseteq events' /\ accepted \subseteq accepted'
  BY NothingWithdrawn
<1>2. events \subseteq 1 .. Len(outbox)
  BY DEF Shape, TypeOK, OutboxOK
<1>3. \A v \in Workers : DoneOK(proc'[v], outbox', DOMAIN rows', Files', events')
  <2>1. \A v \in Workers \ {w} : proc'[v] = proc[v]
    BY DEF Become, Shape, TypeOK, CallsOK
  <2>2. \A v \in Workers \ {w} : DoneOK(proc[v], outbox', DOMAIN rows', Files', events')
    BY <1>1, DoneKept DEF Shape, Progress
  <2> QED
    BY <2>1, <2>2
<1>4. EventsApplied'
  <2>1. \A e \in events :
          Applied(outbox'[e].writes, Len(outbox'[e].writes), DOMAIN rows', Files')
    BY <1>1, <1>2 DEF Progress, EventsApplied, Applied, Kept
  <2> QED
    BY <2>1 DEF EventsApplied
<1>5. PromotedText'
  <2>1. SUFFICES ASSUME NEW d \in Drafts, staging'[d].state = "promoted",
                        staging'[d] = staging[d]
                 PROVE  \E e \in events' : /\ outbox'[e].draft = d
                                           /\ outbox'[e].body = staging'[d].body
    BY DEF PromotedText
  <2>2. PICK e \in events : outbox[e].draft = d /\ outbox[e].body = staging[d].body
    BY <2>1 DEF Progress, PromotedText
  <2> QED
    BY <1>1, <1>2, <2>1, <2>2 DEF Kept
<1> QED
  BY <1>3, <1>4, <1>5 DEF Progress

\* ... and after a step that changes none of the outbox, the events, the
\* audit and the drafts.
LEMMA ProgressQuiet ==
  ASSUME Shape, Progress, [Next]_vars, NEW w \in Workers, \E p : Become(w, p),
         DoneOK(proc'[w], outbox, DOMAIN rows', Files', events),
         UNCHANGED <<staging, outbox, events, accepted>>
  PROVE  Progress'
<1>1. DoneOK(proc'[w], outbox', DOMAIN rows', Files', events')
  OBVIOUS
<1>2. Completed' \subseteq events' /\ accepted' \subseteq events'
  BY DEF Progress, Completed
<1> QED
  BY <1>1, <1>2, ProgressMoves

\* A change of state completes no entry but e.
LEMMA StateCompletes ==
  ASSUME Shape, NEW STATE e, e \in 1 .. Len(outbox),
         NEW s \in {"pending", "processing", "failed", "completed"}, SetState(e, s)
  PROVE  Completed' \subseteq IF s = "completed" THEN Completed \cup {e} ELSE Completed
<1>1. outbox \in Seq(Entry)
  BY DEF Shape, TypeOK, OutboxOK
<1>2. Len(outbox') = Len(outbox)
  BY <1>1, StateKept
<1>3. outbox[e] \in Entry
  BY <1>1, ElementOfSeq
<1>4. \A j \in 1 .. Len(outbox) :
        outbox'[j].state = IF j = e THEN s ELSE outbox[j].state
  BY <1>1, <1>3, LenProperties DEF SetState, Entry
<1> QED
  BY <1>2, <1>4 DEF Completed

\* Progress holds at the start.
LEMMA ProgressInit == Init => Progress
<1> SUFFICES ASSUME Init PROVE Progress
  OBVIOUS
<1>1. \A w \in Workers : DoneOK(proc[w], outbox, DOMAIN rows, Files, events)
  BY NothingDone DEF Init, Idle, Applying, Recording
<1> QED
  BY <1>1 DEF Init, Progress, EventsApplied, Completed, PromotedText

\* Steps of calls that process no entry keep Progress.
LEMMA DecidingProgress ==
  ASSUME Shape, Progress, [Next]_vars, NEW w \in Workers,
         \/ \E d \in Drafts, b \in Bodies : RewriteDraft(w, d, b)
         \/ UpsertCreatedRow(w)
         \/ \E d \in Drafts, current \in AsCurrent, path \in TargetPaths \cup {None} :
              PromoteDraft(w, d, current, path)
         \/ CheckDuplicate(w) \/ ListSuperseded(w)
         \/ StartReplay(w) \/ NextEntry(w) \/ Throw(w)
  PROVE  Progress'
<1> DEFINE Off == Applying \cup Recording \cup {"record"}
           Quiet == UNCHANGED <<staging, outbox, events, accepted>>
<1>1. proc[w] \in Proc
  BY DEF Shape, TypeOK, CallsOK
<1>2. ASSUME NEW STATE p, Become(w, p), p.pc \notin Off, Quiet PROVE Progress'
  <2>1. proc'[w] = p
    BY <1>2, BecomeMoves
  <2>2. DoneOK(proc'[w], outbox, DOMAIN rows', Files', events)
    BY <1>2, <2>1, NothingDone
  <2> QED
    BY <1>2, <2>2, ProgressQuiet
<1>3. \A l \in {"idle", "created", "checking", "listing", "enqueue", "next", "claim", "failing"} :
        l \notin Off
  BY DEF Applying, Recording
<1> HIDE DEF Off
<1>4. ASSUME NEW d \in Drafts, NEW b \in Bodies, RewriteDraft(w, d, b)
      PROVE  Progress'
  <2> DEFINE p == [Idle EXCEPT !.pc = "created",
                     !.plan = [draft |-> d, body |-> b, current |-> FALSE,
                               path |-> None, older |-> <<>>, after |-> {}]]
  <2>1. /\ Become(w, p) /\ UNCHANGED <<outbox, events, accepted>>
        /\ staging' = [staging EXCEPT ![d] = [body |-> b, state |-> "draft"]]
    BY <1>4 DEF RewriteDraft
  <2>2. p.pc \notin Off
    BY <1>3 DEF Idle
  <2> HIDE DEF p
  <2>3. DoneOK(proc'[w], outbox', DOMAIN rows', Files', events')
    BY <2>1, <2>2, BecomeMoves, NothingDone DEF Off
  <2>4. Completed' \subseteq events' /\ accepted' \subseteq events'
    BY <2>1 DEF Progress, Completed
  <2>5. \A c \in Drafts : staging'[c].state = "promoted" => staging'[c] = staging[c]
    BY <2>1 DEF Shape, TypeOK, DraftsOK
  <2> QED
    BY <2>1, <2>3, <2>4, <2>5, ProgressMoves
<1>5. Idle.pc \notin Off
  BY <1>3 DEF Idle
<1>6. CASE UpsertCreatedRow(w)
  BY <1>2, <1>5, <1>6 DEF UpsertCreatedRow
<1>7. CASE CheckDuplicate(w)
  <2>1. [proc[w] EXCEPT !.pc = IF proc[w].plan.current THEN "listing" ELSE "enqueue"].pc
          \notin Off
    BY <1>1, <1>3 DEF Proc
  <2>2. CASE HasLiveTwin(proc[w].plan.body)
    BY <1>2, <1>5, <1>7, <2>2 DEF CheckDuplicate, stores
  <2>3. CASE ~ HasLiveTwin(proc[w].plan.body)
    BY <1>2, <1>7, <2>1, <2>3 DEF CheckDuplicate, stores
  <2> QED
    BY <2>2, <2>3
<1>8. CASE ListSuperseded(w)
  <2>1. ASSUME NEW older, Become(w, [proc[w] EXCEPT !.pc = "enqueue", !.plan.older = older])
        PROVE  Progress'
    <3>1. [proc[w] EXCEPT !.pc = "enqueue", !.plan.older = older].pc \notin Off
      BY <1>1, <1>3 DEF Proc
    <3> QED
      BY <1>2, <1>8, <2>1, <3>1 DEF ListSuperseded, stores
  <2>2. CASE Become(w, Idle)
    BY <1>2, <1>5, <1>8, <2>2 DEF ListSuperseded, stores
  <2> QED
    BY <1>8, <2>1, <2>2 DEF ListSuperseded
<1>9. ASSUME NEW d \in Drafts, NEW current \in AsCurrent,
             NEW path \in TargetPaths \cup {None}, PromoteDraft(w, d, current, path)
      PROVE  Progress'
  <2> DEFINE p == [Idle EXCEPT !.pc = "checking",
                     !.plan = [draft |-> d, body |-> staging[d].body, current |-> current,
                               path |-> path, older |-> <<>>, after |-> Completed]]
  <2>1. p.pc \notin Off
    BY <1>3 DEF Idle
  <2>2. Become(w, p) /\ Quiet
    BY <1>9 DEF PromoteDraft, stores
  <2> HIDE DEF p
  <2> QED
    BY <1>2, <2>1, <2>2
<1>10. CASE StartReplay(w)
  <2> DEFINE p == [Idle EXCEPT !.pc = "next", !.replaying = TRUE, !.todo = Listed]
  <2>1. p.pc \notin Off
    BY <1>3 DEF Idle
  <2>2. (Become(w, Idle) \/ Become(w, p)) /\ Quiet
    BY <1>10 DEF StartReplay, stores
  <2> HIDE DEF p
  <2> QED
    BY <1>2, <1>5, <2>1, <2>2
<1>11. CASE NextEntry(w)
  <2>1. ASSUME NEW e,
               Become(w, [proc[w] EXCEPT !.pc = "claim", !.entry = e, !.todo = @ \ {e}])
        PROVE  Progress'
    <3>1. [proc[w] EXCEPT !.pc = "claim", !.entry = e, !.todo = @ \ {e}].pc \notin Off
      BY <1>1, <1>3 DEF Proc
    <3> QED
      BY <1>2, <1>11, <2>1, <3>1 DEF NextEntry, stores
  <2>2. CASE Become(w, Idle)
    BY <1>2, <1>5, <1>11, <2>2 DEF NextEntry, stores
  <2> QED
    BY <1>11, <2>1, <2>2 DEF NextEntry
<1>12. CASE Throw(w)
  <2>1. [proc[w] EXCEPT !.pc = "failing"].pc \notin Off
    BY <1>1, <1>3 DEF Proc
  <2> QED
    BY <1>2, <1>12, <2>1 DEF Throw, stores
<1> QED
  BY <1>4, <1>6, <1>7, <1>8, <1>9, <1>10, <1>11, <1>12

\* Steps on the outbox that complete nothing, and crashes, keep Progress.
LEMMA QueueProgress ==
  ASSUME Shape, Progress, [Next]_vars, NEW w \in Workers,
         Enqueue(w) \/ Claim(w) \/ Fail(w) \/ Crash(w)
  PROVE  Progress'
<1> DEFINE Off == Applying \cup Recording \cup {"record"}
<1>1. Idle.pc \notin Off /\ "claim" \notin Off /\ "next" \notin Off
  BY DEF Idle, Applying, Recording
<1>2. proc[w] \in Proc /\ outbox \in Seq(Entry) /\ Len(outbox) \in Nat
  BY LenProperties DEF Shape, TypeOK, CallsOK, OutboxOK
<1>3. Returned(proc[w]).pc \notin Off
  BY <1>1, <1>2 DEF Returned, Proc
<1> HIDE DEF Off
<1>4. ASSUME NEW STATE p, Become(w, p), p.pc \notin Off,
             UNCHANGED <<staging, events, accepted>>, Completed' \subseteq Completed
      PROVE  Progress'
  <2>1. DoneOK(proc'[w], outbox', DOMAIN rows', Files', events')
    BY <1>4, BecomeMoves, NothingDone DEF Off
  <2>2. Completed' \subseteq events' /\ accepted' \subseteq events'
    BY <1>4 DEF Progress
  <2> QED
    BY <1>4, <2>1, <2>2, ProgressMoves
<1>5. CASE Enqueue(w)
  <2> DEFINE p == [Idle EXCEPT !.pc = "claim", !.entry = Len(outbox) + 1]
  <2>1. p.pc \notin Off
    BY <1>1 DEF Idle
  <2>2. (Become(w, Idle) \/ Become(w, p)) /\ UNCHANGED <<staging, events, accepted>>
    BY <1>5 DEF Enqueue
  <2>3. Completed' \subseteq Completed
    <3>1. \/ UNCHANGED outbox
          \/ \E x : outbox' = Append(outbox, x) /\ x.state = "pending"
      BY <1>5 DEF Enqueue
    <3>2. ASSUME NEW x, outbox' = Append(outbox, x), x.state = "pending"
          PROVE  Completed' \subseteq Completed
      <4>1. Len(outbox') = Len(outbox) + 1
        BY <1>2, <3>2
      <4>2. \A i \in 1 .. Len(outbox) + 1 :
              outbox'[i] = IF i \in 1 .. Len(outbox) THEN outbox[i] ELSE x
        BY <1>2, <3>2
      <4> QED
        BY <1>2, <3>2, <4>1, <4>2 DEF Completed
    <3> QED
      BY <3>1, <3>2 DEF Completed
  <2> HIDE DEF p
  <2> QED
    BY <1>1, <1>4, <2>1, <2>2, <2>3
<1>6. CASE Fail(w)
  <2>1. proc[w].entry \in 1 .. Len(outbox)
    BY <1>6, EntryInOutbox DEF Fail, At, Processing
  <2>2. SetState(proc[w].entry, "failed")
    BY <1>6 DEF Fail
  <2>3. Completed' \subseteq Completed
    BY <2>1, <2>2, StateCompletes
  <2> QED
    BY <1>3, <1>4, <1>6, <2>3 DEF Fail
<1>7. CASE Claim(w)
  <2> DEFINE p == [proc[w] EXCEPT !.pc = "file", !.pos = 1]
  <2>1. CASE Become(w, Returned(proc[w])) /\ UNCHANGED outbox
    BY <1>3, <1>4, <1>7, <2>1 DEF Claim, Completed
  <2>2. CASE SetState(proc[w].entry, "processing") /\ Become(w, p)
    <3>1. proc[w].entry \in 1 .. Len(outbox)
      BY <1>7, EntryInOutbox DEF Claim, At, Processing
    <3>2. Completed' \subseteq Completed
      BY <2>2, <3>1, StateCompletes
    <3>3. proc'[w] = p /\ p.pc = "file" /\ p.pos = 1
      BY <1>2, <2>2, BecomeMoves DEF Proc
    <3> HIDE DEF p
    <3>4. DoneOK(proc'[w], outbox', DOMAIN rows', Files', events')
      BY <3>3 DEF DoneOK, Recording
    <3>5. UNCHANGED <<staging, events, accepted>>
      BY <1>7 DEF Claim
    <3>6. Completed' \subseteq events' /\ accepted' \subseteq events'
      BY <3>2, <3>5 DEF Progress
    <3> QED
      BY <2>2, <3>4, <3>5, <3>6, ProgressMoves
  <2> QED
    BY <1>7, <2>1, <2>2 DEF Claim
<1>8. CASE Crash(w)
  BY <1>1, <1>4, <1>8 DEF Crash, Completed
<1> QED
  BY <1>5, <1>6, <1>7, <1>8

\* Writing one note keeps Progress.
LEMMA WritingProgress ==
  ASSUME Shape, Progress, [Next]_vars, NEW w \in Workers,
         WriteFile(w) \/ UpsertRow(w) \/ ClearStore(w) \/ FillStore(w)
  PROVE  Progress'
<1> DEFINE writes == outbox[proc[w].entry].writes
           pos == proc[w].pos
           Written(i) == writes[i].id \in DOMAIN rows' /\ writes[i].path \in Files'
<1>1. proc[w].pc \in Applying
  BY DEF WriteFile, UpsertRow, ClearStore, FillStore, At, Applying
<1>2. /\ CallOK(proc[w], outbox) /\ Writing(w) \in Note /\ proc[w] \in Proc
      /\ Len(writes) \in Nat /\ pos \in 1 .. Len(writes)
      /\ Writing(w) = writes[pos]
  BY <1>1, EntryInOutbox, WritingIsNote DEF Processing, CallOK, EntryOf, Writing
<1>3. /\ UNCHANGED <<staging, outbox, events, accepted>> /\ \E p : Become(w, p)
  BY DEF WriteFile, UpsertRow, ClearStore, FillStore
<1>4. /\ DOMAIN rows \subseteq DOMAIN rows' /\ Files \subseteq Files'
      /\ DoneOK(proc[w], outbox, DOMAIN rows, Files, events)
  BY NothingWithdrawn DEF Progress
<1>5. \A i \in 1 .. Len(writes) : i < pos => Written(i)
  BY <1>1, <1>4 DEF DoneOK
<1> HIDE DEF pos, Written
<1>6. CASE WriteFile(w)
  <2>1. proc'[w] = [proc[w] EXCEPT !.pc = "row"]
    BY <1>6, BecomeMoves DEF WriteFile
  <2>2. writes[pos].path \in Files'
    <3>1. DOMAIN vault' = DOMAIN vault \cup {Writing(w).path}
      BY <1>6 DEF WriteFile, Put
    <3>2. Writing(w).path \in Paths
      BY <1>2 DEF Note
    <3> QED
      BY <1>2, <3>1, <3>2 DEF Files
  <2>3. proc'[w].pc = "row" /\ proc'[w].entry = proc[w].entry /\ proc'[w].pos = pos
    BY <1>2, <2>1 DEF Proc, pos
  <2>4. DoneOK(proc'[w], outbox, DOMAIN rows', Files', events)
    BY <1>5, <2>2, <2>3 DEF DoneOK, Recording, Written
  <2> QED
    BY <1>3, <2>4, ProgressQuiet
<1>7. CASE UpsertRow(w)
  <2>1. writes[pos].path \in Files'
    BY <1>4, <1>7 DEF UpsertRow, At, DoneOK, pos
  <2>2. CASE Become(w, [proc[w] EXCEPT !.pc = "failing"])
    <3>1. proc'[w].pc = "failing"
      BY <1>2, <2>2, BecomeMoves DEF Proc
    <3>2. DoneOK(proc'[w], outbox, DOMAIN rows', Files', events)
      BY <3>1, NothingDone DEF Applying, Recording
    <3> QED
      BY <1>3, <3>2, ProgressQuiet
  <2>3. CASE /\ rows' = Put(rows, Writing(w).id, Writing(w))
             /\ Become(w, [proc[w] EXCEPT !.pc = "clear", !.store = 1])
    <3>1. proc'[w] = [proc[w] EXCEPT !.pc = "clear", !.store = 1]
      BY <2>3, BecomeMoves
    <3>2. proc'[w].pc = "clear" /\ proc'[w].entry = proc[w].entry /\ proc'[w].pos = pos
      BY <1>2, <3>1 DEF Proc, pos
    <3>3. writes[pos].id \in DOMAIN rows'
      BY <1>2, <2>3 DEF Put
    <3>4. DoneOK(proc'[w], outbox, DOMAIN rows', Files', events)
      BY <1>5, <2>1, <3>2, <3>3 DEF DoneOK, Recording, Written
    <3> QED
      BY <1>3, <3>4, ProgressQuiet
  <2> QED
    BY <1>7, <2>2, <2>3 DEF UpsertRow
<1>8. CASE ClearStore(w)
  <2>1. proc'[w] = [proc[w] EXCEPT !.pc = "fill"]
    BY <1>8, BecomeMoves DEF ClearStore
  <2>2. proc'[w].pc = "fill" /\ proc'[w].entry = proc[w].entry /\ proc'[w].pos = pos
    BY <1>2, <2>1 DEF Proc, pos
  <2>3. Written(pos)
    BY <1>4, <1>8 DEF ClearStore, At, DoneOK, pos, Written
  <2>4. DoneOK(proc'[w], outbox, DOMAIN rows', Files', events)
    BY <1>5, <2>2, <2>3 DEF DoneOK, Recording, Written
  <2> QED
    BY <1>3, <2>4, ProgressQuiet
<1>9. CASE FillStore(w)
  <2>1. proc'[w] = AfterFill(proc[w], writes)
    BY <1>9, BecomeMoves DEF FillStore, EntryOf
  <2>2. Written(pos)
    BY <1>4, <1>9 DEF FillStore, At, DoneOK, pos, Written
  <2>3. proc'[w].entry = proc[w].entry
    BY <1>2, <2>1 DEF AfterFill, Proc
  <2>4. CASE proc'[w].pc = "clear" /\ proc'[w].pos = pos
    BY <1>5, <2>2, <2>3, <2>4, <1>3, ProgressQuiet DEF DoneOK, Recording, Written
  <2>5. CASE proc'[w].pc = "file" /\ proc'[w].pos = pos + 1
    <3>1. \A i \in 1 .. Len(writes) : i < pos + 1 => Written(i)
      <4>1. \A i \in 1 .. Len(writes) : i < pos + 1 => i = pos \/ i < pos
        BY <1>2
      <4> QED
        BY <1>5, <2>2, <4>1
    <3>2. DoneOK(proc'[w], outbox, DOMAIN rows', Files', events)
      BY <2>3, <2>5, <3>1 DEF DoneOK, Recording, Written
    <3> QED
      BY <1>3, <3>2, ProgressQuiet
  <2>6. CASE proc'[w].pc = "record" /\ ~ (pos < Len(writes))
    <3>1. \A i \in 1 .. Len(writes) : Written(i)
      <4>1. \A i \in 1 .. Len(writes) : i = pos \/ i < pos
        BY <1>2, <2>6
      <4> QED
        BY <1>5, <2>2, <4>1
    <3>2. DoneOK(proc'[w], outbox, DOMAIN rows', Files', events)
      BY <2>3, <2>6, <3>1 DEF DoneOK, Applying, Recording, Written, Applied
    <3> QED
      BY <1>3, <3>2, ProgressQuiet
  <2> QED
    BY <1>2, <2>1, <2>4, <2>5, <2>6 DEF AfterFill, Proc, pos
<1> QED
  BY <1>6, <1>7, <1>8, <1>9

\* Recording a promotion and completing its entry keep Progress.
LEMMA RecordingProgress ==
  ASSUME Shape, Progress, [Next]_vars, NEW w \in Workers,
         \/ RecordPromotion(w) \/ UpdateDraft(w) \/ UpsertDraftRow(w)
         \/ Complete(w) \/ AuditAccepted(w)
  PROVE  Progress'
<1> DEFINE e == proc[w].entry
<1>1. proc[w].pc \in {"record"} \cup Recording /\ proc[w].pc \in Processing
  BY DEF RecordPromotion, UpdateDraft, UpsertDraftRow, Complete, AuditAccepted, At,
         Processing, Recording
<1>2. e \in 1 .. Len(outbox) /\ EntryOf(w) \in Entry /\ proc[w] \in Proc
  BY <1>1, EntryInOutbox DEF CallOK
<1>3. /\ Kept(outbox, outbox') /\ DOMAIN rows \subseteq DOMAIN rows'
      /\ Files \subseteq Files' /\ events \subseteq events'
  BY NothingWithdrawn
<1>4. /\ Applied(outbox[e].writes, Len(outbox[e].writes), DOMAIN rows, Files)
      /\ proc[w].pc \in Recording => e \in events
  BY <1>1 DEF Progress, DoneOK
<1>5. Applied(outbox'[e].writes, Len(outbox'[e].writes), DOMAIN rows', Files')
  BY <1>2, <1>3, <1>4 DEF Kept, Applied
<1>6. \E p : Become(w, p)
  BY DEF RecordPromotion, UpdateDraft, UpsertDraftRow, Complete, AuditAccepted
<1>7. ASSUME proc'[w].pc \in Recording, proc'[w].entry = e, e \in events'
      PROVE  DoneOK(proc'[w], outbox', DOMAIN rows', Files', events')
  BY <1>5, <1>7 DEF DoneOK, Applying, Recording
<1> HIDE DEF e
<1>8. CASE RecordPromotion(w)
  <2>1. /\ proc'[w] = [proc[w] EXCEPT !.pc = "draft"] /\ events' = events \cup {e}
        /\ UNCHANGED <<staging, outbox, accepted>>
    BY <1>8, BecomeMoves DEF RecordPromotion, e
  <2>2. proc'[w].pc \in Recording /\ proc'[w].entry = e
    BY <1>2, <2>1 DEF Proc, Recording, e
  <2>3. Completed' \subseteq events' /\ accepted' \subseteq events'
    BY <2>1 DEF Progress, Completed
  <2> QED
    BY <1>5, <1>6, <1>7, <2>1, <2>2, <2>3, ProgressMoves
<1>9. CASE UpdateDraft(w)
  <2>1. /\ proc'[w] = [proc[w] EXCEPT !.pc = "draftRow"]
        /\ UNCHANGED <<outbox, events, accepted>>
    BY <1>9, BecomeMoves DEF UpdateDraft
  <2>2. proc'[w].pc \in Recording /\ proc'[w].entry = e
    BY <1>2, <2>1 DEF Proc, Recording, e
  <2>3. e \in events
    BY <1>4, <1>9 DEF UpdateDraft, At, Recording
  <2>4. Completed' \subseteq events' /\ accepted' \subseteq events'
    BY <2>1 DEF Progress, Completed
  <2>5. \A d \in Drafts :
          \/ staging'[d] = staging[d]
          \/ outbox'[e].draft = d /\ outbox'[e].body = staging'[d].body
    <3>1. staging' = [staging EXCEPT ![outbox[e].draft] = [body |-> outbox[e].body,
                                                           state |-> "promoted"]]
      BY <1>9 DEF UpdateDraft, EntryOf, e
    <3>2. staging \in [Drafts -> [body : Bodies, state : {"draft", "promoted"}]]
      BY DEF Shape, TypeOK, DraftsOK
    <3> QED
      BY <2>1, <3>1, <3>2
  <2> QED
    BY <1>6, <1>7, <2>1, <2>2, <2>3, <2>4, <2>5, ProgressMoves
<1>10. CASE UpsertDraftRow(w)
  <2>1. /\ proc'[w] = [proc[w] EXCEPT !.pc = "complete"]
        /\ UNCHANGED <<staging, outbox, events, accepted>>
    BY <1>10, BecomeMoves DEF UpsertDraftRow
  <2>2. proc'[w].pc \in Recording /\ proc'[w].entry = e
    BY <1>2, <2>1 DEF Proc, Recording, e
  <2>3. e \in events
    BY <1>4, <1>10 DEF UpsertDraftRow, At, Recording
  <2>4. DoneOK(proc'[w], outbox, DOMAIN rows', Files', events)
    BY <1>7, <2>1, <2>2, <2>3
  <2> QED
    BY <1>6, <2>1, <2>4, ProgressQuiet
<1>11. CASE Complete(w)
  <2>1. SetState(e, "completed") /\ UNCHANGED <<staging, events, accepted>>
    BY <1>11 DEF Complete, e
  <2>2. e \in events
    BY <1>4, <1>11 DEF Complete, At, Recording
  <2>3. Completed' \subseteq Completed \cup {e}
    BY <1>2, <2>1, StateCompletes
  <2>4. Completed' \subseteq events' /\ accepted' \subseteq events'
    BY <2>1, <2>2, <2>3 DEF Progress
  <2>5. DoneOK(proc'[w], outbox', DOMAIN rows', Files', events')
    <3>1. CASE proc[w].replaying
      <4>1. proc'[w] = Returned(proc[w])
        BY <1>11, <3>1, BecomeMoves DEF Complete
      <4>2. proc'[w].pc = "next"
        BY <1>2, <3>1, <4>1 DEF Returned, Proc
      <4> QED
        BY <4>2, NothingDone DEF Applying, Recording
    <3>2. CASE ~ proc[w].replaying
      <4>1. proc'[w] = [proc[w] EXCEPT !.pc = "audit"]
        BY <1>11, <3>2, BecomeMoves DEF Complete
      <4>2. proc'[w].pc \in Recording /\ proc'[w].entry = e
        BY <1>2, <4>1 DEF Proc, Recording, e
      <4> QED
        BY <1>7, <2>1, <2>2, <4>2
    <3> QED
      BY <3>1, <3>2
  <2> QED
    BY <1>6, <2>1, <2>4, <2>5, ProgressMoves
<1>12. CASE AuditAccepted(w)
  <2>1. /\ proc'[w] = Idle /\ UNCHANGED <<staging, outbox, events>>
        /\ accepted' \subseteq accepted \cup {e}
    BY <1>12, BecomeMoves DEF AuditAccepted, e
  <2>2. e \in events
    BY <1>4, <1>12 DEF AuditAccepted, At, Recording
  <2>3. DoneOK(proc'[w], outbox', DOMAIN rows', Files', events')
    BY <2>1, NothingDone DEF Idle, Applying, Recording
  <2>4. Completed' \subseteq events' /\ accepted' \subseteq events'
    BY <2>1, <2>2 DEF Progress, Completed
  <2> QED
    BY <1>6, <2>1, <2>3, <2>4, ProgressMoves
<1> QED
  BY <1>8, <1>9, <1>10, <1>11, <1>12

\* Every step keeps Progress.
LEMMA ProgressNext ==
  Shape /\ Progress /\ [Next]_vars => Progress'
<1> SUFFICES ASSUME Shape, Progress, [Next]_vars PROVE Progress'
  OBVIOUS
<1>1. CASE UNCHANGED vars
  BY <1>1 DEF vars, stores, Progress, EventsApplied, PromotedText, Completed, Files
<1>2. ASSUME NEW w \in Workers, Step(w) PROVE Progress'
  BY <1>2, DecidingProgress, QueueProgress, WritingProgress, RecordingProgress
  DEF Step, ProcessStep
<1>3. ASSUME NEW w \in Workers,
             \/ \E d \in Drafts, b \in Bodies : RewriteDraft(w, d, b)
             \/ \E d \in Drafts, current \in AsCurrent, path \in TargetPaths \cup {None} :
                  PromoteDraft(w, d, current, path)
             \/ StartReplay(w) \/ Throw(w)
      PROVE  Progress'
  BY <1>3, DecidingProgress
<1>4. ASSUME NEW w \in Workers, Crash(w) PROVE Progress'
  BY <1>4, QueueProgress
<1> QED
  BY <1>1, <1>2, <1>3, <1>4 DEF Next

\* Shape and Progress are the inductive invariant.
LEMMA ProgressInvariant == Spec => [](Shape /\ Progress)
<1>1. Init => Shape /\ Progress
  BY ShapeInit, ProgressInit
<1>2. Shape /\ Progress /\ [Next]_vars => (Shape /\ Progress)'
  BY ShapeNext, ProgressNext
<1> QED
  BY <1>1, <1>2, PTL DEF Spec

-----------------------------------------------------------------------------
\* What a recorded promotion wrote is all there.
LEMMA EventWritten ==
  ASSUME Shape, Progress, NEW e \in events
  PROVE  /\ WrittenBy(e) \subseteq DOMAIN rows
         /\ FilesOf(e) \subseteq DOMAIN vault \cup torn
<1>1. e \in 1 .. Len(outbox) /\ outbox \in Seq(Entry)
  BY DEF Shape, TypeOK, OutboxOK
<1>2. outbox[e] \in Entry
  BY <1>1, ElementOfSeq
<1>3. DOMAIN outbox[e].writes = 1 .. Len(outbox[e].writes)
  BY <1>2, LenProperties DEF Entry
<1>4. Applied(outbox[e].writes, Len(outbox[e].writes), DOMAIN rows, Files)
  BY DEF Progress, EventsApplied
<1> QED
  BY <1>3, <1>4 DEF Applied, WrittenBy, FilesOf, Files

\* A completed entry has been recorded, and every note it promised is in the
\* notes table and on disk, however many calls processed it and wherever they
\* failed or died.
THEOREM CompletedIsApplied == Spec => []CompletedImpliesApplied
<1>1. Shape /\ Progress => CompletedImpliesApplied
  BY EventWritten DEF CompletedImpliesApplied, Progress
<1> QED
  BY <1>1, ProgressInvariant, PTL

\* A draft that reads "promoted" holds a text that a recorded promotion
\* published, and that note is in the notes table.
THEOREM PromotedDraftIsPublished == Spec => []PromotedDraftIsCanonical
<1>1. Shape /\ Progress => PromotedDraftIsCanonical
  <2> SUFFICES ASSUME Shape, Progress, NEW d \in Drafts, staging[d].state = "promoted"
               PROVE  \E e \in events : /\ outbox[e].draft = d
                                        /\ outbox[e].body = staging[d].body
                                        /\ NoteId(e) \in DOMAIN rows
    BY DEF PromotedDraftIsCanonical
  <2>1. PICK e \in events : outbox[e].draft = d /\ outbox[e].body = staging[d].body
    BY DEF Progress, PromotedText
  <2>2. NoteId(e) \in DOMAIN rows
    BY DEF Shape, OwnNotes, TypeOK, OutboxOK, Progress, EventsApplied, Applied
  <2> QED
    BY <2>1, <2>2
<1> QED
  BY <1>1, ProgressInvariant, PTL

-----------------------------------------------------------------------------
(* The outbox implements PromotionLog.                                     *)

\* The outbox starts as the log does.
LEMMA LogInit == Init => Log!Init
BY DEF Init, Log!Init

\* Every step of the outbox is one of the log, or none.
LEMMA LogNext ==
  ASSUME Shape, Progress, Next
  PROVE  [Log!Next]_Log!vars
<1> DEFINE asked == [e \in 1 .. Len(outbox) |-> WrittenBy(e)]
<1>1. /\ Kept(outbox, outbox') /\ Len(outbox) \in Nat /\ Len(outbox') \in Nat
  BY NothingWithdrawn
<1>2. /\ DOMAIN asked \subseteq DOMAIN asked'
      /\ \A e \in DOMAIN asked : asked'[e] = asked[e]
  BY <1>1 DEF Kept, WrittenBy
<1>3. CASE UNCHANGED <<rows, events, accepted>>
  BY <1>2, <1>3 DEF Log!Next, Log!Ask
<1>4. ASSUME NEW w \in Workers, UpsertRow(w), ~ UNCHANGED rows
      PROVE  Log!Catalogue
  <2>1. /\ rows' = Put(rows, Writing(w).id, Writing(w))
        /\ UNCHANGED <<outbox, events, accepted>>
    BY <1>4 DEF UpsertRow
  <2>2. proc[w].pc \in Applying /\ proc[w].pc \in Processing
    BY <1>4 DEF UpsertRow, At, Applying, Processing
  <2>3. proc[w].entry \in DOMAIN asked /\ Writing(w).id \in asked[proc[w].entry]
    <3>1. /\ proc[w].entry \in 1 .. Len(outbox) /\ EntryOf(w) \in Entry
          /\ proc[w].pos \in 1 .. Len(EntryOf(w).writes)
      BY <2>2, EntryInOutbox DEF CallOK, EntryOf
    <3>2. proc[w].pos \in DOMAIN EntryOf(w).writes
      BY <3>1, LenProperties DEF Entry
    <3> QED
      BY <3>1, <3>2 DEF WrittenBy, EntryOf, Writing
  <2>4. DOMAIN rows' = DOMAIN rows \cup {Writing(w).id}
    BY <2>1 DEF Put
  <2> QED
    BY <2>1, <2>3, <2>4 DEF Log!Catalogue, WrittenBy
<1>5. ASSUME NEW w \in Workers, RecordPromotion(w)
      PROVE  proc[w].entry \in DOMAIN asked /\ Log!Promote(proc[w].entry)
  <2>1. /\ proc[w].pc \in Processing /\ proc[w].pc = "record"
        /\ events' = events \cup {proc[w].entry} /\ UNCHANGED <<rows, outbox, accepted>>
    BY <1>5 DEF RecordPromotion, At, Processing
  <2>2. proc[w].entry \in 1 .. Len(outbox) /\ EntryOf(w) \in Entry
    BY <2>1, EntryInOutbox
  <2>3. DOMAIN EntryOf(w).writes = 1 .. Len(EntryOf(w).writes)
    BY <2>2, LenProperties DEF Entry
  <2>4. WrittenBy(proc[w].entry) \subseteq DOMAIN rows
    BY <2>1, <2>3 DEF Progress, DoneOK, Applied, WrittenBy, EntryOf
  <2> QED
    BY <2>1, <2>2, <2>4 DEF Log!Promote, WrittenBy
<1>6. ASSUME NEW w \in Workers, AuditAccepted(w), ~ UNCHANGED accepted
      PROVE  proc[w].entry \in DOMAIN asked /\ Log!Acknowledge(proc[w].entry)
  <2>1. /\ proc[w].pc \in Processing /\ proc[w].pc \in Recording
        /\ accepted' = accepted \cup {proc[w].entry} /\ UNCHANGED <<rows, outbox, events>>
    BY <1>6 DEF AuditAccepted, At, Processing, Recording
  <2>2. proc[w].entry \in 1 .. Len(outbox)
    BY <2>1, EntryInOutbox
  <2>3. proc[w].entry \in events
    BY <2>1 DEF Progress, DoneOK
  <2> QED
    BY <2>1, <2>2, <2>3 DEF Log!Acknowledge, WrittenBy
<1>7. \/ UNCHANGED <<rows, events, accepted>>
      \/ \E w \in Workers : \/ UpsertRow(w) /\ ~ UNCHANGED rows
                            \/ RecordPromotion(w)
                            \/ AuditAccepted(w) /\ ~ UNCHANGED accepted
  <2>1. UNCHANGED rows \/ \E w \in Workers : UpsertRow(w)
    BY DEF Next, Step, ProcessStep, stores, RewriteDraft, UpsertCreatedRow, PromoteDraft,
           CheckDuplicate, ListSuperseded, Enqueue, Claim, WriteFile, ClearStore,
           FillStore, RecordPromotion, UpdateDraft, UpsertDraftRow, Complete, Fail,
           AuditAccepted, StartReplay, NextEntry, Throw, Crash
  <2>2. UNCHANGED events \/ \E w \in Workers : RecordPromotion(w)
    BY DEF Next, Step, ProcessStep, stores, RewriteDraft, UpsertCreatedRow, PromoteDraft,
           CheckDuplicate, ListSuperseded, Enqueue, Claim, WriteFile, UpsertRow,
           ClearStore, FillStore, UpdateDraft, UpsertDraftRow, Complete, Fail,
           AuditAccepted, StartReplay, NextEntry, Throw, Crash
  <2>3. UNCHANGED accepted \/ \E w \in Workers : AuditAccepted(w)
    BY DEF Next, Step, ProcessStep, stores, RewriteDraft, UpsertCreatedRow, PromoteDraft,
           CheckDuplicate, ListSuperseded, Enqueue, Claim, WriteFile, UpsertRow,
           ClearStore, FillStore, RecordPromotion, UpdateDraft, UpsertDraftRow, Complete,
           Fail, StartReplay, NextEntry, Throw, Crash
  <2> QED
    BY <2>1, <2>2, <2>3
<1> QED
  BY <1>3, <1>4, <1>5, <1>6, <1>7 DEF Log!Next

\* Claims, crashes, errors and replays notwithstanding, every behaviour of the
\* outbox is one of PromotionLog.
THEOREM Refinement == Spec => ImplementsLog
<1>1. Shape /\ Progress /\ [Next]_vars => [Log!Next]_Log!vars
  <2>1. ASSUME UNCHANGED vars PROVE UNCHANGED Log!vars
    BY <2>1 DEF vars, stores, Log!vars, WrittenBy
  <2> QED
    BY <2>1, LogNext
<1> QED
  BY <1>1, LogInit, ProgressInvariant, PTL DEF Spec, ImplementsLog, Log!Spec
-----------------------------------------------------------------------------
(* One worker at a time.                                                   *)

OneWorker == \A v, w \in Workers : v = w

Written == {"record", "draft", "draftRow", "complete"}
Holding == Applying \cup Written \cup {"failing"}

\* A call that has claimed an entry finds it open, and no file it has written torn.
ClaimOK(p, box, T) ==
  LET writes == box[p.entry].writes IN
  /\ p.pc \in Holding => box[p.entry].state # "completed"
  /\ p.pc \in Applying => \A i \in 1 .. Len(writes) : i < p.pos => writes[i].path \notin T
  /\ p.pc \in {"row", "clear", "fill"} => writes[p.pos].path \notin T
  /\ p.pc \in Written => \A i \in 1 .. Len(writes) : writes[i].path \notin T

Alone == TornFileIsReplayable /\ \A w \in Workers : ClaimOK(proc[w], outbox, torn)

\* A call that has claimed nothing has nothing to keep.
LEMMA NothingClaimed ==
  ASSUME NEW p, p.pc \notin Holding, NEW box, NEW T
  PROVE  ClaimOK(p, box, T)
BY DEF ClaimOK, Holding, Applying

\* Neither has one that returns.
LEMMA ReturnedClaimsNothing ==
  ASSUME NEW p PROVE Returned(p).pc \notin Holding
BY DEF Returned, Idle, Holding, Applying, Written

\* A step that keeps the outbox and tears no file keeps Alone, if its call is in order.
LEMMA AloneQuiet ==
  ASSUME OneWorker, Alone, NEW w \in Workers, UNCHANGED outbox, torn' \subseteq torn,
         ClaimOK(proc'[w], outbox, torn')
  PROVE  Alone' /\ Completed \subseteq Completed'
<1>1. \A v \in Workers : ClaimOK(proc'[v], outbox', torn')
  BY DEF OneWorker
<1>2. Completed' = Completed /\ OpenEntries' = OpenEntries
  BY DEF Completed, OpenEntries
<1>3. TornFileIsReplayable'
  BY <1>2 DEF Alone, TornFileIsReplayable, FilesOf
<1> QED
  BY <1>1, <1>2, <1>3 DEF Alone

\* An entry changes its state, and that of no other.
LEMMA StateChanges ==
  ASSUME Shape, NEW w \in Workers, proc[w].pc \in Processing,
         NEW s \in {"pending", "processing", "failed", "completed"},
         SetState(proc[w].entry, s)
  PROVE  /\ Len(outbox') = Len(outbox) /\ proc[w].entry \in 1 .. Len(outbox)
         /\ \A e \in 1 .. Len(outbox) :
              /\ outbox'[e].state = IF e = proc[w].entry THEN s ELSE outbox[e].state
              /\ outbox'[e].writes = outbox[e].writes
<1> DEFINE e == proc[w].entry
           x == [outbox[e] EXCEPT !.state = s]
<1>1. e \in 1 .. Len(outbox) /\ outbox[e] \in Entry /\ outbox \in Seq(Entry)
  BY EntryInOutbox DEF EntryOf, Shape, TypeOK, OutboxOK
<1>2. x \in Entry /\ x.state = s /\ x.writes = outbox[e].writes
  BY <1>1 DEF Entry
<1>3. outbox' = [outbox EXCEPT ![e] = x]
  BY DEF SetState
<1> HIDE DEF x, e
<1>4. /\ Len(outbox') = Len(outbox)
      /\ \A j \in 1 .. Len(outbox) : outbox'[j] = IF j = e THEN x ELSE outbox[j]
  BY <1>1, <1>2, <1>3, ExceptSeq
<1> QED
  BY <1>1, <1>2, <1>4 DEF e

\* Claiming an entry that is not completed, or giving it up, leaves it open.
LEMMA AloneReopens ==
  ASSUME OneWorker, Shape, Alone, NEW w \in Workers, proc[w].pc \in Processing,
         EntryOf(w).state # "completed",
         NEW s \in {"processing", "failed"}, SetState(proc[w].entry, s), UNCHANGED torn,
         ClaimOK(proc'[w], outbox', torn)
  PROVE  Alone' /\ Completed \subseteq Completed'
<1>1. /\ Len(outbox') = Len(outbox) /\ proc[w].entry \in 1 .. Len(outbox)
      /\ \A e \in 1 .. Len(outbox) :
           /\ outbox'[e].state = IF e = proc[w].entry THEN s ELSE outbox[e].state
           /\ outbox'[e].writes = outbox[e].writes
  BY StateChanges
<1>2. Completed' = Completed /\ OpenEntries' = OpenEntries
  BY <1>1 DEF Completed, OpenEntries, EntryOf
<1>3. \A e \in OpenEntries : FilesOf(e)' = FilesOf(e)
  BY <1>1 DEF FilesOf, OpenEntries
<1>4. TornFileIsReplayable'
  BY <1>2, <1>3 DEF Alone, TornFileIsReplayable
<1>5. \A v \in Workers : ClaimOK(proc'[v], outbox', torn')
  BY DEF OneWorker
<1> QED
  BY <1>2, <1>4, <1>5 DEF Alone

\* Where each action leaves its call.
LEMMA NextLabels ==
  ASSUME Shape, NEW w \in Workers
  PROVE  /\ UpsertCreatedRow(w) \/ AuditAccepted(w) \/ Crash(w) => proc'[w].pc = "idle"
         /\ (\E d \in Drafts, b \in Bodies : RewriteDraft(w, d, b)) => proc'[w].pc = "created"
         /\ (\E d \in Drafts, current \in AsCurrent, path \in TargetPaths \cup {None} :
               PromoteDraft(w, d, current, path)) => proc'[w].pc = "checking"
         /\ CheckDuplicate(w) => proc'[w].pc \in {"idle", "listing", "enqueue"}
         /\ ListSuperseded(w) => proc'[w].pc \in {"idle", "enqueue"}
         /\ Enqueue(w) \/ NextEntry(w) => proc'[w].pc \in {"idle", "claim"}
         /\ StartReplay(w) \/ Fail(w) => proc'[w].pc \in {"idle", "next"}
         /\ Claim(w) => proc'[w].pc \in {"idle", "next", "file"}
         /\ WriteFile(w) => proc'[w].pc = "row"
         /\ UpsertRow(w) => proc'[w].pc \in {"failing", "clear"}
         /\ ClearStore(w) => proc'[w].pc = "fill"
         /\ FillStore(w) => proc'[w].pc \in {"clear", "file", "record"}
         /\ RecordPromotion(w) => proc'[w].pc = "draft"
         /\ UpdateDraft(w) => proc'[w].pc = "draftRow"
         /\ UpsertDraftRow(w) => proc'[w].pc = "complete"
         /\ Complete(w) => proc'[w].pc \in {"idle", "next", "audit"}
         /\ Throw(w) => proc'[w].pc = "failing"
<1>1. proc[w] \in Proc /\ DOMAIN proc = Workers
  BY DEF Shape, TypeOK, CallsOK
<1>2. Idle.pc = "idle" /\ Returned(proc[w]).pc \in {"idle", "next"}
  BY <1>1 DEF Returned, Idle, Proc
<1> USE DEF Become
<1>3. UpsertCreatedRow(w) \/ AuditAccepted(w) \/ Crash(w) => proc'[w].pc = "idle"
  BY <1>1, <1>2 DEF UpsertCreatedRow, AuditAccepted, Crash
<1>4. ASSUME NEW d \in Drafts, NEW b \in Bodies, RewriteDraft(w, d, b)
      PROVE  proc'[w].pc = "created"
  BY <1>1, <1>4 DEF RewriteDraft, Idle
<1>5. ASSUME NEW d \in Drafts, NEW current \in AsCurrent,
             NEW path \in TargetPaths \cup {None}, PromoteDraft(w, d, current, path)
      PROVE  proc'[w].pc = "checking"
  BY <1>1, <1>5 DEF PromoteDraft, Idle
<1>6. ASSUME CheckDuplicate(w) PROVE proc'[w].pc \in {"idle", "listing", "enqueue"}
  <2>1. \E l \in {"listing", "enqueue"} : \/ proc'[w] = Idle
                                          \/ proc'[w] = [proc[w] EXCEPT !.pc = l]
    BY <1>1, <1>6 DEF CheckDuplicate
  <2> QED
    BY <1>1, <1>2, <2>1 DEF Proc
<1>7. ASSUME ListSuperseded(w) PROVE proc'[w].pc \in {"idle", "enqueue"}
  <2>1. \/ Become(w, Idle)
        \/ \E older : Become(w, [proc[w] EXCEPT !.pc = "enqueue", !.plan.older = older])
    BY <1>7, Zenon DEF ListSuperseded
  <2>2. \A older : [proc[w] EXCEPT !.pc = "enqueue", !.plan.older = older].pc = "enqueue"
    BY <1>1 DEF Proc
  <2>3. CASE proc'[w] = Idle
    BY <1>2, <2>3
  <2>4. CASE proc'[w] # Idle
    <3>1. PICK older : proc'[w] = [proc[w] EXCEPT !.pc = "enqueue", !.plan.older = older]
      BY <1>1, <2>1, <2>4
    <3>2. proc'[w].pc = "enqueue"
      BY <2>2, <3>1
    <3> QED
      BY <3>2
  <2> QED
    BY <2>3, <2>4
<1>8. ASSUME Enqueue(w) PROVE proc'[w].pc \in {"idle", "claim"}
  <2>1. \/ proc'[w] = Idle
        \/ \E e : proc'[w] = [Idle EXCEPT !.pc = "claim", !.entry = e]
    BY <1>1, <1>8 DEF Enqueue
  <2>2. \A e : [Idle EXCEPT !.pc = "claim", !.entry = e].pc = "claim"
    BY DEF Idle
  <2> QED
    BY <1>2, <2>1, <2>2
<1>9. ASSUME NextEntry(w) PROVE proc'[w].pc \in {"idle", "claim"}
  <2>1. \/ proc'[w] = Idle
        \/ \E e : proc'[w] = [proc[w] EXCEPT !.pc = "claim", !.entry = e, !.todo = @ \ {e}]
    BY <1>1, <1>9 DEF NextEntry
  <2>2. \A e : [proc[w] EXCEPT !.pc = "claim", !.entry = e, !.todo = @ \ {e}].pc = "claim"
    BY <1>1 DEF Proc
  <2>3. CASE proc'[w] = Idle
    BY <1>2, <2>3
  <2>4. CASE proc'[w] # Idle
    <3>1. PICK e : proc'[w] = [proc[w] EXCEPT !.pc = "claim", !.entry = e, !.todo = @ \ {e}]
      BY <2>1, <2>4
    <3>2. proc'[w].pc = "claim"
      BY <2>2, <3>1
    <3> QED
      BY <3>2
  <2> QED
    BY <2>3, <2>4
<1>10. ASSUME StartReplay(w) PROVE proc'[w].pc \in {"idle", "next"}
  <2> DEFINE q == [Idle EXCEPT !.pc = "next", !.replaying = TRUE, !.todo = Listed]
  <2>1. q.pc = "next"
    BY DEF Idle
  <2>2. proc'[w] = IF Listed = {} THEN Idle ELSE q
    BY <1>1, <1>10 DEF StartReplay
  <2> HIDE DEF q
  <2>3. proc'[w].pc = "next" \/ proc'[w].pc = "idle"
    BY <1>2, <2>1, <2>2
  <2> QED
    BY <2>3
<1>11. Fail(w) => proc'[w].pc \in {"idle", "next"}
  BY <1>1, <1>2 DEF Fail
<1>12. Claim(w) => proc'[w].pc \in {"idle", "next", "file"}
  BY <1>1, <1>2 DEF Claim, Proc
<1>13. WriteFile(w) => proc'[w].pc = "row"
  BY <1>1 DEF WriteFile, Proc
<1>14. UpsertRow(w) => proc'[w].pc \in {"failing", "clear"}
  BY <1>1 DEF UpsertRow, Proc
<1>15. ClearStore(w) => proc'[w].pc = "fill"
  BY <1>1 DEF ClearStore, Proc
<1>16. FillStore(w) => proc'[w].pc \in {"clear", "file", "record"}
  BY <1>1 DEF FillStore, AfterFill, Proc
<1>17. /\ RecordPromotion(w) => proc'[w].pc = "draft"
       /\ UpdateDraft(w) => proc'[w].pc = "draftRow"
       /\ UpsertDraftRow(w) => proc'[w].pc = "complete"
       /\ Throw(w) => proc'[w].pc = "failing"
  BY <1>1 DEF RecordPromotion, UpdateDraft, UpsertDraftRow, Throw, Proc
<1>18. Complete(w) => proc'[w].pc \in {"idle", "next", "audit"}
  BY <1>1, <1>2 DEF Complete, Proc
<1> QED
  BY <1>3, <1>4, <1>5, <1>6, <1>7, <1>8, <1>9, <1>10, <1>11, <1>12, <1>13, <1>14, <1>15,
     <1>16, <1>17, <1>18

\* The steps of a call that has claimed nothing keep Alone.
LEMMA DecidingAlone ==
  ASSUME OneWorker, Shape, Alone, NEW w \in Workers,
         \/ \E d \in Drafts, b \in Bodies : RewriteDraft(w, d, b)
         \/ UpsertCreatedRow(w)
         \/ \E d \in Drafts, current \in AsCurrent, path \in TargetPaths \cup {None} :
              PromoteDraft(w, d, current, path)
         \/ CheckDuplicate(w) \/ ListSuperseded(w) \/ StartReplay(w) \/ NextEntry(w)
         \/ AuditAccepted(w)
  PROVE  Alone' /\ Completed \subseteq Completed'
<1>1. UNCHANGED outbox /\ torn' \subseteq torn
  BY DEF stores, RewriteDraft, UpsertCreatedRow, PromoteDraft, CheckDuplicate,
         ListSuperseded, StartReplay, NextEntry, AuditAccepted
<1>2. proc'[w].pc \notin Holding
  BY NextLabels DEF Holding, Applying, Written
<1> QED
  BY <1>1, <1>2, NothingClaimed, AloneQuiet

\* The steps between claiming an entry and completing it keep Alone.
LEMMA WorkingAlone ==
  ASSUME OneWorker, Shape, Alone, NEW w \in Workers,
         \/ WriteFile(w) \/ UpsertRow(w) \/ ClearStore(w) \/ FillStore(w)
         \/ RecordPromotion(w) \/ UpdateDraft(w) \/ UpsertDraftRow(w) \/ Throw(w)
  PROVE  Alone' /\ Completed \subseteq Completed'
<1> DEFINE p == proc[w]
           writes == outbox[p.entry].writes
<1> USE DEF Holding, Applying, Written
<1>1. UNCHANGED outbox /\ torn' \subseteq torn
  BY DEF stores, WriteFile, UpsertRow, ClearStore, FillStore, RecordPromotion,
         UpdateDraft, UpsertDraftRow, Throw
<1>2. /\ p \in Proc /\ p.pc \in Holding /\ p.pc \in Processing
      /\ CallOK(p, outbox) /\ ClaimOK(p, outbox, torn')
  <2>1. p.pc \in Holding /\ p.pc \in Processing
    BY DEF At, WriteFile, UpsertRow, ClearStore, FillStore, RecordPromotion, UpdateDraft,
           UpsertDraftRow, Throw, Processing, Recording
  <2>2. ClaimOK(p, outbox, torn)
    BY DEF Alone
  <2> QED
    BY <1>1, <2>1, <2>2 DEF Shape, TypeOK, CallsOK, ClaimOK
<1>3. writes \in Seq(Note) /\ Len(writes) \in Nat
  BY <1>2, EntryInOutbox, LenProperties DEF EntryOf, Entry
<1>4. ASSUME NEW STATE q, Become(w, q), ClaimOK(q, outbox, torn')
      PROVE  Alone' /\ Completed \subseteq Completed'
  BY <1>1, <1>4, BecomeMoves, AloneQuiet
<1>5. ASSUME NEW l \in {"failing"} PROVE ClaimOK([p EXCEPT !.pc = l], outbox, torn')
  BY <1>2 DEF ClaimOK, Proc
<1>6. CASE WriteFile(w)
  <2>1. p.pc = "file" /\ torn' = torn \ {writes[p.pos].path}
        /\ Become(w, [p EXCEPT !.pc = "row"])
    BY <1>6 DEF WriteFile, At, Writing, EntryOf
  <2>2. ClaimOK([p EXCEPT !.pc = "row"], outbox, torn')
    BY <1>2, <2>1 DEF ClaimOK, Proc
  <2> QED
    BY <1>4, <2>1, <2>2
<1>7. CASE UpsertRow(w)
  <2>1. p.pc = "row" /\ (\/ Become(w, [p EXCEPT !.pc = "failing"])
                         \/ Become(w, [p EXCEPT !.pc = "clear", !.store = 1]))
    BY <1>7 DEF UpsertRow, At
  <2>2. ClaimOK([p EXCEPT !.pc = "clear", !.store = 1], outbox, torn')
    BY <1>2, <2>1 DEF ClaimOK, Proc
  <2> QED
    BY <1>4, <1>5, <2>1, <2>2
<1>8. CASE ClearStore(w)
  <2>1. p.pc = "clear" /\ Become(w, [p EXCEPT !.pc = "fill"])
    BY <1>8 DEF ClearStore, At
  <2>2. ClaimOK([p EXCEPT !.pc = "fill"], outbox, torn')
    BY <1>2, <2>1 DEF ClaimOK, Proc
  <2> QED
    BY <1>4, <2>1, <2>2
<1>9. CASE FillStore(w)
  <2>1. p.pc = "fill" /\ Become(w, AfterFill(p, writes))
    BY <1>9 DEF FillStore, At, EntryOf
  <2>2. CASE p.store < Len(Stores)
    <3>1. ClaimOK([p EXCEPT !.pc = "clear", !.store = p.store + 1], outbox, torn')
      BY <1>2, <2>1 DEF ClaimOK, Proc
    <3> QED
      BY <1>4, <2>1, <2>2, <3>1 DEF AfterFill
  <2>3. CASE ~ (p.store < Len(Stores)) /\ p.pos < Len(writes)
    <3> DEFINE q == [p EXCEPT !.pc = "file", !.pos = p.pos + 1, !.store = 0]
    <3>1. q.pc = "file" /\ q.entry = p.entry /\ q.pos = p.pos + 1 /\ p.pos \in Nat
      BY <1>2 DEF Proc
    <3>2. \A i \in 1 .. Len(writes) : i < p.pos + 1 => i < p.pos \/ i = p.pos
      BY <1>3, <3>1
    <3>3. ClaimOK(q, outbox, torn')
      BY <1>2, <2>1, <3>1, <3>2 DEF ClaimOK
    <3> QED
      BY <1>4, <2>1, <2>3, <3>3 DEF AfterFill
  <2>4. CASE ~ (p.store < Len(Stores)) /\ ~ (p.pos < Len(writes))
    <3> DEFINE q == [p EXCEPT !.pc = "record"]
    <3>1. q.pc = "record" /\ q.entry = p.entry /\ p.pos \in Nat
      BY <1>2 DEF Proc
    <3>2. \A i \in 1 .. Len(writes) : i < p.pos \/ i = p.pos
      BY <1>3, <2>4, <3>1
    <3>3. ClaimOK(q, outbox, torn')
      BY <1>2, <2>1, <3>1, <3>2 DEF ClaimOK
    <3> QED
      BY <1>4, <2>1, <2>4, <3>3 DEF AfterFill
  <2> QED
    BY <2>2, <2>3, <2>4
<1>10. CASE RecordPromotion(w) \/ UpdateDraft(w) \/ UpsertDraftRow(w)
  <2>1. /\ p.pc \in Written
        /\ \E l \in {"draft", "draftRow", "complete"} : Become(w, [p EXCEPT !.pc = l])
    BY <1>10 DEF RecordPromotion, UpdateDraft, UpsertDraftRow, At
  <2>2. ASSUME NEW l \in {"draft", "draftRow", "complete"}
        PROVE  ClaimOK([p EXCEPT !.pc = l], outbox, torn')
    BY <1>2, <2>1 DEF ClaimOK, Proc
  <2> QED
    BY <1>4, <2>1, <2>2
<1>11. CASE Throw(w)
  BY <1>4, <1>5, <1>11 DEF Throw
<1> QED
  BY <1>6, <1>7, <1>8, <1>9, <1>10, <1>11

\* Queuing, claiming, giving up and completing an entry keep Alone, and so does a death.
LEMMA QueueAlone ==
  ASSUME OneWorker, Shape, Alone, NEW w \in Workers,
         Enqueue(w) \/ Claim(w) \/ Fail(w) \/ Complete(w) \/ Crash(w)
  PROVE  Alone' /\ Completed \subseteq Completed'
<1> DEFINE p == proc[w]
<1>1. p \in Proc /\ ClaimOK(p, outbox, torn) /\ outbox \in Seq(Entry) /\ Len(outbox) \in Nat
  BY LenProperties DEF Alone, Shape, TypeOK, CallsOK, OutboxOK
<1>2. ASSUME NEW STATE q, Become(w, q), q.pc \notin Holding
      PROVE  ClaimOK(proc'[w], outbox', torn')
  BY <1>2, BecomeMoves, NothingClaimed
<1>3. Idle.pc \notin Holding /\ [p EXCEPT !.pc = "audit"].pc \notin Holding
  BY <1>1 DEF Idle, Proc, Holding, Applying, Written
<1>4. CASE Enqueue(w)
  <2> DEFINE e == Len(outbox) + 1
             q == [Idle EXCEPT !.pc = "claim", !.entry = e]
  <2>1. CASE Len(outbox) = MaxPromotions
    <3>1. Become(w, Idle) /\ UNCHANGED <<outbox, torn>>
      BY <1>4, <2>1 DEF Enqueue
    <3> QED
      BY <1>2, <1>3, <3>1, AloneQuiet
  <2>2. CASE Len(outbox) # MaxPromotions
    <3>1. /\ Become(w, q) /\ UNCHANGED torn
          /\ \E x : outbox' = Append(outbox, x) /\ x.state = "pending"
      BY <1>4, <2>2 DEF Enqueue
    <3>2. q.pc \notin Holding
      BY DEF Idle, Holding, Applying, Written
    <3>3. \A v \in Workers : ClaimOK(proc'[v], outbox', torn')
      BY <1>2, <3>1, <3>2 DEF OneWorker
    <3>4. /\ Len(outbox') = Len(outbox) + 1 /\ outbox'[e].state = "pending"
          /\ \A j \in 1 .. Len(outbox) : outbox'[j] = outbox[j]
      BY <1>1, <3>1
    <3>5. Completed' = Completed /\ OpenEntries \subseteq OpenEntries'
      BY <1>1, <3>4 DEF Completed, OpenEntries
    <3>6. \A j \in OpenEntries : FilesOf(j)' = FilesOf(j)
      BY <3>4 DEF OpenEntries, FilesOf
    <3>7. TornFileIsReplayable'
      BY <3>1, <3>5, <3>6 DEF Alone, TornFileIsReplayable
    <3> QED
      BY <3>3, <3>5, <3>7 DEF Alone
  <2> QED
    BY <2>1, <2>2
<1>5. CASE Claim(w)
  <2>1. p.pc = "claim" /\ p.pc \in Processing /\ UNCHANGED torn
    BY <1>5 DEF Claim, At, Processing
  <2>2. CASE EntryOf(w).state = "completed"
    <3>1. Become(w, Returned(p)) /\ UNCHANGED outbox
      BY <1>5, <2>2 DEF Claim
    <3> QED
      BY <1>2, <2>1, <3>1, ReturnedClaimsNothing, AloneQuiet
  <2>3. CASE EntryOf(w).state # "completed"
    <3> DEFINE q == [p EXCEPT !.pc = "file", !.pos = 1]
    <3>1. SetState(p.entry, "processing") /\ Become(w, q)
      BY <1>5, <2>3 DEF Claim
    <3>2. /\ Len(outbox') = Len(outbox) /\ p.entry \in 1 .. Len(outbox)
          /\ outbox'[p.entry].state = "processing"
      BY <2>1, <3>1, StateChanges
    <3>3. q.pc = "file" /\ q.pos = 1 /\ q.entry = p.entry
      BY <1>1 DEF Proc
    <3>4. ClaimOK(q, outbox', torn)
      BY <3>2, <3>3 DEF ClaimOK, Holding, Applying, Written
    <3>5. proc'[w] = q
      BY <3>1, BecomeMoves
    <3> QED
      BY <2>1, <2>3, <3>1, <3>4, <3>5, AloneReopens
  <2> QED
    BY <2>2, <2>3
<1>6. CASE Fail(w)
  <2>1. /\ p.pc = "failing" /\ p.pc \in Processing /\ UNCHANGED torn
        /\ SetState(p.entry, "failed") /\ Become(w, Returned(p))
    BY <1>6 DEF Fail, At, Processing
  <2>2. EntryOf(w).state # "completed"
    BY <1>1, <2>1 DEF ClaimOK, Holding, EntryOf
  <2>3. ClaimOK(proc'[w], outbox', torn)
    BY <1>2, <2>1, ReturnedClaimsNothing
  <2> QED
    BY <2>1, <2>2, <2>3, AloneReopens
<1>7. CASE Complete(w)
  <2>1. /\ p.pc = "complete" /\ p.pc \in Processing /\ UNCHANGED torn
        /\ SetState(p.entry, "completed")
        /\ Become(w, IF p.replaying THEN Returned(p) ELSE [p EXCEPT !.pc = "audit"])
    BY <1>7 DEF Complete, At, Processing, Recording
  <2>2. (IF p.replaying THEN Returned(p) ELSE [p EXCEPT !.pc = "audit"]).pc \notin Holding
    BY <1>3, ReturnedClaimsNothing
  <2>3. \A v \in Workers : ClaimOK(proc'[v], outbox', torn')
    BY <1>2, <2>1, <2>2 DEF OneWorker
  <2>4. /\ Len(outbox') = Len(outbox) /\ p.entry \in 1 .. Len(outbox)
        /\ \A e \in 1 .. Len(outbox) :
             /\ outbox'[e].state = IF e = p.entry THEN "completed" ELSE outbox[e].state
             /\ outbox'[e].writes = outbox[e].writes
    BY <2>1, StateChanges
  <2>5. /\ Completed \subseteq Completed' /\ OpenEntries \ {p.entry} \subseteq OpenEntries'
    BY <2>4 DEF Completed, OpenEntries
  <2>6. \A e \in OpenEntries : FilesOf(e)' = FilesOf(e)
    BY <2>4 DEF OpenEntries, FilesOf
  <2>7. FilesOf(p.entry) \cap torn = {}
    <3>1. DOMAIN outbox[p.entry].writes = 1 .. Len(outbox[p.entry].writes)
      BY <2>1, EntryInOutbox, LenProperties DEF EntryOf, Entry
    <3> QED
      BY <1>1, <2>1, <3>1 DEF ClaimOK, Written, FilesOf
  <2>8. TornFileIsReplayable'
    BY <2>1, <2>5, <2>6, <2>7 DEF Alone, TornFileIsReplayable
  <2> QED
    BY <2>3, <2>5, <2>8 DEF Alone
<1>8. CASE Crash(w)
  <2>1. Become(w, Idle) /\ UNCHANGED outbox
    BY <1>8 DEF Crash
  <2>2. \A v \in Workers : ClaimOK(proc'[v], outbox', torn')
    BY <1>2, <1>3, <2>1 DEF OneWorker
  <2>3. Completed' = Completed /\ OpenEntries' = OpenEntries
    BY <2>1 DEF Completed, OpenEntries
  <2>4. torn' \cap Paths \subseteq torn \cup
          (IF p.pc = "file" THEN {Writing(w).path} ELSE {})
    <3>1. CASE UNCHANGED torn
      BY <3>1
    <3>2. CASE p.pc = "file" /\ torn' = torn \cup {Writing(w).path}
      BY <3>2
    <3>3. CASE p.pc = "draft" /\ torn' = torn \cup {DraftId(EntryOf(w).draft)}
      <4>1. EntryOf(w).draft \in Drafts
        BY <3>3, EntryInOutbox DEF Processing, Recording, Entry
      <4> QED
        BY <3>3, <4>1, PathsAssumption
    <3> QED
      BY <1>8, <3>1, <3>2, <3>3 DEF Crash, At
  <2>5. p.pc = "file" => /\ p.entry \in OpenEntries
                         /\ Writing(w).path \in FilesOf(p.entry)
    <3> HAVE p.pc = "file"
    <3>1. /\ CallOK(p, outbox) /\ p.entry \in 1 .. Len(outbox) /\ EntryOf(w) \in Entry
      BY EntryInOutbox DEF Processing, Applying
    <3>2. p.pos \in DOMAIN EntryOf(w).writes
      BY <3>1, LenProperties DEF CallOK, Applying, EntryOf, Entry
    <3>3. p.entry \in OpenEntries
      BY <1>1, <3>1 DEF ClaimOK, Holding, Applying, OpenEntries, Completed
    <3> QED
      BY <3>2, <3>3 DEF FilesOf, Writing, EntryOf
  <2>6. \A e : FilesOf(e)' = FilesOf(e)
    BY <2>1 DEF FilesOf
  <2>7. TornFileIsReplayable'
    BY <2>3, <2>4, <2>5, <2>6 DEF Alone, TornFileIsReplayable
  <2> QED
    BY <2>2, <2>3, <2>7 DEF Alone
<1> QED
  BY <1>4, <1>5, <1>6, <1>7, <1>8

\* With one worker every step keeps Alone and what is completed.
LEMMA AloneNext ==
  ASSUME OneWorker, Shape, Alone, [Next]_vars
  PROVE  Alone' /\ Completed \subseteq Completed'
<1>1. CASE UNCHANGED vars
  BY <1>1 DEF vars, stores, Alone, TornFileIsReplayable, OpenEntries, Completed, FilesOf
<1>2. ASSUME NEW w \in Workers, Step(w) PROVE Alone' /\ Completed \subseteq Completed'
  BY <1>2, DecidingAlone, WorkingAlone, QueueAlone DEF Step, ProcessStep
<1>3. ASSUME NEW w \in Workers,
             \/ \E d \in Drafts, b \in Bodies : RewriteDraft(w, d, b)
             \/ \E d \in Drafts, current \in AsCurrent, path \in TargetPaths \cup {None} :
                  PromoteDraft(w, d, current, path)
             \/ StartReplay(w) \/ Throw(w) \/ Crash(w)
      PROVE  Alone' /\ Completed \subseteq Completed'
  BY <1>3, DecidingAlone, WorkingAlone, QueueAlone
<1> QED
  BY <1>1, <1>2, <1>3 DEF Next

\* Alone holds at the start.
LEMMA AloneInit == Init => Alone
BY NothingClaimed
DEF Init, Alone, TornFileIsReplayable, Idle, Holding, Applying, Written

-----------------------------------------------------------------------------
(* Calls that never replay, however many there are: each has an entry of its *)
(* own, which it alone completes or leaves.                                  *)

Busy == Processing \ {"audit"}

\* A call at its entry finds it open.
OwnEntry(p, box) ==
  ~ p.replaying /\ p.pc # "next" /\ (p.pc \in Busy => box[p.entry].state # "completed")

Apart ==
  /\ \A w \in Workers : OwnEntry(proc[w], outbox)
  /\ \A v, w \in Workers :
       (v # w /\ proc[v].pc \in Processing /\ proc[w].pc \in Processing) =>
         proc[v].entry # proc[w].entry
  /\ \A p \in torn \cap Paths : \E e \in OpenEntries :
       p \in FilesOf(e) /\ \A w \in Workers : proc[w].pc \in Processing => proc[w].entry # e

\* Apart after the step of one call, from its parts.
LEMMA ApartMoves ==
  ASSUME Shape, Apart, [Next]_vars, NEW w \in Workers, NEW STATE q, Become(w, q),
         OwnEntry(q, outbox'),
         q.pc \in Processing =>
           \/ proc[w].pc \in Processing /\ q.entry = proc[w].entry
           \/ q.entry = Len(outbox) + 1,
         \A e \in 1 .. Len(outbox) :
           \/ outbox'[e].state = outbox[e].state
           \/ proc[w].pc \in Busy /\ e = proc[w].entry,
         \A e \in 1 .. Len(outbox') : e \in 1 .. Len(outbox) \/ outbox'[e].state # "completed",
         \A p \in torn' \cap Paths :
           \/ p \in torn
           \/ /\ proc[w].pc \in Busy /\ q.pc \notin Processing /\ UNCHANGED outbox
              /\ p \in FilesOf(proc[w].entry)
  PROVE  Apart' /\ Completed \subseteq Completed'
<1>1. /\ Kept(outbox, outbox') /\ Len(outbox) \in Nat /\ Len(outbox') \in Nat
      /\ 1 .. Len(outbox) \subseteq 1 .. Len(outbox')
  BY NothingWithdrawn DEF Kept
<1>2. proc'[w] = q /\ \A v \in Workers \ {w} : proc'[v] = proc[v]
  BY BecomeMoves DEF Shape, TypeOK, CallsOK
<1>3. \A v \in Workers : proc[v].pc \in Processing => proc[v].entry \in 1 .. Len(outbox)
  BY DEF Shape, CallOK
<1>4. \A v \in Workers : proc[v].pc \in Busy => proc[v].pc \in Processing
  BY DEF Busy
<1>5. Completed \subseteq Completed'
  BY <1>1 DEF Completed, Apart, OwnEntry
<1>6. ASSUME NEW e \in OpenEntries, ~ (proc[w].pc \in Busy /\ e = proc[w].entry)
      PROVE  e \in OpenEntries'
  BY <1>1, <1>6 DEF OpenEntries, Completed
<1>7. ASSUME NEW v \in Workers \ {w} PROVE OwnEntry(proc'[v], outbox')
  <2>1. OwnEntry(proc[v], outbox) /\ proc'[v] = proc[v]
    BY <1>2 DEF Apart
  <2>2. ASSUME proc[v].pc \in Busy PROVE outbox'[proc[v].entry].state # "completed"
    <3>1. proc[v].entry \in 1 .. Len(outbox)
      BY <1>3, <1>4, <2>2
    <3>2. ~ (proc[w].pc \in Busy /\ proc[v].entry = proc[w].entry)
      BY <1>4, <2>2 DEF Apart
    <3> QED
      BY <2>1, <2>2, <3>1, <3>2 DEF OwnEntry
  <2> QED
    BY <2>1, <2>2 DEF OwnEntry
<1>8. ASSUME NEW u \in Workers, NEW v \in Workers, u # v,
             proc'[u].pc \in Processing, proc'[v].pc \in Processing
      PROVE  proc'[u].entry # proc'[v].entry
  <2>1. ASSUME NEW x \in Workers \ {w}, proc[x].pc \in Processing, q.pc \in Processing
        PROVE  proc[x].entry # q.entry
    <3>1. proc[x].entry # Len(outbox) + 1
      BY <1>1, <1>3, <2>1
    <3> QED
      BY <2>1, <3>1 DEF Apart
  <2>2. CASE u = w
    BY <1>2, <1>8, <2>1, <2>2
  <2>3. CASE v = w
    BY <1>2, <1>8, <2>1, <2>3
  <2>4. CASE u # w /\ v # w
    BY <1>2, <1>8, <2>4 DEF Apart
  <2> QED
    BY <2>2, <2>3, <2>4
<1>9. ASSUME NEW p \in torn' \cap Paths
      PROVE  \E e \in OpenEntries' :
               /\ p \in FilesOf(e)'
               /\ \A v \in Workers : proc'[v].pc \in Processing => proc'[v].entry # e
  <2>1. \A e \in 1 .. Len(outbox) : FilesOf(e)' = FilesOf(e)
    BY <1>1 DEF FilesOf, Kept
  <2>2. CASE p \in torn
    <3>1. PICK e \in OpenEntries :
            /\ p \in FilesOf(e)
            /\ \A v \in Workers : proc[v].pc \in Processing => proc[v].entry # e
      BY <2>2 DEF Apart
    <3>2. e \in 1 .. Len(outbox) /\ e # Len(outbox) + 1
      BY <1>1 DEF OpenEntries
    <3>3. e \in OpenEntries'
      BY <1>4, <1>6, <3>1
    <3>4. ASSUME NEW v \in Workers, proc'[v].pc \in Processing PROVE proc'[v].entry # e
      BY <1>2, <3>1, <3>2, <3>4
    <3> QED
      BY <2>1, <3>1, <3>2, <3>3, <3>4
  <2>3. CASE p \notin torn
    <3> DEFINE e == proc[w].entry
    <3>1. /\ proc[w].pc \in Busy /\ q.pc \notin Processing /\ UNCHANGED outbox
          /\ p \in FilesOf(e)
      BY <2>3
    <3>2. e \in 1 .. Len(outbox) /\ outbox[e].state # "completed"
      BY <1>3, <1>4, <3>1 DEF Apart, OwnEntry
    <3>3. e \in OpenEntries'
      BY <3>1, <3>2 DEF OpenEntries, Completed
    <3>4. ASSUME NEW v \in Workers, proc'[v].pc \in Processing PROVE proc'[v].entry # e
      BY <1>2, <1>4, <3>1, <3>4 DEF Apart
    <3> QED
      BY <2>1, <3>1, <3>2, <3>3, <3>4
  <2> QED
    BY <2>2, <2>3
<1>10. \A v \in Workers : OwnEntry(proc'[v], outbox')
  BY <1>2, <1>7
<1> QED
  BY <1>5, <1>8, <1>9, <1>10 DEF Apart

\* A call that works on its entry keeps it, its plan and its kind.
LEMMA WorkStays ==
  ASSUME Shape, NEW w \in Workers,
         WriteFile(w) \/ UpsertRow(w) \/ ClearStore(w) \/ FillStore(w) \/ RecordPromotion(w)
           \/ UpdateDraft(w) \/ UpsertDraftRow(w) \/ Throw(w)
  PROVE  /\ proc'[w].replaying = proc[w].replaying /\ proc'[w].entry = proc[w].entry
         /\ proc'[w].plan = proc[w].plan
<1> DEFINE p == proc[w]
<1>1. p \in Proc /\ DOMAIN proc = Workers
  BY DEF Shape, TypeOK, CallsOK
<1> DEFINE Same(r) == r.replaying = p.replaying /\ r.entry = p.entry /\ r.plan = p.plan
<1>2. \A l : Same([p EXCEPT !.pc = l])
  BY <1>1 DEF Proc
<1>3. \A l, i : Same([p EXCEPT !.pc = l, !.store = i])
  BY <1>1 DEF Proc
<1>4. \A l, i, j : Same([p EXCEPT !.pc = l, !.pos = i, !.store = j])
  BY <1>1 DEF Proc
<1>5. \/ \E l : Become(w, [p EXCEPT !.pc = l])
      \/ \E l, i : Become(w, [p EXCEPT !.pc = l, !.store = i])
      \/ \E l, i, j : Become(w, [p EXCEPT !.pc = l, !.pos = i, !.store = j])
  BY DEF WriteFile, UpsertRow, ClearStore, FillStore, AfterFill, RecordPromotion,
         UpdateDraft, UpsertDraftRow, Throw
<1>6. ASSUME NEW r, Become(w, r), Same(r) PROVE Same(proc'[w])
  BY <1>1, <1>6 DEF Become
<1> HIDE DEF p, Same
<1>7. Same(proc'[w])
  BY <1>2, <1>3, <1>4, <1>5, <1>6, Zenon
<1> QED
  BY <1>7 DEF Same, p

\* A call that does not replay never does.
LEMMA ClientsStay ==
  ASSUME Shape, NEW w \in Workers, ~ proc[w].replaying,
         \/ \E d \in Drafts, b \in Bodies : RewriteDraft(w, d, b)
         \/ UpsertCreatedRow(w)
         \/ \E d \in Drafts, current \in AsCurrent, path \in TargetPaths \cup {None} :
              PromoteDraft(w, d, current, path)
         \/ CheckDuplicate(w) \/ ListSuperseded(w) \/ Enqueue(w)
         \/ Claim(w) \/ Complete(w) \/ Fail(w) \/ AuditAccepted(w) \/ Crash(w)
  PROVE  ~ proc'[w].replaying
<1> DEFINE p == proc[w]
<1>1. p \in Proc /\ DOMAIN proc = Workers
  BY DEF Shape, TypeOK, CallsOK
<1>2. ~ Idle.replaying /\ Returned(p) = Idle
  BY DEF Idle, Returned
<1>3. \A l : ~ [p EXCEPT !.pc = l].replaying
  BY <1>1 DEF Proc
<1>4. \A r : Become(w, r) => proc'[w] = r
  BY <1>1 DEF Become
<1>5. CASE UpsertCreatedRow(w) \/ AuditAccepted(w) \/ Crash(w) \/ Fail(w)
  BY <1>2, <1>4, <1>5 DEF UpsertCreatedRow, AuditAccepted, Crash, Fail
<1>6. ASSUME NEW d, NEW b, RewriteDraft(w, d, b) PROVE ~ proc'[w].replaying
  BY <1>4, <1>6 DEF RewriteDraft, Idle
<1>7. ASSUME NEW d, NEW current, NEW path, PromoteDraft(w, d, current, path)
      PROVE  ~ proc'[w].replaying
  BY <1>4, <1>7 DEF PromoteDraft, Idle
<1>8. CASE CheckDuplicate(w)
  <2>1. Become(w, Idle) \/ \E l : Become(w, [p EXCEPT !.pc = l])
    BY <1>8 DEF CheckDuplicate
  <2> HIDE DEF p
  <2> QED
    BY <1>2, <1>3, <1>4, <2>1
<1>9. CASE ListSuperseded(w)
  <2>1. Become(w, Idle)
        \/ \E older : Become(w, [p EXCEPT !.pc = "enqueue", !.plan.older = older])
    BY <1>9, Zenon DEF ListSuperseded
  <2>2. \A older : ~ [p EXCEPT !.pc = "enqueue", !.plan.older = older].replaying
    BY <1>1 DEF Proc
  <2> HIDE DEF p
  <2> QED
    BY <1>2, <1>4, <2>1, <2>2
<1>10. CASE Enqueue(w)
  <2>1. Become(w, Idle) \/ \E e : Become(w, [Idle EXCEPT !.pc = "claim", !.entry = e])
    BY <1>10 DEF Enqueue
  <2>2. \A e : ~ [Idle EXCEPT !.pc = "claim", !.entry = e].replaying
    BY DEF Idle
  <2> QED
    BY <1>2, <1>4, <2>1, <2>2
<1>11. CASE Claim(w)
  <2>1. Become(w, Returned(p)) \/ Become(w, [p EXCEPT !.pc = "file", !.pos = 1])
    BY <1>11 DEF Claim
  <2>2. ~ [p EXCEPT !.pc = "file", !.pos = 1].replaying
    BY <1>1 DEF Proc
  <2> QED
    BY <1>2, <1>4, <2>1, <2>2
<1>12. CASE Complete(w)
  <2>1. Become(w, [p EXCEPT !.pc = "audit"])
    BY <1>12 DEF Complete
  <2> QED
    BY <1>3, <1>4, <2>1
<1> QED
  BY <1>5, <1>6, <1>7, <1>8, <1>9, <1>10, <1>11, <1>12

\* The steps of a call that is at no entry, or done with it, keep Apart.
LEMMA DecidingApart ==
  ASSUME Replayers = {}, Shape, Apart, [Next]_vars, NEW w \in Workers,
         \/ \E d \in Drafts, b \in Bodies : RewriteDraft(w, d, b)
         \/ UpsertCreatedRow(w)
         \/ \E d \in Drafts, current \in AsCurrent, path \in TargetPaths \cup {None} :
              PromoteDraft(w, d, current, path)
         \/ CheckDuplicate(w) \/ ListSuperseded(w) \/ StartReplay(w) \/ NextEntry(w)
         \/ AuditAccepted(w)
  PROVE  Apart' /\ Completed \subseteq Completed'
<1>1. UNCHANGED outbox /\ torn' \subseteq torn /\ proc' = [proc EXCEPT ![w] = proc'[w]]
  <2>1. \E q : proc' = [proc EXCEPT ![w] = q]
    BY DEF RewriteDraft, UpsertCreatedRow, PromoteDraft, CheckDuplicate, ListSuperseded,
           StartReplay, NextEntry, AuditAccepted, Become
  <2>2. DOMAIN proc = Workers
    BY DEF Shape, TypeOK, CallsOK
  <2> QED
    BY <2>1, <2>2
    DEF stores, RewriteDraft, UpsertCreatedRow, PromoteDraft, CheckDuplicate,
        ListSuperseded, StartReplay, NextEntry, AuditAccepted
<1>2. ~ StartReplay(w) /\ ~ NextEntry(w) /\ ~ proc[w].replaying
  BY DEF StartReplay, NextEntry, At, Apart, OwnEntry
<1>3. proc'[w].pc \notin Processing /\ proc'[w].pc # "next"
  BY <1>2, NextLabels DEF Processing, Applying, Recording
<1>4. OwnEntry(proc'[w], outbox')
  <2>1. ~ proc'[w].replaying
    BY <1>2, ClientsStay
  <2> QED
    BY <1>3, <2>1 DEF OwnEntry, Busy
<1>5. Become(w, proc'[w])
  BY <1>1 DEF Become
<1> QED
  BY <1>1, <1>3, <1>4, <1>5, ApartMoves

\* The steps between claiming an entry and completing it keep Apart.
LEMMA WorkingApart ==
  ASSUME Shape, Apart, [Next]_vars, NEW w \in Workers,
         \/ WriteFile(w) \/ UpsertRow(w) \/ ClearStore(w) \/ FillStore(w)
         \/ RecordPromotion(w) \/ UpdateDraft(w) \/ UpsertDraftRow(w) \/ Throw(w)
  PROVE  Apart' /\ Completed \subseteq Completed'
<1>1. UNCHANGED outbox /\ torn' \subseteq torn /\ proc' = [proc EXCEPT ![w] = proc'[w]]
  <2>1. \E q : proc' = [proc EXCEPT ![w] = q]
    BY DEF WriteFile, UpsertRow, ClearStore, FillStore, RecordPromotion, UpdateDraft,
           UpsertDraftRow, Throw, Become
  <2>2. DOMAIN proc = Workers
    BY DEF Shape, TypeOK, CallsOK
  <2> QED
    BY <2>1, <2>2
    DEF stores, WriteFile, UpsertRow, ClearStore, FillStore, RecordPromotion,
        UpdateDraft, UpsertDraftRow, Throw
<1>2. OwnEntry(proc[w], outbox) /\ proc[w].pc \in Busy /\ proc[w].pc \in Processing
  BY DEF Apart, Busy, WriteFile, UpsertRow, ClearStore, FillStore, RecordPromotion,
         UpdateDraft, UpsertDraftRow, Throw, At, Processing, Applying, Recording
<1>3. proc'[w].pc \in Busy
  BY NextLabels DEF Busy, Processing, Applying, Recording
<1>4. ~ proc'[w].replaying /\ proc'[w].entry = proc[w].entry
  BY <1>2, WorkStays DEF OwnEntry
<1>5. OwnEntry(proc'[w], outbox')
  BY <1>1, <1>2, <1>3, <1>4 DEF OwnEntry, Busy, Processing, Applying, Recording
<1>6. Become(w, proc'[w])
  BY <1>1 DEF Become
<1> QED
  BY <1>1, <1>2, <1>4, <1>5, <1>6, ApartMoves

\* Queuing, claiming, giving up and completing an entry keep Apart, and so does a death.
LEMMA QueueApart ==
  ASSUME Shape, Apart, [Next]_vars, NEW w \in Workers,
         Enqueue(w) \/ Claim(w) \/ Fail(w) \/ Complete(w) \/ Crash(w)
  PROVE  Apart' /\ Completed \subseteq Completed'
<1> DEFINE p == proc[w]
<1>1. /\ p \in Proc /\ OwnEntry(p, outbox) /\ outbox \in Seq(Entry) /\ Len(outbox) \in Nat
      /\ Returned(p) = Idle
  BY LenProperties DEF Apart, OwnEntry, Shape, TypeOK, CallsOK, OutboxOK, Returned
<1>2. /\ ~ Idle.replaying /\ Idle.pc = "idle"
      /\ Idle.pc \notin Processing /\ OwnEntry(Idle, outbox')
  BY DEF Idle, OwnEntry, Busy, Processing, Applying, Recording
<1>3. CASE Enqueue(w)
  <2> DEFINE e == Len(outbox) + 1
             q == [Idle EXCEPT !.pc = "claim", !.entry = e]
  <2>1. CASE Len(outbox) = MaxPromotions
    <3>1. Become(w, Idle) /\ UNCHANGED <<outbox, torn>>
      BY <1>3, <2>1 DEF Enqueue
    <3> QED
      BY <1>2, <3>1, ApartMoves
  <2>2. CASE Len(outbox) # MaxPromotions
    <3>1. /\ Become(w, q) /\ UNCHANGED torn
          /\ \E x : outbox' = Append(outbox, x) /\ x.state = "pending"
      BY <1>3, <2>2 DEF Enqueue
    <3>2. /\ Len(outbox') = Len(outbox) + 1 /\ outbox'[e].state = "pending"
          /\ \A j \in 1 .. Len(outbox) : outbox'[j] = outbox[j]
      BY <1>1, <3>1
    <3>3. q.entry = e /\ ~ q.replaying /\ q.pc = "claim"
      BY DEF Idle
    <3> HIDE DEF q
    <3>4. OwnEntry(q, outbox')
      BY <3>2, <3>3 DEF OwnEntry
    <3>5. \A j \in 1 .. Len(outbox') : j \in 1 .. Len(outbox) \/ j = e
      BY <1>1, <3>2
    <3>6. \A j \in 1 .. Len(outbox') :
            j \in 1 .. Len(outbox) \/ outbox'[j].state # "completed"
      BY <3>2, <3>5
    <3> QED
      BY <3>1, <3>2, <3>3, <3>4, <3>6, ApartMoves
  <2> QED
    BY <2>1, <2>2
<1>4. CASE Claim(w) \/ Fail(w) \/ Complete(w)
  <2>1. /\ p.pc \in Busy /\ p.pc \in Processing /\ UNCHANGED torn
        /\ p.pc \in {"claim", "failing", "complete"}
    BY <1>4 DEF Claim, Fail, Complete, At, Busy, Processing, Recording
  <2>2. EntryOf(w).state # "completed"
    BY <1>1, <2>1 DEF OwnEntry, EntryOf
  <2> DEFINE s == IF p.pc = "claim" THEN "processing"
                  ELSE IF p.pc = "failing" THEN "failed" ELSE "completed"
             q == IF p.pc = "claim" THEN [p EXCEPT !.pc = "file", !.pos = 1]
                  ELSE IF p.pc = "failing" THEN Idle ELSE [p EXCEPT !.pc = "audit"]
  <2>3. SetState(p.entry, s) /\ Become(w, q)
    BY <1>1, <1>4, <2>2 DEF Claim, Fail, Complete, At, OwnEntry
  <2>4. s \in {"pending", "processing", "failed", "completed"}
    OBVIOUS
  <2>5. /\ Len(outbox') = Len(outbox) /\ p.entry \in 1 .. Len(outbox)
        /\ \A e \in 1 .. Len(outbox) :
             outbox'[e].state = IF e = p.entry THEN s ELSE outbox[e].state
    <3> HIDE DEF s, p
    <3> QED
      BY <2>1, <2>3, <2>4, StateChanges DEF p
  <2>6. /\ ~ q.replaying /\ q.pc \in {"file", "idle", "audit"}
        /\ q.pc # "idle" => q.entry = p.entry
        /\ q.pc = "file" => s # "completed"
    BY <1>1, <1>2, <2>1 DEF OwnEntry, Proc
  <2>7. OwnEntry(q, outbox')
    <3>1. q.pc \in Busy => outbox'[q.entry].state # "completed"
      <4> SUFFICES ASSUME q.pc \in Busy PROVE outbox'[q.entry].state # "completed"
        OBVIOUS
      <4>1. q.pc = "file"
        BY <2>6 DEF Busy, Processing, Applying, Recording
      <4>2. q.entry = p.entry /\ s # "completed"
        BY <2>6, <4>1
      <4> HIDE DEF q, s
      <4> QED
        BY <2>5, <4>2
    <3> HIDE DEF q, s
    <3>2. q.pc # "next"
      BY <2>6
    <3> QED
      BY <2>6, <3>1, <3>2 DEF OwnEntry
  <2>8. q.pc \in Processing => q.entry = p.entry
    BY <2>6 DEF Processing, Applying, Recording
  <2>9. \A e \in 1 .. Len(outbox) : outbox'[e].state = outbox[e].state \/ e = p.entry
    BY <2>5
  <2> HIDE DEF q, s
  <2> QED
    BY <2>1, <2>3, <2>5, <2>7, <2>8, <2>9, ApartMoves
<1>5. CASE Crash(w)
  <2>1. Become(w, Idle) /\ UNCHANGED outbox
    BY <1>5 DEF Crash
  <2>2. ASSUME NEW f \in torn' \cap Paths, f \notin torn
        PROVE  p.pc \in Busy /\ f \in FilesOf(p.entry)
    <3>1. \/ p.pc = "file" /\ f = Writing(w).path
          \/ p.pc = "draft" /\ f = DraftId(EntryOf(w).draft)
      BY <1>5, <2>2 DEF Crash, At
    <3>2. p.pc # "draft"
      <4> SUFFICES ASSUME p.pc = "draft" PROVE FALSE
        OBVIOUS
      <4>1. EntryOf(w).draft \in Drafts
        BY EntryInOutbox DEF Processing, Recording, Entry
      <4> QED
        BY <2>2, <3>1, <4>1, PathsAssumption
    <3>3. p.pc = "file" /\ f = Writing(w).path
      BY <3>1, <3>2
    <3>4. /\ CallOK(p, outbox) /\ p.entry \in 1 .. Len(outbox) /\ EntryOf(w) \in Entry
      BY <3>3, EntryInOutbox DEF Processing, Applying
    <3>5. p.pos \in DOMAIN EntryOf(w).writes
      BY <3>3, <3>4, LenProperties DEF CallOK, Applying, EntryOf, Entry
    <3> QED
      BY <3>3, <3>5 DEF FilesOf, Writing, EntryOf, Busy, Processing, Applying
  <2> QED
    BY <1>2, <2>1, <2>2, ApartMoves
<1> QED
  BY <1>3, <1>4, <1>5

\* Where nobody replays every step keeps Apart and what is completed.
LEMMA ApartNext ==
  ASSUME Replayers = {}, Shape, Apart, [Next]_vars
  PROVE  Apart' /\ Completed \subseteq Completed'
<1>1. CASE UNCHANGED vars
  BY <1>1 DEF vars, stores, Apart, OpenEntries, Completed, FilesOf
<1>2. ASSUME NEW w \in Workers, Step(w) PROVE Apart' /\ Completed \subseteq Completed'
  BY <1>2, DecidingApart, WorkingApart, QueueApart DEF Step, ProcessStep
<1>3. ASSUME NEW w \in Workers,
             \/ \E d \in Drafts, b \in Bodies : RewriteDraft(w, d, b)
             \/ \E d \in Drafts, current \in AsCurrent, path \in TargetPaths \cup {None} :
                  PromoteDraft(w, d, current, path)
             \/ StartReplay(w) \/ Throw(w) \/ Crash(w)
      PROVE  Apart' /\ Completed \subseteq Completed'
  BY <1>3, DecidingApart, WorkingApart, QueueApart
<1> QED
  BY <1>1, <1>2, <1>3 DEF Next

\* Apart holds at the start.
LEMMA ApartInit == Init => Apart
BY DEF Init, Apart, OwnEntry, Idle, Busy, Processing, Applying, Recording

-----------------------------------------------------------------------------
(* What is superseded by now, with one call at a time or calls that never    *)
(* replay, wherever the notes are written.                                   *)

Orderly == OneWorker \/ Replayers = {}

\* Nobody works on an entry that is completed.
Claims == IF OneWorker THEN Alone ELSE Apart

\* A copy of the note of an entry has its draft, its text and, until it is
\* superseded, its force.
Faithful(n, box) ==
  /\ n.status = "superseded" => ~ n.current
  /\ \A j \in Entries : n.id = NoteId(j) =>
       /\ j \in 1 .. Len(box) /\ n.draft = box[j].draft /\ n.body = box[j].body
       /\ n.status = "promoted" => n.current = box[j].current

\* An entry writes the notes of others to supersede them.
FaithfulWrites(e, box) ==
  \A i \in 1 .. Len(box[e].writes) :
    LET n == box[e].writes[i] IN
    /\ Faithful(n, box)
    /\ \A j \in Entries : n.id = NoteId(j) /\ j # e => n.status = "superseded"

Asking == {"checking", "listing", "enqueue"}

FaithfulPlan(p, box) ==
  p.pc \in Asking => \A i \in 1 .. Len(p.plan.older) : Faithful(p.plan.older[i], box)

Copies ==
  /\ \A p \in DOMAIN vault : Faithful(vault[p], outbox) /\ vault[p].path = p
  /\ \A id \in DOMAIN rows : Faithful(rows[id], outbox) /\ rows[id].id = id
  /\ \A e \in 1 .. Len(outbox) : FaithfulWrites(e, outbox)
  /\ \A w \in Workers : FaithfulPlan(proc[w], outbox)

\* Ids of different notes differ.
LEMMA IdsDiffer ==
  /\ \A i, j : NoteId(i) = NoteId(j) => i = j
  /\ \A s, t : SnapshotId(s) = SnapshotId(t) => s = t
  /\ \A i, t : NoteId(i) # SnapshotId(t)
BY DEF NoteId, SnapshotId

\* Every step keeps Claims and what is completed.
LEMMA ClaimsNext ==
  ASSUME Orderly, Shape, Claims, [Next]_vars
  PROVE  Claims' /\ Completed \subseteq Completed'
<1>1. CASE OneWorker
  <2>1. Alone' /\ Completed \subseteq Completed'
    BY <1>1, AloneNext DEF Claims
  <2> QED
    BY <1>1, <2>1 DEF Claims
<1>2. CASE ~ OneWorker
  <2>1. Apart' /\ Completed \subseteq Completed'
    BY <1>2, ApartNext DEF Claims, Orderly
  <2> QED
    BY <1>2, <2>1 DEF Claims
<1> QED
  BY <1>1, <1>2

LEMMA ClaimsInit == Init => Claims
BY AloneInit, ApartInit DEF Claims

\* The entry that a call has claimed is not completed.
LEMMA ClaimedIsOpen ==
  ASSUME Shape, Claims, NEW w \in Workers, proc[w].pc \in Holding
  PROVE  /\ proc[w].entry \in 1 .. Len(outbox) /\ proc[w].entry \notin Completed
         /\ proc[w].pc \in Processing
<1>1. proc[w].pc \in Processing /\ proc[w].pc \in Busy
  BY DEF Holding, Applying, Written, Processing, Recording, Busy
<1>2. proc[w].entry \in 1 .. Len(outbox)
  BY <1>1, EntryInOutbox
<1>3. outbox[proc[w].entry].state # "completed"
  BY <1>1 DEF Claims, Alone, ClaimOK, Apart, OwnEntry
<1> QED
  BY <1>1, <1>2, <1>3 DEF Completed

\* Copies that are faithful remain so.
LEMMA FaithfulLasts ==
  ASSUME NEW box, NEW box2, Len(box) \in Nat, Len(box2) \in Nat, Kept(box, box2),
         NEW n, Faithful(n, box)
  PROVE  Faithful(n, box2)
BY DEF Faithful, Kept

LEMMA FaithfulWritesLast ==
  ASSUME NEW box, NEW box2, Len(box) \in Nat, Len(box2) \in Nat, Kept(box, box2),
         NEW e \in 1 .. Len(box), FaithfulWrites(e, box)
  PROVE  FaithfulWrites(e, box2)
<1>1. box2[e].writes = box[e].writes
  BY DEF Kept
<1> QED
  BY <1>1, FaithfulLasts DEF FaithfulWrites

\* The payload of an entry is faithful if its plan is, and takes the places of what it
\* supersedes.
LEMMA FaithfulPayload ==
  ASSUME NEW plan \in Plan, NEW e \in Entries, NEW box, Len(box) = e,
         box[e].draft = plan.draft, box[e].body = plan.body, box[e].current = plan.current,
         box[e].writes = CanonicalWrites(plan, e),
         \A i \in 1 .. Len(plan.older) : Faithful(plan.older[i], box)
  PROVE  /\ FaithfulWrites(e, box)
         /\ \A i \in 1 .. Len(plan.older) :
              \E j \in 1 .. Len(box[e].writes) : /\ box[e].writes[j].id = plan.older[i].id
                                                /\ box[e].writes[j].path = plan.older[i].path
<1> DEFINE old == Len(plan.older)
           n == CanonicalNote(plan, e)
           m == SnapshotNote(n)
           new == IF plan.current THEN 2 ELSE 1
           len == old + new
           f == CanonicalWrites(plan, e)
           x(i) == Superseded(plan.older[i], e)
<1>1. old \in Nat /\ e \in 1 .. Len(box) /\ plan.older \in Seq(Note)
  BY LenProperties, ConstantsAssumption DEF Plan, Entries
<1>2. f = [i \in 1 .. len |-> IF i <= old THEN x(i) ELSE IF i = old + 1 THEN n ELSE m]
  BY Zenon DEF CanonicalWrites
<1>3. f \in Seq(Note)
  BY WritesAreNotes
<1>4. /\ n.id = NoteId(e) /\ n.body = plan.body /\ n.draft = plan.draft
      /\ n.status = "promoted" /\ n.current = plan.current
  BY DEF CanonicalNote
<1>5. m.id = SnapshotId(TitleOf[n.draft]) /\ m.status = "promoted" /\ ~ m.current
  BY DEF SnapshotNote
<1>6. \A i \in 1 .. old :
        /\ x(i).id = plan.older[i].id /\ x(i).path = plan.older[i].path
        /\ x(i).body = plan.older[i].body /\ x(i).draft = plan.older[i].draft
        /\ x(i).status = "superseded" /\ x(i).current = FALSE
  <2>1. ASSUME NEW y \in Note
        PROVE  LET z == Superseded(y, e) IN
               /\ z.id = y.id /\ z.path = y.path /\ z.body = y.body /\ z.draft = y.draft
               /\ z.status = "superseded" /\ z.current = FALSE
    BY <2>1 DEF Superseded, Note
  <2> QED
    BY <1>1, <2>1, ElementOfSeq
<1>7. len \in Nat /\ \A i \in 1 .. old : i \in 1 .. len
  <2>1. new \in 1 .. 2
    OBVIOUS
  <2> HIDE DEF old, new
  <2> QED
    BY <1>1, <2>1
<1> HIDE DEF f, n, m, old, len, x
<1>8. /\ Len(f) = len
      /\ \A i \in 1 .. len : (i \in 1 .. old /\ f[i] = x(i)) \/ f[i] = n \/ f[i] = m
  BY <1>1, <1>2, <1>7
<1>9. \A i \in 1 .. old : f[i] = x(i)
  BY <1>1, <1>2, <1>7
<1>10. ASSUME NEW i \in 1 .. old PROVE Faithful(x(i), box)
  <2>1. Faithful(plan.older[i], box)
    BY DEF old
  <2> QED
    BY <1>6, <2>1 DEF Faithful
<1>11. Faithful(n, box) /\ \A j \in Entries : n.id = NoteId(j) => j = e
  BY <1>1, <1>4, IdsDiffer DEF Faithful
<1>12. Faithful(m, box) /\ \A j \in Entries : m.id # NoteId(j)
  BY <1>5, IdsDiffer DEF Faithful
<1>13. FaithfulWrites(e, box)
  BY <1>6, <1>8, <1>10, <1>11, <1>12 DEF FaithfulWrites, f
<1>14. \A i \in 1 .. old : i \in 1 .. Len(f) /\ f[i].id = plan.older[i].id
                                          /\ f[i].path = plan.older[i].path
  BY <1>6, <1>7, <1>8, <1>9
<1> QED
  BY <1>13, <1>14 DEF f, old

\* What a call writes is faithful.
LEMMA WritingIsFaithful ==
  ASSUME Shape, Copies, NEW w \in Workers, proc[w].pc \in Applying
  PROVE  /\ proc[w].entry \in 1 .. Len(outbox)
         /\ proc[w].pos \in 1 .. Len(outbox[proc[w].entry].writes)
         /\ Faithful(Writing(w), outbox) /\ FaithfulWrites(proc[w].entry, outbox)
         /\ Writing(w) = outbox[proc[w].entry].writes[proc[w].pos]
         /\ Writing(w) \in Note
<1>1. /\ proc[w].entry \in 1 .. Len(outbox)
      /\ proc[w].pos \in 1 .. Len(outbox[proc[w].entry].writes)
  BY EntryInOutbox DEF CallOK, Processing
<1> QED
  BY <1>1, WritingIsNote DEF Copies, FaithfulWrites, Writing, EntryOf

\* Copies after the step of one call, from its parts.
LEMMA CopiesMove ==
  ASSUME Copies, NEW w \in Workers, Kept(outbox, outbox'),
         Len(outbox) \in Nat, Len(outbox') \in Nat,
         \A v \in Workers \ {w} : proc'[v] = proc[v],
         \A p \in DOMAIN vault' : \/ p \in DOMAIN vault /\ vault'[p] = vault[p]
                                  \/ Faithful(vault'[p], outbox) /\ vault'[p].path = p,
         \A id \in DOMAIN rows' : \/ id \in DOMAIN rows /\ rows'[id] = rows[id]
                                  \/ Faithful(rows'[id], outbox) /\ rows'[id].id = id,
         \A e \in 1 .. Len(outbox') : e \in 1 .. Len(outbox) \/ FaithfulWrites(e, outbox'),
         FaithfulPlan(proc'[w], outbox)
  PROVE  Copies'
<1>1. \A p \in DOMAIN vault' : Faithful(vault'[p], outbox') /\ vault'[p].path = p
  BY FaithfulLasts DEF Copies
<1>2. \A id \in DOMAIN rows' : Faithful(rows'[id], outbox') /\ rows'[id].id = id
  BY FaithfulLasts DEF Copies
<1>3. \A e \in 1 .. Len(outbox') : FaithfulWrites(e, outbox')
  BY FaithfulWritesLast DEF Copies
<1>4. \A v \in Workers : FaithfulPlan(proc'[v], outbox)
  BY DEF Copies
<1>5. \A v \in Workers : FaithfulPlan(proc'[v], outbox')
  BY <1>4, FaithfulLasts DEF FaithfulPlan
<1> QED
  BY <1>1, <1>2, <1>3, <1>5 DEF Copies

\* A listing finds each current note of the topic.
LEMMA ListingIsComplete ==
  ASSUME Shape, NEW d, NEW older \in Orderings(CurrentOnTopic(d))
  PROVE  /\ \A i \in 1 .. Len(older) : older[i] \in CurrentOnTopic(d)
         /\ \A n \in CurrentOnTopic(d) : \E i \in 1 .. Len(older) : older[i] = n
<1> DEFINE S == CurrentOnTopic(d)
           N == 1 .. Cardinality(S)
<1>1. IsFiniteSet(S) /\ Cardinality(S) \in Nat
  BY TopicFinite, FS_CardinalityType
<1>2. older \in [N -> S] /\ \A i, j \in N : i # j => older[i] # older[j]
  BY DEF Orderings
<1>3. 1 .. Len(older) = N
  BY <1>1, <1>2, FunctionIsSeq
<1>4. older \in Injection(N, S)
  BY <1>2 DEF Injection, IsInjective
<1>5. IsFiniteSet(N) /\ Cardinality(N) = Cardinality(S)
  BY <1>1, FS_Interval
<1>6. older \in Surjection(N, S)
  BY <1>1, <1>4, <1>5, FS_Injection
<1> QED
  BY <1>2, <1>3, <1>6 DEF Surjection

\* Where the steps that change a plan leave it.
LEMMA PlansMove ==
  ASSUME Shape, NEW w \in Workers
  PROVE  /\ \A d, current, path : PromoteDraft(w, d, current, path) =>
              proc'[w].plan.older = <<>> /\ proc'[w].plan.after = Completed
         /\ CheckDuplicate(w) => \/ proc'[w].pc = "idle"
                                 \/ /\ proc'[w].plan = proc[w].plan
                                    /\ ~ HasLiveTwin(proc[w].plan.body)
                                    /\ proc'[w].pc = "enqueue" => ~ proc[w].plan.current
         /\ ListSuperseded(w) =>
              \/ proc'[w].pc = "idle"
              \/ \E older \in Orderings(CurrentOnTopic(proc[w].plan.draft)) :
                   proc'[w].plan = [proc[w].plan EXCEPT !.older = older]
<1>1. /\ proc[w] \in Proc /\ DOMAIN proc = Workers /\ CallOK(proc[w], outbox)
      /\ \A r : Become(w, r) => proc'[w] = r
  BY DEF Shape, TypeOK, CallsOK, Become
<1>2. Idle.pc = "idle"
  BY DEF Idle
<1>3. ASSUME NEW d, NEW current, NEW path, PromoteDraft(w, d, current, path)
      PROVE  proc'[w].plan.older = <<>> /\ proc'[w].plan.after = Completed
  BY <1>1, <1>3 DEF PromoteDraft, Become, Idle
<1>4. ASSUME CheckDuplicate(w), proc'[w].pc # "idle"
      PROVE  /\ proc'[w].plan = proc[w].plan /\ ~ HasLiveTwin(proc[w].plan.body)
             /\ proc'[w].pc = "enqueue" => ~ proc[w].plan.current
  <2> DEFINE q == [proc[w] EXCEPT !.pc = IF proc[w].plan.current THEN "listing"
                                         ELSE "enqueue"]
  <2>1. proc'[w] = IF HasLiveTwin(proc[w].plan.body) THEN Idle ELSE q
    BY <1>1, <1>4 DEF CheckDuplicate
  <2>2. /\ q.plan = proc[w].plan
        /\ q.pc = IF proc[w].plan.current THEN "listing" ELSE "enqueue"
    BY <1>1 DEF Proc
  <2> HIDE DEF q
  <2> QED
    BY <1>2, <1>4, <2>1, <2>2
<1>5. ASSUME ListSuperseded(w), proc'[w].pc # "idle"
      PROVE  \E older \in Orderings(CurrentOnTopic(proc[w].plan.draft)) :
               proc'[w].plan = [proc[w].plan EXCEPT !.older = older]
  <2>1. \/ Become(w, Idle)
        \/ \E older \in Orderings(CurrentOnTopic(proc[w].plan.draft)) :
             Become(w, [proc[w] EXCEPT !.pc = "enqueue", !.plan.older = older])
    BY <1>5, Zenon DEF ListSuperseded
  <2>2. PICK older \in Orderings(CurrentOnTopic(proc[w].plan.draft)) :
          proc'[w] = [proc[w] EXCEPT !.pc = "enqueue", !.plan.older = older]
    BY <1>1, <1>2, <1>5, <2>1
  <2>3. proc'[w].plan = [proc[w].plan EXCEPT !.older = older]
    BY <1>1, <2>2 DEF Proc
  <2> QED
    BY <2>3
<1> QED
  BY <1>3, <1>4, <1>5

\* The plans of a call before its entry is queued stay faithful.
LEMMA PlansStayFaithful ==
  ASSUME Shape, Copies, NEW w \in Workers,
         \/ \E d \in Drafts, current \in AsCurrent, path \in TargetPaths \cup {None} :
              PromoteDraft(w, d, current, path)
         \/ CheckDuplicate(w) \/ ListSuperseded(w)
  PROVE  FaithfulPlan(proc'[w], outbox)
<1>1. CASE proc'[w].pc = "idle"
  BY <1>1 DEF FaithfulPlan, Asking
<1>2. ASSUME NEW d, NEW current, NEW path, PromoteDraft(w, d, current, path)
      PROVE  FaithfulPlan(proc'[w], outbox)
  <2>1. proc'[w].plan.older = <<>>
    BY <1>2, PlansMove
  <2> QED
    BY <2>1 DEF FaithfulPlan
<1>3. CASE CheckDuplicate(w) /\ proc'[w].pc # "idle"
  <2>1. proc'[w].plan = proc[w].plan /\ proc[w].pc \in Asking
    BY <1>3, PlansMove DEF CheckDuplicate, At, Asking
  <2> QED
    BY <2>1 DEF FaithfulPlan, Copies
<1>4. CASE ListSuperseded(w) /\ proc'[w].pc # "idle"
  <2>1. PICK older \in Orderings(CurrentOnTopic(proc[w].plan.draft)) :
          proc'[w].plan = [proc[w].plan EXCEPT !.older = older]
    BY <1>4, PlansMove
  <2>2. proc[w].plan \in Plan
    BY <1>4 DEF Shape, CallOK, Deciding, ListSuperseded, At
  <2>3. proc'[w].plan.older = older
    BY <2>1, <2>2 DEF Plan
  <2>4. \A i \in 1 .. Len(older) : older[i] \in CurrentOnTopic(proc[w].plan.draft)
    BY ListingIsComplete
  <2>5. \A n \in CurrentOnTopic(proc[w].plan.draft) : Faithful(n, outbox)
    BY DEF CurrentOnTopic, Copies
  <2> QED
    BY <2>3, <2>4, <2>5 DEF FaithfulPlan
<1> QED
  BY <1>1, <1>2, <1>3, <1>4

\* An entry that is queued has the payload of its call's plan, which is faithful.
LEMMA QueuedIsFaithful ==
  ASSUME Shape, Copies, [Next]_vars, NEW w \in Workers, Enqueue(w), Len(outbox) # MaxPromotions
  PROVE  LET e == Len(outbox) + 1
             plan == proc[w].plan IN
         /\ Len(outbox') = e
         /\ outbox'[e].state = "pending" /\ outbox'[e].after = plan.after
         /\ outbox'[e].draft = plan.draft /\ outbox'[e].body = plan.body
         /\ outbox'[e].current = plan.current
         /\ \A j \in 1 .. Len(outbox) : outbox'[j] = outbox[j]
         /\ FaithfulWrites(e, outbox')
         /\ \A i \in 1 .. Len(plan.older) : \E j \in 1 .. Len(outbox'[e].writes) :
              /\ outbox'[e].writes[j].id = plan.older[i].id
              /\ outbox'[e].writes[j].path = plan.older[i].path
<1> DEFINE e == Len(outbox) + 1
           plan == proc[w].plan
           x == [state |-> "pending", draft |-> plan.draft, body |-> plan.body,
                 current |-> plan.current, writes |-> CanonicalWrites(plan, e),
                 after |-> plan.after]
           box == outbox'
<1>1. outbox \in Seq(Entry) /\ Len(outbox) \in Nat /\ Len(outbox) <= MaxPromotions
  BY LenProperties DEF Shape, TypeOK, OutboxOK
<1>2. proc[w].pc \in Asking /\ plan \in Plan /\ FaithfulPlan(proc[w], outbox)
  BY DEF Enqueue, At, CallOK, Deciding, Asking, Copies, Shape
<1>3. outbox' = Append(outbox, x)
  BY DEF Enqueue
<1> HIDE DEF x
<1>4. /\ Len(box) = e /\ box[e] = x
      /\ \A j \in 1 .. Len(outbox) : box[j] = outbox[j]
  BY <1>1, <1>3
<1>5. /\ x.state = "pending" /\ x.draft = plan.draft /\ x.body = plan.body
      /\ x.current = plan.current /\ x.writes = CanonicalWrites(plan, e)
      /\ x.after = plan.after
  BY DEF x
<1>6. e \in Entries
  BY <1>1, ConstantsAssumption DEF Entries
<1>7. Kept(outbox, box) /\ Len(box) \in Nat
  BY NothingWithdrawn
<1>8. \A i \in 1 .. Len(plan.older) : Faithful(plan.older[i], box)
  BY <1>1, <1>2, <1>7, FaithfulLasts DEF FaithfulPlan
<1>9. /\ box[e].draft = plan.draft /\ box[e].body = plan.body
      /\ box[e].current = plan.current /\ box[e].writes = CanonicalWrites(plan, e)
  BY <1>4, <1>5
<1>10. /\ FaithfulWrites(e, box)
       /\ \A i \in 1 .. Len(plan.older) : \E j \in 1 .. Len(box[e].writes) :
            /\ box[e].writes[j].id = plan.older[i].id
            /\ box[e].writes[j].path = plan.older[i].path
  <2> HIDE DEF box, plan, e
  <2> QED
    BY <1>2, <1>4, <1>6, <1>8, <1>9, FaithfulPayload
<1> QED
  BY <1>4, <1>5, <1>10

\* Every step of a call keeps Copies.
LEMMA CallKeepsCopies ==
  ASSUME Shape, Copies, [Next]_vars, NEW w \in Workers,
         \A v \in Workers \ {w} : proc'[v] = proc[v],
         \/ Step(w)
         \/ \E d \in Drafts, b \in Bodies : RewriteDraft(w, d, b)
         \/ \E d \in Drafts, current \in AsCurrent, path \in TargetPaths \cup {None} :
              PromoteDraft(w, d, current, path)
         \/ StartReplay(w) \/ Throw(w) \/ Crash(w)
  PROVE  Copies'
<1>1. Kept(outbox, outbox') /\ Len(outbox) \in Nat /\ Len(outbox') \in Nat
  BY NothingWithdrawn
<1>2. FaithfulPlan(proc'[w], outbox)
  <2>1. CASE \/ \E d \in Drafts, current \in AsCurrent, path \in TargetPaths \cup {None} :
                  PromoteDraft(w, d, current, path)
             \/ CheckDuplicate(w) \/ ListSuperseded(w)
    BY <2>1, PlansStayFaithful
  <2>2. CASE \/ \E d \in Drafts, b \in Bodies : RewriteDraft(w, d, b)
             \/ UpsertCreatedRow(w) \/ Enqueue(w) \/ ProcessStep(w) \/ AuditAccepted(w)
             \/ NextEntry(w) \/ StartReplay(w) \/ Throw(w) \/ Crash(w)
    BY <2>2, NextLabels DEF FaithfulPlan, Asking, ProcessStep
  <2> QED
    BY <2>1, <2>2 DEF Step
<1>3. \A e \in 1 .. Len(outbox') : e \in 1 .. Len(outbox) \/ FaithfulWrites(e, outbox')
  <2>1. CASE Enqueue(w) /\ Len(outbox) # MaxPromotions
    BY <1>1, <2>1, QueuedIsFaithful
  <2>2. CASE Len(outbox') = Len(outbox)
    BY <2>2
  <2>3. CASE ~ (Enqueue(w) /\ Len(outbox) # MaxPromotions)
    <3>1. \/ UNCHANGED outbox
          \/ /\ proc[w].pc \in Processing
             /\ \E s \in {"processing", "completed", "failed"} : SetState(proc[w].entry, s)
      BY <2>3 DEF Step, ProcessStep, Enqueue, Claim, Fail, Complete, At, Processing, Recording,
         RewriteDraft, UpsertCreatedRow, AuditAccepted, NextEntry, StartReplay, Throw, Crash,
         WriteFile, UpsertRow, ClearStore, FillStore, RecordPromotion, UpdateDraft,
         UpsertDraftRow, PromoteDraft, CheckDuplicate, ListSuperseded, stores
    <3> QED
      BY <2>2, <3>1, StateChanges
  <2> QED
    BY <2>1, <2>3
<1>4. \A p \in DOMAIN vault' : \/ p \in DOMAIN vault /\ vault'[p] = vault[p]
                               \/ Faithful(vault'[p], outbox) /\ vault'[p].path = p
  <2>1. CASE WriteFile(w)
    <3>1. Faithful(Writing(w), outbox)
      BY <2>1, WritingIsFaithful DEF WriteFile, At, Applying
    <3> QED
      BY <2>1, <3>1 DEF WriteFile, Put
  <2>2. CASE Crash(w)
    BY <2>2 DEF Crash, Drop
  <2>3. CASE ~ WriteFile(w) /\ ~ Crash(w)
    BY <2>3 DEF Step, ProcessStep, Enqueue, Claim, Fail, Complete, RewriteDraft,
       UpsertCreatedRow, AuditAccepted, NextEntry, StartReplay, Throw, UpsertRow, ClearStore,
       FillStore, RecordPromotion, UpdateDraft, UpsertDraftRow, PromoteDraft, CheckDuplicate,
       ListSuperseded, stores
  <2> QED
    BY <2>1, <2>2, <2>3
<1>5. \A id \in DOMAIN rows' : \/ id \in DOMAIN rows /\ rows'[id] = rows[id]
                               \/ Faithful(rows'[id], outbox) /\ rows'[id].id = id
  <2>1. CASE UpsertRow(w)
    <3>1. Faithful(Writing(w), outbox)
      BY <2>1, WritingIsFaithful DEF UpsertRow, At, Applying
    <3> QED
      BY <2>1, <3>1 DEF UpsertRow, Put
  <2>2. CASE ~ UpsertRow(w)
    BY <2>2 DEF Step, ProcessStep, Enqueue, Claim, Fail, Complete, RewriteDraft, Crash,
       UpsertCreatedRow, AuditAccepted, NextEntry, StartReplay, Throw, WriteFile, ClearStore,
       FillStore, RecordPromotion, UpdateDraft, UpsertDraftRow, PromoteDraft, CheckDuplicate,
       ListSuperseded, stores
  <2> QED
    BY <2>1, <2>2
<1> QED
  BY <1>1, <1>2, <1>3, <1>4, <1>5, CopiesMove

\* The call that moves in a step.
LEMMA SomeCallMoves ==
  ASSUME Shape, [Next]_vars
  PROVE  \/ UNCHANGED vars
         \/ \E w \in Workers :
              /\ \A v \in Workers \ {w} : proc'[v] = proc[v]
              /\ \/ Step(w)
                 \/ \E d \in Drafts, b \in Bodies : RewriteDraft(w, d, b)
                 \/ \E d \in Drafts, current \in AsCurrent, path \in TargetPaths \cup {None} :
                      PromoteDraft(w, d, current, path)
                 \/ StartReplay(w) \/ Throw(w) \/ Crash(w)
<1> SUFFICES ASSUME NEW w \in Workers,
                    \/ Step(w)
                    \/ \E d \in Drafts, b \in Bodies : RewriteDraft(w, d, b)
                    \/ \E d \in Drafts, current \in AsCurrent, path \in TargetPaths \cup {None} :
                         PromoteDraft(w, d, current, path)
                    \/ StartReplay(w) \/ Throw(w) \/ Crash(w)
             PROVE  \A v \in Workers \ {w} : proc'[v] = proc[v]
  BY DEF Next
<1>1. \E q : proc' = [proc EXCEPT ![w] = q]
  BY DEF Step, ProcessStep, Enqueue, Claim, Fail, Complete, RewriteDraft, Crash,
     UpsertCreatedRow, AuditAccepted, NextEntry, StartReplay, Throw, WriteFile, UpsertRow,
     ClearStore, FillStore, RecordPromotion, UpdateDraft, UpsertDraftRow, PromoteDraft,
     CheckDuplicate, ListSuperseded, Become
<1> QED
  BY <1>1 DEF Shape, TypeOK, CallsOK

\* Every step keeps Copies.
LEMMA CopiesNext ==
  ASSUME Shape, Copies, [Next]_vars
  PROVE  Copies'
<1>1. CASE UNCHANGED vars
  BY <1>1 DEF vars, stores, Copies
<1> QED
  BY <1>1, SomeCallMoves, CallKeepsCopies

\* The notes of after that bear a text are superseded.
NoTwins(after, body, box, R) ==
  \A e \in after : box[e].body = body => R[NoteId(e)].status = "superseded"

\* The ids and paths of some notes of a sequence.
Places(notes, I) == {<<notes[i].id, notes[i].path>> : i \in I}

\* Those of them that are in force on the topic of a draft are at some of the places.
Replaces(after, draft, places, box, V) ==
  \A e \in after : box[e].current /\ SameTopic(box[e].draft, draft) =>
    \A p \in DOMAIN V : V[p].id = NoteId(e) /\ V[p].current => <<NoteId(e), p>> \in places

\* ... for an entry, which supersedes them by the time it is done,
EntryHistory(e, box, done, V, R) ==
  LET writes == box[e].writes IN
  /\ box[e].after \subseteq done \ {e}
  /\ NoTwins(box[e].after, box[e].body, box, R)
  /\ box[e].current =>
       Replaces(box[e].after, box[e].draft,
                IF e \in done THEN {} ELSE Places(writes, 1 .. Len(writes)), box, V)

\* ... for a call that writes its notes, which has them yet to write,
Ahead(p, n) ==
  IF p.pc \in Written THEN {} ELSE IF p.pc = "file" THEN p.pos .. n ELSE (p.pos + 1) .. n

WritesHistory(p, box, V) ==
  LET e == p.entry
      writes == box[e].writes IN
  (p.pc \in Applying \cup Written /\ box[e].current) =>
    Replaces(box[e].after, box[e].draft, Places(writes, Ahead(p, Len(writes))), box, V)

\* ... and for a call that is to queue one.
AskedOK(p, box, done, V, R) ==
  LET plan == p.plan IN
  /\ p.pc \in Asking => plan.after \subseteq done
  /\ p.pc \in {"listing", "enqueue"} => NoTwins(plan.after, plan.body, box, R)
  /\ (p.pc = "enqueue" /\ plan.current) =>
       Replaces(plan.after, plan.draft, Places(plan.older, 1 .. Len(plan.older)), box, V)

History ==
  /\ \A e \in 1 .. Len(outbox) : EntryHistory(e, outbox, Completed, vault, rows)
  /\ \A w \in Workers : /\ AskedOK(proc[w], outbox, Completed, vault, rows)
                        /\ WritesHistory(proc[w], outbox, vault)

\* A completed entry has a row for its note.
LEMMA CompletedHasRow ==
  ASSUME Shape, Progress, NEW e \in Completed
  PROVE  e \in 1 .. Len(outbox) /\ e \in Entries /\ NoteId(e) \in DOMAIN rows
<1>1. e \in events /\ e \in 1 .. Len(outbox) /\ outbox[e] \in Entry
  BY ElementOfSeq DEF Progress, Completed, Shape, TypeOK, OutboxOK
<1>2. DOMAIN outbox[e].writes = 1 .. Len(outbox[e].writes)
  BY <1>1, LenProperties DEF Entry
<1>3. NoteId(e) \in WrittenBy(e)
  BY <1>1, <1>2 DEF Shape, OwnNotes, WrittenBy
<1>4. e \in Entries
  BY <1>1, LenProperties, ConstantsAssumption DEF Shape, TypeOK, OutboxOK, Entries
<1> QED
  BY <1>1, <1>3, <1>4, EventWritten

\* Nobody writes the note of a completed entry but to supersede it.
LEMMA CompletedIsSuperseded ==
  ASSUME Shape, Progress, Claims, Copies, NEW w \in Workers, proc[w].pc \in Applying,
         NEW e \in Completed, Writing(w).id = NoteId(e)
  PROVE  Writing(w).status = "superseded" /\ ~ Writing(w).current
<1>1. e # proc[w].entry /\ e \in Entries
  BY ClaimedIsOpen, CompletedHasRow DEF Holding
<1>2. /\ proc[w].pos \in 1 .. Len(outbox[proc[w].entry].writes)
      /\ Writing(w) = outbox[proc[w].entry].writes[proc[w].pos]
      /\ Faithful(Writing(w), outbox) /\ FaithfulWrites(proc[w].entry, outbox)
  BY WritingIsFaithful
<1>3. Writing(w).status = "superseded"
  BY <1>1, <1>2 DEF FaithfulWrites
<1> QED
  BY <1>2, <1>3 DEF Faithful

\* What is true of the notes of completed entries remains so.
LEMMA HistoryLasts ==
  ASSUME Shape, Progress, Claims, Copies, [Next]_vars,
         NEW after, after \subseteq Completed
  PROVE  /\ \A body : NoTwins(after, body, outbox, rows)
                        => NoTwins(after, body, outbox', rows')
         /\ \A draft, places : Replaces(after, draft, places, outbox, vault)
                                 => Replaces(after, draft, places, outbox', vault')
<1>1. \A e \in after : /\ e \in 1 .. Len(outbox) /\ NoteId(e) \in DOMAIN rows
                       /\ outbox'[e].body = outbox[e].body
                       /\ outbox'[e].draft = outbox[e].draft
                       /\ outbox'[e].current = outbox[e].current
  BY CompletedHasRow, NothingWithdrawn DEF Kept
<1>2. UNCHANGED rows
      \/ \E w \in Workers : /\ proc[w].pc \in Applying
                            /\ rows' = Put(rows, Writing(w).id, Writing(w))
  BY DEF Next, Step, ProcessStep, vars, stores, RewriteDraft, UpsertCreatedRow, PromoteDraft,
         CheckDuplicate, ListSuperseded, Enqueue, Claim, WriteFile, UpsertRow, ClearStore,
         FillStore, RecordPromotion, UpdateDraft, UpsertDraftRow, Complete, Fail,
         AuditAccepted, StartReplay, NextEntry, Throw, Crash, At, Applying
<1>3. ASSUME NEW body, NoTwins(after, body, outbox, rows)
      PROVE  NoTwins(after, body, outbox', rows')
  <2>1. CASE UNCHANGED rows
    BY <1>1, <1>3, <2>1 DEF NoTwins
  <2>2. ASSUME NEW w \in Workers, proc[w].pc \in Applying,
               rows' = Put(rows, Writing(w).id, Writing(w))
        PROVE  NoTwins(after, body, outbox', rows')
    <3>1. \A e \in after : Writing(w).id = NoteId(e) => Writing(w).status = "superseded"
      BY <2>2, CompletedIsSuperseded
    <3>2. \A e \in after : rows'[NoteId(e)] = IF NoteId(e) = Writing(w).id THEN Writing(w)
                                              ELSE rows[NoteId(e)]
      BY <1>1, <2>2 DEF Put
    <3> QED
      BY <1>1, <1>3, <3>1, <3>2 DEF NoTwins
  <2> QED
    BY <1>2, <2>1, <2>2
<1>4. \/ UNCHANGED vault
      \/ \E w \in Workers : /\ proc[w].pc \in Applying
                            /\ \/ vault' = Put(vault, Writing(w).path, Writing(w))
                               \/ vault' = Drop(vault, Writing(w).path)
  BY DEF Next, Step, ProcessStep, vars, stores, RewriteDraft, UpsertCreatedRow, PromoteDraft,
         CheckDuplicate, ListSuperseded, Enqueue, Claim, WriteFile, UpsertRow, ClearStore,
         FillStore, RecordPromotion, UpdateDraft, UpsertDraftRow, Complete, Fail,
         AuditAccepted, StartReplay, NextEntry, Throw, Crash, At, Applying
<1>5. ASSUME NEW draft, NEW places, Replaces(after, draft, places, outbox, vault)
      PROVE  Replaces(after, draft, places, outbox', vault')
  <2>1. CASE UNCHANGED vault
    BY <1>1, <1>5, <2>1 DEF Replaces
  <2>2. ASSUME NEW w \in Workers, proc[w].pc \in Applying,
               \/ vault' = Put(vault, Writing(w).path, Writing(w))
               \/ vault' = Drop(vault, Writing(w).path)
        PROVE  Replaces(after, draft, places, outbox', vault')
    <3>1. \A e \in after : Writing(w).id = NoteId(e) => ~ Writing(w).current
      BY <2>2, CompletedIsSuperseded
    <3>2. ASSUME NEW p \in DOMAIN vault'
          PROVE  \/ vault'[p] = Writing(w)
                 \/ p \in DOMAIN vault /\ vault'[p] = vault[p]
      BY <2>2, <3>2 DEF Put, Drop
    <3> QED
      BY <1>1, <1>5, <3>1, <3>2 DEF Replaces
  <2> QED
    BY <1>4, <2>1, <2>2
<1> QED
  BY <1>3, <1>5

\* A call has fewer notes ahead only by writing the file of one.
LEMMA AheadShrinks ==
  ASSUME Shape, NEW w \in Workers, proc[w].pc \in Applying \cup Written,
         proc'[w].pc \in Applying \cup Written,
         Step(w) \/ Throw(w) \/ Crash(w)
  PROVE  /\ proc'[w].entry = proc[w].entry
         /\ \A i \in Ahead(proc[w], Len(EntryOf(w).writes)) :
              \/ i \in Ahead(proc'[w], Len(EntryOf(w).writes))
              \/ WriteFile(w) /\ i = proc[w].pos
<1> DEFINE p == proc[w]
           q == proc'[w]
           n == Len(EntryOf(w).writes)
<1> USE DEF Applying, Written
<1>1. /\ p \in Proc /\ DOMAIN proc = Workers /\ p.pos \in Nat
      /\ \A r : Become(w, r) => q = r
  BY DEF Shape, TypeOK, CallsOK, Proc, Become
<1>2. n \in Nat
  BY EntryInOutbox, LenProperties DEF Entry, Processing, Recording
<1>3. \/ WriteFile(w) \/ UpsertRow(w) \/ ClearStore(w) \/ FillStore(w) \/ RecordPromotion(w)
      \/ UpdateDraft(w) \/ UpsertDraftRow(w)
  BY NextLabels
  DEF Step, ProcessStep, UpsertCreatedRow, CheckDuplicate, ListSuperseded, Enqueue, Claim,
      Complete, Fail, AuditAccepted, NextEntry, At
<1>4. q.entry = p.entry
  BY <1>3, WorkStays
<1>5. CASE WriteFile(w)
  <2>1. p.pc = "file" /\ q = [p EXCEPT !.pc = "row"]
    BY <1>1, <1>5 DEF WriteFile, At
  <2>2. q.pc = "row" /\ q.pos = p.pos
    BY <1>1, <2>1 DEF Proc
  <2> QED
    BY <1>1, <1>2, <1>4, <1>5, <2>1, <2>2 DEF Ahead
<1>6. CASE UpsertRow(w)
  <2>1. p.pc = "row" /\ (q = [p EXCEPT !.pc = "failing"]
                          \/ q = [p EXCEPT !.pc = "clear", !.store = 1])
    BY <1>1, <1>6 DEF UpsertRow, At
  <2>2. q.pos = p.pos /\ q.pc \in {"clear", "failing"}
    BY <1>1, <2>1 DEF Proc
  <2> QED
    BY <1>1, <1>2, <1>4, <2>1, <2>2 DEF Ahead
<1>7. CASE ClearStore(w)
  <2>1. p.pc = "clear" /\ q = [p EXCEPT !.pc = "fill"]
    BY <1>1, <1>7 DEF ClearStore, At
  <2>2. q.pos = p.pos /\ q.pc = "fill"
    BY <1>1, <2>1 DEF Proc
  <2> QED
    BY <1>1, <1>2, <1>4, <2>1, <2>2 DEF Ahead
<1>8. CASE FillStore(w)
  <2>1. p.pc = "fill" /\ q = AfterFill(p, EntryOf(w).writes)
    BY <1>1, <1>8 DEF FillStore, At
  <2>2. \/ q.pc = "clear" /\ q.pos = p.pos
        \/ q.pc = "file" /\ q.pos = p.pos + 1
        \/ q.pc = "record" /\ ~ (p.pos < n)
    BY <1>1, <2>1 DEF AfterFill, Proc
  <2> QED
    BY <1>1, <1>2, <1>4, <2>1, <2>2 DEF Ahead
<1>9. CASE RecordPromotion(w) \/ UpdateDraft(w) \/ UpsertDraftRow(w)
  <2>1. p.pc \in Written
    BY <1>9 DEF RecordPromotion, UpdateDraft, UpsertDraftRow, At
  <2> QED
    BY <1>4, <2>1 DEF Ahead
<1> QED
  BY <1>3, <1>5, <1>6, <1>7, <1>8, <1>9

\* A call that writes its notes has superseded those it has left behind.
LEMMA WritingHistory ==
  ASSUME Shape, Progress, Claims, Copies, History, [Next]_vars, NEW w \in Workers,
         Step(w) \/ Throw(w) \/ Crash(w)
  PROVE  WritesHistory(proc'[w], outbox', vault')
<1> DEFINE p == proc[w]
           q == proc'[w]
           e == q.entry
           writes == outbox[e].writes
           n == Len(writes)
<1> SUFFICES ASSUME q.pc \in Applying \cup Written, outbox'[e].current
             PROVE  Replaces(outbox'[e].after, outbox'[e].draft,
                             Places(outbox'[e].writes, Ahead(q, Len(outbox'[e].writes))),
                             outbox', vault')
  BY DEF WritesHistory
<1>1. Kept(outbox, outbox') /\ Len(outbox) \in Nat
  BY NothingWithdrawn
<1>2. p.pc \in Applying \cup Written \/ (Claim(w) /\ q.pc = "file")
  BY NextLabels
  DEF Step, ProcessStep, UpsertCreatedRow, CheckDuplicate, ListSuperseded, Enqueue, Complete,
      Fail, AuditAccepted, NextEntry, Throw, Crash, At, Applying, Written, WriteFile,
      UpsertRow, ClearStore, FillStore, RecordPromotion, UpdateDraft, UpsertDraftRow
<1>3. e \in 1 .. Len(outbox) /\ p.pc \in Processing /\ e = p.entry
  <2>1. CASE p.pc \in Applying \cup Written
    <3>1. e = p.entry /\ p.pc \in Processing
      BY <2>1, AheadShrinks DEF Written, Processing, Recording
    <3> QED
      BY <3>1, EntryInOutbox
  <2>2. CASE Claim(w) /\ q.pc = "file"
    <3>1. p.pc \in Processing /\ p \in Proc /\ DOMAIN proc = Workers
      BY <2>2 DEF Claim, At, Processing, Shape, TypeOK, CallsOK
    <3>2. q = Returned(p) \/ q = [p EXCEPT !.pc = "file", !.pos = 1]
      BY <2>2, <3>1 DEF Claim, Become
    <3>3. Idle.pc # "file" /\ Returned(p).pc # "file"
      BY <3>1 DEF Returned, Idle, Proc
    <3>4. q = [p EXCEPT !.pc = "file", !.pos = 1]
      BY <2>2, <3>2, <3>3
    <3>5. e = p.entry
      BY <3>1, <3>4 DEF Proc
    <3> QED
      BY <3>1, <3>5, EntryInOutbox
  <2> QED
    BY <1>2, <2>1, <2>2
<1>4. /\ outbox'[e].after = outbox[e].after /\ outbox'[e].draft = outbox[e].draft
      /\ outbox'[e].current = outbox[e].current /\ outbox'[e].writes = writes
      /\ EntryHistory(e, outbox, Completed, vault, rows)
  BY <1>1, <1>3 DEF Kept, History
<1>5. outbox[e].after \subseteq Completed
  BY <1>4 DEF EntryHistory
<1> HIDE DEF q, e, writes, n, p
<1>6. CASE p.pc \in Applying \cup Written
  <2>1. /\ EntryOf(w).writes = writes
        /\ WritesHistory(p, outbox, vault)
    BY <1>3 DEF EntryOf, writes, History, p
  <2>2. \A i \in Ahead(p, n) : i \in Ahead(q, n) \/ (WriteFile(w) /\ i = p.pos)
    BY <1>6, <2>1, AheadShrinks DEF p, q, n
  <2>3. Replaces(outbox[e].after, outbox[e].draft, Places(writes, Ahead(p, n)), outbox, vault)
    BY <1>3, <1>4, <1>6, <2>1 DEF WritesHistory, writes, n
  <2>4. Replaces(outbox[e].after, outbox[e].draft, Places(writes, Ahead(p, n)), outbox', vault')
    BY <1>5, <2>3, HistoryLasts
  <2>5. ASSUME NEW a \in outbox[e].after, outbox'[a].current,
               SameTopic(outbox'[a].draft, outbox[e].draft), NEW f \in DOMAIN vault',
               vault'[f].id = NoteId(a), vault'[f].current
        PROVE  <<NoteId(a), f>> \in Places(writes, Ahead(q, n))
    <3>1. PICK i \in Ahead(p, n) : <<NoteId(a), f>> = <<writes[i].id, writes[i].path>>
      BY <2>4, <2>5 DEF Replaces, Places
    <3>2. CASE i \in Ahead(q, n)
      BY <3>1, <3>2 DEF Places
    <3>3. CASE WriteFile(w) /\ i = p.pos
      <4>1. /\ p.pc \in Applying /\ Writing(w) = writes[i]
            /\ vault' = Put(vault, writes[i].path, writes[i])
        BY <1>3, <3>3 DEF WriteFile, At, Applying, Writing, EntryOf, writes, p
      <4>2. vault'[f] = writes[i]
        BY <3>1, <4>1 DEF Put
      <4>3. ~ writes[i].current
        BY <1>5, <2>5, <4>1, <4>2, CompletedIsSuperseded DEF p
      <4> QED
        BY <2>5, <4>2, <4>3
    <3> QED
      BY <2>2, <3>2, <3>3
  <2>6. Replaces(outbox[e].after, outbox[e].draft, Places(writes, Ahead(q, n)), outbox', vault')
    BY <2>5 DEF Replaces
  <2> QED
    BY <1>4, <2>6 DEF n
<1>7. CASE p.pc \notin Applying \cup Written
  <2>1. p \in Proc /\ DOMAIN proc = Workers /\ Claim(w) /\ q.pc = "file"
    BY <1>2, <1>7 DEF Shape, TypeOK, CallsOK, p
  <2>2. q = [p EXCEPT !.pc = "file", !.pos = 1] /\ EntryOf(w).state # "completed"
    <3>1. Idle.pc # "file" /\ Returned(p).pc # "file"
      BY <2>1 DEF Returned, Idle, Proc
    <3> QED
      BY <2>1, <3>1 DEF Claim, Become, p, q
  <2>3. Ahead(q, n) = 1 .. n
    BY <2>1, <2>2 DEF Ahead, Written, Proc
  <2>4. e \notin Completed
    BY <1>3, <2>2 DEF Completed, EntryOf, p
  <2>5. Replaces(outbox[e].after, outbox[e].draft, Places(writes, 1 .. n), outbox, vault)
    BY <1>4, <2>4 DEF EntryHistory, writes, n
  <2>6. Replaces(outbox[e].after, outbox[e].draft, Places(writes, 1 .. n), outbox', vault')
    BY <1>5, <2>5, HistoryLasts
  <2> QED
    BY <1>4, <2>3, <2>6 DEF n
<1> QED
  BY <1>6, <1>7

\* A call that is about to ask for a promotion looks at what is complete.
LEMMA AskingHistory ==
  ASSUME Shape, Progress, Copies, History, NEW w \in Workers,
         \/ \E d \in Drafts, current \in AsCurrent, path \in TargetPaths \cup {None} :
              PromoteDraft(w, d, current, path)
         \/ CheckDuplicate(w) \/ ListSuperseded(w)
  PROVE  AskedOK(proc'[w], outbox, Completed, vault, rows)
<1> DEFINE p == proc[w]
           plan == proc[w].plan
<1>1. p \in Proc /\ AskedOK(p, outbox, Completed, vault, rows) /\ CallOK(p, outbox)
  BY DEF Shape, TypeOK, CallsOK, History
<1>2. CASE proc'[w].pc = "idle"
  BY <1>2 DEF AskedOK, Asking
<1>3. ASSUME NEW d \in Drafts, NEW current \in AsCurrent,
             NEW path \in TargetPaths \cup {None}, PromoteDraft(w, d, current, path)
      PROVE  AskedOK(proc'[w], outbox, Completed, vault, rows)
  <2>1. proc'[w].plan.after = Completed /\ proc'[w].pc = "checking"
    BY <1>3, PlansMove, NextLabels
  <2> QED
    BY <2>1 DEF AskedOK
<1>4. CASE CheckDuplicate(w) /\ proc'[w].pc # "idle"
  <2>1. p.pc = "checking"
    BY <1>4 DEF CheckDuplicate, At
  <2>2. /\ proc'[w].plan = plan /\ ~ HasLiveTwin(plan.body)
        /\ proc'[w].pc = "enqueue" => ~ plan.current
    BY <1>4, PlansMove
  <2>3. plan.after \subseteq Completed
    BY <1>1, <2>1 DEF AskedOK, Asking
  <2>4. NoTwins(plan.after, plan.body, outbox, rows)
    <3> SUFFICES ASSUME NEW e \in plan.after, outbox[e].body = plan.body
                 PROVE  rows[NoteId(e)].status = "superseded"
      BY DEF NoTwins
    <3>1. NoteId(e) \in DOMAIN rows /\ e \in Entries
      BY <2>3, CompletedHasRow
    <3>2. Faithful(rows[NoteId(e)], outbox) /\ rows[NoteId(e)].id = NoteId(e)
      BY <3>1 DEF Copies
    <3>3. rows[NoteId(e)].body = outbox[e].body
      BY <3>1, <3>2 DEF Faithful
    <3> QED
      BY <2>2, <3>1, <3>3 DEF HasLiveTwin
  <2> QED
    BY <2>2, <2>3, <2>4 DEF AskedOK
<1>5. CASE ListSuperseded(w) /\ proc'[w].pc # "idle"
  <2>1. p.pc = "listing" /\ plan \in Plan
    BY <1>1, <1>5 DEF ListSuperseded, At, CallOK, Deciding
  <2>2. PICK older \in Orderings(CurrentOnTopic(plan.draft)) :
          proc'[w].plan = [plan EXCEPT !.older = older]
    BY <1>5, PlansMove
  <2>3. /\ proc'[w].plan.older = older /\ proc'[w].plan.after = plan.after
        /\ proc'[w].plan.body = plan.body /\ proc'[w].plan.draft = plan.draft
    BY <2>1, <2>2 DEF Plan
  <2>4. plan.after \subseteq Completed /\ NoTwins(plan.after, plan.body, outbox, rows)
    BY <1>1, <2>1 DEF AskedOK, Asking
  <2>5. ASSUME NEW e \in plan.after, outbox[e].current,
               SameTopic(outbox[e].draft, plan.draft),
               NEW f \in DOMAIN vault, vault[f].id = NoteId(e), vault[f].current
        PROVE  <<NoteId(e), f>> \in Places(older, 1 .. Len(older))
    <3>1. e \in Entries
      BY <2>4, CompletedHasRow
    <3>2. Faithful(vault[f], outbox) /\ vault[f].path = f
      BY DEF Copies
    <3>3. vault[f].draft = outbox[e].draft
      BY <2>5, <3>1, <3>2 DEF Faithful
    <3>4. vault[f] \in CurrentOnTopic(plan.draft)
      BY <2>5, <3>3 DEF CurrentOnTopic
    <3>5. PICK i \in 1 .. Len(older) : older[i] = vault[f]
      BY <3>4, ListingIsComplete
    <3> QED
      BY <2>5, <3>2, <3>5 DEF Places
  <2>6. Replaces(plan.after, plan.draft, Places(older, 1 .. Len(older)), outbox, vault)
    BY <2>5 DEF Replaces
  <2> QED
    BY <2>3, <2>4, <2>6 DEF AskedOK
<1> QED
  BY <1>2, <1>3, <1>4, <1>5

\* An entry that is queued supersedes what its call found to replace.
LEMMA QueuedHistory ==
  ASSUME Shape, Progress, Claims, Copies, History, [Next]_vars,
         NEW w \in Workers, Enqueue(w), Len(outbox) # MaxPromotions
  PROVE  /\ Len(outbox') = Len(outbox) + 1
         /\ EntryHistory(Len(outbox'), outbox', Completed', vault', rows')
<1> DEFINE e == Len(outbox) + 1
           plan == proc[w].plan
           writes == outbox'[e].writes
<1>1. Len(outbox) \in Nat
  BY NothingWithdrawn
<1>2. /\ Len(outbox') = e
      /\ outbox'[e].state = "pending" /\ outbox'[e].after = plan.after
      /\ outbox'[e].draft = plan.draft /\ outbox'[e].body = plan.body
      /\ outbox'[e].current = plan.current
      /\ \A j \in 1 .. Len(outbox) : outbox'[j] = outbox[j]
      /\ \A i \in 1 .. Len(plan.older) : \E j \in 1 .. Len(writes) :
           writes[j].id = plan.older[i].id /\ writes[j].path = plan.older[i].path
  BY QueuedIsFaithful
<1>3. proc[w].pc = "enqueue" /\ AskedOK(proc[w], outbox, Completed, vault, rows)
  BY DEF Enqueue, At, History
<1>4. Completed' = Completed /\ e \notin Completed
  BY <1>1, <1>2 DEF Completed
<1>5. /\ plan.after \subseteq Completed /\ NoTwins(plan.after, plan.body, outbox, rows)
      /\ plan.current => Replaces(plan.after, plan.draft,
                                  Places(plan.older, 1 .. Len(plan.older)), outbox, vault)
  BY <1>3 DEF AskedOK, Asking
<1>6. NoTwins(plan.after, plan.body, outbox', rows')
  BY <1>5, HistoryLasts
<1>7. plan.current =>
        Replaces(plan.after, plan.draft, Places(writes, 1 .. Len(writes)), outbox', vault')
  <2>1. Places(plan.older, 1 .. Len(plan.older)) \subseteq Places(writes, 1 .. Len(writes))
    <3> SUFFICES ASSUME NEW i \in 1 .. Len(plan.older)
                 PROVE  <<plan.older[i].id, plan.older[i].path>>
                          \in Places(writes, 1 .. Len(writes))
      BY DEF Places
    <3>1. PICK j \in 1 .. Len(writes) :
            writes[j].id = plan.older[i].id /\ writes[j].path = plan.older[i].path
      BY <1>2
    <3> HIDE DEF plan, writes
    <3> QED
      BY <3>1 DEF Places
  <2>2. plan.current =>
          Replaces(plan.after, plan.draft, Places(writes, 1 .. Len(writes)), outbox, vault)
    BY <1>5, <2>1 DEF Replaces
  <2> QED
    BY <1>5, <2>2, HistoryLasts
<1> HIDE DEF plan
<1>8. EntryHistory(e, outbox', Completed', vault', rows')
  BY <1>2, <1>4, <1>5, <1>6, <1>7 DEF EntryHistory
<1> QED
  BY <1>2, <1>8

\* History after the step of one call, from its parts.
LEMMA HistoryMoves ==
  ASSUME Orderly, Shape, Progress, Claims, Copies, History, [Next]_vars, NEW w \in Workers,
         \A v \in Workers \ {w} : proc'[v] = proc[v],
         \A e \in 1 .. Len(outbox) :
           \/ e \in Completed' => e \in Completed
           \/ outbox[e].current =>
                Replaces(outbox[e].after, outbox[e].draft, {}, outbox, vault),
         \A e \in 1 .. Len(outbox') :
           \/ e \in 1 .. Len(outbox)
           \/ EntryHistory(e, outbox', Completed', vault', rows'),
         AskedOK(proc'[w], outbox, Completed, vault, rows),
         WritesHistory(proc'[w], outbox', vault')
  PROVE  History'
<1>1. Kept(outbox, outbox') /\ Completed \subseteq Completed' /\ Len(outbox) \in Nat
  BY NothingWithdrawn, ClaimsNext
<1>2. ASSUME NEW e \in 1 .. Len(outbox)
      PROVE  EntryHistory(e, outbox', Completed', vault', rows')
  <2>1. EntryHistory(e, outbox, Completed, vault, rows)
    BY DEF History
  <2>2. /\ outbox'[e].after = outbox[e].after /\ outbox'[e].body = outbox[e].body
        /\ outbox'[e].draft = outbox[e].draft /\ outbox'[e].current = outbox[e].current
        /\ outbox'[e].writes = outbox[e].writes
    BY <1>1 DEF Kept
  <2>3. outbox[e].after \subseteq Completed
    BY <2>1 DEF EntryHistory
  <2>4. CASE e \in Completed' => e \in Completed
    <3>1. e \in Completed' <=> e \in Completed
      BY <1>1, <2>4
    <3> QED
      BY <1>1, <2>1, <2>2, <2>3, <3>1, HistoryLasts DEF EntryHistory
  <2>5. CASE e \in Completed' /\ e \notin Completed
    <3>1. outbox[e].current =>
            Replaces(outbox[e].after, outbox[e].draft, {}, outbox', vault')
      BY <2>3, <2>5, HistoryLasts
    <3> QED
      BY <1>1, <2>1, <2>2, <2>3, <2>5, <3>1, HistoryLasts DEF EntryHistory
  <2> QED
    BY <2>4, <2>5
<1>3. ASSUME NEW v \in Workers
      PROVE  AskedOK(proc'[v], outbox', Completed', vault', rows')
  <2>1. AskedOK(proc'[v], outbox, Completed, vault, rows)
    BY DEF History
  <2>2. proc'[v].pc \in Asking => proc'[v].plan.after \subseteq Completed
    BY <2>1 DEF AskedOK
  <2>3. proc'[v].pc \in {"listing", "enqueue"} => proc'[v].pc \in Asking
    BY DEF Asking
  <2> QED
    BY <1>1, <2>1, <2>2, <2>3, HistoryLasts DEF AskedOK
<1>4. ASSUME NEW v \in Workers \ {w} PROVE WritesHistory(proc'[v], outbox', vault')
  <2> DEFINE p == proc[v]
             e == p.entry
  <2> SUFFICES ASSUME p.pc \in Applying \cup Written, outbox'[e].current
               PROVE  Replaces(outbox'[e].after, outbox'[e].draft,
                               Places(outbox'[e].writes, Ahead(p, Len(outbox'[e].writes))),
                               outbox', vault')
    BY DEF WritesHistory
  <2>1. e \in 1 .. Len(outbox)
    BY EntryInOutbox DEF Written, Processing, Recording
  <2>2. /\ outbox'[e].after = outbox[e].after /\ outbox'[e].writes = outbox[e].writes
        /\ outbox'[e].draft = outbox[e].draft /\ outbox'[e].current = outbox[e].current
    BY <1>1, <2>1 DEF Kept
  <2>3. outbox[e].after \subseteq Completed /\ WritesHistory(p, outbox, vault)
    BY <2>1 DEF History, EntryHistory
  <2>4. Replaces(outbox[e].after, outbox[e].draft,
                 Places(outbox[e].writes, Ahead(p, Len(outbox[e].writes))), outbox, vault)
    BY <2>2, <2>3 DEF WritesHistory
  <2> QED
    BY <2>2, <2>3, <2>4, HistoryLasts
<1>5. \A e \in 1 .. Len(outbox') : EntryHistory(e, outbox', Completed', vault', rows')
  BY <1>2
<1>6. \A v \in Workers : WritesHistory(proc'[v], outbox', vault')
  BY <1>4
<1> QED
  BY <1>3, <1>5, <1>6 DEF History

\* Only Complete closes an entry.
LEMMA OpenLasts ==
  ASSUME Shape, [Next]_vars, NEW w \in Workers,
         UNCHANGED outbox \/ Enqueue(w) \/ Claim(w) \/ Fail(w)
  PROVE  OpenEntries \subseteq OpenEntries'
<1>1. /\ Kept(outbox, outbox') /\ Len(outbox) \in Nat /\ Len(outbox') \in Nat
  BY NothingWithdrawn
<1>2. CASE UNCHANGED outbox
  BY <1>2 DEF OpenEntries, Completed
<1>3. CASE Enqueue(w)
  <2>1. UNCHANGED outbox \/ \E x : outbox' = Append(outbox, x)
    BY <1>3 DEF Enqueue
  <2>2. outbox \in Seq(Entry)
    BY DEF Shape, TypeOK, OutboxOK
  <2>3. \A j \in 1 .. Len(outbox) : outbox'[j] = outbox[j]
    BY <1>1, <2>1, <2>2
  <2>4. 1 .. Len(outbox) \subseteq 1 .. Len(outbox')
    BY <1>1 DEF Kept
  <2> QED
    BY <2>3, <2>4 DEF OpenEntries, Completed
<1>4. CASE Claim(w) \/ Fail(w)
  <2>1. proc[w].pc \in Processing
    BY <1>4 DEF Claim, Fail, At, Processing
  <2>2. UNCHANGED outbox \/ \E s \in {"processing", "failed"} : SetState(proc[w].entry, s)
    BY <1>4 DEF Claim, Fail
  <2>3. ASSUME NEW s \in {"processing", "failed"}, SetState(proc[w].entry, s)
        PROVE  OpenEntries \subseteq OpenEntries'
    <3>1. /\ Len(outbox') = Len(outbox)
          /\ \A e \in 1 .. Len(outbox) :
               outbox'[e].state = IF e = proc[w].entry THEN s ELSE outbox[e].state
      BY <2>1, <2>3, StateChanges
    <3> QED
      BY <3>1 DEF OpenEntries, Completed
  <2> QED
    BY <1>2, <2>2, <2>3
<1> QED
  BY <1>2, <1>3, <1>4

\* A call that completes its entry has superseded what that was to replace.
LEMMA CompletingReplaces ==
  ASSUME Shape, Progress, Claims, Copies, History, NEW w \in Workers, Complete(w)
  PROVE  /\ Len(outbox') = Len(outbox)
         /\ \A e \in 1 .. Len(outbox) :
              \/ e \in Completed' => e \in Completed
              \/ outbox[e].current =>
                   Replaces(outbox[e].after, outbox[e].draft, {}, outbox, vault)
<1> DEFINE p == proc[w]
           writes == outbox[p.entry].writes
<1>1. p.pc = "complete" /\ p.pc \in Written /\ p.pc \in Processing /\ SetState(p.entry, "completed")
  BY DEF Complete, At, Written, Processing, Recording
<1>2. /\ Len(outbox') = Len(outbox) /\ p.entry \in 1 .. Len(outbox)
      /\ \A e \in 1 .. Len(outbox) :
           outbox'[e].state = IF e = p.entry THEN "completed" ELSE outbox[e].state
  BY <1>1, StateChanges
<1>3. \A e \in 1 .. Len(outbox) : e # p.entry => (e \in Completed' => e \in Completed)
  BY <1>2 DEF Completed
<1>4. WritesHistory(p, outbox, vault)
  BY DEF History
<1>5. Ahead(p, Len(writes)) = {}
  BY <1>1 DEF Ahead
<1>6. Places(writes, {}) = {}
  BY DEF Places
<1>7. outbox[p.entry].current =>
        Replaces(outbox[p.entry].after, outbox[p.entry].draft, {}, outbox, vault)
  BY <1>1, <1>4, <1>5, <1>6 DEF WritesHistory
<1> QED
  BY <1>2, <1>3, <1>7

\* The step of one call keeps History.
LEMMA CallKeepsHistory ==
  ASSUME Orderly, Shape, Progress, Claims, Copies, History, [Next]_vars, NEW w \in Workers,
         \A v \in Workers \ {w} : proc'[v] = proc[v],
         \/ Step(w)
         \/ \E d \in Drafts, b \in Bodies : RewriteDraft(w, d, b)
         \/ \E d \in Drafts, current \in AsCurrent, path \in TargetPaths \cup {None} :
              PromoteDraft(w, d, current, path)
         \/ StartReplay(w) \/ Throw(w) \/ Crash(w)
  PROVE  History'
<1>1. CASE \/ \E d \in Drafts, current \in AsCurrent, path \in TargetPaths \cup {None} :
                PromoteDraft(w, d, current, path)
           \/ CheckDuplicate(w) \/ ListSuperseded(w)
  <2>1. UNCHANGED outbox /\ Completed' = Completed
    BY <1>1 DEF PromoteDraft, CheckDuplicate, ListSuperseded, stores, Completed
  <2>2. AskedOK(proc'[w], outbox, Completed, vault, rows)
    BY <1>1, AskingHistory
  <2>3. proc'[w].pc \notin Applying \cup Written
    BY <1>1, NextLabels DEF Applying, Written
  <2>4. WritesHistory(proc'[w], outbox', vault')
    BY <2>3 DEF WritesHistory
  <2> QED
    BY <2>1, <2>2, <2>4, HistoryMoves
<1>2. CASE \/ \E d \in Drafts, b \in Bodies : RewriteDraft(w, d, b)
           \/ StartReplay(w)
  <2>1. UNCHANGED outbox /\ Completed' = Completed
    BY <1>2 DEF RewriteDraft, StartReplay, stores, Completed
  <2>2. proc'[w].pc \notin Applying \cup Written /\ proc'[w].pc \notin Asking
    BY <1>2, NextLabels DEF Applying, Written, Asking
  <2>3. /\ WritesHistory(proc'[w], outbox', vault')
        /\ AskedOK(proc'[w], outbox, Completed, vault, rows)
    BY <2>2 DEF WritesHistory, AskedOK, Asking
  <2> QED
    BY <2>1, <2>3, HistoryMoves
<1>3. CASE \/ Throw(w) \/ Crash(w) \/ UpsertCreatedRow(w) \/ Enqueue(w) \/ ProcessStep(w)
           \/ AuditAccepted(w) \/ NextEntry(w)
  <2>1. proc'[w].pc \notin Asking
    BY <1>3, NextLabels DEF ProcessStep, Asking
  <2>2. AskedOK(proc'[w], outbox, Completed, vault, rows)
    BY <2>1 DEF AskedOK, Asking
  <2>3. WritesHistory(proc'[w], outbox', vault')
    <3>1. Step(w) \/ Throw(w) \/ Crash(w)
      BY <1>3 DEF Step
    <3> QED
      BY <3>1, WritingHistory
  <2>4. CASE Complete(w)
    BY <2>2, <2>3, <2>4, CompletingReplaces, HistoryMoves
  <2>5. CASE Enqueue(w) /\ Len(outbox) # MaxPromotions
    <3>1. \A e \in 1 .. Len(outbox) : e \in Completed' => e \in Completed
      BY <2>5, OpenLasts DEF OpenEntries
    <3>2. /\ Len(outbox') = Len(outbox) + 1 /\ Len(outbox) \in Nat
          /\ EntryHistory(Len(outbox'), outbox', Completed', vault', rows')
      BY <2>5, QueuedHistory, NothingWithdrawn
    <3>3. \A e \in 1 .. Len(outbox') : e \in 1 .. Len(outbox) \/ e = Len(outbox')
      BY <3>2
    <3> QED
      BY <2>2, <2>3, <3>1, <3>2, <3>3, HistoryMoves
  <2>6. CASE ~ Complete(w) /\ ~ (Enqueue(w) /\ Len(outbox) # MaxPromotions)
    <3>1. UNCHANGED outbox \/ Claim(w) \/ Fail(w)
      BY <1>3, <2>6 DEF Throw, Crash, UpsertCreatedRow, Enqueue, ProcessStep, WriteFile,
         UpsertRow, ClearStore, FillStore, RecordPromotion, UpdateDraft, UpsertDraftRow,
         AuditAccepted, NextEntry, stores
    <3>2. \A e \in 1 .. Len(outbox) : e \in Completed' => e \in Completed
      BY <3>1, OpenLasts DEF OpenEntries
    <3>3. Len(outbox') = Len(outbox)
      <4>1. CASE Claim(w) \/ Fail(w)
        <5>1. proc[w].pc \in Processing
          BY <4>1 DEF Claim, Fail, At, Processing
        <5>2. UNCHANGED outbox
              \/ \E s \in {"processing", "failed"} : SetState(proc[w].entry, s)
          BY <4>1 DEF Claim, Fail
        <5> QED
          BY <5>1, <5>2, StateChanges
      <4> QED
        BY <3>1, <4>1
    <3> QED
      BY <2>2, <2>3, <3>2, <3>3, HistoryMoves
  <2> QED
    BY <2>4, <2>5, <2>6
<1> QED
  BY <1>1, <1>2, <1>3 DEF Step

\* Every step keeps History.
LEMMA HistoryNext ==
  ASSUME Orderly, Shape, Progress, Claims, Copies, History, [Next]_vars
  PROVE  History'
<1>1. CASE UNCHANGED vars
  BY <1>1 DEF vars, stores, History, Completed
<1> QED
  BY <1>1, SomeCallMoves, CallKeepsHistory

Traced == Shape /\ Progress /\ Claims /\ Copies /\ History

LEMMA TracedInit == Init => Traced
<1> SUFFICES ASSUME Init PROVE Traced
  OBVIOUS
<1>1. /\ outbox = <<>> /\ vault = <<>> /\ rows = <<>> /\ Len(outbox) = 0
      /\ \A w \in Workers : proc[w].pc = "idle"
  BY DEF Init, Idle
<1>2. DOMAIN vault = {} /\ DOMAIN rows = {} /\ 1 .. Len(outbox) = {}
  BY <1>1
<1>3. Copies
  BY <1>1, <1>2 DEF Copies, FaithfulPlan, Asking
<1>4. History
  BY <1>1, <1>2 DEF History, AskedOK, Asking, WritesHistory, Applying, Written
<1> QED
  BY <1>3, <1>4, ShapeInit, ProgressInit, ClaimsInit DEF Traced

LEMMA TracedNext == Orderly /\ Traced /\ [Next]_vars => Traced'
BY ShapeNext, ProgressNext, ClaimsNext, CopiesNext, HistoryNext DEF Traced

\* With one worker at a time, or none that replays, Traced is an invariant.
LEMMA TracedInvariant == Orderly => (Spec => []Traced)
<1> SUFFICES ASSUME Orderly PROVE Spec => []Traced
  OBVIOUS
<1> QED
  BY TracedInit, TracedNext, PTL DEF Spec

\* With one worker at a time, or calls that never replay, a canonical file that
\* is left half-written belongs to an entry that is still open.
THEOREM TornIsReplayable == Orderly => (Spec => []TornFileIsReplayable)
<1> SUFFICES ASSUME Orderly PROVE Spec => []TornFileIsReplayable
  OBVIOUS
<1>1. Traced => TornFileIsReplayable
  BY DEF Traced, Claims, Alone, Apart, TornFileIsReplayable
<1> QED
  BY <1>1, TracedInvariant, PTL

\* Under the same condition a completed entry stays completed.
THEOREM CompletedForGood == Orderly => (Spec => CompletedIsFinal)
<1> SUFFICES ASSUME Orderly PROVE Spec => CompletedIsFinal
  OBVIOUS
<1>1. Traced /\ [Next]_vars => [Completed \subseteq Completed']_outbox
  BY ClaimsNext DEF Traced
<1> QED
  BY <1>1, TracedInvariant, PTL DEF Spec, CompletedIsFinal

\* Under the same condition, the file of no note of its topic whose promotion
\* was complete when a later current-state promotion was asked for is in force
\* once that one completes, and no replay puts it back.
THEOREM LaterWins == Orderly => (Spec => []LaterPromotionWins)
<1> SUFFICES ASSUME Orderly PROVE Spec => []LaterPromotionWins
  OBVIOUS
<1>1. Traced => LaterPromotionWins
  <2> SUFFICES ASSUME Traced, NEW later \in Completed, NEW e \in outbox[later].after,
                      NEW p \in DOMAIN vault, outbox[later].current, outbox[e].current,
                      SameTopic(outbox[e].draft, outbox[later].draft),
                      vault[p].id = NoteId(e)
               PROVE  vault[p].status = "superseded" /\ ~ vault[p].current
    BY DEF LaterPromotionWins
  <2>1. EntryHistory(later, outbox, Completed, vault, rows)
    BY DEF Traced, History, Completed
  <2>2. e \in Completed /\ e \in Entries
    BY <2>1, CompletedHasRow DEF Traced, EntryHistory
  <2>3. Replaces(outbox[later].after, outbox[later].draft, {}, outbox, vault)
    BY <2>1 DEF EntryHistory
  <2>4. ~ vault[p].current
    BY <2>3 DEF Replaces
  <2>5. Faithful(vault[p], outbox) /\ vault[p].status \in {"promoted", "superseded"}
    BY DEF Traced, Copies, Shape, TypeOK, FilesOK, Note
  <2>6. vault[p].status # "promoted"
    BY <2>2, <2>4, <2>5 DEF Faithful
  <2> QED
    BY <2>4, <2>5, <2>6
<1> QED
  BY <1>1, TracedInvariant, PTL

\* Under the same condition, of two promotions of the same text, the second
\* asked for when the first was complete, the first is superseded.
THEOREM TwinsStayOut == Orderly => (Spec => []NoLiveTwins)
<1> SUFFICES ASSUME Orderly PROVE Spec => []NoLiveTwins
  OBVIOUS
<1>1. Traced => NoLiveTwins
  BY DEF Traced, History, EntryHistory, NoTwins, NoLiveTwins
<1> QED
  BY <1>1, TracedInvariant, PTL

-----------------------------------------------------------------------------
(* What one call at a time, and paths made from ids, let the copies of a     *)
(* note say.                                                                 *)

Sequential == OneWorker /\ TargetPaths = {}

Deal(n, box) ==
  \E j \in 1 .. Len(box) : /\ n.id = NoteId(j) /\ n.body = box[j].body
                           /\ n.draft = box[j].draft
                           /\ n.status = "promoted" => n.current = box[j].current

Sketch(n, box) ==
  \E j \in 1 .. Len(box) : /\ n.id = SnapshotId(TitleOf[box[j].draft])
                           /\ n.body = NoteId(j) /\ box[j].current
                           /\ n.status = "promoted" /\ ~ n.current

\* Every copy of a note is that of an entry, up to its status, or a snapshot.
Known(n, box) ==
  /\ n \in Note /\ n.path = n.id
  /\ Deal(n, box) \/ Sketch(n, box)
  /\ n.status = "superseded" => ~ n.current

\* The writes of entry e: its own note, its snapshot, and what it supersedes.
WritesOK(e, box) ==
  LET writes == box[e].writes
      D == 1 .. Len(writes)
      snapshot == SnapshotId(TitleOf[box[e].draft]) IN
  /\ \A i \in D :
       /\ Known(writes[i], box)
       /\ \/ writes[i].id = NoteId(e) /\ writes[i].status = "promoted"
          \/ /\ writes[i].id = snapshot /\ writes[i].body = NoteId(e)
             /\ writes[i].status = "promoted"
             /\ \E j \in D : j < i /\ writes[j].id = NoteId(e)
          \/ /\ writes[i].status = "superseded" /\ writes[i].by = e
             /\ writes[i].id # NoteId(e) /\ box[e].current
  /\ \A i, j \in D : writes[i].id = writes[j].id => i = j
  /\ \E i \in D : writes[i].id = NoteId(e)
  /\ box[e].current => \E i \in D : writes[i].id = snapshot

\* What a call that has not queued its entry yet is about to supersede.
PlanOK(p, box) ==
  LET older == p.plan.older IN
  p.pc \in Asking =>
    /\ p.plan.path = None
    /\ p.pc = "listing" => p.plan.current
    /\ \A i \in 1 .. Len(older) : Known(older[i], box) /\ older[i].current
                                  /\ p.plan.current
    /\ \A i, j \in 1 .. Len(older) : older[i].id = older[j].id => i = j

Circulation ==
  /\ \A p \in DOMAIN vault : Known(vault[p], outbox) /\ vault[p].id = p
  /\ \A id \in DOMAIN rows : Known(rows[id], outbox) /\ rows[id].id = id
  /\ \A e \in 1 .. Len(outbox) : WritesOK(e, outbox)
  /\ \A w \in Workers : PlanOK(proc[w], outbox)

\* What is known of a note, of an entry and of a plan stays known.
LEMMA KnownLasts ==
  ASSUME NEW box, NEW box2, Len(box) \in Nat, Len(box2) \in Nat, Kept(box, box2),
         NEW n, Known(n, box)
  PROVE  Known(n, box2)
<1>1. Deal(n, box) => Deal(n, box2)
  BY DEF Deal, Kept
<1>2. Sketch(n, box) => Sketch(n, box2)
  BY DEF Sketch, Kept
<1> QED
  BY <1>1, <1>2 DEF Known

LEMMA WritesLast ==
  ASSUME NEW box, NEW box2, Len(box) \in Nat, Len(box2) \in Nat, Kept(box, box2),
         NEW e \in 1 .. Len(box), WritesOK(e, box)
  PROVE  WritesOK(e, box2)
<1>1. /\ box2[e].writes = box[e].writes /\ box2[e].draft = box[e].draft
      /\ box2[e].current = box[e].current
  BY DEF Kept
<1>2. \A i \in 1 .. Len(box[e].writes) : Known(box[e].writes[i], box2)
  BY KnownLasts DEF WritesOK
<1> QED
  BY <1>1, <1>2 DEF WritesOK

LEMMA PlanLasts ==
  ASSUME NEW box, NEW box2, Len(box) \in Nat, Len(box2) \in Nat, Kept(box, box2),
         NEW p, PlanOK(p, box)
  PROVE  PlanOK(p, box2)
BY KnownLasts DEF PlanOK

\* What a call is about to supersede has another id than the note it promotes.
LEMMA CurrentIsDeal ==
  ASSUME NEW n, NEW box, Known(n, box), n.current
  PROVE  Deal(n, box) /\ \A t : n.id # SnapshotId(t)
BY IdsDiffer DEF Known, Deal, Sketch

\* The payload of an entry is in order if its plan is, and contains what the plan supersedes.
LEMMA PayloadOK ==
  ASSUME NEW plan \in Plan, NEW e \in Entries, NEW box, Len(box) = e,
         box[e].draft = plan.draft, box[e].body = plan.body, box[e].current = plan.current,
         box[e].writes = CanonicalWrites(plan, e), plan.path = None,
         \A i \in 1 .. Len(plan.older) : /\ Known(plan.older[i], box)
                                         /\ plan.older[i].id # NoteId(e)
                                         /\ plan.older[i].current /\ plan.current,
         \A i, j \in 1 .. Len(plan.older) : plan.older[i].id = plan.older[j].id => i = j
  PROVE  /\ WritesOK(e, box)
         /\ \A i \in 1 .. Len(plan.older) :
              \E j \in 1 .. Len(box[e].writes) : box[e].writes[j].id = plan.older[i].id
<1> DEFINE old == Len(plan.older)
           n == CanonicalNote(plan, e)
           m == SnapshotNote(n)
           new == IF plan.current THEN 2 ELSE 1
           len == old + new
           f == CanonicalWrites(plan, e)
           x(i) == Superseded(plan.older[i], e)
<1>1. old \in Nat /\ e \in 1 .. Len(box)
  BY LenProperties, ConstantsAssumption DEF Plan, Entries
<1>2. f = [i \in 1 .. len |-> IF i <= old THEN x(i) ELSE IF i = old + 1 THEN n ELSE m]
  BY Zenon DEF CanonicalWrites
<1>3. f \in Seq(Note)
  BY WritesAreNotes
<1>4. /\ n.id = NoteId(e) /\ n.path = n.id /\ n.body = plan.body /\ n.draft = plan.draft
      /\ n.status = "promoted" /\ n.current = plan.current
  BY DEF CanonicalNote
<1>5. /\ m.id = SnapshotId(TitleOf[plan.draft]) /\ m.path = m.id /\ m.body = NoteId(e)
      /\ m.status = "promoted" /\ m.current = FALSE
  BY <1>4 DEF SnapshotNote
<1>6. \A i \in 1 .. old :
        /\ x(i).id = plan.older[i].id /\ x(i).path = x(i).id
        /\ x(i).body = plan.older[i].body /\ x(i).draft = plan.older[i].draft
        /\ x(i).status = "superseded" /\ x(i).current = FALSE /\ x(i).by = e
  <2>1. ASSUME NEW y \in Note
        PROVE  LET z == Superseded(y, e) IN
               /\ z.id = y.id /\ z.path = y.path /\ z.body = y.body /\ z.draft = y.draft
               /\ z.status = "superseded" /\ z.current = FALSE /\ z.by = e
    BY <2>1 DEF Superseded, Note
  <2> QED
    BY <2>1 DEF Known
<1>7. /\ len \in Nat /\ old + 1 \in 1 .. len
      /\ plan.current => old + 2 \in 1 .. len
      /\ \A i \in 1 .. len : i <= old \/ i = old + 1 \/ (i = old + 2 /\ plan.current)
  <2>1. new \in 1 .. 2 /\ (new = 2 => plan.current) /\ (plan.current => new = 2)
    OBVIOUS
  <2> HIDE DEF old, new
  <2> QED
    BY <1>1, <2>1
<1> HIDE DEF f, n, m, old, len, x
<1>8. /\ Len(f) = len
      /\ \A i \in 1 .. len : \/ i \in 1 .. old /\ f[i] = x(i)
                             \/ i = old + 1 /\ f[i] = n
                             \/ i = old + 2 /\ plan.current /\ f[i] = m
  <2>1. Len(f) = len /\ \A i \in 1 .. len : f[i] = IF i <= old THEN x(i)
                                            ELSE IF i = old + 1 THEN n ELSE m
    BY <1>2, <1>7
  <2>2. ASSUME NEW i \in 1 .. len, i <= old PROVE i \in 1 .. old /\ f[i] = x(i)
    BY <1>1, <1>7, <2>1, <2>2
  <2>3. ASSUME NEW i \in 1 .. len, i = old + 1 PROVE f[i] = n
    BY <1>1, <1>7, <2>1, <2>3
  <2>4. ASSUME NEW i \in 1 .. len, i = old + 2 PROVE f[i] = m
    BY <1>1, <1>7, <2>1, <2>4
  <2> QED
    BY <1>7, <2>1, <2>2, <2>3, <2>4
<1>9. \A i \in 1 .. old : i \in 1 .. len /\ f[i] = x(i)
  BY <1>1, <1>7, <1>8
<1>10. /\ f[old + 1] = n
       /\ plan.current => f[old + 2] = m
  BY <1>1, <1>7, <1>8
<1>11. \A i \in 1 .. len : Known(f[i], box)
  <2>1. \A i \in 1 .. len : f[i] \in Note
    BY <1>3, <1>8, ElementOfSeq
  <2>2. ASSUME NEW i \in 1 .. old PROVE Deal(x(i), box)
    <3>1. Deal(plan.older[i], box)
      BY CurrentIsDeal DEF old
    <3> QED
      BY <1>6, <3>1 DEF Deal
  <2>3. Deal(n, box)
    BY <1>1, <1>4 DEF Deal
  <2>4. plan.current => Sketch(m, box)
    BY <1>1, <1>5 DEF Sketch
  <2> QED
    BY <1>4, <1>5, <1>6, <1>8, <2>1, <2>2, <2>3, <2>4 DEF Known
<1>12. \A i \in 1 .. len :
         \/ f[i].id = NoteId(e) /\ f[i].status = "promoted"
         \/ /\ f[i].id = SnapshotId(TitleOf[plan.draft]) /\ f[i].body = NoteId(e)
            /\ f[i].status = "promoted"
            /\ \E j \in 1 .. len : j < i /\ f[j].id = NoteId(e)
         \/ /\ f[i].status = "superseded" /\ f[i].by = e
            /\ f[i].id # NoteId(e) /\ plan.current
  <2> SUFFICES ASSUME NEW i \in 1 .. len
               PROVE  \/ f[i].id = NoteId(e) /\ f[i].status = "promoted"
                      \/ /\ f[i].id = SnapshotId(TitleOf[plan.draft])
                         /\ f[i].body = NoteId(e) /\ f[i].status = "promoted"
                         /\ \E j \in 1 .. len : j < i /\ f[j].id = NoteId(e)
                      \/ /\ f[i].status = "superseded" /\ f[i].by = e
                         /\ f[i].id # NoteId(e) /\ plan.current
    OBVIOUS
  <2>1. CASE i \in 1 .. old /\ f[i] = x(i)
    BY <1>6, <2>1 DEF old
  <2>2. CASE i = old + 1 /\ f[i] = n
    BY <1>4, <2>2
  <2>3. CASE i = old + 2 /\ plan.current /\ f[i] = m
    <3>1. old + 1 < i /\ f[old + 1].id = NoteId(e)
      BY <1>1, <1>4, <1>10, <2>3
    <3> QED
      BY <1>5, <1>7, <2>3, <3>1
  <2> QED
    BY <1>8, <2>1, <2>2, <2>3
<1>13. \A i \in 1 .. old : f[i].id = plan.older[i].id
  BY <1>6, <1>9
<1>14. ASSUME NEW i \in 1 .. len, NEW j \in 1 .. len, f[i].id = f[j].id PROVE i = j
  <2>1. \A k \in 1 .. old : f[k].id # n.id /\ f[k].id # m.id
    BY <1>4, <1>5, <1>13, CurrentIsDeal DEF old
  <2>2. n.id # m.id
    BY <1>4, <1>5, IdsDiffer
  <2>3. \A k, l \in 1 .. old : f[k].id = f[l].id => k = l
    BY <1>13 DEF old
  <2> QED
    BY <1>8, <1>14, <2>1, <2>2, <2>3
<1>15. WritesOK(e, box)
  BY <1>4, <1>5, <1>7, <1>8, <1>10, <1>11, <1>12, <1>14 DEF WritesOK, f
<1> QED
  BY <1>8, <1>9, <1>13, <1>15 DEF f, old

\* Circulation after the step of one call, from its parts.
LEMMA CirculationMoves ==
  ASSUME Sequential, Circulation, NEW w \in Workers, Kept(outbox, outbox'),
         Len(outbox) \in Nat, Len(outbox') \in Nat,
         \A p \in DOMAIN vault' : \/ p \in DOMAIN vault /\ vault'[p] = vault[p]
                                  \/ Known(vault'[p], outbox) /\ vault'[p].id = p,
         \A id \in DOMAIN rows' : \/ id \in DOMAIN rows /\ rows'[id] = rows[id]
                                  \/ Known(rows'[id], outbox) /\ rows'[id].id = id,
         \A e \in 1 .. Len(outbox') : e \in 1 .. Len(outbox) \/ WritesOK(e, outbox'),
         PlanOK(proc'[w], outbox')
  PROVE  Circulation'
<1>1. \A p \in DOMAIN vault' : Known(vault'[p], outbox') /\ vault'[p].id = p
  BY KnownLasts DEF Circulation
<1>2. \A id \in DOMAIN rows' : Known(rows'[id], outbox') /\ rows'[id].id = id
  BY KnownLasts DEF Circulation
<1>3. \A e \in 1 .. Len(outbox') : WritesOK(e, outbox')
  BY WritesLast DEF Circulation
<1>4. \A v \in Workers : PlanOK(proc'[v], outbox')
  BY DEF Sequential, OneWorker
<1> QED
  BY <1>1, <1>2, <1>3, <1>4 DEF Circulation

\* What a call writes is known.
LEMMA WritingKnown ==
  ASSUME Shape, Circulation, NEW w \in Workers, proc[w].pc \in Applying
  PROVE  /\ proc[w].entry \in 1 .. Len(outbox)
         /\ proc[w].pos \in 1 .. Len(outbox[proc[w].entry].writes)
         /\ Known(Writing(w), outbox) /\ WritesOK(proc[w].entry, outbox)
<1>1. /\ proc[w].entry \in 1 .. Len(outbox)
      /\ proc[w].pos \in 1 .. Len(outbox[proc[w].entry].writes)
  BY EntryInOutbox DEF CallOK, Processing
<1> QED
  BY <1>1 DEF Circulation, WritesOK, Writing, EntryOf

\* A listing finds each current note of the topic once.
LEMMA ListingOK ==
  ASSUME Shape, Circulation, NEW d, NEW older \in Orderings(CurrentOnTopic(d))
  PROVE  /\ \A i \in 1 .. Len(older) : Known(older[i], outbox) /\ older[i].current
         /\ \A i, j \in 1 .. Len(older) : older[i].id = older[j].id => i = j
         /\ \A n \in CurrentOnTopic(d) : \E i \in 1 .. Len(older) : older[i] = n
<1> DEFINE S == CurrentOnTopic(d)
           N == 1 .. Cardinality(S)
<1>1. IsFiniteSet(S) /\ Cardinality(S) \in Nat
  BY TopicFinite, FS_CardinalityType
<1>2. older \in [N -> S] /\ \A i, j \in N : i # j => older[i] # older[j]
  BY DEF Orderings
<1>3. 1 .. Len(older) = N
  BY <1>1, <1>2, FunctionIsSeq
<1>4. \A n \in S : /\ Known(n, outbox) /\ n.current
                   /\ n.id \in DOMAIN vault /\ n = vault[n.id]
  BY DEF CurrentOnTopic, Circulation
<1>5. older \in Injection(N, S)
  BY <1>2 DEF Injection, IsInjective
<1>6. IsFiniteSet(N) /\ Cardinality(N) = Cardinality(S)
  BY <1>1, FS_Interval
<1>7. older \in Surjection(N, S)
  BY <1>1, <1>5, <1>6, FS_Injection
<1>8. \A n \in S : \E i \in N : older[i] = n
  BY <1>7 DEF Surjection
<1>9. ASSUME NEW i \in N, NEW j \in N, older[i].id = older[j].id PROVE i = j
  <2>1. older[i] = vault[older[i].id] /\ older[j] = vault[older[j].id]
    BY <1>2, <1>4
  <2> QED
    BY <1>2, <1>9, <2>1
<1>10. \A i \in N : Known(older[i], outbox) /\ older[i].current
  BY <1>2, <1>4
<1> QED
  BY <1>3, <1>8, <1>9, <1>10

\* The steps of a call before its entry is queued keep Circulation.
LEMMA AskingCirculates ==
  ASSUME Sequential, Shape, Circulation, NEW w \in Workers, Kept(outbox, outbox'),
         \/ \E d \in Drafts, current \in AsCurrent, path \in TargetPaths \cup {None} :
              PromoteDraft(w, d, current, path)
         \/ CheckDuplicate(w) \/ ListSuperseded(w)
  PROVE  Circulation'
<1>1. UNCHANGED <<outbox, vault, rows>>
  BY DEF PromoteDraft, CheckDuplicate, ListSuperseded, stores
<1>2. /\ proc[w] \in Proc /\ DOMAIN proc = Workers /\ PlanOK(proc[w], outbox)
      /\ Len(outbox) \in Nat /\ CallOK(proc[w], outbox)
  BY LenProperties DEF Shape, TypeOK, CallsOK, OutboxOK, Circulation
<1>3. PlanOK(proc'[w], outbox)
  <2>1. ASSUME NEW d \in Drafts, NEW current \in AsCurrent,
               NEW path \in TargetPaths \cup {None}, PromoteDraft(w, d, current, path)
        PROVE  PlanOK(proc'[w], outbox)
    <3>1. proc'[w].plan.path = None /\ proc'[w].plan.older = <<>>
      BY <1>2, <2>1 DEF Sequential, PromoteDraft, Become, Idle
    <3> QED
      BY <2>1, NextLabels, <3>1 DEF PlanOK
  <2>2. CASE CheckDuplicate(w)
    <3>1. CASE proc'[w].pc = "idle"
      BY <3>1 DEF PlanOK, Asking
    <3>2. CASE proc'[w].pc # "idle"
      <4>1. \/ proc'[w] = Idle
            \/ \E l \in {"listing", "enqueue"} : proc'[w] = [proc[w] EXCEPT !.pc = l]
        BY <1>2, <2>2 DEF CheckDuplicate, Become
      <4>2. proc'[w].plan = proc[w].plan /\ proc[w].pc \in Asking
        BY <1>2, <2>2, <3>2, <4>1 DEF Idle, Proc, CheckDuplicate, At, Asking
      <4>3. proc'[w].pc = "listing" => proc[w].plan.current
        BY <1>2, <2>2 DEF CheckDuplicate, Become, Idle, Proc
      <4> QED
        BY <1>2, <4>2, <4>3 DEF PlanOK
    <3> QED
      BY <3>1, <3>2
  <2>3. CASE ListSuperseded(w)
    <3>1. CASE proc'[w].pc = "idle"
      BY <3>1 DEF PlanOK, Asking
    <3>2. CASE proc'[w].pc # "idle"
      <4> DEFINE plan == proc[w].plan
      <4>1. /\ proc[w].pc = "listing" /\ plan \in Plan
            /\ \/ Become(w, Idle)
               \/ \E older \in Orderings(CurrentOnTopic(plan.draft)) :
                    Become(w, [proc[w] EXCEPT !.pc = "enqueue", !.plan.older = older])
        BY <1>2, <2>3 DEF ListSuperseded, At, CallOK, Deciding
      <4>2. PICK older \in Orderings(CurrentOnTopic(plan.draft)) :
              proc'[w] = [proc[w] EXCEPT !.pc = "enqueue", !.plan.older = older]
        <5>1. \A q : Become(w, q) => proc'[w] = q
          BY <1>2 DEF Become
        <5>2. Idle.pc = "idle"
          BY DEF Idle
        <5> QED
          BY <3>2, <4>1, <5>1, <5>2
      <4>3. proc'[w].plan = [plan EXCEPT !.older = older]
        BY <1>2, <4>2 DEF Proc
      <4>4. /\ proc'[w].plan.older = older /\ proc'[w].plan.path = plan.path
            /\ proc'[w].plan.current = plan.current
        BY <4>1, <4>3 DEF Plan
      <4>5. plan.path = None /\ plan.current /\ proc'[w].pc \in {"idle", "enqueue"}
        BY <1>2, <2>3, <4>1, NextLabels DEF PlanOK, Asking
      <4>6. /\ \A i \in 1 .. Len(older) : Known(older[i], outbox) /\ older[i].current
            /\ \A i, j \in 1 .. Len(older) : older[i].id = older[j].id => i = j
        BY ListingOK
      <4> QED
        BY <4>4, <4>5, <4>6 DEF PlanOK
    <3> QED
      BY <3>1, <3>2
  <2> QED
    BY <2>1, <2>2, <2>3
<1> QED
  BY <1>1, <1>2, <1>3, CirculationMoves

\* The payload of the plan of a call, queued, is in order.
LEMMA QueuedOK ==
  ASSUME Sequential, Shape, Circulation, NEW w \in Workers, Kept(outbox, outbox'),
         Enqueue(w), Len(outbox) # MaxPromotions
  PROVE  LET e == Len(outbox) + 1
             plan == proc[w].plan IN
         /\ Len(outbox) \in Nat /\ Len(outbox') = e
         /\ \A j \in 1 .. Len(outbox) : outbox'[j] = outbox[j]
         /\ outbox'[e].state = "pending" /\ outbox'[e].after = plan.after
         /\ outbox'[e].draft = plan.draft /\ outbox'[e].body = plan.body
         /\ outbox'[e].current = plan.current
         /\ WritesOK(e, outbox')
         /\ \A i \in 1 .. Len(plan.older) :
              \E j \in 1 .. Len(outbox'[e].writes) :
                outbox'[e].writes[j].id = plan.older[i].id
<1> DEFINE e == Len(outbox) + 1
           plan == proc[w].plan
           x == [state |-> "pending", draft |-> plan.draft, body |-> plan.body,
                 current |-> plan.current, writes |-> CanonicalWrites(plan, e),
                 after |-> plan.after]
<1>1. outbox \in Seq(Entry) /\ Len(outbox) \in Nat /\ Len(outbox) <= MaxPromotions
  BY LenProperties DEF Shape, TypeOK, OutboxOK
<1>2. /\ proc[w].pc = "enqueue" /\ plan \in Plan
      /\ CallOK(proc[w], outbox) /\ PlanOK(proc[w], outbox)
  BY DEF Enqueue, At, CallOK, Deciding, Circulation, Shape
<1>3. outbox' = Append(outbox, x)
  BY DEF Enqueue
<1> HIDE DEF x
<1>4. /\ Len(outbox') = e /\ outbox'[e] = x
      /\ \A j \in 1 .. Len(outbox) : outbox'[j] = outbox[j]
  BY <1>1, <1>3
<1>5. /\ x.state = "pending" /\ x.draft = plan.draft /\ x.body = plan.body
      /\ x.current = plan.current /\ x.writes = CanonicalWrites(plan, e)
      /\ x.after = plan.after
  BY DEF x
<1>6. e \in Entries
  BY <1>1, ConstantsAssumption DEF Entries
<1>7. PlanOK(proc[w], outbox')
  BY <1>1, <1>2, <1>4, PlanLasts
<1>8. \A i \in 1 .. Len(plan.older) : plan.older[i].id # NoteId(e)
  <2> TAKE i \in 1 .. Len(plan.older)
  <2>1. Known(plan.older[i], outbox) /\ plan.older[i].current
    BY <1>2 DEF PlanOK, Asking
  <2>2. PICK j \in 1 .. Len(outbox) : plan.older[i].id = NoteId(j)
    BY <2>1, CurrentIsDeal DEF Deal
  <2>3. j # e
    BY <1>1, <2>2
  <2> QED
    BY <2>2, <2>3, IdsDiffer
<1>9. /\ plan.path = None
      /\ \A i \in 1 .. Len(plan.older) : /\ Known(plan.older[i], outbox')
                                         /\ plan.older[i].current /\ plan.current
      /\ \A i, j \in 1 .. Len(plan.older) : plan.older[i].id = plan.older[j].id => i = j
  BY <1>2, <1>7 DEF PlanOK, Asking
<1>10. /\ WritesOK(e, outbox')
       /\ \A i \in 1 .. Len(plan.older) :
            \E j \in 1 .. Len(outbox'[e].writes) :
              outbox'[e].writes[j].id = plan.older[i].id
  <2> DEFINE box == outbox'
  <2>1. /\ Len(box) = e /\ box[e].draft = plan.draft /\ box[e].body = plan.body
        /\ box[e].current = plan.current /\ box[e].writes = CanonicalWrites(plan, e)
    BY <1>4, <1>5
  <2>2. \A i \in 1 .. Len(plan.older) : /\ Known(plan.older[i], box)
                                        /\ plan.older[i].id # NoteId(e)
                                        /\ plan.older[i].current /\ plan.current
    BY <1>8, <1>9
  <2>3. /\ plan \in Plan /\ e \in Entries /\ plan.path = None
        /\ \A i, j \in 1 .. Len(plan.older) : plan.older[i].id = plan.older[j].id => i = j
    BY <1>2, <1>6, <1>9
  <2> HIDE DEF box, plan, e
  <2>4. /\ WritesOK(e, box)
        /\ \A i \in 1 .. Len(plan.older) :
             \E j \in 1 .. Len(box[e].writes) : box[e].writes[j].id = plan.older[i].id
    BY <2>1, <2>2, <2>3, PayloadOK
  <2> QED
    BY <2>4 DEF box
<1> QED
  BY <1>1, <1>4, <1>5, <1>10

\* The other steps of a call keep Circulation.
LEMMA OthersCirculate ==
  ASSUME Sequential, Shape, Circulation, NEW w \in Workers, Kept(outbox, outbox'),
         \/ \E d \in Drafts, b \in Bodies : RewriteDraft(w, d, b)
         \/ UpsertCreatedRow(w) \/ Enqueue(w) \/ ProcessStep(w) \/ AuditAccepted(w)
         \/ NextEntry(w) \/ StartReplay(w) \/ Throw(w) \/ Crash(w)
  PROVE  Circulation'
<1>1. PlanOK(proc'[w], outbox')
  BY NextLabels DEF PlanOK, Asking, ProcessStep
<1>2. Len(outbox) \in Nat /\ Len(outbox') \in Nat
      /\ \A e \in 1 .. Len(outbox') : e \in 1 .. Len(outbox) \/ WritesOK(e, outbox')
  <2>1. Len(outbox) \in Nat
    BY LenProperties DEF Shape, TypeOK, OutboxOK
  <2>2. CASE UNCHANGED outbox
    BY <2>1, <2>2
  <2>3. CASE Enqueue(w) /\ Len(outbox) # MaxPromotions
    BY <2>1, <2>3, QueuedOK
  <2>4. CASE Enqueue(w) /\ Len(outbox) = MaxPromotions
    BY <2>2, <2>4 DEF Enqueue
  <2>5. CASE Claim(w) \/ Fail(w) \/ Complete(w)
    <3>1. proc[w].pc \in Processing
      BY <2>5 DEF Claim, Fail, Complete, At, Processing, Recording
    <3>2. UNCHANGED outbox
          \/ \E s \in {"processing", "completed", "failed"} : SetState(proc[w].entry, s)
      BY <2>5 DEF Claim, Fail, Complete
    <3> QED
      BY <2>1, <2>2, <3>1, <3>2, StateChanges
  <2> QED
    BY <2>2, <2>3, <2>4, <2>5
    DEF RewriteDraft, UpsertCreatedRow, ProcessStep, AuditAccepted, NextEntry,
        StartReplay, Throw, Crash, WriteFile, UpsertRow, ClearStore, FillStore,
        RecordPromotion, UpdateDraft, UpsertDraftRow, stores
<1>3. \A p \in DOMAIN vault' : \/ p \in DOMAIN vault /\ vault'[p] = vault[p]
                               \/ Known(vault'[p], outbox) /\ vault'[p].id = p
  <2>1. CASE WriteFile(w)
    <3>1. Known(Writing(w), outbox) /\ Writing(w).path = Writing(w).id
      BY <2>1, WritingKnown DEF WriteFile, At, Applying, Known
    <3> QED
      BY <2>1, <3>1 DEF WriteFile, Put
  <2>2. CASE Crash(w)
    BY <2>2 DEF Crash, Drop
  <2> QED
    BY <2>1, <2>2
    DEF RewriteDraft, UpsertCreatedRow, Enqueue, ProcessStep, AuditAccepted, NextEntry,
        StartReplay, Throw, Claim, UpsertRow, ClearStore, FillStore, RecordPromotion,
        UpdateDraft, UpsertDraftRow, Complete, Fail, stores
<1>4. \A id \in DOMAIN rows' : \/ id \in DOMAIN rows /\ rows'[id] = rows[id]
                               \/ Known(rows'[id], outbox) /\ rows'[id].id = id
  <2>1. CASE UpsertRow(w)
    <3>1. Known(Writing(w), outbox)
      BY <2>1, WritingKnown DEF UpsertRow, At, Applying
    <3> QED
      BY <2>1, <3>1 DEF UpsertRow, Put
  <2> QED
    BY <2>1
    DEF RewriteDraft, UpsertCreatedRow, Enqueue, ProcessStep, AuditAccepted, NextEntry,
        StartReplay, Throw, Crash, Claim, WriteFile, ClearStore, FillStore, RecordPromotion,
        UpdateDraft, UpsertDraftRow, Complete, Fail, stores
<1> QED
  BY <1>1, <1>2, <1>3, <1>4, CirculationMoves

\* Every step keeps Circulation.
LEMMA CirculationNext ==
  ASSUME Sequential, Shape, Circulation, [Next]_vars
  PROVE  Circulation'
<1>1. Kept(outbox, outbox')
  BY NothingWithdrawn
<1>2. CASE UNCHANGED vars
  BY <1>2 DEF vars, stores, Circulation
<1>3. ASSUME NEW w \in Workers, Step(w) PROVE Circulation'
  BY <1>1, <1>3, AskingCirculates, OthersCirculate DEF Step
<1>4. ASSUME NEW w \in Workers,
             \/ \E d \in Drafts, b \in Bodies : RewriteDraft(w, d, b)
             \/ \E d \in Drafts, current \in AsCurrent, path \in TargetPaths \cup {None} :
                  PromoteDraft(w, d, current, path)
             \/ StartReplay(w) \/ Throw(w) \/ Crash(w)
      PROVE  Circulation'
  BY <1>1, <1>4, AskingCirculates, OthersCirculate
<1> QED
  BY <1>2, <1>3, <1>4 DEF Next

-----------------------------------------------------------------------------
(* Between two entries, file, row and stores of a note agree.                *)

InStore(s, n, X) == s = "vector" \/ (n.id \in DOMAIN X[s] /\ X[s][n.id] = n)

\* File, row and stores hold the same version n of a note.
Agrees(n, V, R, X) ==
  /\ n.path \in DOMAIN V /\ V[n.path] = n
  /\ n.id \in DOMAIN R /\ R[n.id] = n
  /\ \A s \in StoreNames : InStore(s, n, X)

\* How far a call has brought the notes of its entry into agreement.
CopiesOK(p, box, V, R, X) ==
  LET writes == box[p.entry].writes
      n == writes[p.pos] IN
  /\ p.pc \in Applying =>
       \A i \in 1 .. Len(writes) : i < p.pos => Agrees(writes[i], V, R, X)
  /\ p.pc \in {"row", "clear", "fill"} => n.path \in DOMAIN V /\ V[n.path] = n
  /\ p.pc \in {"clear", "fill"} => n.id \in DOMAIN R /\ R[n.id] = n
  /\ p.pc = "clear" =>
       \A i \in 1 .. Len(Stores) : i < p.store => InStore(Stores[i], n, X)
  /\ p.pc = "fill" =>
       \A i \in 1 .. Len(Stores) :
         i < p.store => Stores[i] = Stores[p.store] \/ InStore(Stores[i], n, X)
  /\ p.pc \in Written => \A i \in 1 .. Len(writes) : Agrees(writes[i], V, R, X)

Unsettled == UNION {WrittenBy(e) : e \in OpenEntries}

Settled ==
  /\ \A id \in DOMAIN rows \ Unsettled : Agrees(rows[id], vault, rows, index)
  /\ \A w \in Workers : CopiesOK(proc[w], outbox, vault, rows, index)

\* Writing one note touches no other.
LEMMA Untouched ==
  ASSUME NEW n, NEW m, m.id # n.id, m.path # n.path,
         NEW V, NEW V2, NEW R, NEW R2, NEW X, NEW X2, DOMAIN X = StoreNames,
         V2 = V \/ V2 = Put(V, n.path, n) \/ V2 = Drop(V, n.path),
         R2 = R \/ R2 = Put(R, n.id, n),
         \/ X2 = X
         \/ \E s \in StoreNames : \/ X2 = [X EXCEPT ![s] = Put(X[s], n.id, n)]
                                  \/ X2 = [X EXCEPT ![s] = Drop(X[s], n.id)],
         Agrees(m, V, R, X)
  PROVE  Agrees(m, V2, R2, X2)
<1>1. m.path \in DOMAIN V2 /\ V2[m.path] = m
  BY DEF Agrees, Put, Drop
<1>2. m.id \in DOMAIN R2 /\ R2[m.id] = m
  BY DEF Agrees, Put
<1>3. ASSUME NEW s \in StoreNames PROVE InStore(s, m, X2)
  <2>1. InStore(s, m, X)
    BY DEF Agrees
  <2>2. ASSUME NEW r \in StoreNames, X2 = [X EXCEPT ![r] = Put(X[r], n.id, n)]
        PROVE  InStore(s, m, X2)
    <3>1. X2[s] = IF s = r THEN Put(X[s], n.id, n) ELSE X[s]
      BY <2>2
    <3> QED
      BY <2>1, <3>1 DEF InStore, Put
  <2>3. ASSUME NEW r \in StoreNames, X2 = [X EXCEPT ![r] = Drop(X[r], n.id)]
        PROVE  InStore(s, m, X2)
    <3>1. X2[s] = IF s = r THEN Drop(X[s], n.id) ELSE X[s]
      BY <2>3
    <3> QED
      BY <2>1, <3>1 DEF InStore, Drop
  <2> QED
    BY <2>1, <2>2, <2>3
<1> QED
  BY <1>1, <1>2, <1>3 DEF Agrees

\* The entry a call writes is open, and its notes are not settled.
LEMMA WritingIsUnsettled ==
  ASSUME Shape, Alone, NEW w \in Workers, proc[w].pc \in Holding
  PROVE  /\ proc[w].entry \in OpenEntries /\ proc[w].pc \in Processing
         /\ EntryOf(w) \in Entry
         /\ DOMAIN EntryOf(w).writes = 1 .. Len(EntryOf(w).writes)
         /\ \A i \in 1 .. Len(EntryOf(w).writes) :
              EntryOf(w).writes[i].id \in WrittenBy(proc[w].entry) \cap Unsettled
<1>1. proc[w].pc \in Processing
  BY DEF Holding, Written, Processing, Recording
<1>2. proc[w].entry \in 1 .. Len(outbox) /\ EntryOf(w) \in Entry
  BY <1>1, EntryInOutbox
<1>3. proc[w].entry \in OpenEntries
  BY <1>2 DEF Alone, ClaimOK, OpenEntries, Completed
<1>4. DOMAIN EntryOf(w).writes = 1 .. Len(EntryOf(w).writes)
  BY <1>2, LenProperties DEF Entry
<1> QED
  BY <1>1, <1>2, <1>3, <1>4 DEF Unsettled, WrittenBy, EntryOf

\* What a call writes leaves the settled notes, and the other notes of its entry, as they are.
LEMMA OthersStay ==
  ASSUME Shape, Alone, Circulation, Settled, NEW w \in Workers, proc[w].pc \in Applying,
         UNCHANGED outbox,
         \/ vault' = vault \/ vault' = Put(vault, Writing(w).path, Writing(w))
         \/ vault' = Drop(vault, Writing(w).path),
         rows' = rows \/ rows' = Put(rows, Writing(w).id, Writing(w)),
         \/ index' = index
         \/ \E s \in StoreNames :
              \/ index' = [index EXCEPT ![s] = Put(index[s], Writing(w).id, Writing(w))]
              \/ index' = [index EXCEPT ![s] = Drop(index[s], Writing(w).id)]
  PROVE  /\ \A id \in DOMAIN rows' \ Unsettled' : Agrees(rows'[id], vault', rows', index')
         /\ \A i \in 1 .. Len(EntryOf(w).writes) :
              i # proc[w].pos /\ Agrees(EntryOf(w).writes[i], vault, rows, index)
                => Agrees(EntryOf(w).writes[i], vault', rows', index')
<1> DEFINE n == Writing(w)
           writes == EntryOf(w).writes
<1>1. /\ proc[w].pos \in 1 .. Len(writes) /\ n = writes[proc[w].pos]
      /\ Known(n, outbox) /\ WritesOK(proc[w].entry, outbox)
  BY WritingKnown DEF Writing, EntryOf
<1>2. n.id \in Unsettled /\ DOMAIN index = StoreNames
  BY <1>1, WritingIsUnsettled DEF Holding, Shape, TypeOK, RowsOK
<1>3. Unsettled' = Unsettled
  BY DEF Unsettled, OpenEntries, Completed, WrittenBy
<1>4. ASSUME NEW m, Known(m, outbox), m.id # n.id, Agrees(m, vault, rows, index)
      PROVE  Agrees(m, vault', rows', index')
  <2>1. m.path # n.path
    BY <1>1, <1>4 DEF Known
  <2> QED
    BY <1>2, <1>4, <2>1, Untouched
<1>5. ASSUME NEW id \in DOMAIN rows' \ Unsettled' PROVE Agrees(rows'[id], vault', rows', index')
  <2>1. id # n.id /\ id \in DOMAIN rows /\ rows'[id] = rows[id]
    BY <1>2, <1>3 DEF Put
  <2>2. /\ Known(rows[id], outbox) /\ rows[id].id = id
        /\ Agrees(rows[id], vault, rows, index)
    BY <1>3, <2>1 DEF Circulation, Settled
  <2>3. Agrees(rows[id], vault', rows', index')
    BY <1>4, <2>1, <2>2
  <2> QED
    BY <2>1, <2>3
<1>6. ASSUME NEW i \in 1 .. Len(writes), i # proc[w].pos,
             Agrees(writes[i], vault, rows, index)
      PROVE  Agrees(writes[i], vault', rows', index')
  <2>1. /\ \A j \in 1 .. Len(writes) : Known(writes[j], outbox)
        /\ \A j, k \in 1 .. Len(writes) : writes[j].id = writes[k].id => j = k
    BY <1>1 DEF WritesOK, EntryOf
  <2>2. writes[i].id # writes[proc[w].pos].id
    BY <1>1, <1>6, <2>1
  <2> QED
    BY <1>1, <1>4, <1>6, <2>1, <2>2
<1> QED
  BY <1>5, <1>6

\* A call that writes nothing has no copies to answer for.
LEMMA NoCopies ==
  ASSUME NEW p, p.pc \notin Applying \cup Written, NEW box, NEW V, NEW R, NEW X
  PROVE  CopiesOK(p, box, V, R, X)
BY DEF CopiesOK, Applying

\* A step that leaves files, rows and stores alone, and settles no note.
LEMMA SettledQuiet ==
  ASSUME Sequential, Settled, NEW w \in Workers, UNCHANGED <<vault, rows, index>>,
         Unsettled \subseteq Unsettled', CopiesOK(proc'[w], outbox', vault, rows, index)
  PROVE  Settled'
BY DEF Sequential, OneWorker, Settled

\* Entries stay open until they are completed.
LEMMA OpenStays ==
  ASSUME Shape, [Next]_vars, NEW w \in Workers,
         UNCHANGED outbox \/ Enqueue(w) \/ Claim(w) \/ Fail(w)
  PROVE  OpenEntries \subseteq OpenEntries' /\ Unsettled \subseteq Unsettled'
<1>1. /\ Kept(outbox, outbox') /\ Len(outbox) \in Nat /\ Len(outbox') \in Nat
  BY NothingWithdrawn
<1>2. OpenEntries \subseteq OpenEntries'
  BY OpenLasts
<1>3. \A e \in OpenEntries : WrittenBy(e)' = WrittenBy(e)
  BY <1>1 DEF OpenEntries, WrittenBy, Kept
<1> QED
  BY <1>2, <1>3 DEF Unsettled

\* Writing a note to its file, its row and its stores keeps Settled.
LEMMA WritingSettles ==
  ASSUME Sequential, Shape, Alone, Circulation, Settled, NEW w \in Workers,
         WriteFile(w) \/ UpsertRow(w) \/ ClearStore(w) \/ FillStore(w)
  PROVE  Settled'
<1> DEFINE p == proc[w]
           writes == outbox[p.entry].writes
           n == Writing(w)
           s == Stores[p.store]
<1>1. /\ p \in Proc /\ p.pc \in Applying /\ UNCHANGED outbox
      /\ DOMAIN proc = Workers /\ DOMAIN index = StoreNames
  BY DEF Shape, TypeOK, CallsOK, RowsOK, At, Applying, WriteFile, UpsertRow, ClearStore,
         FillStore
<1>2. /\ n = writes[p.pos] /\ p.pos \in 1 .. Len(writes) /\ writes = EntryOf(w).writes
      /\ CopiesOK(p, outbox, vault, rows, index)
  BY <1>1, WritingKnown DEF Writing, EntryOf, Settled
<1>3. /\ p.pos \in Nat /\ p.store \in Nat /\ Len(writes) \in Nat /\ Len(Stores) \in Nat
      /\ p.pc \in {"clear", "fill"} => p.store \in 1 .. Len(Stores) /\ s \in StoreNames
  <2>1. CallOK(p, outbox)
    BY DEF Shape
  <2>2. Len(writes) \in Nat
    BY <1>1, <1>2, WritingIsNote
  <2> QED
    BY <1>1, <2>1, <2>2, LenProperties, ConstantsAssumption DEF CallOK, Proc, StoreNames
<1>4. ASSUME NEW q, Become(w, q), CopiesOK(q, outbox, vault', rows', index'),
             \A id \in DOMAIN rows' \ Unsettled' : Agrees(rows'[id], vault', rows', index')
      PROVE  Settled'
  BY <1>1, <1>4 DEF Become, Sequential, OneWorker, Settled
<1>5. ASSUME \/ vault' = vault \/ vault' = Put(vault, n.path, n),
             rows' = rows \/ rows' = Put(rows, n.id, n),
             \/ index' = index
             \/ \E r \in StoreNames : \/ index' = [index EXCEPT ![r] = Put(index[r], n.id, n)]
                                      \/ index' = [index EXCEPT ![r] = Drop(index[r], n.id)]
      PROVE  /\ \A id \in DOMAIN rows' \ Unsettled' : Agrees(rows'[id], vault', rows', index')
             /\ \A i \in 1 .. Len(writes) :
                  i < p.pos => Agrees(writes[i], vault', rows', index')
  <2>1. \A i \in 1 .. Len(writes) : i < p.pos => i # p.pos /\ Agrees(writes[i], vault, rows, index)
    BY <1>1, <1>2, <1>3 DEF CopiesOK
  <2> QED
    BY <1>1, <1>2, <1>5, <2>1, OthersStay
<1> HIDE DEF n, s, writes
<1>6. CASE WriteFile(w)
  <2> DEFINE q == [p EXCEPT !.pc = "row"]
  <2>1. /\ vault' = Put(vault, n.path, n) /\ UNCHANGED <<rows, index>> /\ Become(w, q)
    BY <1>6 DEF WriteFile, n
  <2>2. q.pc = "row" /\ q.entry = p.entry /\ q.pos = p.pos
    BY <1>1 DEF Proc
  <2>3. n.path \in DOMAIN vault' /\ vault'[n.path] = n
    BY <2>1 DEF Put
  <2> HIDE DEF q
  <2>4. CopiesOK(q, outbox, vault', rows', index')
    BY <1>2, <1>5, <2>1, <2>2, <2>3 DEF CopiesOK, Applying, Written, writes
  <2> QED
    BY <1>4, <1>5, <2>1, <2>4
<1>7. CASE UpsertRow(w) /\ PathTaken(n)
  <2> DEFINE q == [p EXCEPT !.pc = "failing"]
  <2>1. UNCHANGED <<vault, rows, index>> /\ Become(w, q)
    BY <1>7 DEF UpsertRow, n
  <2>2. q.pc = "failing"
    BY <1>1 DEF Proc
  <2> HIDE DEF q
  <2>3. CopiesOK(q, outbox, vault', rows', index')
    BY <2>2, NoCopies DEF Applying, Written
  <2> QED
    BY <1>4, <1>5, <2>1, <2>3
<1>8. CASE UpsertRow(w) /\ ~ PathTaken(n)
  <2> DEFINE q == [p EXCEPT !.pc = "clear", !.store = 1]
  <2>1. /\ p.pc = "row" /\ rows' = Put(rows, n.id, n) /\ UNCHANGED <<vault, index>>
        /\ Become(w, q)
    BY <1>8 DEF UpsertRow, At, n
  <2>2. q.pc = "clear" /\ q.entry = p.entry /\ q.pos = p.pos /\ q.store = 1
    BY <1>1 DEF Proc
  <2>3. n.id \in DOMAIN rows' /\ rows'[n.id] = n
    BY <2>1 DEF Put
  <2>4. n.path \in DOMAIN vault /\ vault[n.path] = n
    BY <1>2, <2>1 DEF CopiesOK, writes
  <2>5. \A i \in 1 .. Len(Stores) : ~ (i < 1)
    BY <1>3
  <2> HIDE DEF q
  <2>6. CopiesOK(q, outbox, vault', rows', index')
    BY <1>2, <1>5, <2>1, <2>2, <2>3, <2>4, <2>5 DEF CopiesOK, Applying, Written, writes
  <2> QED
    BY <1>4, <1>5, <2>1, <2>6
<1>9. ASSUME p.pc \in {"clear", "fill"}, UNCHANGED <<vault, rows>>
      PROVE  /\ n.path \in DOMAIN vault' /\ vault'[n.path] = n
             /\ n.id \in DOMAIN rows' /\ rows'[n.id] = n
  BY <1>2, <1>9 DEF CopiesOK, writes
<1>10. CASE ClearStore(w)
  <2> DEFINE q == [p EXCEPT !.pc = "fill"]
  <2>1. /\ p.pc = "clear" /\ UNCHANGED <<vault, rows>> /\ Become(w, q)
        /\ index' = [index EXCEPT ![s] = Drop(index[s], n.id)] \/ index' = index
    BY <1>10 DEF ClearStore, At, n, s
  <2>2. q.pc = "fill" /\ q.entry = p.entry /\ q.pos = p.pos /\ q.store = p.store
    BY <1>1 DEF Proc
  <2>3. ASSUME NEW i \in 1 .. Len(Stores), i < p.store, Stores[i] # s
        PROVE  InStore(Stores[i], n, index')
    <3>1. InStore(Stores[i], n, index)
      BY <1>2, <2>1, <2>3 DEF CopiesOK, writes
    <3>2. Stores[i] \in StoreNames
      BY DEF StoreNames
    <3>3. index'[Stores[i]] = index[Stores[i]]
      BY <1>1, <2>1, <2>3, <3>2
    <3> QED
      BY <3>1, <3>3 DEF InStore
  <2> HIDE DEF q
  <2>4. s \in StoreNames
    BY <1>3, <2>1
  <2>5. CopiesOK(q, outbox, vault', rows', index')
    BY <1>2, <1>5, <1>9, <2>1, <2>2, <2>3, <2>4 DEF CopiesOK, Applying, Written, writes, s
  <2> QED
    BY <1>4, <1>5, <2>1, <2>4, <2>5
<1>11. CASE FillStore(w)
  <2> DEFINE q == AfterFill(p, writes)
  <2>1. /\ p.pc = "fill" /\ UNCHANGED <<vault, rows>> /\ Become(w, q) /\ s \in StoreNames
        /\ \/ index' = [index EXCEPT ![s] = Put(index[s], n.id, n)]
           \/ s = "vector" /\ index' = index
    BY <1>2, <1>3, <1>11 DEF FillStore, At, n, s
  <2>2. ASSUME NEW i \in 1 .. Len(Stores), i <= p.store PROVE InStore(Stores[i], n, index')
    <3>1. Stores[i] \in StoreNames
      BY DEF StoreNames
    <3>2. CASE Stores[i] = s
      BY <1>1, <2>1, <3>1, <3>2 DEF InStore, Put
    <3>3. CASE Stores[i] # s
      <4>1. i < p.store
        BY <1>3, <2>2, <3>3 DEF s
      <4>2. InStore(Stores[i], n, index)
        BY <1>2, <2>1, <3>3, <4>1 DEF CopiesOK, writes, s
      <4>3. index'[Stores[i]] = index[Stores[i]]
        BY <1>1, <2>1, <3>1, <3>3
      <4> QED
        BY <4>2, <4>3 DEF InStore
    <3> QED
      BY <3>2, <3>3
  <2>3. /\ \A id \in DOMAIN rows' \ Unsettled' : Agrees(rows'[id], vault', rows', index')
        /\ \A i \in 1 .. Len(writes) :
             i < p.pos => Agrees(writes[i], vault', rows', index')
    BY <1>5, <2>1
  <2>4. CASE p.store < Len(Stores)
    <3>1. q = [p EXCEPT !.pc = "clear", !.store = p.store + 1]
      BY <2>4 DEF AfterFill
    <3>2. /\ q.pc = "clear" /\ q.entry = p.entry /\ q.pos = p.pos
          /\ q.store = p.store + 1
      BY <1>1, <3>1 DEF Proc
    <3> HIDE DEF q
    <3>3. \A i \in 1 .. Len(Stores) : i < q.store => InStore(Stores[i], n, index')
      BY <1>3, <2>2, <3>2
    <3>4. CopiesOK(q, outbox, vault', rows', index')
      BY <1>2, <1>9, <2>1, <2>3, <3>2, <3>3 DEF CopiesOK, Applying, Written, writes
    <3> QED
      BY <1>4, <2>1, <2>3, <3>4
  <2>5. CASE ~ (p.store < Len(Stores))
    <3>1. p.store = Len(Stores)
      BY <1>3, <2>1, <2>5
    <3>2. \A r \in StoreNames : InStore(r, n, index')
      BY <1>3, <2>2, <3>1 DEF StoreNames
    <3>3. Agrees(n, vault', rows', index')
      BY <1>9, <2>1, <3>2 DEF Agrees
    <3>4. \A i \in 1 .. Len(writes) :
            i <= p.pos => Agrees(writes[i], vault', rows', index')
      BY <1>2, <1>3, <2>3, <3>3
    <3>5. CASE p.pos < Len(writes)
      <4>1. q = [p EXCEPT !.pc = "file", !.pos = p.pos + 1, !.store = 0]
        BY <2>5, <3>5 DEF AfterFill
      <4>2. q.pc = "file" /\ q.entry = p.entry /\ q.pos = p.pos + 1
        BY <1>1, <4>1 DEF Proc
      <4> HIDE DEF q
      <4>3. \A i \in 1 .. Len(writes) : i < q.pos => Agrees(writes[i], vault', rows', index')
        BY <1>3, <3>4, <4>2
      <4>4. CopiesOK(q, outbox, vault', rows', index')
        BY <4>2, <4>3 DEF CopiesOK, Written, writes
      <4> QED
        BY <1>4, <2>1, <2>3, <4>4
    <3>6. CASE ~ (p.pos < Len(writes))
      <4>1. q = [p EXCEPT !.pc = "record"]
        BY <2>5, <3>6 DEF AfterFill
      <4>2. q.pc = "record" /\ q.entry = p.entry
        BY <1>1, <4>1 DEF Proc
      <4> HIDE DEF q
      <4>3. \A i \in 1 .. Len(writes) : Agrees(writes[i], vault', rows', index')
        BY <1>2, <1>3, <3>4, <3>6
      <4>4. CopiesOK(q, outbox, vault', rows', index')
        BY <4>2, <4>3 DEF CopiesOK, Applying, writes
      <4> QED
        BY <1>4, <2>1, <2>3, <4>4
    <3> QED
      BY <3>5, <3>6
  <2> QED
    BY <2>4, <2>5
<1> QED
  BY <1>6, <1>7, <1>8, <1>10, <1>11

\* What a call recorded it has brought into agreement.
LEMMA CompletingSettles ==
  ASSUME Sequential, Shape, Alone, Circulation, Settled, NEW w \in Workers, Complete(w)
  PROVE  Settled'
<1> DEFINE e == proc[w].entry
<1>1. /\ proc[w].pc = "complete" /\ proc[w].pc \in Holding /\ proc[w].pc \in Written
      /\ SetState(e, "completed") /\ UNCHANGED <<vault, rows, index>>
  BY DEF Complete, At, Holding, Written
<1>2. /\ e \in OpenEntries /\ proc[w].pc \in Processing
      /\ DOMAIN outbox[e].writes = 1 .. Len(outbox[e].writes)
  BY <1>1, WritingIsUnsettled DEF EntryOf
<1>3. /\ Len(outbox') = Len(outbox)
      /\ \A j \in 1 .. Len(outbox) :
           /\ outbox'[j].state = IF j = e THEN "completed" ELSE outbox[j].state
           /\ outbox'[j].writes = outbox[j].writes
  BY <1>1, <1>2, StateChanges
<1>4. OpenEntries \ {e} \subseteq OpenEntries'
  BY <1>3 DEF OpenEntries, Completed
<1>5. \A j \in OpenEntries : WrittenBy(j)' = WrittenBy(j)
  BY <1>3 DEF OpenEntries, WrittenBy
<1>6. Unsettled \ WrittenBy(e) \subseteq Unsettled'
  BY <1>4, <1>5 DEF Unsettled
<1>7. CopiesOK(proc[w], outbox, vault, rows, index)
  BY DEF Settled
<1>8. ASSUME NEW id \in DOMAIN rows \ Unsettled' PROVE Agrees(rows[id], vault, rows, index)
  <2>1. CASE id \in WrittenBy(e)
    <3>1. PICK i \in 1 .. Len(outbox[e].writes) : outbox[e].writes[i].id = id
      BY <1>2, <2>1 DEF WrittenBy
    <3>2. Agrees(outbox[e].writes[i], vault, rows, index)
      BY <1>1, <1>7 DEF CopiesOK
    <3>3. rows[id] = outbox[e].writes[i]
      BY <3>1, <3>2 DEF Agrees
    <3> QED
      BY <3>2, <3>3
  <2>2. CASE id \notin WrittenBy(e)
    BY <1>6, <2>2 DEF Settled
  <2> QED
    BY <2>1, <2>2
<1>9. proc'[w].pc \notin Applying \cup Written
  BY NextLabels DEF Applying, Written
<1>10. \A v \in Workers : CopiesOK(proc'[v], outbox', vault', rows', index')
  BY <1>9, NoCopies DEF Sequential, OneWorker
<1> QED
  BY <1>1, <1>8, <1>10 DEF Settled

\* A death in the middle of a file leaves the settled notes alone.
LEMMA DyingSettles ==
  ASSUME Sequential, Shape, Alone, Circulation, Settled, NEW w \in Workers, Crash(w)
  PROVE  Settled'
<1>1. UNCHANGED <<rows, index, outbox>>
  BY DEF Crash
<1>2. \A v \in Workers : CopiesOK(proc'[v], outbox', vault', rows', index')
  <2>1. proc'[w].pc \notin Applying \cup Written
    BY NextLabels DEF Applying, Written
  <2> QED
    BY <2>1, NoCopies DEF Sequential, OneWorker
<1>3. CASE UNCHANGED vault
  <2>1. Unsettled' = Unsettled
    BY <1>1 DEF Unsettled, OpenEntries, Completed, WrittenBy
  <2> QED
    BY <1>1, <1>2, <1>3, <2>1 DEF Settled
<1>4. CASE proc[w].pc = "file" /\ vault' = Drop(vault, Writing(w).path)
  <2>1. proc[w].pc \in Applying
    BY <1>4 DEF Applying
  <2>2. \A id \in DOMAIN rows' \ Unsettled' : Agrees(rows'[id], vault', rows', index')
    BY <1>1, <1>4, <2>1, OthersStay
  <2> QED
    BY <1>2, <2>2 DEF Settled
<1> QED
  BY <1>3, <1>4 DEF Crash, At

\* Every step keeps Settled.
LEMMA SettledNext ==
  ASSUME Sequential, Shape, Alone, Circulation, Settled, [Next]_vars
  PROVE  Settled'
<1>1. CASE UNCHANGED vars
  BY <1>1 DEF vars, stores, Settled, Unsettled, OpenEntries, Completed, WrittenBy
<1>2. ASSUME NEW w \in Workers,
             \/ \E d \in Drafts, b \in Bodies : RewriteDraft(w, d, b)
             \/ \E d \in Drafts, current \in AsCurrent, path \in TargetPaths \cup {None} :
                  PromoteDraft(w, d, current, path)
             \/ UpsertCreatedRow(w) \/ CheckDuplicate(w) \/ ListSuperseded(w) \/ Enqueue(w)
             \/ Claim(w) \/ RecordPromotion(w) \/ UpdateDraft(w) \/ UpsertDraftRow(w)
             \/ Fail(w) \/ AuditAccepted(w) \/ NextEntry(w) \/ StartReplay(w) \/ Throw(w)
      PROVE  Settled'
  <2>1. UNCHANGED <<vault, rows, index>>
    BY <1>2 DEF RewriteDraft, PromoteDraft, UpsertCreatedRow, CheckDuplicate,
                ListSuperseded, Enqueue, Claim, RecordPromotion, UpdateDraft,
                UpsertDraftRow, Fail, AuditAccepted, NextEntry, StartReplay, Throw, stores
  <2>2. UNCHANGED outbox \/ Enqueue(w) \/ Claim(w) \/ Fail(w)
    BY <1>2 DEF RewriteDraft, PromoteDraft, UpsertCreatedRow, CheckDuplicate,
                ListSuperseded, RecordPromotion, UpdateDraft, UpsertDraftRow,
                AuditAccepted, NextEntry, StartReplay, Throw, stores
  <2>3. Unsettled \subseteq Unsettled'
    BY <2>2, OpenStays
  <2>4. CopiesOK(proc'[w], outbox', vault, rows, index)
    <3>1. CASE proc'[w].pc \notin Applying \cup Written
      BY <3>1, NoCopies
    <3>2. CASE Claim(w) /\ proc'[w].pc = "file"
      <4>1. \/ proc'[w] = Returned(proc[w])
            \/ proc'[w] = [proc[w] EXCEPT !.pc = "file", !.pos = 1]
        BY <3>2, BecomeMoves DEF Claim
      <4>2. Returned(proc[w]).pc # "file" /\ proc[w] \in Proc
        BY ReturnedClaimsNothing DEF Holding, Applying, Shape, TypeOK, CallsOK
      <4>3. proc'[w].pos = 1
        BY <3>2, <4>1, <4>2 DEF Proc
      <4>4. \A n : \A i \in 1 .. n : ~ (i < 1)
        OBVIOUS
      <4> QED
        BY <3>2, <4>3, <4>4 DEF CopiesOK, Written
    <3>3. CASE RecordPromotion(w) \/ UpdateDraft(w) \/ UpsertDraftRow(w)
      <4>1. /\ proc[w] \in Proc /\ proc[w].pc \in Written /\ UNCHANGED outbox
            /\ CopiesOK(proc[w], outbox, vault, rows, index)
        BY <3>3 DEF RecordPromotion, UpdateDraft, UpsertDraftRow, At, Written, Shape,
                    TypeOK, CallsOK, Settled
      <4>2. \E l \in {"draft", "draftRow", "complete"} :
              Become(w, [proc[w] EXCEPT !.pc = l])
        BY <3>3 DEF RecordPromotion, UpdateDraft, UpsertDraftRow
      <4>3. proc'[w].entry = proc[w].entry /\ proc'[w].pc \in Written
        BY <4>1, <4>2 DEF Become, Shape, TypeOK, CallsOK, Proc, Written
      <4> QED
        BY <4>1, <4>3 DEF CopiesOK, Applying, Written
    <3> QED
      BY <1>2, <3>1, <3>2, <3>3, NextLabels DEF Applying, Written
  <2> QED
    BY <2>1, <2>3, <2>4, SettledQuiet
<1>3. ASSUME NEW w \in Workers, Step(w) PROVE Settled'
  BY <1>2, <1>3, WritingSettles, CompletingSettles DEF Step, ProcessStep
<1> QED
  BY <1>1, <1>2, <1>3, DyingSettles DEF Next

-----------------------------------------------------------------------------
(* The snapshot of a title describes a note that is in force.                *)

\* A note that the snapshot of a title describes is current, or superseded under another
\* title, or will not be described once the open entries are done.
InForce(t, id, box, open, R) ==
  /\ id \in DOMAIN R
  /\ \/ R[id].current
     \/ R[id].by \in 1 .. Len(box) /\ TitleOf[box[R[id].by].draft] # t
     \/ \E e \in open : box[e].current /\ TitleOf[box[e].draft] = t

Described ==
  \A t \in Titles : SnapshotId(t) \in DOMAIN rows =>
    InForce(t, rows[SnapshotId(t)].body, outbox, OpenEntries, rows)

\* An entry's versions of its own note and of its snapshot.
LEMMA OwnWrites ==
  ASSUME NEW box, NEW e, WritesOK(e, box), NEW i \in 1 .. Len(box[e].writes),
         NEW n, n = box[e].writes[i]
  PROVE  /\ n.id = NoteId(e) => n.current = box[e].current
         /\ \A t : n.id = SnapshotId(t) =>
              /\ t = TitleOf[box[e].draft] /\ n.body = NoteId(e) /\ box[e].current
              /\ \E j \in 1 .. Len(box[e].writes) : j < i /\ box[e].writes[j].id = NoteId(e)
<1>1. /\ Known(n, box)
      /\ \/ n.id = NoteId(e) /\ n.status = "promoted"
         \/ /\ n.id = SnapshotId(TitleOf[box[e].draft]) /\ n.body = NoteId(e)
            /\ n.status = "promoted"
            /\ \E j \in 1 .. Len(box[e].writes) : j < i /\ box[e].writes[j].id = NoteId(e)
         \/ n.status = "superseded" /\ n.id # NoteId(e)
  BY DEF WritesOK
<1>2. ASSUME n.id = NoteId(e) PROVE n.current = box[e].current
  <2>1. n.status = "promoted" /\ Deal(n, box)
    BY <1>1, <1>2, IdsDiffer DEF Known, Sketch
  <2> QED
    BY <1>2, <2>1, IdsDiffer DEF Deal
<1>3. ASSUME NEW t, n.id = SnapshotId(t)
      PROVE  /\ t = TitleOf[box[e].draft] /\ n.body = NoteId(e) /\ box[e].current
             /\ \E j \in 1 .. Len(box[e].writes) : j < i /\ box[e].writes[j].id = NoteId(e)
  <2>1. Sketch(n, box)
    BY <1>1, <1>3, IdsDiffer DEF Known, Deal
  <2>2. /\ n.id = SnapshotId(TitleOf[box[e].draft]) /\ n.body = NoteId(e)
        /\ \E j \in 1 .. Len(box[e].writes) : j < i /\ box[e].writes[j].id = NoteId(e)
    BY <1>1, <1>3, <2>1, IdsDiffer DEF Sketch
  <2> QED
    BY <1>3, <2>1, <2>2, IdsDiffer DEF Sketch
<1> QED
  BY <1>2, <1>3

\* A row that is written keeps Described.
LEMMA RowDescribed ==
  ASSUME Shape, Alone, Circulation, Settled, Described, NEW w \in Workers, UpsertRow(w)
  PROVE  Described'
<1> DEFINE E == proc[w].entry
           n == Writing(w)
           writes == outbox[E].writes
<1>1. /\ proc[w].pc = "row" /\ proc[w].pc \in Applying /\ proc[w].pc \in Holding
      /\ UNCHANGED outbox /\ OpenEntries' = OpenEntries
  BY DEF UpsertRow, At, Applying, Holding, OpenEntries, Completed
<1>2. /\ E \in OpenEntries /\ E \in 1 .. Len(outbox) /\ WritesOK(E, outbox) /\ Known(n, outbox)
      /\ proc[w].pos \in 1 .. Len(writes) /\ n = writes[proc[w].pos]
  BY <1>1, WritingIsUnsettled, WritingKnown DEF Writing, EntryOf
<1>3. \A i \in 1 .. Len(writes) : i < proc[w].pos => Agrees(writes[i], vault, rows, index)
  BY <1>1 DEF Settled, CopiesOK
<1>4. /\ n.id = NoteId(E) => n.current = outbox[E].current
      /\ \A u : n.id = SnapshotId(u) =>
           /\ u = TitleOf[outbox[E].draft] /\ n.body = NoteId(E) /\ outbox[E].current
           /\ \E j \in 1 .. Len(writes) : j < proc[w].pos /\ writes[j].id = NoteId(E)
  <2> HIDE DEF n, E
  <2> QED
    BY <1>2, OwnWrites
<1>5. CASE UNCHANGED rows
  BY <1>1, <1>5 DEF Described
<1>6. CASE rows' = Put(rows, n.id, n)
  <2> SUFFICES ASSUME NEW t \in Titles, SnapshotId(t) \in DOMAIN rows'
               PROVE  InForce(t, rows'[SnapshotId(t)].body, outbox, OpenEntries, rows')
    BY <1>1 DEF Described
  <2>1. \A id : id \in DOMAIN rows' <=> id \in DOMAIN rows \/ id = n.id
    BY <1>6 DEF Put
  <2>2. \A id \in DOMAIN rows' : rows'[id] = IF id = n.id THEN n ELSE rows[id]
    BY <1>6 DEF Put
  <2>3. CASE n.id = SnapshotId(t)
    <3>1. /\ t = TitleOf[outbox[E].draft] /\ n.body = NoteId(E) /\ outbox[E].current
          /\ \E j \in 1 .. Len(writes) : j < proc[w].pos /\ writes[j].id = NoteId(E)
      BY <1>4, <2>3
    <3>2. NoteId(E) \in DOMAIN rows
      BY <1>3, <3>1 DEF Agrees
    <3> QED
      BY <1>2, <2>1, <2>2, <2>3, <3>1, <3>2 DEF InForce
  <2>4. CASE n.id # SnapshotId(t)
    <3> DEFINE id == rows[SnapshotId(t)].body
    <3>1. /\ SnapshotId(t) \in DOMAIN rows /\ rows'[SnapshotId(t)] = rows[SnapshotId(t)]
          /\ InForce(t, id, outbox, OpenEntries, rows)
      BY <2>1, <2>2, <2>4 DEF Described
    <3>2. CASE n.id # id
      <4>1. id \in DOMAIN rows /\ rows'[id] = rows[id] /\ id \in DOMAIN rows'
        BY <2>1, <2>2, <3>1, <3>2 DEF InForce
      <4> QED
        BY <3>1, <4>1 DEF InForce
    <3>3. CASE n.id = id
      <4>1. PICK j \in 1 .. Len(outbox) : id = NoteId(j) /\ outbox[j].current
        <5>1. Known(rows[SnapshotId(t)], outbox) /\ rows[SnapshotId(t)].id = SnapshotId(t)
          BY <3>1 DEF Circulation
        <5> QED
          BY <5>1, IdsDiffer DEF Known, Deal, Sketch
      <4>2. id \in DOMAIN rows' /\ rows'[id] = n
        BY <2>1, <2>2, <3>3
      <4>3. CASE n.id = NoteId(E)
        <5>1. n.current = outbox[E].current /\ j = E
          BY <1>4, <3>3, <4>1, <4>3, IdsDiffer
        <5> QED
          BY <3>1, <4>1, <4>2, <5>1 DEF InForce
      <4>4. CASE n.id # NoteId(E)
        <5>1. n.id # SnapshotId(TitleOf[outbox[E].draft])
          BY <3>3, <4>1, IdsDiffer
        <5>2. \/ n.id = NoteId(E)
              \/ n.id = SnapshotId(TitleOf[outbox[E].draft])
              \/ n.by = E /\ outbox[E].current
          BY <1>2 DEF WritesOK
        <5>3. n.by = E /\ outbox[E].current
          BY <4>4, <5>1, <5>2
        <5> QED
          BY <1>2, <3>1, <4>2, <5>3 DEF InForce
      <4> QED
        BY <4>3, <4>4
    <3> QED
      BY <3>2, <3>3
  <2> QED
    BY <2>3, <2>4
<1> QED
  BY <1>5, <1>6 DEF UpsertRow

\* A completed entry leaves the snapshot of its title on the note it promoted.
LEMMA CompletedDescribed ==
  ASSUME Shape, Alone, Circulation, Settled, Described, NEW w \in Workers, Complete(w),
         Kept(outbox, outbox')
  PROVE  Described'
<1> DEFINE e == proc[w].entry
           writes == outbox[e].writes
<1>1. /\ proc[w].pc \in Written /\ proc[w].pc \in Holding /\ UNCHANGED rows
      /\ SetState(e, "completed")
  BY DEF Complete, At, Holding, Written
<1>2. e \in OpenEntries /\ proc[w].pc \in Processing
  BY <1>1, WritingIsUnsettled
<1>3. /\ Len(outbox') = Len(outbox) /\ e \in 1 .. Len(outbox)
      /\ \A j \in 1 .. Len(outbox) :
           outbox'[j].state = IF j = e THEN "completed" ELSE outbox[j].state
  BY <1>1, <1>2, StateChanges
<1>4. OpenEntries \ {e} \subseteq OpenEntries' /\ OpenEntries \subseteq 1 .. Len(outbox)
  BY <1>3 DEF OpenEntries, Completed
<1>5. \A j \in 1 .. Len(outbox) : /\ outbox'[j].current = outbox[j].current
                                  /\ outbox'[j].draft = outbox[j].draft
  BY DEF Kept
<1>6. WritesOK(e, outbox) /\ \A i \in 1 .. Len(writes) : Agrees(writes[i], vault, rows, index)
  BY <1>1, <1>3 DEF Circulation, Settled, CopiesOK
<1>7. ASSUME NEW t \in Titles, SnapshotId(t) \in DOMAIN rows
      PROVE  InForce(t, rows[SnapshotId(t)].body, outbox', OpenEntries', rows)
  <2> DEFINE id == rows[SnapshotId(t)].body
  <2>1. InForce(t, id, outbox, OpenEntries, rows)
    BY <1>7 DEF Described
  <2>2. CASE outbox[e].current /\ TitleOf[outbox[e].draft] = t
    <3>1. PICK i \in 1 .. Len(writes) : writes[i].id = SnapshotId(t)
      BY <1>6, <2>2 DEF WritesOK
    <3>2. PICK k \in 1 .. Len(writes) : writes[k].id = NoteId(e)
      BY <1>6 DEF WritesOK
    <3>3. rows[SnapshotId(t)] = writes[i] /\ NoteId(e) \in DOMAIN rows
          /\ rows[NoteId(e)] = writes[k]
      BY <1>6, <3>1, <3>2 DEF Agrees
    <3>4. writes[i].body = NoteId(e) /\ writes[k].current = outbox[e].current
      BY <1>6, <3>1, <3>2, OwnWrites
    <3> QED
      BY <2>2, <3>3, <3>4 DEF InForce
  <2>3. CASE ~ (outbox[e].current /\ TitleOf[outbox[e].draft] = t)
    <3>1. (\E j \in OpenEntries : outbox[j].current /\ TitleOf[outbox[j].draft] = t)
            => \E j \in OpenEntries' : outbox'[j].current /\ TitleOf[outbox'[j].draft] = t
      BY <1>4, <1>5, <2>3
    <3> QED
      BY <1>3, <1>5, <2>1, <3>1 DEF InForce
  <2> QED
    BY <2>2, <2>3
<1> QED
  BY <1>1, <1>7 DEF Described

\* Every step keeps Described.
LEMMA DescribedNext ==
  ASSUME Sequential, Shape, Alone, Circulation, Settled, Described, [Next]_vars
  PROVE  Described'
<1>1. CASE UNCHANGED vars
  BY <1>1 DEF vars, stores, Described, OpenEntries, Completed
<1>2. Kept(outbox, outbox') /\ Len(outbox) \in Nat /\ Len(outbox') \in Nat
  BY NothingWithdrawn
<1>3. ASSUME UNCHANGED rows, OpenEntries \subseteq OpenEntries' PROVE Described'
  <2>1. \A j \in 1 .. Len(outbox) : /\ j \in 1 .. Len(outbox')
                                    /\ outbox'[j].current = outbox[j].current
                                    /\ outbox'[j].draft = outbox[j].draft
    BY <1>2 DEF Kept
  <2>2. OpenEntries \subseteq 1 .. Len(outbox)
    BY DEF OpenEntries
  <2>3. \A t, id : InForce(t, id, outbox, OpenEntries, rows)
                     => InForce(t, id, outbox', OpenEntries', rows)
    BY <1>3, <2>1, <2>2 DEF InForce
  <2> QED
    BY <1>3, <2>3 DEF Described
<1>4. ASSUME NEW w \in Workers,
             \/ \E d \in Drafts, b \in Bodies : RewriteDraft(w, d, b)
             \/ \E d \in Drafts, current \in AsCurrent, path \in TargetPaths \cup {None} :
                  PromoteDraft(w, d, current, path)
             \/ UpsertCreatedRow(w) \/ CheckDuplicate(w) \/ ListSuperseded(w) \/ Enqueue(w)
             \/ Claim(w) \/ WriteFile(w) \/ ClearStore(w) \/ FillStore(w)
             \/ RecordPromotion(w) \/ UpdateDraft(w) \/ UpsertDraftRow(w) \/ Fail(w)
             \/ AuditAccepted(w) \/ NextEntry(w) \/ StartReplay(w) \/ Throw(w) \/ Crash(w)
      PROVE  Described'
  <2>1. UNCHANGED rows
    BY <1>4 DEF RewriteDraft, PromoteDraft, UpsertCreatedRow, CheckDuplicate,
                ListSuperseded, Enqueue, Claim, WriteFile, ClearStore, FillStore,
                RecordPromotion, UpdateDraft, UpsertDraftRow, Fail, AuditAccepted,
                NextEntry, StartReplay, Throw, Crash, stores
  <2>2. UNCHANGED outbox \/ Enqueue(w) \/ Claim(w) \/ Fail(w)
    BY <1>4 DEF RewriteDraft, PromoteDraft, UpsertCreatedRow, CheckDuplicate,
                ListSuperseded, WriteFile, ClearStore, FillStore, RecordPromotion,
                UpdateDraft, UpsertDraftRow, AuditAccepted, NextEntry, StartReplay, Throw,
                Crash, stores
  <2> QED
    BY <1>3, <2>1, <2>2, OpenStays
<1>5. ASSUME NEW w \in Workers, Step(w) PROVE Described'
  BY <1>2, <1>4, <1>5, RowDescribed, CompletedDescribed DEF Step, ProcessStep
<1> QED
  BY <1>1, <1>4, <1>5 DEF Next

-----------------------------------------------------------------------------
Ordered == Shape /\ Progress /\ Alone /\ Circulation /\ Settled /\ Described

LEMMA OrderedInit == Init => Ordered
<1> SUFFICES ASSUME Init PROVE Ordered
  OBVIOUS
<1>1. /\ outbox = <<>> /\ vault = <<>> /\ rows = <<>> /\ Len(outbox) = 0
      /\ \A w \in Workers : proc[w].pc = "idle"
  BY DEF Init, Idle
<1>2. DOMAIN vault = {} /\ DOMAIN rows = {} /\ 1 .. Len(outbox) = {}
  BY <1>1
<1>3. Circulation
  BY <1>1, <1>2 DEF Circulation, PlanOK, Asking
<1>4. Settled
  BY <1>1, <1>2, NoCopies DEF Settled, Applying, Written
<1>5. Described
  BY <1>2 DEF Described
<1> QED
  BY <1>3, <1>4, <1>5, ShapeInit, ProgressInit, AloneInit DEF Ordered

LEMMA OrderedNext == Sequential /\ Ordered /\ [Next]_vars => Ordered'
BY ShapeNext, ProgressNext, AloneNext, CirculationNext, SettledNext, DescribedNext
DEF Ordered, Sequential

\* With one call at a time that writes to generated paths, Ordered is an invariant.
LEMMA OrderedInvariant == Sequential => (Spec => []Ordered)
<1> SUFFICES ASSUME Sequential PROVE Spec => []Ordered
  OBVIOUS
<1> QED
  BY OrderedInit, OrderedNext, PTL DEF Spec

\* With one call at a time, and canonical paths made from the notes' ids, a note
\* that no open entry still has to write is the same in its file, its row, its
\* chunks and the lexical index, whatever crashes and errors came before.
THEOREM NotesSettle == Sequential => (Spec => []SettledNotesAgree)
<1> SUFFICES ASSUME Sequential PROVE Spec => []SettledNotesAgree
  OBVIOUS
<1>1. Ordered => SettledNotesAgree
  <2> SUFFICES ASSUME Ordered, NEW id \in DOMAIN rows,
                      \A e \in OpenEntries : id \notin WrittenBy(e)
               PROVE  /\ rows[id].path \in DOMAIN vault /\ vault[rows[id].path] = rows[id]
                      /\ \A s \in StoreNames \ {"vector"} : /\ id \in DOMAIN index[s]
                                                            /\ index[s][id] = rows[id]
    BY DEF SettledNotesAgree
  <2>1. id \notin Unsettled
    BY DEF Unsettled
  <2>2. Agrees(rows[id], vault, rows, index) /\ rows[id].id = id
    BY <2>1 DEF Ordered, Settled, Circulation
  <2> QED
    BY <2>2 DEF Agrees, InStore
<1> QED
  BY <1>1, OrderedInvariant, PTL

\* Under the same two conditions, when no entry is open, the snapshot of a title
\* describes a note that is current, unless a promotion under another title
\* superseded it.
THEOREM SnapshotsDescribe == Sequential => (Spec => []SnapshotDescribesCurrent)
<1> SUFFICES ASSUME Sequential PROVE Spec => []SnapshotDescribesCurrent
  OBVIOUS
<1>1. Ordered => SnapshotDescribesCurrent
  <2> SUFFICES ASSUME Ordered, OpenEntries = {}, NEW t \in Titles,
                      SnapshotId(t) \in DOMAIN rows
               PROVE  LET n == rows[rows[SnapshotId(t)].body]
                      IN n.current \/ (n.by # 0 /\ TitleOf[outbox[n.by].draft] # t)
    BY DEF SnapshotDescribesCurrent
  <2>1. InForce(t, rows[SnapshotId(t)].body, outbox, OpenEntries, rows)
    BY DEF Ordered, Described
  <2> QED
    BY <2>1 DEF InForce
<1> QED
  BY <1>1, OrderedInvariant, PTL
=============================================================================
