-------------------------- MODULE PromotionOutbox --------------------------
(***************************************************************************)
(* Promotion of staging drafts into canonical notes                        *)
(* (PromotionOrchestratorService), with the stores it writes: the staging  *)
(* and canonical Markdown trees, the SQLite notes table, the chunk,        *)
(* lexical and vector stores, the promotion outbox and the promotion       *)
(* events.                                                                 *)
(*                                                                         *)
(* A worker is one call in flight: promoteDraft, replayPendingPromotions   *)
(* or createDraft, in any of the processes (API, CLI, MCP) that share the  *)
(* stores.  An action is what a call does between two awaits: one file     *)
(* operation or one SQLite transaction.                                    *)
(*                                                                         *)
(* One target corpus is modelled, and notes of one type and one project:   *)
(* supersession compares those too.  Attempts, timestamps, error texts and *)
(* the audit lines of refused calls are left out, as no step reads them.   *)
(* So is the best-effort regeneration of derived representations after an  *)
(* entry completes: it writes a store no step here reads.                  *)
(***************************************************************************)
EXTENDS Naturals, Sequences, FiniteSets

CONSTANTS
  Workers,        \* calls that may be in flight at once
  Replayers,      \* the workers that may run replayPendingPromotions
  Drafts,         \* staging drafts
  Titles, Scopes, \* the two frontmatter fields supersession compares
  TitleOf, ScopeOf,  \* ... of each draft
  Bodies,         \* draft texts; a body stands for its content hash
  FirstBody,      \* the text each draft is created with
  TargetPaths,    \* explicit canonical paths a request may ask for
  AsCurrent,      \* values of promoteAsCurrentState in the requests
  Stores,         \* the index stores written for a note, in order
  ReplayLimit,    \* entries one replay takes
  None,
  MaxPromotions,  \* bounds: entries ever enqueued,
  MaxRedrafts,    \*         drafts rewritten after the start,
  MaxCrashes,     \*         calls that die,
  MaxFaults       \*         errors thrown while an entry is processed

ASSUME ConstantsAssumption ==
  /\ Replayers \subseteq Workers /\ AsCurrent \subseteq BOOLEAN
  /\ TitleOf \in [Drafts -> Titles]
  /\ ScopeOf \in [Drafts -> Scopes]
  /\ FirstBody \in [Drafts -> Bodies]
  /\ Stores \in Seq({"chunks", "lexical", "vector"})
  /\ Len(Stores) > 0
  /\ MaxPromotions \in Nat /\ ReplayLimit \in Nat \ {0}
  /\ MaxRedrafts \in Nat /\ MaxCrashes \in Nat /\ MaxFaults \in Nat

VARIABLES
  staging,   \* draft file of each draft: its text and lifecycle state
  draftRow,  \* lifecycle state in each draft's row of the notes table
  vault,     \* canonical files that parse, by path
  torn,      \* paths of files left half-written by a crash
  rows,      \* rows of the notes table for canonical notes, by note id
  index,     \* per store, the version of each note it holds
  outbox,    \* promotion_outbox, in creation order
  events,    \* promotion_events: the entries recorded as promoted
  accepted,  \* audit entries "promote_note accepted", by outbox entry
  proc,      \* what each worker is doing
  redrafts, crashes, faults  \* how much of each bound is used up

stores == <<staging, draftRow, vault, torn, rows, index, outbox, events, accepted>>
vars == <<stores, proc, redrafts, crashes, faults>>

-----------------------------------------------------------------------------
(* Identifiers, records and types.                                         *)

Entries == 1 .. MaxPromotions

\* promotedNoteId is a fresh UUID: one per outbox entry.
NoteId(e) == <<"note", e>>
\* A snapshot's id is a hash of its path, which the title determines.
SnapshotId(t) == <<"snapshot", t>>
DraftId(d) == <<"draft", d>>

NoteIds == {NoteId(e) : e \in Entries} \cup {SnapshotId(t) : t \in Titles}
\* A generated path contains the note's id: it is named by that id.
Paths == NoteIds \cup TargetPaths
FilePaths == Paths \cup {DraftId(d) : d \in Drafts}

\* The staging and the canonical trees have different roots.
ASSUME PathsAssumption == \A d \in Drafts : DraftId(d) \notin Paths

Note == [id : NoteIds, path : Paths, draft : Drafts,
         status : {"promoted", "superseded"}, current : BOOLEAN,
         body : Bodies \cup NoteIds, by : Entries \cup {0}]
Plan == [draft : Drafts, body : Bodies, current : BOOLEAN,
         path : TargetPaths \cup {None}, older : Seq(Note), after : SUBSET Entries]
Entry == [state : {"pending", "processing", "failed", "completed"},
          draft : Drafts, body : Bodies, current : BOOLEAN,
          writes : Seq(Note), after : SUBSET Entries]
Labels == {"idle", "created", "checking", "listing", "enqueue", "next", "claim",
           "file", "row", "clear", "fill", "record", "draft", "draftRow",
           "complete", "failing", "audit"}
Proc == [pc : Labels, replaying : BOOLEAN, plan : Plan \cup {None},
         entry : Entries \cup {0}, pos : Nat, store : Nat, todo : SUBSET Entries]
StoreNames == {Stores[s] : s \in 1 .. Len(Stores)}

Idle == [pc |-> "idle", replaying |-> FALSE, plan |-> None,
         entry |-> 0, pos |-> 0, store |-> 0, todo |-> {}]

Put(f, k, v) == [x \in DOMAIN f \cup {k} |-> IF x = k THEN v ELSE f[x]]
Drop(f, k) == [x \in DOMAIN f \ {k} |-> f[x]]

-----------------------------------------------------------------------------
(* What the code reads before it decides.                                  *)

Completed == {e \in 1 .. Len(outbox) : outbox[e].state = "completed"}
OpenEntries == (1 .. Len(outbox)) \ Completed

\* Mutant: a replay takes no entry that another worker has claimed.
Listed_NotProcessing ==
  {e \in OpenEntries : outbox[e].state # "processing"
                         /\ Cardinality({f \in OpenEntries : f < e}) < ReplayLimit}

\* listPromotionOutboxEntries: pending, failed and processing ones, oldest first.
Listed == {e \in OpenEntries : Cardinality({f \in OpenEntries : f < e}) < ReplayLimit}

\* Mutant: only current notes count as duplicates.
HasLiveTwin_CurrentOnly(body) ==
  \E id \in DOMAIN rows : rows[id].body = body /\ rows[id].current

\* findPotentialDuplicates and the exactDuplicate test on its result.
HasLiveTwin(body) ==
  \E id \in DOMAIN rows : rows[id].body = body /\ rows[id].status # "superseded"

SameTopic(d1, d2) == TitleOf[d1] = TitleOf[d2] \/ ScopeOf[d1] = ScopeOf[d2]

\* Mutant: title and scope must both agree.
CurrentOnTopic_BothAgree(d) ==
  {vault[p] : p \in {q \in DOMAIN vault : /\ vault[q].current
                                          /\ TitleOf[vault[q].draft] = TitleOf[d]
                                          /\ ScopeOf[vault[q].draft] = ScopeOf[d]}}

\* findSupersededRecords: by file, not by row.
CurrentOnTopic(d) ==
  {vault[p] : p \in {q \in DOMAIN vault : vault[q].current /\ SameTopic(vault[q].draft, d)}}

\* The order in which a directory listing yields the notes of S.
Orderings(S) ==
  {f \in [1 .. Cardinality(S) -> S] : \A i, j \in DOMAIN f : i # j => f[i] # f[j]}

\* The UNIQUE constraint on notes.note_path.
PathTaken(n) == \E id \in DOMAIN rows \ {n.id} : rows[id].path = n.path

\* Mutant: a superseded note gets another lifecycle state than the type names.
Superseded_Archived(n, e) == [n EXCEPT !.status = "archived", !.current = FALSE, !.by = e]
\* supersededWrites: the frontmatter of a note that entry e supersedes.
Superseded(n, e) == [n EXCEPT !.status = "superseded", !.current = FALSE, !.by = e]

CanonicalNote(plan, e) ==
  [id |-> NoteId(e), path |-> IF plan.path = None THEN NoteId(e) ELSE plan.path,
   draft |-> plan.draft, status |-> "promoted", current |-> plan.current,
   body |-> plan.body, by |-> 0]

SnapshotNote(n) ==
  LET id == SnapshotId(TitleOf[n.draft])
  IN [id |-> id, path |-> id, draft |-> n.draft, status |-> "promoted",
      current |-> FALSE, body |-> n.id, by |-> 0]

\* Mutant: the snapshot is written for the first current note of a topic only.
CanonicalWrites_SnapshotOnce(plan, e) ==
  LET old == Len(plan.older)
      new == IF plan.current /\ old = 0 THEN 2 ELSE 1
  IN [i \in 1 .. old + new |->
        IF i <= old THEN Superseded(plan.older[i], e)
        ELSE IF i = old + 1 THEN CanonicalNote(plan, e)
        ELSE SnapshotNote(CanonicalNote(plan, e))]

\* canonicalWrites of the payload for entry e: what is superseded, the note
\* itself, and its current-state snapshot.
CanonicalWrites(plan, e) ==
  LET old == Len(plan.older)
      new == IF plan.current THEN 2 ELSE 1
  IN [i \in 1 .. old + new |->
        IF i <= old THEN Superseded(plan.older[i], e)
        ELSE IF i = old + 1 THEN CanonicalNote(plan, e)
        ELSE SnapshotNote(CanonicalNote(plan, e))]

-----------------------------------------------------------------------------
Become(w, p) == proc' = [proc EXCEPT ![w] = p]
At(w, label) == proc[w].pc = label
EntryOf(w) == outbox[proc[w].entry]
Writing(w) == EntryOf(w).writes[proc[w].pos]

\* processPromotionOutboxEntry returns, to a replay or to promoteDraft.
Returned(p) ==
  IF p.replaying THEN [p EXCEPT !.pc = "next", !.entry = 0, !.pos = 0, !.store = 0]
  ELSE Idle

Init ==
  /\ staging = [d \in Drafts |-> [body |-> FirstBody[d], state |-> "draft"]]
  /\ draftRow = [d \in Drafts |-> "draft"]
  /\ vault = <<>> /\ rows = <<>>
  /\ torn = {}
  /\ index = [s \in StoreNames |-> <<>>]
  /\ outbox = <<>>
  /\ events = {} /\ accepted = {}
  /\ proc = [w \in Workers |-> Idle]
  /\ redrafts = 0 /\ crashes = 0 /\ faults = 0

(***************************************************************************)
(* createDraft with the id of an existing draft: the file, then the row.   *)
(***************************************************************************)
RewriteDraft(w, d, b) ==
  /\ At(w, "idle")
  /\ redrafts < MaxRedrafts
  /\ redrafts' = redrafts + 1
  /\ staging' = [staging EXCEPT ![d] = [body |-> b, state |-> "draft"]]
  /\ torn' = torn \ {DraftId(d)}
  /\ Become(w, [Idle EXCEPT !.pc = "created",
                 !.plan = [draft |-> d, body |-> b, current |-> FALSE,
                           path |-> None, older |-> <<>>, after |-> {}]])
  /\ UNCHANGED <<draftRow, vault, rows, index, outbox, events, accepted, crashes, faults>>

UpsertCreatedRow(w) ==
  /\ At(w, "created")
  /\ draftRow' = [draftRow EXCEPT ![proc[w].plan.draft] = "draft"]
  /\ Become(w, Idle)
  /\ UNCHANGED <<staging, vault, torn, rows, index, outbox, events, accepted,
                 redrafts, crashes, faults>>

(***************************************************************************)
(* promoteDraft, up to the outbox.  A call refused for its role, a missing *)
(* draft, a revision conflict or an invalid note changes nothing modelled  *)
(* here and is left out.                                                   *)
(***************************************************************************)
\* getById.  "after" is history: what was complete when the call began.
PromoteDraft(w, d, current, path) ==
  /\ At(w, "idle")
  /\ Len(outbox) < MaxPromotions
  /\ DraftId(d) \notin torn
  /\ Become(w, [Idle EXCEPT !.pc = "checking",
                 !.plan = [draft |-> d, body |-> staging[d].body, current |-> current,
                           path |-> path, older |-> <<>>, after |-> Completed]])
  /\ UNCHANGED <<stores, redrafts, crashes, faults>>

CheckDuplicate(w) ==
  LET p == proc[w] IN
  /\ At(w, "checking")
  /\ Become(w, IF HasLiveTwin(p.plan.body) THEN Idle
               ELSE [p EXCEPT !.pc = IF p.plan.current THEN "listing" ELSE "enqueue"])
  /\ UNCHANGED <<stores, redrafts, crashes, faults>>

\* listByCorpus throws on a file that does not parse, and the call with it.
ListSuperseded(w) ==
  LET p == proc[w] IN
  /\ At(w, "listing")
  /\ IF torn \cap Paths # {} THEN Become(w, Idle)
     ELSE \E older \in Orderings(CurrentOnTopic(p.plan.draft)) :
            Become(w, [p EXCEPT !.pc = "enqueue", !.plan.older = older])
  /\ UNCHANGED <<stores, redrafts, crashes, faults>>

\* The insert may fail, and the call with it; at the bound it does.
Enqueue(w) ==
  LET plan == proc[w].plan
      e == Len(outbox) + 1
  IN
  /\ At(w, "enqueue")
  /\ IF Len(outbox) = MaxPromotions THEN Become(w, Idle) /\ UNCHANGED outbox
     ELSE /\ outbox' = Append(outbox,
               [state |-> "pending", draft |-> plan.draft, body |-> plan.body,
                current |-> plan.current, writes |-> CanonicalWrites(plan, e),
                after |-> plan.after])
          /\ Become(w, [Idle EXCEPT !.pc = "claim", !.entry = e])
  /\ UNCHANGED <<staging, draftRow, vault, torn, rows, index, events, accepted,
                 redrafts, crashes, faults>>

(***************************************************************************)
(* processPromotionOutboxEntry.                                            *)
(***************************************************************************)
SetState(e, s) == outbox' = [outbox EXCEPT ![e].state = s]

\* Mutant: claiming an entry already marks it done.
Claim_MarksDone(w) ==
  LET p == proc[w] IN
  /\ At(w, "claim")
  /\ IF EntryOf(w).state = "completed"
     THEN Become(w, Returned(p)) /\ UNCHANGED outbox
     ELSE /\ SetState(p.entry, "completed")
          /\ Become(w, [p EXCEPT !.pc = "file", !.pos = 1])
  /\ UNCHANGED <<staging, draftRow, vault, torn, rows, index, events, accepted,
                 redrafts, crashes, faults>>

\* An entry another worker is processing can be claimed too.
Claim(w) ==
  LET p == proc[w] IN
  /\ At(w, "claim")
  /\ IF EntryOf(w).state = "completed"
     THEN Become(w, Returned(p)) /\ UNCHANGED outbox
     ELSE /\ SetState(p.entry, "processing")
          /\ Become(w, [p EXCEPT !.pc = "file", !.pos = 1])
  /\ UNCHANGED <<staging, draftRow, vault, torn, rows, index, events, accepted,
                 redrafts, crashes, faults>>

WriteFile(w) ==
  /\ At(w, "file")
  /\ vault' = Put(vault, Writing(w).path, Writing(w))
  /\ torn' = torn \ {Writing(w).path}
  /\ Become(w, [proc[w] EXCEPT !.pc = "row"])
  /\ UNCHANGED <<staging, draftRow, rows, index, outbox, events, accepted,
                 redrafts, crashes, faults>>

\* Mutant: a row whose path is taken is skipped, as INSERT OR IGNORE would.
UpsertRow_Ignore(w) ==
  LET p == proc[w] IN
  /\ At(w, "row")
  /\ rows' = IF PathTaken(Writing(w)) THEN rows ELSE Put(rows, Writing(w).id, Writing(w))
  /\ Become(w, [p EXCEPT !.pc = "clear", !.store = 1])
  /\ UNCHANGED <<staging, draftRow, vault, torn, index, outbox, events, accepted,
                 redrafts, crashes, faults>>

\* The upsert throws on a path another note holds: its file is already written.
UpsertRow(w) ==
  LET p == proc[w] IN
  /\ At(w, "row")
  /\ IF PathTaken(Writing(w))
     THEN Become(w, [p EXCEPT !.pc = "failing"]) /\ UNCHANGED rows
     ELSE /\ rows' = Put(rows, Writing(w).id, Writing(w))
          /\ Become(w, [p EXCEPT !.pc = "clear", !.store = 1])
  /\ UNCHANGED <<staging, draftRow, vault, torn, index, outbox, events, accepted,
                 redrafts, crashes, faults>>

\* syncChunkState: per store, the note's old entries go, then the new ones come.
\* The vector index swallows its errors: either half may not happen.
ClearStore(w) ==
  LET s == Stores[proc[w].store] IN
  /\ At(w, "clear")
  /\ \/ index' = [index EXCEPT ![s] = Drop(@, Writing(w).id)]
     \/ s = "vector" /\ UNCHANGED index
  /\ Become(w, [proc[w] EXCEPT !.pc = "fill"])
  /\ UNCHANGED <<staging, draftRow, vault, torn, rows, outbox, events, accepted,
                 redrafts, crashes, faults>>

\* Mutant: the loop over the writes stops one short.
AfterFill_OneShort(p, writes) ==
  IF p.store < Len(Stores) THEN [p EXCEPT !.pc = "clear", !.store = p.store + 1]
  ELSE IF p.pos + 1 < Len(writes) THEN [p EXCEPT !.pc = "file", !.pos = p.pos + 1, !.store = 0]
  ELSE [p EXCEPT !.pc = "record"]

AfterFill(p, writes) ==
  IF p.store < Len(Stores) THEN [p EXCEPT !.pc = "clear", !.store = p.store + 1]
  ELSE IF p.pos < Len(writes) THEN [p EXCEPT !.pc = "file", !.pos = p.pos + 1, !.store = 0]
  ELSE [p EXCEPT !.pc = "record"]

\* Mutant: a superseded note is dropped from the stores and not written back.
FillStore_InForceOnly(w) ==
  LET s == Stores[proc[w].store] IN
  /\ At(w, "fill")
  /\ index' = IF Writing(w).status = "superseded" THEN index
              ELSE [index EXCEPT ![s] = Put(@, Writing(w).id, Writing(w))]
  /\ Become(w, AfterFill(proc[w], EntryOf(w).writes))
  /\ UNCHANGED <<staging, draftRow, vault, torn, rows, outbox, events, accepted,
                 redrafts, crashes, faults>>

FillStore(w) ==
  LET s == Stores[proc[w].store] IN
  /\ At(w, "fill")
  /\ \/ index' = [index EXCEPT ![s] = Put(@, Writing(w).id, Writing(w))]
     \/ s = "vector" /\ UNCHANGED index
  /\ Become(w, AfterFill(proc[w], EntryOf(w).writes))
  /\ UNCHANGED <<staging, draftRow, vault, torn, rows, outbox, events, accepted,
                 redrafts, crashes, faults>>

RecordPromotion(w) ==
  /\ At(w, "record")
  /\ events' = events \cup {proc[w].entry}
  /\ Become(w, [proc[w] EXCEPT !.pc = "draft"])
  /\ UNCHANGED <<staging, draftRow, vault, torn, rows, index, outbox, accepted,
                 redrafts, crashes, faults>>

\* Mutant: the draft is marked promoted in place, whatever text it holds by now.
UpdateDraft_InPlace(w) ==
  LET e == EntryOf(w) IN
  /\ At(w, "draft")
  /\ staging' = [staging EXCEPT ![e.draft].state = "promoted"]
  /\ torn' = torn \ {DraftId(e.draft)}
  /\ Become(w, [proc[w] EXCEPT !.pc = "draftRow"])
  /\ UNCHANGED <<draftRow, vault, rows, index, outbox, events, accepted,
                 redrafts, crashes, faults>>

\* updateDraft writes back the draft as it was read when the call began.
UpdateDraft(w) ==
  LET e == EntryOf(w) IN
  /\ At(w, "draft")
  /\ staging' = [staging EXCEPT ![e.draft] = [body |-> e.body, state |-> "promoted"]]
  /\ torn' = torn \ {DraftId(e.draft)}
  /\ Become(w, [proc[w] EXCEPT !.pc = "draftRow"])
  /\ UNCHANGED <<draftRow, vault, rows, index, outbox, events, accepted,
                 redrafts, crashes, faults>>

UpsertDraftRow(w) ==
  /\ At(w, "draftRow")
  /\ draftRow' = [draftRow EXCEPT ![EntryOf(w).draft] = "promoted"]
  /\ Become(w, [proc[w] EXCEPT !.pc = "complete"])
  /\ UNCHANGED <<staging, vault, torn, rows, index, outbox, events, accepted,
                 redrafts, crashes, faults>>

Complete(w) ==
  LET p == proc[w] IN
  /\ At(w, "complete")
  /\ SetState(p.entry, "completed")
  /\ Become(w, IF p.replaying THEN Returned(p) ELSE [p EXCEPT !.pc = "audit"])
  /\ UNCHANGED <<staging, draftRow, vault, torn, rows, index, events, accepted,
                 redrafts, crashes, faults>>

\* The catch block, whatever state the entry has by now.
Fail(w) ==
  /\ At(w, "failing")
  /\ SetState(proc[w].entry, "failed")
  /\ Become(w, Returned(proc[w]))
  /\ UNCHANGED <<staging, draftRow, vault, torn, rows, index, events, accepted,
                 redrafts, crashes, faults>>

\* Only promoteDraft audits; an audit that fails is a warning of the answer.
AuditAccepted(w) ==
  /\ At(w, "audit")
  /\ accepted' \in {accepted, accepted \cup {proc[w].entry}}
  /\ Become(w, Idle)
  /\ UNCHANGED <<staging, draftRow, vault, torn, rows, index, outbox, events,
                 redrafts, crashes, faults>>

(***************************************************************************)
(* replayPendingPromotions: list once, then process one after another.     *)
(***************************************************************************)
StartReplay(w) ==
  /\ w \in Replayers
  /\ At(w, "idle")
  /\ Become(w, IF Listed = {} THEN Idle
               ELSE [Idle EXCEPT !.pc = "next", !.replaying = TRUE, !.todo = Listed])
  /\ UNCHANGED <<stores, redrafts, crashes, faults>>

NextEntry(w) ==
  LET p == proc[w] IN
  /\ At(w, "next")
  /\ IF p.todo = {} THEN Become(w, Idle)
     ELSE \E e \in p.todo :
            /\ \A f \in p.todo : e <= f
            /\ Become(w, [p EXCEPT !.pc = "claim", !.entry = e, !.todo = @ \ {e}])
  /\ UNCHANGED <<stores, redrafts, crashes, faults>>

(***************************************************************************)
(* What goes wrong.  A step of the try block throws; or the call dies,     *)
(* with its process or by an error outside the try block, between two      *)
(* steps or in the middle of writeFile, which truncates before it writes.  *)
(***************************************************************************)
Throw(w) ==
  /\ proc[w].pc \in {"file", "row", "clear", "fill", "record", "draft", "draftRow",
                     "complete"}
  /\ faults < MaxFaults
  /\ faults' = faults + 1
  /\ Become(w, [proc[w] EXCEPT !.pc = "failing"])
  /\ UNCHANGED <<stores, redrafts, crashes>>

Crash(w) ==
  /\ ~ At(w, "idle")
  /\ crashes < MaxCrashes
  /\ crashes' = crashes + 1
  /\ \/ UNCHANGED <<vault, torn>>
     \/ At(w, "file") /\ vault' = Drop(vault, Writing(w).path)
                      /\ torn' = torn \cup {Writing(w).path}
     \/ At(w, "draft") /\ torn' = torn \cup {DraftId(EntryOf(w).draft)} /\ UNCHANGED vault
  /\ Become(w, Idle)
  /\ UNCHANGED <<staging, draftRow, rows, index, outbox, events, accepted, redrafts, faults>>

-----------------------------------------------------------------------------
ProcessStep(w) ==
  \/ Claim(w) \/ WriteFile(w) \/ UpsertRow(w) \/ ClearStore(w) \/ FillStore(w)
  \/ RecordPromotion(w) \/ UpdateDraft(w) \/ UpsertDraftRow(w) \/ Complete(w) \/ Fail(w)

\* What a started call goes on to do by itself.
Step(w) ==
  \/ UpsertCreatedRow(w) \/ CheckDuplicate(w) \/ ListSuperseded(w) \/ Enqueue(w)
  \/ ProcessStep(w) \/ AuditAccepted(w) \/ NextEntry(w)

Next ==
  \E w \in Workers :
    \/ Step(w)
    \/ \E d \in Drafts, b \in Bodies : RewriteDraft(w, d, b)
    \/ \E d \in Drafts, current \in AsCurrent, path \in TargetPaths \cup {None} :
         PromoteDraft(w, d, current, path)
    \/ StartReplay(w)
    \/ Throw(w)
    \/ Crash(w)

Spec == Init /\ [][Next]_vars

\* A started call keeps running until it returns or dies; and somebody keeps
\* calling replayPendingPromotions.
Fairness ==
  /\ \A w \in Workers : WF_vars(Step(w))
  /\ \A w \in Replayers : SF_vars(StartReplay(w))

FairSpec == Spec /\ Fairness

-----------------------------------------------------------------------------
(* Properties.                                                             *)

DraftsOK ==
  /\ staging \in [Drafts -> [body : Bodies, state : {"draft", "promoted"}]]
  /\ draftRow \in [Drafts -> {"draft", "promoted"}]

FilesOK ==
  /\ DOMAIN vault \subseteq Paths /\ \A p \in DOMAIN vault : vault[p] \in Note
  /\ torn \subseteq FilePaths

RowsOK ==
  /\ DOMAIN rows \subseteq NoteIds /\ \A id \in DOMAIN rows : rows[id] \in Note
  /\ DOMAIN index = StoreNames
  /\ \A s \in StoreNames : /\ DOMAIN index[s] \subseteq NoteIds
                           /\ \A id \in DOMAIN index[s] : index[s][id] \in Note

OutboxOK ==
  /\ outbox \in Seq(Entry) /\ Len(outbox) <= MaxPromotions
  /\ events \subseteq 1 .. Len(outbox) /\ accepted \subseteq 1 .. Len(outbox)

CallsOK ==
  /\ DOMAIN proc = Workers /\ \A w \in Workers : proc[w] \in Proc
  /\ redrafts \in 0 .. MaxRedrafts /\ crashes \in 0 .. MaxCrashes
  /\ faults \in 0 .. MaxFaults

\* Every variable keeps its type.
TypeOK == DraftsOK /\ FilesOK /\ RowsOK /\ OutboxOK /\ CallsOK

WrittenBy(e) == {outbox[e].writes[i].id : i \in DOMAIN outbox[e].writes}
FilesOf(e) == {outbox[e].writes[i].path : i \in DOMAIN outbox[e].writes}

\* However many workers process an entry, crash or fail in it, once it is
\* completed each note it promised has a row and a file, its event is recorded
\* (processPromotionOutboxEntry completes the entry last).
CompletedImpliesApplied ==
  \A e \in Completed : /\ e \in events
                       /\ WrittenBy(e) \subseteq DOMAIN rows
                       /\ FilesOf(e) \subseteq DOMAIN vault \cup torn

\* A draft reads "promoted" only if a recorded promotion published exactly the
\* text the draft holds, however drafts are rewritten meanwhile (updateDraft
\* writes back the text that was promoted, after recordPromotion).
PromotedDraftIsCanonical ==
  \A d \in Drafts : staging[d].state = "promoted" =>
    \E e \in events : /\ outbox[e].draft = d /\ outbox[e].body = staging[d].body
                      /\ NoteId(e) \in DOMAIN rows

\* A note that no open entry still has to write is the same in its file, its
\* row, its chunks and the lexical index: replay repairs whatever a crash or an
\* error left between the stores (the replay of processPromotionOutboxEntry).
\* It needs one worker at a time: two that write different versions of a note
\* can leave one version in its file and the other in its row.
SettledNotesAgree ==
  \A id \in DOMAIN rows : (\A e \in OpenEntries : id \notin WrittenBy(e)) =>
    /\ rows[id].path \in DOMAIN vault /\ vault[rows[id].path] = rows[id]
    /\ \A s \in StoreNames \ {"vector"} : id \in DOMAIN index[s] /\ index[s][id] = rows[id]

\* Once a current-state promotion completes, the file of no note of its topic
\* whose promotion had completed when it was asked for is in force, and none
\* becomes so again through any later replay (findSupersededRecords reads files,
\* the rows follow by SettledNotesAgree).
LaterPromotionWins ==
  \A later \in Completed : \A e \in outbox[later].after : \A p \in DOMAIN vault :
    (/\ outbox[later].current /\ outbox[e].current
     /\ SameTopic(outbox[e].draft, outbox[later].draft)
     /\ vault[p].id = NoteId(e)) => vault[p].status = "superseded" /\ ~ vault[p].current

\* Two promotions of the same text, the second asked for after the first had
\* completed, never leave two notes that are both in force (the exactDuplicate
\* check of promoteDraft).
NoLiveTwins ==
  \A later \in 1 .. Len(outbox) : \A e \in outbox[later].after :
    outbox[later].body = outbox[e].body => rows[NoteId(e)].status = "superseded"

\* With no entry open, the snapshot note of a title describes a note that is
\* current, unless a promotion under another title of the same scope superseded
\* it (prepareCurrentStateSnapshot keys the snapshot by title alone).
SnapshotDescribesCurrent ==
  OpenEntries = {} =>
    \A t \in Titles : SnapshotId(t) \in DOMAIN rows =>
      LET n == rows[rows[SnapshotId(t)].body]
      IN n.current \/ (n.by # 0 /\ TitleOf[outbox[n.by].draft] # t)

\* A canonical file left half-written belongs to an entry that is still open,
\* so a replay writes it again (writeFile is not atomic).  It needs one worker
\* at a time, or none that replays: a second one in the same entry can die after
\* the first completed it.
TornFileIsReplayable ==
  \A p \in torn \cap Paths : \E e \in OpenEntries : p \in FilesOf(e)

\* A completed entry stays completed: no late error of the same processing puts
\* it back into the queue.  It needs one worker at a time, or none that replays,
\* because failPromotionOutboxEntry does not look at the state it overwrites.
CompletedIsFinal == [][Completed \subseteq Completed']_outbox

\* The outbox implements PromotionLog: it acknowledges and records only what it
\* has catalogued, and never takes anything back (claims, crashes and replays
\* of processPromotionOutboxEntry notwithstanding).
Log == INSTANCE PromotionLog WITH
         asked <- [e \in 1 .. Len(outbox) |-> WrittenBy(e)],
         catalogued <- DOMAIN rows,
         promoted <- events,
         acknowledged <- accepted
ImplementsLog == Log!Spec

\* A step that completes an entry leaves a call that will audit it ("every
\* meaningful action emits an audit entry", of the implementation plan).
CompletionIsAudited ==
  [][\A e \in Completed' \ Completed :
       \E w \in Workers : proc'[w].pc = "audit" /\ proc'[w].entry = e]_outbox

\* A superseded note never comes back into force (the read-path RFC allows
\* active -> superseded and no transition back).
SupersededIsFinal ==
  [][\A p \in DOMAIN vault \cap DOMAIN vault' :
       (vault[p].status = "superseded" /\ vault'[p].id = vault[p].id) =>
         vault'[p].status = "superseded"]_vault

\* Once enqueued, a promotion is eventually completed for good, if crashes and
\* errors cease and replays go on (replayPendingPromotions).
EveryPromotionCompletes ==
  \A e \in Entries : (e <= Len(outbox)) ~> [](e \in Completed)
=============================================================================
