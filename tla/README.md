# A verification project for multi-agent-brain

TLA+ models of multi-agent-brain, TLC runs over small instances of them, and
TLAPS proofs of the properties that matter most. All paths below are relative to
`src/` of the repository unless they end in `.tla` or `.cfg`.

    tlc -workers 2 -config PromotionRecovery.cfg MCPromotionOutbox   # any cfg, with its MC module
    tlapm PromotionOutboxProofs.tla                                  # any *Proofs module

## 1. What the system is

multi-agent-brain keeps an organisation's notes for its agents. Drafts are
written in a *staging* tree of Markdown files and *promoted* into a *canonical*
tree; a SQLite database holds a row for every note, its chunks, an outbox of
promotions and an audit log; a lexical (FTS) and a vector (Qdrant) index answer
searches. The same container is wired in three processes that may run at once
(HTTP API, CLI, MCP server) over the same files and database. A second domain
executes *coding tasks*: for each, the host spawns a Python process that asks a
local model for a patch, applies it to a git workspace, validates it, and rolls
it back or keeps it.

### Inventory

`AS` is `packages/application/src/services`, `IN` is `packages/infrastructure/src`,
`OR` is `packages/orchestration/src`, `LE` is `runtimes/local_experts`.

| Component | State | Operations | Interacts with | What is hard | What makes it correct |
|---|---|---|---|---|---|
| Promotion orchestrator and outbox (`AS/promotion-orchestrator-service.ts`) | outbox entries, promotion events | promoteDraft, processPromotionOutboxEntry, replayPendingPromotions | every store below | ten awaits per note with no transaction over them; crashes, replays and second workers in the same entry | a completed entry is applied; replay repairs; a superseded note stays so |
| Canonical notes and vault (`AS/canonical-note-service.ts`, `IN/vault/`) | Markdown files, their rows | write, list, current-state snapshot | promotion, retrieval | `writeFile` truncates first; file and row are two steps | file, row and index agree once nothing is open |
| Staging drafts (`AS/staging-draft-service.ts`) | draft files, their rows | createDraft, updateDraft | drafting model, promotion | a draft rewritten during its promotion | only published text reads "promoted" |
| Metadata control store (`IN/sqlite/sqlite-metadata-control-store.ts`) | notes, chunks, outbox, events | upserts, claims, duplicate and validity queries | promotion, retrieval, temporal refresh | unique paths; unconditional state changes | a claim or a late error loses nothing |
| Lexical and vector index (`IN/fts`, `IN/vector`) | entries per note | remove, upsert, search, health | promotion, retrieval | the vector index swallows errors; writes of one note overlap; vectors of two sizes | entries follow the rows, and what is lost has a cause |
| Audit history (`AS/audit-history-service.ts`) | audit entries | recordAction, queryHistory | every command | written after the fact, failures tolerated | what is audited happened |
| Coding domain controller (`OR/coding/coding-domain-controller.ts`) | traces, audit entries | executeTask, listTraces, showToolOutput | bridge, spillover store | throws between its writes | the trace agrees with the answer |
| Python coding bridge (`IN/coding/python-coding-controller-bridge.ts`, `LE/bridge.py`) | one child per task, `settled` | spawn, timer, error, close | controller, runtime | three callbacks answer one promise; a kill anywhere | every task is answered once |
| Local experts runtime (`LE/escalation_controller.py`, `server.py`, `utils/file_ops.py`) | attempts, snapshot, the workspace | preflight, generate, apply, validate, roll back, retry | model, git, validators | partial application, rollback file by file, killed anywhere, patches that change more than their manifest | a task keeps one patch or leaves no trace |
| Tool output spillover (`AS/tool-output-budget-service.ts`) | files and rows of long texts | prepareOutput, save, findById | coding controller | several saves at once, one failing | every reference can be read |
| Temporal refresh (`AS/temporal-refresh-service.ts`, validity queries of the control store) | refresh drafts | single and batch refresh, validity summary and report | staging, metadata, promotion | check, then create two awaits later; limits that let urgent notes hide others; one file that does not parse stops every call | few duplicates; every note out of its window gets its draft |
| Issued tokens, revocation (`IN/auth`, `IN/sqlite`, `OR/root/issued-actor-token.ts`) | ledger, revocation list | issue, revoke, check | authorization, transports | each process keeps its own copy of the list and writes the file whole | a revoked token stays refused |
| Actor authorization (`OR/root/actor-authorization-policy.ts`) | revoked ids | authorize, inspect | transports | two ways to ask the same question | they agree |
| Session startup (`IN/startup/docker-mcp-session-startup.ts`) | none | eight checks, then the MCP server | registry, Qdrant, models, mounts | what was checked is read again later | a session that starts works |
| Transports and containers (`apps/brain-{api,cli,mcp}`, `OR/root/multi-agent-orchestrator.ts`, `IN/bootstrap`, `IN/sqlite/shared-sqlite-connection.ts`) | requests in flight, one connection by reference count | build, listen, dispatch, answer, close, signal | everything | disposal beside requests; builds that fail half-way | who waits is answered; the connection lives as long as its users |
| Retrieval (`AS/retrieve-context-service.ts`, `AS/*-retrieval-service.ts`) | what each index object knows of Qdrant | search, fuse, select | indexes, metadata, promotion | degraded modes; searches during promotions | superseded notes stay out; degradation ends |
| Context packets (`AS/context-packet-service.ts`) | none | widen, cut to the budget, warn | metadata | rows replaced while it widens; many limits lowered in turn | bounded, best note first, warned of |
| Session archives, agent context (`AS/session-archive-service.ts`, `AS/agent-context-assembly-service.ts`) | archived messages | archive, search, assemble a block | retrieval | limits within limits | truncation is told, budgets hold |
| Context namespace and representations, import jobs, note validation, model providers, scripts | little | read models, parsing, HTTP | everything | | see section 7 |

`PROJECT.json` lists every component with its sources, and under `hazards`
each thing in this code that is hard to test, at its line, with the properties
that watch it.

## 2. Modules

| Module | What it is |
|---|---|
| `PromotionLog` | abstract: what promotion promises, with neither workers nor files |
| `PromotionOutbox` | promotion with all its stores, any number of calls in flight |
| `MCPromotionOutbox` | small titles, scopes, stores and the symmetry of workers |
| `PromotionOutboxProofs` | ten theorems about `PromotionOutbox` |
| `WorkspaceTransactions` | abstract: a coding task is a transaction on the workspace |
| `CodingTask` | controller, bridge, runtime and the workspace they patch |
| `MCCodingTask` | the tasks of the runs |
| `CodingTaskProofs` | four theorems about `CodingTask` |
| `ActorPolicy` | the two decisions of the authorization policy; no state |
| `IssuedTokens` | issuing and revoking tokens in several processes; extends `ActorPolicy` |
| `SessionStartup` | the checks of a container's session and what it then serves; extends `ActorPolicy` |
| `Requests` | containers, their shared connection, the requests at them, and the end of each host |
| `ContextPackets` | from hits to a packet, and its warnings |
| `AgentContext` | session archives and the context block of an agent |
| `TemporalRefresh` | validity windows and the drafts that renew notes |
| `Retrieval` | searches beside promotions, in processes that share a Qdrant |
| `MCAccess` | instances of `Requests`, `IssuedTokens`, `SessionStartup`, `ContextPackets` and `AgentContext` |
| `MCServing` | instances of `TemporalRefresh` and `Retrieval`, with their fairness |
| `IssuedTokensProofs`, `RequestsProofs`, `SessionStartupProofs` | the theorems about the module each is named after |
| `ContextProofs` | the theorems about `ContextPackets` and `AgentContext` |
| `ServingProofs` | the theorems about `TemporalRefresh`, `Retrieval` and `MCServing` |
| `AccessProofs` | from the theorems of its modules, those about `MCAccess` |

An operator named `X_Something` just above `X`, and commented "Mutant", is a
plausible bug in the code `X` models. No specification uses it; it shows that the
property paired with it in `PROJECT.json` would notice.

### 2.1 PromotionOutbox

A *worker* is one call in flight, in any process. An action is what a call does
between two awaits: one file operation, or one synchronous SQLite transaction.

| Variable | In the code |
|---|---|
| `staging`, `draftRow` | the staging file of a draft, and the lifecycle state of its row |
| `vault`, `torn` | canonical files that parse, and files a crash left truncated |
| `rows` | rows of `notes` for canonical notes |
| `index` | chunks, lexical entries and vector points, by store |
| `outbox`, `events` | `promotion_outbox` and `promotion_events` |
| `accepted` | audit entries `promote_note` with outcome `accepted` |
| `proc` | where each call is, and its local variables |

`promoteDraft` is `PromoteDraft` (reads the draft) - `CheckDuplicate` -
`ListSuperseded` - `Enqueue`; it then runs `processPromotionOutboxEntry`:
`Claim`, and for each canonical write of the payload `WriteFile`, `UpsertRow`, and
per index store `ClearStore` and `FillStore`; then `RecordPromotion`,
`UpdateDraft`, `UpsertDraftRow`, `Complete`, and, back in promoteDraft only,
`AuditAccepted`. `replayPendingPromotions` is `StartReplay` and one `NextEntry`
per entry it listed. `Throw` is an error anywhere in the try block, followed by
`Fail`, its catch block; `Crash` is the death of a call between two steps, or
within `writeFile`. `RewriteDraft` and `UpsertCreatedRow` are createDraft with the
id of an existing draft.

The payload of an entry is computed when the entry is enqueued and written back
as it is by every replay: that one fact is behind most of what can go wrong here.

### 2.2 CodingTask

| Variable | In the code |
|---|---|
| `call` | `executeTask` of a task in the host: where it is, the status it will answer, how many of its texts are over budget |
| `runtime` | its Python process: where `handle` is, the attempt, the snapshot, which attempts have failed, what a rollback has yet to restore |
| `workspace` | which task's which attempt each file holds, or the original |
| `traces` | `local_agent_trace` |
| `outputs` | files and rows of spilled tool outputs |
| `base` | history: the workspace when the last patching runtime started |

`Start` traces and spawns. `Timeout`, `SpawnError` and `Close` are the three
callbacks of the bridge; only the first of them answers. `SaveFile`, `SaveRow`,
`RecordTrace` and `Return` are the rest of executeTask, `StoreFails` where it throws,
`HostCrash` the death of the host, after which its children run on. In the runtime,
`Preflight`, `Advise` (read-only tasks), `Generate`, `ApplyPatch`, `Validate` end where
`handle` awaits a model, git or a validator. A rollback is `TruncateFile` and `RestoreFile` for each
file, because `write_bytes` opens the file, which empties it, before it writes, and the host may
kill the process between any two of these; `Undone` is what comes after. The snapshot is of the
files that the manifest of a patch names. git changes more: a file the patch deletes (`+++ /dev/null`)
or renames without a hunk is in no manifest (`LE/utils/file_ops.py:169-180`), so it is not in the
snapshot and a rollback leaves it changed. The model calls such files `outside`, what git may change
`Touched`, and remembers in `spilled` that a rollback has missed some. When a runtime dies while it waits for `git apply`, git goes on alone: `Dies`
lets any part of the patch arrive. `ExitListing` is the end of a result that lists
its validations: once a patch has been applied, that list carries the bytes of the
snapshot, and `json.dumps` refuses it (section 6).

What a model says, whether a gate passes a patch, what a validation finds: all are
choices.

### 2.3 ActorPolicy and IssuedTokens

`ActorPolicy` has no variables. `Verdict` is `authorizeOperation` and `Inspection` is
`inspectToken`, which the source writes apart from each other over one registry;
`ByIssuedToken` is `tryAuthorizeIssuedToken`, `EntryAdmits` what a registered actor may do
whatever the token. A registry is a sequence of entries, because the order decides
which of two credentials with one token is found first.

`IssuedTokens` is the state around it.

| Variable | In the code |
|---|---|
| `process` | API servers and CLI commands: running or not, and the ids its policy knows to be revoked |
| `revocation` | each call of revoke-token: where it is, and the ids it has read |
| `idsFile` | the file of revoked ids: missing, just truncated, readable, or debris |
| `ledger` | the row of each issued token |
| `owed` | history: the tokens a process has to refuse |

A revocation is `RequestRevocation` (reads the policy's ids), `LoadIds` (the file),
`TruncateIds` and `WriteIds` (the two steps of `writeFile`), and `AnswerRevocation` (policy,
ledger, answer). There is no lock, so revocations overlap, in one process or two.
`WriteIds` leaves debris when a longer text was written since its file was opened.

### 2.4 SessionStartup

`RunCheck` runs one of the eight checks, `Launch` refuses, only validates or starts the
server, `LoadRegistry` is the server reading the registry file again; `EditRegistry` may
come between any two. `profile` is the environment and the container, drawn once.
Paths are sequences of names. `Overlap` is `pathsOverlap` as it is written, blind to the
root, and `IsMounted` is what makes up for it. `SessionPolicy` and `SessionActor` are what
the server makes of the profile; the verdict on a call is `ActorPolicy`'s.

### 2.5 Requests

| Variable | In the code |
|---|---|
| `host` | each container and its application: API, MCP or CLI; whether the process is its own; the connection its stores hold |
| `connection` | the entry of `SHARED_CONNECTIONS`: handle and reference count |
| `request` | each request: body, memory context, handler, answer; whether its client waits; its outcome |

`Build` and `BuildFails` are `buildServiceContainer`, which releases nothing when it throws;
`Listen`, `Close`, `Closed`, `Exit` and `SecondSignal` are the API server; `Shutdown` the MCP
server; `CommandEnds` the command line. `Arrive`, `Dispatch`, `InjectMemory` and `Finish` are a
request; a handler is the set of outcomes (`Results`) of its command. `HttpStatus`, `CliFails`
and `McpFails` are the three tables that tell a client what became of it.

### 2.6 TemporalRefresh

| Variable | In the code |
|---|---|
| `today`, `inForce` | the date; the notes whose row is promoted and current |
| `vault` | the canonical file of each note: sound, missing, torn by a crash, or one of which no draft validates (*unfit*) |
| `draft` | the staging files of refresh drafts: empty while they are written, open, or being promoted |
| `refresh` | the call of each caller, with the notes it has still to do |

`Falls` is the three SQL clauses of the summary, `CandidateState` the single look-up, written
apart in the code as here; `Listing` is the report and `Selected` what a batch takes. A call is
`RequestRefresh` or `RequestBatch`, then per note `Lookup`, `FindDraft`, `Compose` (the model
answers, the file is opened) and `StoreDraft` (the file is full). `FindDraft` reads the canonical
file first: a note that is not found is passed over, by every batch for as long as it is missing, and a
torn file ends the whole call with an exception. Then it reads the staging drafts, where one
that does not parse does the same. `RefreshCrash` leaves such a draft. `PromoteRefresh` is the
effect of a promotion, of `PromotionOutbox`, on the drafts and the notes in force; `TearSource` is one
that dies while it writes the superseded source, and `ReplayRefresh` its replay.

### 2.7 Retrieval

| Variable | In the code |
|---|---|
| `soft` | whether a process swallows the failures of Qdrant (`qdrantSoftFail`) |
| `want`, `open` | what the vault says of each note; the writes whose outbox entry is not complete |
| `rows`, `text`, `points` | chunk rows, lexical entries, and points in Qdrant, of each note: none, current or superseded |
| `collection` | the size of the vectors of Qdrant's collection, once it has one |
| `index` | the `QdrantVectorIndex` of each process: the size it has verified (`collectionVectorSize`) and its status |
| `call` | each search or sync: where it is, the size of the vectors it has, its candidates |
| `missed`, `overlapped`, `refused` | history: notes whose last write did not reach Qdrant; notes that two calls wrote at once; writes given up though no request failed, with the reason |

A sync is `StartSync`, `SyncTables`, `RemovePoints`, `Embed`, then, unless the process knows a
collection of that size, `GetCollection` and perhaps `CreateCollection`, `UpsertPoints`, and
`FinishEntry`, which completes the outbox entry or fails it. A search is `StartSearch`,
`SearchText`, the same `Embed` and collection, `SearchPoints`, `Answer`. Every request may fail, and
the answer to a write that took effect may be lost. `Restart` loses what a process knows and its
calls, whose entries stay open.

`StartSync` needs no lock, as the code takes none: a promotion may supersede a note that another
call is still writing, and an open entry may be played again at any time, with the class it
was enqueued with. Two such calls may then end in either order, and the one that ends last decides what the
index holds: a note that is superseded in the vault may stay "current" in Qdrant for good, with no
failure anywhere. That is what the code does (hazards, and section 6). The properties therefore leave out
notes whose writes have overlapped (`overlapped`) until a later call has written them alone; nothing keeps
such a write from happening.

`GetCollection` refuses a collection whose vectors are of another size than the call's
(`RefuseSize`). This needs no misconfiguration: the hash fallback makes vectors of 192 dimensions
when the embedding model does not answer, and whichever size comes first is that of the
collection.

### 2.8 ContextPackets and AgentContext

`Search` fuses the hits, keeps the best (`RankedLimit`) and chooses, flat or by rounds over scopes; `Expand` widens one
candidate at a time by a query of its own, so that `Resync`, a promotion replacing the rows
of a note, may come between; `Assemble` is `enforceContextBudget`, with the limits after `k`
lowerings as a function (`Limits`) and the packet as the first that fits (`BudgetedPacket`);
`Escalate` is the paid model. Texts are lengths in characters.

`AgentContext` archives (`CreateArchive`), searches (`SearchArchives`: `Hits` under two
limits) and assembles a block (`AssembleAgentContext`) of a packet and a recall, each
with its share of the budget, enforced once more at the end (`Enforced`).

## 3. Runs

| Run | Question | Instance | States |
|---|---|---|---|
| `PromotionRecovery` | Do file, row and indexes agree after crashes, errors and replays? Does supersession hold? | one call at a time, two drafts of one scope and two titles, three promotions, chunks and lexical, one crash, one error | 684 000 |
| `PromotionConcurrent` | Does a completed entry mean what it says with two calls in it? | two workers that promote and replay, one draft, generated and colliding paths, one error | 981 000 |
| `PromotionLiveness` | Does every promotion complete? | two workers, replays of one entry each, one crash, one error, no symmetry | 133 000 |
| `PromotionRedraft` | What if a draft is rewritten during its promotion? | two workers, one rewrite, chunks and vector, one crash | 473 000 |
| `PromotionReplayAudit` | Is every completion audited? | violated, see section 6 | |
| `PromotionReplayStale` | Does a superseded note stay superseded? | violated, see section 6 | |
| `CodingTransactions` | Is the workspace transactional, the answer traced and readable, every task answered? | a patching and a reviewing task at once, two files, one repair, one text over budget, one crash, one fault | 280 000 |
| `CodingFailKeepsPatch` | Does a failed task leave the workspace alone? | violated, see section 6 | |
| `CodingRepairDiscarded` | Is only what has failed given up? | violated, see section 6 | |
| `Access` | Who may ask, and what is answered? Five parts, of which one moves | see below | 400 000 |
| `Serving` | Do refresh and retrieval stay right beside promotions, and get where they must? Two modules, of which one moves | see below | 135 000 |
| `RefreshDuplicates` | Does a stale note get one draft at most? | violated, see section 6 | |

`Access` and `Serving` put modules that share no state into one run: a variable `part`, drawn at
the start, says which of them moves, so the state space is the sum of theirs and not the
product. The parts:

| Run | Part | Instance |
|---|---|---|
| `Access` | requests | two containers of one process, two requests that may name a coding task, a validation, an output, a search or the tree; two stores; the connection opened twice |
| | tokens | an API server and a CLI command, three revocations of two tokens, one crash or failed write; the verdicts over eight modes with five registries each, 64 actors (identity, role, source, transport, token), four scopes, four instants |
| | session | sixteen profiles (one sound, the others with one or two things different), seven registry texts, one edit |
| | packets | two notes of three and one chunks in two scopes, all pairs of a few hit lists, budgets from the smallest to ample, both strategies |
| | agent | two sessions of at most two messages, limits absent, zero and small |
| `Serving` | refresh | two notes (one valid until the first day, one valid on the second day only), the file of one of them sound, missing, torn or unfit; two callers, one of which asks on the first day only (`EarlyCaller`); three draft ids, two days, batches of one; one refusal by chance, crash, torn file or draft promoted aside |
| | overlap | one note, two calls of one process at once, one of which may be a search, vectors of one size (`OneSize`), soft failure, one failure or restart |
| | sizes | one note, one call at a time (`OneCall`) of either process, of which one fails hard and the other softly or hard, vectors of two sizes, one open entry, one failure or restart |

### What the properties say

Promotion:

- `CompletedImpliesApplied`: whoever processed it, a completed entry is recorded
  and each of its notes has its row and its file.
- `SettledNotesAgree`: a note no open entry has yet to write is the same in file,
  row, chunks and lexical index. Replay repairs everything. (The vector index is left
  out: the code accepts its losses.)
- `LaterPromotionWins`, `NoLiveTwins`, `SnapshotDescribesCurrent`: what
  supersession, the duplicate check and the snapshot note leave behind, relative to
  what had completed when the later promotion was asked for.
- `TornFileIsReplayable`: a half-written canonical file belongs to an open entry.
  Until it is replayed, every listing of its corpus throws.
- `CompletedIsFinal`: with one call at a time, nothing reopens an entry.
- `PromotedDraftIsCanonical`: a draft reads "promoted" only with published text.
- `ImplementsLog`: `PromotionOutbox` refines `PromotionLog`.
- `EveryPromotionCompletes`: each entry completes for good.

Coding task:

- `ImplementsTransactions`: `CodingTask` refines `WorkspaceTransactions`. `Settled`, the
  files the abstract specification sees, is `base` while a patching runtime is in
  flight and the workspace otherwise: partial application, a failed attempt and
  its rollback are invisible, and the last step of a runtime keeps one patch,
  undoes it, or breaks off.
- `TraceMatchesAnswer`: one "started", at most one end, and the end that is answered.
- `SpilloverReadable`: no row and no answer refers to a text that cannot be read.
- `EveryTaskAnswered`: a hung runtime does not keep its caller waiting.

Access:

- `ConnectionServesItsStores`: no container loses its connection while it is in use, and
  the last one closes it, unless one failed to be built.
- `WaitingIsServed`: no container is disposed while a client waits for what it does.
- `TransportsAgree`: the three tables of failures agree, but for the differences named.
- `RevocationIsDurable`: a revocation answered with success that overlapped no other is
  never lost, whatever happens to later ones. (One that overlapped another may be: a
  hazard, and what the code does.)
- `RevokedIsRefused`: a process refuses what it has answered to be revoked, what its
  environment revokes, and what had been answered before it started.
- `VerdictsAgree`: what inspectToken says of a token is what authorizeOperation does.
- `StartupPredictsVerdict`: a session that serves passed every check, and then its calls
  are authorized as their role allows, if nobody changed the registry behind the check and
  its entry limits nothing else.
- `DirectoriesAreApart`: its directories lie apart, although neither check sees to it alone.
- `PacketWithinBudget`, `BestNoteIsCited`, `FreshnessIsWarned`, `ScopesShareTheRoom`: what a
  packet may cost, whom it cites however it is cut and whatever is replaced meanwhile, whom
  it warns of, and that scopes share the room.
- `TruncationIsReported`, `BlockIsBounded`: a search says exactly when it leaves something out,
  and so does a block, whose shares and length keep to the budget.

Serving:

- `DuplicatesAreFew`: callers that overlap may open a draft each for one note (a finding, section
  6), but however long they go on, there are never more than callers at once.
- `SummaryCountsCandidates`: the counts of the summary are the candidates of a look-up, with
  a note that starts in the future and ends soon counted twice.
- `SupersededIsLeftOut`: a note superseded everywhere when a search began is no candidate,
  although no hit is rechecked against its row. "Everywhere" is what a search could count on: no call and
  no open entry has the note to write, and its last write reached Qdrant and overlapped no other.
- `MissedHasCause`: the three stores say of a note what the vault says, once nothing has it
  to write, unless two calls wrote it at once. It may be that Qdrant does not, but only after a failure or
  a restart, or after an index gave a write up because the collection was there already: made by
  another call meanwhile, or of another size.
- `HardIndexNeedsCollection`: an index without soft failure never makes the collection.
- `StaleNotesAreDrafted`: a note out of its window gets a draft, however many are more urgent.
  What stands in the way is named: its own file is missing or unfit, every note a batch takes is
  such a one (`HeadIsStuck`: nothing moves them from the head of their category), or a file
  that does not parse makes every call throw.
- `DegradationEnds`: a degraded index is well again once Qdrant answers and somebody asks, or it is
  asked with vectors of a size that the collection does not take: then it stays degraded, although
  Qdrant answers every request.

### Bounds and why they are enough

Every bound is a constant: `MaxPromotions`, `MaxRedrafts`, `MaxCrashes`, `MaxFaults`,
`ReplayLimit`; `RepairLimit`, `MaxTexts`, `MaxPatching`, `MaxCrashes`, `MaxFaults`.
Three promotions are the fewest with a note that supersedes one that superseded one;
two titles that share a scope are the fewest where the two criteria of
supersession differ. Two workers are enough for one to act on what the other has
changed. One crash and one error put any single interruption anywhere, and the two
together an interruption of the recovery. `RepairLimit` is 1 because
`bridge.py` says so; two files are the fewest a patch or a rollback can stop between.
Except for these bounds, the theorems of section 5 hold for all values.

In `Access`, three revocations are the fewest where one that overlapped nothing is followed
by two that overlap, and two processes the fewest where one knows less than the other. Two
containers and two requests let one be disposed while the other works. `MaxHandles` = 2
opens the connection once more after it was closed. The budgets of packets reach from one
that cuts the summary itself to one that cuts nothing. In `Serving`, batches of one with two
notes are the fewest where the urgent one can hide the other; on the second day one note
turns from expiring to expired, the other from future-dated to expiring; three draft ids are one more than the two
callers need at once. `MaxIncidents` bounds refusals by chance, so that no model refuses for ever by luck; a note
that is always refused is an unfit one and not bounded. One failure suffices to degrade an
index. Two calls of one process are the fewest that overlap in a note or race for the collection, two
processes the fewest where one lacks what the other knows, two sizes the fewest that differ.

`SettledNotesAgree`, `TornFileIsReplayable` and `CompletedIsFinal` are checked with one
worker, because with two that replay they are false, and the code does not claim otherwise:
two workers in one entry may write its versions of a note in different orders to
file and row, a late error of one marks failed what the other completed, and one
may die in a write after the other has completed. Clients that never replay each have an
entry of their own (the theorems of section 5 cover them), which spares them the last two but not the first: two entries may supersede
the same note, and two clients write the snapshot of one title, where the first may put its own
note back after the second has superseded it, so that `SnapshotDescribesCurrent` fails as well.
`NoLiveTwins` and `LaterPromotionWins` say nothing of promotions that were in flight together;
a worker that falls behind in an entry which a replay completes for it can break both.

`CHECK_DEADLOCK FALSE` is in the coding runs, where the system stops once every task has ended, and in
`Access`, `Serving` and `RefreshDuplicates`, where a session, a process, a packet or the days come
to their end.

## 4. Fairness

*Promotion.* `WF(Step(w))`: a started call goes on, because its awaits are files,
SQLite and HTTP calls that return or throw. No fairness for `PromoteDraft`, `RewriteDraft`,
`Throw` or `Crash`. `SF(StartReplay(w))`: somebody keeps calling
`replayPendingPromotions`, and finds an idle moment. *The running system does not do
this*: the only caller in the repository is
`tests/e2e/service-boundaries-and-regression.test.mjs:264`. The run therefore shows
that replaying is sufficient, not that it happens (a listed hazard).

*Coding.* `WF(HostStep(t))`: timers fire and callbacks run while the host lives; they
are never disabled by the runtime. Nothing is assumed of a runtime: it may hang for
ever, and `EveryTaskAnswered` holds all the same.

*Refresh* (`RefreshFairness`). `WF(RefreshStep(c))`: a call goes on. `SF(RequestBatch(c, DefaultOrder))`:
somebody keeps asking for batches of the default order, as an operator or a schedule does
through the API; the code has no timer of its own. In `MCServing` only `c1` does; the other caller comes and goes. `WF(PromoteRefresh(d))`: the drafts are
reviewed. Both are needed: while its draft stays open, an urgent note takes the batch's place. The replay of a
promotion that tore a file (`ReplayRefresh`) is not fair, as nobody replays (see *Promotion*).

*Retrieval* (`RetrievalFairness`). `WF(RetrievalStep(c))`: models and Qdrant answer. `SF(Asks(p))`:
every process is asked again and again; nothing but requests brings an index back.
Failures, `ModelFails` and `Restart` are bounded and not fair. `MCServing` states the same with
the part that moves and within its bound.

## 5. What is proved

For every value of the constants, under the assumptions named in the modules
(`ConstantsAssumption`: finite or typed parameters, bounds in Nat; `PathsAssumption`: the
staging and the canonical tree are disjoint). TLC evaluates both in every run.

`PromotionOutboxProofs`:

| Theorem | Property |
|---|---|
| `TypeCorrect` | `TypeOK` |
| `CompletedIsApplied` | `CompletedImpliesApplied` |
| `PromotedDraftIsPublished` | `PromotedDraftIsCanonical` |
| `Refinement` | `ImplementsLog` |
| `TornIsReplayable` | `Orderly => (Spec => []TornFileIsReplayable)` |
| `CompletedForGood` | `Orderly => (Spec => CompletedIsFinal)` |
| `LaterWins` | `Orderly => (Spec => []LaterPromotionWins)` |
| `TwinsStayOut` | `Orderly => (Spec => []NoLiveTwins)` |
| `NotesSettle` | `Sequential => (Spec => []SettledNotesAgree)` |
| `SnapshotsDescribe` | `Sequential => (Spec => []SnapshotDescribesCurrent)` |

`TypeOK` is not inductive: that `Writing(w)` is a note needs the call's position to be
within its entry's writes. The invariant is `Shape /\ Progress`. `Shape` adds to the types
what each kind of call holds at each label (`CallOK`), that the vault is finite and that
the writes of an entry include the note it promotes (`OwnNotes`). `Progress` says how far a call has come
(`DoneOK`: the rows and files of every write before its position are there, and at
"record" all are; past "record" the event is too),
that what is recorded is applied, that what is completed or audited is recorded, and
that a promoted draft holds recorded text. The argument rests on one lemma: no step
withdraws a row, an event, an outbox entry, or a file other than into `torn`
(`NothingWithdrawn`); so whatever a second worker does, or a crash or a replay, a
call's own progress stays true (`DoneKept`), and each action has to be looked at for
the call that takes it only.

Four more take the calls to be in order: `Orderly` says that there is at most one worker, which may
crash and be followed by another call, or else that no worker replays, as in the servers of the
repository (section 4). A replay that meets a live call breaks all four
(section 3). Their invariant is `Traced`, which adds to `Shape` and `Progress`:

- `Claims`: nobody works on a completed entry, and a torn canonical file is one of an open entry's.
  With one worker this is `Alone`, where the files that the call has written so far are whole.
  Without replays it is `Apart`, where no two calls have the same entry and nobody is at the one that
  a torn file belongs to: it is dead, and nobody takes it up.
- `Copies`: a copy of a note, in the vault, in the rows, in a payload or in a plan, has the draft
  and the text of its entry and, until it is superseded, its force; no entry writes the note of
  another but to supersede it. Nothing is said of where the copies lie, as a caller may choose the path of
  its note and two notes may then share a file.
- `History`: what was complete when a promotion was asked for is superseded, if it bears the
  same text. If it is on the topic of a current-state promotion, each file that still holds it in
  force is among the places (id and path) the entry has yet to write: all of them while it is queued,
  those `Ahead` of the call that writes it, none once it is completed. `Claims` and `Copies` keep it, as
  together they say that whoever writes the note of a completed entry supersedes it.

The last two are about one worker whose canonical paths are made from ids (`Sequential`:
`OneWorker` and `TargetPaths = {}`), which is what a request without a path gets. A path that another note
holds leaves that note's file overwritten and the entry failing for good, as a listed hazard says. Their
invariant is `Ordered`, which adds to `Shape`, `Progress` and `Alone`:

- `Circulation`: every version of a note in the vault, in the rows or in a payload is that of
  some entry up to its status, or a snapshot; the writes of one entry have different ids, and its
  snapshot comes after its note. Without it a write could change another note than the one it names.
- `Settled`: rows outside the open entries agree with file, chunks and lexical index, and so
  do the writes a call has left behind; its present one agrees as far as its label says. A crash in
  the middle leaves only notes of an entry that is open by `Alone`.
- `Described`: what the snapshot of a title points at is current, or superseded under another
  title, or an open entry is about to write that snapshot again.

`CodingTaskProofs`:

| Theorem | Property |
|---|---|
| `TypeCorrect` | `TypeOK` |
| `TraceIsAnswer` | `TraceMatchesAnswer` |
| `SpilloverIsReadable` | `SpilloverReadable` |
| `WorkspaceIsTransactional` | `MaxPatching = 1 => (Spec => ImplementsTransactions)` |

`Shape` is `TypeOK`, that a call that waits has a runtime which has not been closed (`Calls`), and, for a
runtime that rolls back, that what it has yet to restore is in its snapshot, the file it has
truncated among it, and that another attempt is left if one is to follow. `Books` relates a
call to its trace and its rows. The refinement adds `Phases` (which runtimes are in
flight), `OneAtATime`, and `Patches`, the heart of it: while a patching runtime is in flight, the snapshot it
holds is `base` on its files, unless it has spilled; and the workspace differs from `base` only on
files it is still to restore, where it holds this attempt or is torn, or, once it has spilled,
holds some text of the task's own. So a rollback that ends leaves `base` if the manifest named all
that was changed, one that does not leaves `base` with some of the task's own text, and one that is
cut short may leave a torn file besides.
`Patches` is an invariant only while no other task writes the workspace: hence
`MaxPatching = 1`, which **the code does not enforce**. With two patching tasks in one
workspace the snapshot of one holds what the other is about to undo, or its rollback
erases what the other keeps; no document promises anything for that case, and
it is a listed hazard, not a finding.

The other proof modules:

| Module | Theorem | Property |
|---|---|---|
| `IssuedTokensProofs` | `TokenTypeCorrect` | `TokenTypeOK` |
| | `RevokedForGood` | `RevocationIsDurable` |
| | `ProcessesRefuse` | `RevokedIsRefused` |
| | `VerdictsAlwaysAgree` | `VerdictsAgree` |
| `RequestsProofs` | `RequestTypeCorrect` | `RequestTypeOK` |
| | `ConnectionIsKept` | `ConnectionServesItsStores` |
| | `ClientsAreServed` | `WaitingIsServed` |
| | `TransportsTellFailure` | `TransportsAgree` |
| `SessionStartupProofs` | `SessionTypeCorrect` | `SessionTypeOK` |
| | `DirectoriesStayApart` | `DirectoriesAreApart` |
| | `ChecksPredictVerdicts` | `StartupPredictsVerdict` |
| `ContextProofs` | `PacketTypeCorrect` | `PacketTypeOK` |
| | `PacketsKeepTheBudget` | `PacketWithinBudget` |
| | `TheBestIsCitedFirst` | `BestNoteIsCited` |
| | `WarningsCoverCitations` | `FreshnessIsWarned` |
| | `ScopesTakeTurns` | `ScopesShareTheRoom` |
| | `AgentTypeCorrect` | `AgentTypeOK` |
| | `SearchesTellTruncation` | `TruncationIsReported` |
| | `BlocksAreBounded` | `BlockIsBounded` |
| `ServingProofs` | `RefreshTypeCorrect` | `RefreshTypeOK` |
| | `DuplicatesStayFew` | `DuplicatesAreFew` |
| | `SummaryCounts` | `SummaryCountsCandidates` |
| | `RetrievalTypeCorrect` | `RetrievalTypeOK` |
| | `SupersededStaysOut` | `SupersededIsLeftOut` |
| | `MissingIsExplained` | `MissedHasCause` |
| | `HardNeverCreates` | `HardIndexNeedsCollection` |
| | `ServingTypeCorrect` | `ServingTypeOK` |
| | `ServingIsSafe` | all other invariants of the run `Serving` |
| `AccessProofs` | `AccessTypeCorrect` | `AccessTypeOK` |
| | `AccessIsSafe` | all other invariants of the run `Access` |

The invariants and why they are needed:

- `TokenInv`. That the file keeps an id (`FileKeeps`) survives the next write only because what
  that write holds has the id too (`WritersKeep`); and a writer has it because it read the file
  after the revocation that is kept had ended, as one of the two would be *lapped* otherwise
  (`AloneOrLapped`).
- `RequestInv`. The reference count is `Stores` times the live hosts, at least (`Counted`), so a
  disposal never takes what another holds (`Held`). `OneCommand` says that the answered
  request of a command line is its only one.
- `SessionInv`. What a check found is remembered by its place in the list (`ChecksHeld`), and
  no session is launched before the last (`AllChecked`). `DirectoriesStayApart` then rests on one
  fact about paths: below a mount point other than the root there is no root.
- `PacketInv`. At each label, what was found (`IsFound`), then what a packet costs (`IsPriced`),
  cites (`IsCiting`) and warns of (`IsWarning`). That the best note is cited needs the window to
  start with a chunk of the best candidate's note from the first `Expand` on, whatever
  `Resync` replaces, and every limit of the cut to leave its first place (`LimitsAreNumbers`). The
  price is that some lowering fits: the lowered limits come to an end, and the last
  packet is clipped (`ClippedPackets`). Orders are dealt with by rank, the number of better elements:
  `InOrderIsSorted` shows that what is read off by ranks has each element once, better ones
  first, so that `SelectHierarchical` is a prefix of a ranking by turns
  (`HierarchyIsPrefix`), and a scope that got no turn had nothing left to show (`TurnsAreShared`).
- `AgentInv`. The recall is a search as the two limits allow (`IsTold`), its hits are the
  largest `n` whose prefixes all fit; the block is within its budget, and holds everything
  unless it says that it does not (`IsBlock`), because what the two shares cut is told in either.
- `RefreshInv`. Not the open drafts alone are bounded, but these together with the callers
  that have looked and not yet stored (`RoomForAll`); a caller that looks later joins only
  when it finds no open draft. `WritesItsOwn`: two callers never fill the same file.
- `RetrievalInv`. The safety of a search rests on `StaySettled`: what it took for settled has no call
  and no open entry left that could write it as current, and as nothing follows superseded, none
  can come; this holds of overlapping writes as well, which is why it has to speak of entries and not of
  calls alone. That a search may take a note for settled at all is `Agrees`: the stores of a note at rest
  say what the vault says, or Qdrant missed the last write. `Agrees` is kept by the call that writes the
  note last, of which `Sole` says how far it has come and that its entry is open until it is through; `Alone`
  says that two calls in one note have overlapped, so that all others are alone. `MissedCaused` is why
  a write was missed, `MadeSoftly` that only an index with soft failure goes on to make the
  collection.

Sums and folds in these proofs are recursive functions on finite sets. The principle
of induction cannot be cited, as it takes an operator, but what it is derived from can: a set of
subsets has a smallest one (`SmallestSet`, from the well-founded order of finite sets), so
the smallest subset where a sum is no number leads to a contradiction (`SumsExist`, `SumsAreNumbers`).

Their assumptions are `StoresAssumption` and `HostsAssumption`, `TokenAssumption`,
`RegistryAssumption` (a registry has at most one entry for an actor), `SessionAssumption` (the
default actor has an id; a registry lists an actor once, which the code's map ensures),
`NoteAssumption` and `SizeAssumption` (what is known of a note and the lengths of a packet's
parts have their types), `RecallAssumption`, `RefreshAssumption` and `VectorAssumption`; TLC evaluates them in `Access` and `Serving`.
In `Access` and `Serving` one of the modules moves and the others stay, so that a behaviour of a run is one
of each module with steps that leave it alone (`PartsOfAccess`, `PartsOfServing`); the last four
theorems of the table follow from this and from the others.

Only model-checked: the liveness properties (`EveryPromotionCompletes`, `EveryTaskAnswered`,
`StaleNotesAreDrafted`, `DegradationEnds`), as fairness and what is enabled are out of the prover's
reach.

## 6. Where the code and what is said of it part

1. `PromotionReplayAudit`: a promotion that a replay completes is never audited;
   `documentation/planning/implementation-plan.md:145` says that every meaningful
   action is.
2. `PromotionReplayStale`: the replay of a failed promotion writes its payload as it was
   computed. A note of it that a later promotion has superseded meanwhile comes back
   into force, until the later promotion is replayed, if ever;
   `documentation/planning/read-path-alignment-rfc.md:91-98` allows no such transition.
   (`LaterPromotionWins` holds, because it speaks of notes that were complete when the later
   promotion began.)
3. `CodingFailKeepsPatch`: a patch that passes its validations is kept, but the result
   cannot be serialised, because the validation of the patch carries the snapshot's
   bytes. The caller is told "fail". It follows that no patching task is ever
   answered "success".
4. `CodingRepairDiscarded`: the list of validations is never reset between attempts, so a
   repair that passes is rolled back and reported as failed.
5. `RefreshDuplicates`: two calls that overlap open a draft each for one stale note, as each looks
   for an open draft before the other's file is there; `documentation/planning/current-implementation.md:66`
   says that the same stale note does not spawn duplicate open refresh drafts. `DuplicatesAreFew` is what
   is left of that.

Other differences met while modelling, which no run shows as a violation because the
models simply do what the code does:

- *Vector index.* Without soft failure, Qdrant's answer that there is no collection is thrown,
  so the collection is never made (`HardIndexNeedsCollection`); the startup check nevertheless
  passes on that answer (`docker-mcp-session-startup.ts:428`). A failed request is then counted
  twice. When two calls, of one process or of two, make the collection at once, the write of the one that
  loses is dropped without an error, and the next success clears the status. A collection of another
  size is recorded as a failure each time although Qdrant answers, and what is written meanwhile is dropped.
- *Overlapping writes.* A promotion whose embedding is slow may write a note's points as "current" after
  another has superseded it and is complete. No search rechecks them.
- *Rollback.* What a patch deletes or renames is not restored, and the task is answered as if it had been.
- *Lexical score.* `bm25` is never positive, and `normalizeBm25Score` takes the larger of the
  rank and 0: every lexical hit scores the same. The heuristics then answer any question
  with a lexical hit locally.
- *Packets.* A paid escalation adds to the uncertainties of a packet already cut to its budget,
  and its `tokenEstimate` is not updated; `documentation/planning/current-implementation.md:69` calls
  the budget hard. A packet cut to its summary may cost two tokens more than it reports. With
  `maxSources` 1, the chunk before the best one may be cited in its place (of the same note, which
  is what `BestNoteIsCited` asks).
- *Startup.* The message on mounts speaks of distinct mounts; what is checked is that each
  directory lies below some mount other than the root. The registry check ignores whether the
  entry is enabled, its windows, source and transports, and knows no issued token.
- *Containers.* An API server whose listen fails does not dispose of its container. A second
  signal during a close ends the process through a rejection nobody handles.
- *Revocation.* The applications never write to the SQLite table of revocations.

## 7. What is not modelled

*Of modelled components.* Promotion: refusals that change nothing (role, missing draft,
revision conflict, invalid note), timestamps and error texts, other corpora, the
best-effort regeneration of derived representations, Markdown and path formatting.
Coding: prompts, complexity heuristics, the gates on a patch (a patch passes them or
does not), the memory context of a request, reasons, the audit entry (nobody looks
at what recording it answers), the preview of a spilled text. A symbol is never
sliced in the running system (`escalation_controller.py:454` passes an argument
`extract_function` does not take), and the code after the attempt loop
(`escalation_controller.py:284-300`) is never reached: neither is modelled.

Tokens: the signature and its parsing (a token is accepted or not), the listing of the
ledger. Requests: schemas, parsing and validation of bodies, headers and arguments; what a
handler does inside, which is the other modules' subject. Startup: the health report, which
only reads; the wiring of providers, the defaults of the environment. Refresh: titles,
prompts, hints, audit entries, a canonical file repaired or restored by hand. Retrieval: the classification of a query, tag filters, the
reranking of a model (any answer may come), traces; the counter of consecutive failures. The chunks of a
note move together, as their ids depend on its text only; an entry stands for one of its writes. Packets: how many hits an index returns (any sequence of hits may come); decision summaries. Archives: reading one archive.

*Components.* Prompt construction and model calls: text. Chunking: the splitting of a text.
Context namespace and representations: a read model, regenerated best-effort. Import
jobs: one insert, one read. Note validation: a list of field checks. Model providers: HTTP
calls that return or throw, which every model that awaits one takes as a choice.
Installation and evaluation scripts and tests are not part of the running system.

## 8. Plan

The order was: promotion, the only writer of canonical notes, then the coding task, then who
may ask and what is answered (`Access`), then refresh and retrieval beside promotions
(`Serving`). What is left, in the order of its worth:

1. A composition of `TemporalRefresh` with `PromotionOutbox`, in which a refresh draft is promoted by
   the steps of a promotion rather than by its effect.
2. Context representations, which are regenerated after a promotion and read by the namespace
   service, as one more store that lags behind the rows.
