------------------------------ MODULE Retrieval ------------------------------
(***************************************************************************)
(* Searches beside promotions: RetrieveContextService and its hierarchical *)
(* twin, which ask the lexical index (SqliteFtsIndex) and the vector index *)
(* (QdrantVectorIndex) and keep of their hits what the chunk rows still    *)
(* hold, while syncChunkState writes a note into the same three stores.    *)
(*                                                                         *)
(* SQLite answers at once; models and Qdrant are awaited, so an action is  *)
(* what a call does up to its next request to one of them.  Each process   *)
(* has its own QdrantVectorIndex, which remembers the size of the          *)
(* collection's vectors and how its last request went.  Nothing locks a    *)
(* note: promotions and replays that write it may overlap.  An outbox      *)
(* entry stands for its write of one note; the chunks of a note, whose ids *)
(* depend on its text only, move together and stand as the note.  Scores   *)
(* and budgets are left to ContextPackets, the durability of promotions to *)
(* PromotionOutbox; audit entries and wording are left out.                *)
(***************************************************************************)
EXTENDS Naturals, FiniteSets

CONSTANTS
  Served,           \* canonical notes
  Hosting,          \* processes with a container of their own
  Calls,            \* searches and syncs that may be under way at once
  Sizes,            \* of the vectors of the embedding models and the fallback
  None,
  MaxVectorFaults   \* bound: requests that fail, models that throw, restarts

ASSUME VectorAssumption == MaxVectorFaults \in Nat /\ None \notin Sizes

VARIABLES
  soft,       \* qdrantSoftFail of each process
  want,       \* what the vault says of each note
  rows, text, \* the chunk rows and the lexical index
  points,     \* the points of each note in Qdrant ...
  collection, \* ... and the size of the collection's vectors, if it has one
  index,      \* the QdrantVectorIndex of each process
  call,
  open,       \* the writes whose outbox entry is not complete
  missed,     \* history: notes whose last write did not reach Qdrant,
  overlapped, \*   notes that two calls have been writing at once, and
  refused,    \*   why writes were given up with no request failing
  vectorFaults

retrievalVars ==
  <<soft, want, rows, text, points, collection, index, call, open, missed, overlapped,
    refused, vectorFaults>>
stores == <<rows, text, points, collection>>
histories == <<missed, overlapped, refused>>
-----------------------------------------------------------------------------
Presence == {"none", "current", "superseded"}
Index == [size : Sizes \cup {None}, status : {"healthy", "degraded"}]
Call ==
  [pc : {"idle", "classify", "tables", "remove", "embed", "get", "create", "points", "rank",
         "finish"},
   kind : {"sync", "search"},
   by : Hosting \cup {None},       \* the process it runs in
   note : SUBSET Served,           \* what a sync writes
   class : Presence,
   size : Sizes \cup {None},       \* of the vectors it has
   all : BOOLEAN,                  \* includeSuperseded
   lexical : SUBSET Served, vector : SUBSET Served,  \* candidates
   settled : SUBSET Served]        \* history: superseded for good when the search began

RetrievalTypeOK ==
  /\ soft \in [Hosting -> BOOLEAN]
  /\ want \in [Served -> Presence] /\ rows \in [Served -> Presence]
  /\ text \in [Served -> Presence] /\ points \in [Served -> Presence]
  /\ collection \in Sizes \cup {None}
  /\ index \in [Hosting -> Index] /\ call \in [Calls -> Call]
  /\ open \subseteq Served \X Presence
  /\ missed \subseteq Served /\ overlapped \subseteq Served
  /\ refused \subseteq {"exists", "size"}
  /\ vectorFaults \in 0 .. MaxVectorFaults

NewIndex == [size |-> None, status |-> "healthy"]
NoCallYet ==
  [pc |-> "idle", kind |-> "search", by |-> None, note |-> {}, class |-> "none",
   size |-> None, all |-> FALSE, lexical |-> {}, vector |-> {}, settled |-> {}]

RetrievalInit ==
  /\ soft \in [Hosting -> BOOLEAN]
  /\ want = [n \in Served |-> "none"]
  /\ rows = want /\ text = want /\ points = want
  /\ collection = None
  /\ index = [p \in Hosting |-> NewIndex]
  /\ call = [c \in Calls |-> NoCallYet]
  /\ open = {} /\ missed = {} /\ overlapped = {} /\ refused = {} /\ vectorFaults = 0

By(c) == call[c].by
CallAt(c, pc) == call[c].pc = pc
Free(c) == CallAt(c, "idle")
IsSearch(c) == call[c].kind = "search"
Syncing(n) == \E c \in Calls : n \in call[c].note
Writes(c) == call[c].note \X {call[c].class}
Ends(c) == call' = [call EXCEPT ![c] = NoCallYet]
Go(c, pc) == call' = [call EXCEPT ![c].pc = pc]

\* No call is writing the note, and no entry has it still to write.
AtRest(n) == ~Syncing(n) /\ \A k \in Presence : <<n, k>> \notin open

\* Mutant: an index that has failed stays degraded.
Succeeds_Sticky(c) == UNCHANGED index

\* recordSuccess and recordFailure
Succeeds(c) == index' = [index EXCEPT ![By(c)].status = "healthy"]
Fails(c) == index' = [index EXCEPT ![By(c)].status = "degraded"]

\* ensureCollection has found or made a collection of the call's size.
Remembers(c) ==
  index' = [index EXCEPT ![By(c)] = [size |-> call[c].size, status |-> "healthy"]]

Fault == vectorFaults < MaxVectorFaults /\ vectorFaults' = vectorFaults + 1

\* The call throws: a search is answered retrieval_failed, the entry of a promotion
\* is marked failed, also when another worker has completed it.
Throw(c) ==
  /\ Ends(c)
  /\ open' = open \cup Writes(c)

\* What a request that has not succeeded does to the call, without and with soft
\* failure.
Unanswered(c, onward) == IF soft[By(c)] THEN onward ELSE Throw(c) /\ UNCHANGED missed

\* The vector index is passed over: a sync ends without it, a search has no
\* candidates from it.
Unwritten(c) == Go(c, "finish") /\ missed' = missed \cup call[c].note /\ UNCHANGED open
PassOver(c) ==
  IF IsSearch(c) THEN Go(c, "rank") /\ UNCHANGED <<open, missed>> ELSE Unwritten(c)
GiveUp(c, why) ==
  /\ PassOver(c)
  /\ refused' = IF IsSearch(c) THEN refused ELSE refused \cup {why}

\* Mutant: the class in the payload is not compared.
Visible_AnyClass(c, present) == present # "none"

Visible(c, present) == present = "current" \/ (call[c].all /\ present = "superseded")

-----------------------------------------------------------------------------
\* A promotion publishes a note, or supersedes one whose file it has listed, or an
\* entry that is not complete is played again.  The file is written, and
\* syncChunkState begins.
StartSync(c, p, n, class) ==
  /\ Free(c)
  /\ \/ class = "current" /\ want[n] = "none"
     \/ class = "superseded" /\ want[n] # "none"
     \/ <<n, class>> \in open
  /\ want' = [want EXCEPT ![n] = class]
  /\ open' = open \cup {<<n, class>>}
  /\ overlapped' = IF Syncing(n) THEN overlapped \cup {n} ELSE overlapped \ {n}
  /\ call' = [call EXCEPT ![c] = [NoCallYet EXCEPT !.pc = "tables", !.kind = "sync", !.by = p,
                                    !.note = {n}, !.class = class]]
  /\ UNCHANGED <<soft, stores, index, missed, refused, vectorFaults>>

\* The rows and the lexical entries of the note are replaced.
SyncTables(c) ==
  /\ CallAt(c, "tables")
  /\ rows' = [n \in Served |-> IF n \in call[c].note THEN call[c].class ELSE rows[n]]
  /\ text' = [n \in Served |-> IF n \in call[c].note THEN call[c].class ELSE text[n]]
  /\ Go(c, "remove")
  /\ UNCHANGED <<soft, want, points, collection, index, open, histories, vectorFaults>>

\* removeByNoteId.  Qdrant refuses what is asked of a collection it has not got.
RemovePoints(c) ==
  /\ CallAt(c, "remove")
  /\ \/ /\ collection # None
        /\ points' = [n \in Served |-> IF n \in call[c].note THEN "none" ELSE points[n]]
        /\ Succeeds(c) /\ Go(c, "embed")
        /\ UNCHANGED <<open, missed, vectorFaults>>
     \/ /\ IF collection # None THEN Fault ELSE UNCHANGED vectorFaults
        /\ Fails(c) /\ Unanswered(c, Go(c, "embed") /\ UNCHANGED <<open, missed>>)
        /\ UNCHANGED points
  /\ UNCHANGED <<soft, want, rows, text, collection, overlapped, refused>>

-----------------------------------------------------------------------------
\* retrieveContext, up to its first model.
StartSearch(c, p, all) ==
  /\ Free(c)
  /\ call' = [call EXCEPT ![c] = [NoCallYet EXCEPT
       !.pc = "classify", !.by = p, !.all = all,
       !.settled = {n \in Served : /\ want[n] = "superseded" /\ AtRest(n)
                                   /\ n \notin missed \cup overlapped}]]
  /\ UNCHANGED <<soft, want, stores, index, open, histories, vectorFaults>>

\* The intent is known: the lexical hits that have a row, then the query goes to
\* the embedding model.
SearchText(c) ==
  /\ CallAt(c, "classify")
  /\ call' = [call EXCEPT ![c].pc = "embed",
                          ![c].lexical = {n \in Served : Visible(c, text[n]) /\ rows[n] # "none"}]
  /\ UNCHANGED <<soft, want, stores, index, open, histories, vectorFaults>>

\* A query, or the chunks of a note, have their vectors, of the model or of the
\* fallback that stands in for it.
Embed(c) ==
  /\ CallAt(c, "embed")
  /\ \E s \in Sizes :
       call' = [call EXCEPT ![c].size = s,
                            ![c].pc = IF index[By(c)].size = s THEN "points" ELSE "get"]
  /\ UNCHANGED <<soft, want, stores, index, open, histories, vectorFaults>>

\* The model of a step throws, and no fallback stands in.
ModelFails(c) ==
  /\ call[c].pc \in {"classify", "embed", "rank"}
  /\ Fault /\ Throw(c)
  /\ UNCHANGED <<soft, want, stores, index, histories>>

\* The collection has vectors of another size: recorded as a failure although
\* Qdrant answered, or thrown.
RefuseSize(c) ==
  IF soft[By(c)] THEN Fails(c) /\ GiveUp(c, "size")
  ELSE Succeeds(c) /\ Throw(c) /\ UNCHANGED <<missed, refused>>

\* Mutant: an index without soft failure takes the missing collection for an answer.
GetCollection_NotFound(c) ==
  /\ CallAt(c, "get")
  /\ \/ /\ collection = call[c].size
        /\ Remembers(c) /\ Go(c, "points")
        /\ UNCHANGED <<open, missed, refused, vectorFaults>>
     \/ /\ collection \notin {None, call[c].size}
        /\ RefuseSize(c) /\ UNCHANGED vectorFaults
     \/ /\ collection = None /\ Fails(c) /\ Go(c, "create")
        /\ UNCHANGED <<open, missed, refused, vectorFaults>>
     \/ /\ collection # None /\ Fault /\ Fails(c)
        /\ Unanswered(c, Go(c, "create") /\ UNCHANGED <<open, missed>>)
        /\ UNCHANGED refused
  /\ UNCHANGED <<soft, want, stores, overlapped>>

\* ensureCollection asks for the collection, and goes on to make it only if a
\* failure is soft.
GetCollection(c) ==
  /\ CallAt(c, "get")
  /\ \/ /\ collection = call[c].size
        /\ Remembers(c) /\ Go(c, "points")
        /\ UNCHANGED <<open, missed, refused, vectorFaults>>
     \/ /\ collection \notin {None, call[c].size}
        /\ RefuseSize(c) /\ UNCHANGED vectorFaults
     \/ /\ IF collection # None THEN Fault ELSE UNCHANGED vectorFaults
        /\ Fails(c) /\ Unanswered(c, Go(c, "create") /\ UNCHANGED <<open, missed>>)
        /\ UNCHANGED refused
  /\ UNCHANGED <<soft, want, stores, overlapped>>

\* Qdrant makes no collection twice.
CreateCollection(c) ==
  /\ CallAt(c, "create")
  /\ \/ /\ collection = None /\ collection' = call[c].size
        /\ Remembers(c) /\ Go(c, "points")
        /\ UNCHANGED <<open, missed, refused, vectorFaults>>
     \/ /\ collection # None
        /\ Fails(c) /\ GiveUp(c, "exists")
        /\ UNCHANGED <<collection, vectorFaults>>
     \/ /\ collection = None /\ Fault
        /\ Fails(c) /\ PassOver(c)
        /\ UNCHANGED <<collection, refused>>
  /\ UNCHANGED <<soft, want, rows, text, points, overlapped>>

\* The vector hits that have a row.
SearchPoints(c) ==
  /\ CallAt(c, "points") /\ IsSearch(c)
  /\ \/ /\ call' = [call EXCEPT ![c].pc = "rank",
              ![c].vector = {n \in Served : Visible(c, points[n]) /\ rows[n] # "none"}]
        /\ Succeeds(c) /\ UNCHANGED <<open, missed, vectorFaults>>
     \/ Fault /\ Fails(c) /\ Unanswered(c, Go(c, "rank") /\ UNCHANGED <<open, missed>>)
  /\ UNCHANGED <<soft, want, stores, overlapped, refused>>

\* Mutant: points are written before the collection is known.
UpsertPoints_Unensured(c) ==
  /\ call[c].pc \in {"get", "points"} /\ ~IsSearch(c)
  /\ \/ /\ collection # None
        /\ points' = [n \in Served |-> IF n \in call[c].note THEN call[c].class ELSE points[n]]
        /\ missed' = missed \ call[c].note
        /\ Succeeds(c) /\ Go(c, "finish") /\ UNCHANGED <<open, vectorFaults>>
     \/ /\ IF collection # None THEN Fault ELSE UNCHANGED vectorFaults
        /\ Fails(c) /\ Unanswered(c, Unwritten(c)) /\ UNCHANGED points
  /\ UNCHANGED <<soft, want, rows, text, collection, overlapped, refused>>

\* upsertEmbeddings; the answer of a write that took effect may be lost as well.
UpsertPoints(c) ==
  /\ CallAt(c, "points") /\ ~IsSearch(c)
  /\ LET written == [n \in Served |-> IF n \in call[c].note THEN call[c].class ELSE points[n]] IN
     \/ /\ points' = written
        /\ missed' = missed \ call[c].note
        /\ Succeeds(c) /\ Go(c, "finish") /\ UNCHANGED <<open, vectorFaults>>
     \/ /\ points' \in {points, written}
        /\ Fault /\ Fails(c) /\ Unanswered(c, Unwritten(c))
  /\ UNCHANGED <<soft, want, rows, text, collection, overlapped, refused>>

\* The rest of the entry is worked off, and the entry is complete or failed.
FinishEntry(c) ==
  /\ CallAt(c, "finish")
  /\ Ends(c)
  /\ open' \in {open \ Writes(c), open \cup Writes(c)}
  /\ UNCHANGED <<soft, want, stores, index, histories, vectorFaults>>

\* Fusion, reranking, the judgement of the model, and a packet of some of the
\* candidates.
Answer(c) ==
  /\ CallAt(c, "rank")
  /\ Ends(c)
  /\ UNCHANGED <<soft, want, stores, index, open, histories, vectorFaults>>

\* A process ends and starts again, with an index that knows nothing.
Restart(p) ==
  /\ Fault
  /\ call' = [c \in Calls |-> IF By(c) = p THEN NoCallYet ELSE call[c]]
  /\ index' = [index EXCEPT ![p] = NewIndex]
  /\ UNCHANGED <<soft, want, stores, open, histories>>

RetrievalStep(c) ==
  \/ SyncTables(c) \/ RemovePoints(c) \/ SearchText(c) \/ Embed(c) \/ GetCollection(c)
  \/ CreateCollection(c) \/ SearchPoints(c) \/ UpsertPoints(c) \/ FinishEntry(c) \/ Answer(c)

Asks(p) == \E c \in Calls, all \in BOOLEAN : StartSearch(c, p, all)

RetrievalNext ==
  \/ \E c \in Calls : RetrievalStep(c) \/ ModelFails(c)
  \/ \E c \in Calls, p \in Hosting, n \in Served, class \in {"current", "superseded"} :
       StartSync(c, p, n, class)
  \/ \E p \in Hosting : Asks(p) \/ Restart(p)

\* Qdrant and the models answer, and somebody keeps asking every process.
RetrievalFairness ==
  /\ \A c \in Calls : WF_retrievalVars(RetrievalStep(c))
  /\ \A p \in Hosting : SF_retrievalVars(Asks(p))

RetrievalSpec == RetrievalInit /\ [][RetrievalNext]_retrievalVars /\ RetrievalFairness

-----------------------------------------------------------------------------
\* Nothing rechecks the class of a vector hit against its row.  Still, a note that
\* was superseded in all stores when the search began is a candidate only of who
\* asked for superseded notes.
SupersededIsLeftOut ==
  \A c \in Calls :
    ~call[c].all => (call[c].lexical \cup call[c].vector) \cap call[c].settled = {}

\* The rows, the lexical index and Qdrant say what the vault says of a note that no
\* call and no open entry has to write, unless two calls wrote it at once.  Qdrant may
\* lack it, or have its old class, but only after a request failed or an index refused
\* a collection that was there: the first promotion after an installation is not lost.
MissedHasCause ==
  \A n \in Served :
    (AtRest(n) /\ n \notin overlapped) =>
      /\ rows[n] = want[n] /\ text[n] = want[n]
      /\ points[n] # want[n] => vectorFaults > 0 \/ refused # {}

\* An index without soft failure never makes the collection: until a process with
\* soft failure has, the answer that there is none is an exception to it.
HardIndexNeedsCollection == collection # None => \E p \in Hosting : soft[p]

\* An index that has failed is well again as soon as it is asked, once Qdrant
\* answers, or else it is asked with vectors that the collection does not take;
\* without soft failure, only where there is a collection.
DegradationEnds ==
  \A p \in Hosting :
    index[p].status = "degraded" /\ (soft[p] \/ collection # None)
      ~> \/ index[p].status = "healthy"
         \/ \E c \in Calls : /\ By(c) = p
                             /\ collection # None /\ call[c].size \notin {None, collection}
=============================================================================
