--------------------------- MODULE TemporalRefresh ---------------------------
(***************************************************************************)
(* Temporal refresh: the notes in force whose validity window is over, has *)
(* not begun or is about to end (SqliteMetadataControlStore), and the      *)
(* drafts TemporalRefreshService opens to renew them, one note at a time   *)
(* or in batches.                                                          *)
(*                                                                         *)
(* A call awaits the canonical file and the listing of the staging vault,  *)
(* the model that writes the draft and the draft's file; an action is what *)
(* it does in between.  A date is a number of days.  Notes are numbered in *)
(* the order of their updated_at.  Titles, prompts, hints, tags and the    *)
(* audit entry of each answer are left out.                                *)
(***************************************************************************)
EXTENDS Integers, Sequences, FiniteSets, FiniteSetsExt

CONSTANTS
  Notes,         \* canonical notes: 1 .. their number
  Window,        \* of each note: [from, until], dates or NoDate
  NoDate,
  Drafts,        \* ids of refresh drafts: 1 .. their number
  Callers,       \* who may have one call under way
  Within,        \* expiringWithinDays
  MaxDrafts, LimitPerCategory,  \* of a batch
  Horizon,       \* bounds: the last day,
  MaxIncidents   \*   and drafts refused by chance, crashes, drafts promoted aside

Date == Nat \cup {NoDate}

ASSUME RefreshAssumption ==
  /\ IsFiniteSet(Notes) /\ Notes \subseteq Nat
  /\ Window \in [Notes -> [from : Date, until : Date]]
  /\ Within \in Nat \ {0} /\ MaxDrafts \in Nat \ {0} /\ LimitPerCategory \in Nat \ {0}
  /\ Horizon \in Nat /\ MaxIncidents \in Nat
  /\ IsFiniteSet(Drafts) /\ Drafts \subseteq Nat /\ IsFiniteSet(Callers)

VARIABLES
  today,
  inForce,   \* the notes whose row is promoted and current
  vault,     \* the canonical file of each note
  draft,     \* the staging file of each draft
  refresh,   \* the call of each caller
  incidents

refreshVars == <<today, inForce, vault, draft, refresh, incidents>>

-----------------------------------------------------------------------------
(* Validity.  The three categories are three queries.                      *)
ValidityStates == {"expired", "future_dated", "expiring_soon"}
DefaultOrder == <<"expired", "future_dated", "expiring_soon">>

ValidFrom(n) == Window[n].from
ValidUntil(n) == Window[n].until

\* Mutant: the last day of a note is over.
Falls_LastDay(n, state, asOf) ==
  CASE state = "expired" -> ValidUntil(n) # NoDate /\ ValidUntil(n) <= asOf
    [] state = "future_dated" -> ValidFrom(n) # NoDate /\ ValidFrom(n) > asOf
    [] state = "expiring_soon" ->
         ValidUntil(n) # NoDate /\ ValidUntil(n) >= asOf /\ ValidUntil(n) <= asOf + Within

\* The clauses of getTemporalValiditySummary and listTemporalValidityCandidates.
Falls(n, state, asOf) ==
  CASE state = "expired" -> ValidUntil(n) # NoDate /\ ValidUntil(n) < asOf
    [] state = "future_dated" -> ValidFrom(n) # NoDate /\ ValidFrom(n) > asOf
    [] state = "expiring_soon" ->
         ValidUntil(n) # NoDate /\ ValidUntil(n) >= asOf /\ ValidUntil(n) <= asOf + Within

Category(state, asOf) == {n \in inForce : Falls(n, state, asOf)}

\* getTemporalValiditySummary
Summary(asOf) == [s \in ValidityStates |-> Cardinality(Category(s, asOf))]

\* The report lists the most urgent notes of a category first, up to the limit.
Listing(state, asOf) ==
  LET date(n) == IF state = "future_dated" THEN ValidFrom(n) ELSE ValidUntil(n)
      all == Category(state, asOf)
      place == [n \in all |-> Cardinality(
                  {m \in all : date(m) < date(n) \/ (date(m) = date(n) /\ m <= n)})] IN
  [i \in 1 .. Min({LimitPerCategory, Cardinality(all)}) |-> CHOOSE n \in all : place[n] = i]

\* deriveTemporalValidityCandidateState, on one row
CandidateState(n, asOf) ==
  IF ValidUntil(n) # NoDate /\ ValidUntil(n) < asOf THEN "expired"
  ELSE IF ValidFrom(n) # NoDate /\ ValidFrom(n) > asOf THEN "future_dated"
  ELSE IF ValidUntil(n) # NoDate /\ ValidUntil(n) >= asOf /\ ValidUntil(n) <= asOf + Within
    THEN "expiring_soon"
  ELSE "none"

\* getTemporalValidityCandidate finds one.
IsCandidate(n, asOf) == n \in inForce /\ CandidateState(n, asOf) # "none"

\* flattenTemporalCandidates, of the categories a batch names, three at most
Flattened(states, asOf) ==
  LET at(i) == IF i \in DOMAIN states THEN Listing(states[i], asOf) ELSE <<>>
  IN at(1) \o at(2) \o at(3)

Selected(states, asOf) ==
  LET all == Flattened(states, asOf) IN
  SubSeq(all, 1, Min({MaxDrafts, Len(all)}))
-----------------------------------------------------------------------------
RefreshCall ==
  [pc : {"idle", "lookup", "find", "compose", "write"},
   todo : Seq(Notes),      \* notes still to do, the one at hand first
   asOf : 0 .. Horizon,
   id : Drafts \cup {0}]
\* A draft is promoting while an entry of the outbox has its source still to write.
Draft == [file : {"none", "empty", "open", "promoting"}, source : Notes \cup {0}]

\* A torn file does not parse; drafts made of an unfit one never validate.
CanonicalFile == {"sound", "missing", "torn", "unfit"}

RefreshTypeOK ==
  /\ today \in 0 .. Horizon /\ inForce \subseteq Notes
  /\ vault \in [Notes -> CanonicalFile]
  /\ draft \in [Drafts -> Draft] /\ refresh \in [Callers -> RefreshCall]
  /\ \A c \in Callers : refresh[c].pc # "idle" => refresh[c].todo # <<>>
  /\ incidents \in 0 .. MaxIncidents

NoDraft == [file |-> "none", source |-> 0]
NoCall == [pc |-> "idle", todo |-> <<>>, asOf |-> 0, id |-> 0]

RefreshInit ==
  /\ today = 0 /\ inForce \in SUBSET Notes
  /\ vault \in [Notes -> CanonicalFile]
  /\ draft = [d \in Drafts |-> NoDraft]
  /\ refresh = [c \in Callers |-> NoCall]
  /\ incidents = 0

\* findExistingRefreshDraft keeps the drafts that supersede the note.
OpenDrafts(n) ==
  {d \in Drafts : draft[d].file \in {"open", "promoting"} /\ draft[d].source = n}

\* A file that is being written, or was when its writer died, does not parse.
Unreadable == \E d \in Drafts : draft[d].file = "empty"

RefreshAt(c, pc) == refresh[c].pc = pc
Torn ==
  \E d \in Drafts : draft[d].file = "empty" /\ \A c \in Callers : refresh[c].id # d
TornNotes == {n \in Notes : vault[n] = "torn"}
Unused == {d \in Drafts : draft[d].file = "none"}
Note(c) == Head(refresh[c].todo)

\* Mutant: a batch goes on when there is no next.
Proceed_Last(c) ==
  refresh' = [refresh EXCEPT ![c] =
    [@ EXCEPT !.pc = "lookup", !.todo = Tail(@), !.id = 0]]

\* The call is done with the note at hand: a batch takes the next.
Proceed(c) ==
  LET now == refresh[c] IN
  refresh' = [refresh EXCEPT ![c] =
    IF Len(now.todo) > 1
    THEN [now EXCEPT !.pc = "lookup", !.todo = Tail(@), !.id = 0]
    ELSE NoCall]

-----------------------------------------------------------------------------
\* createRefreshDraft and createRefreshDraftBatch, by an actor whose role may.  The
\* refusal of a note that is no candidate changes nothing, and is left out.
RequestRefresh(c, n) ==
  /\ RefreshAt(c, "idle") /\ IsCandidate(n, today)
  /\ refresh' = [refresh EXCEPT ![c] =
                   [NoCall EXCEPT !.pc = "lookup", !.todo = <<n>>, !.asOf = today]]
  /\ UNCHANGED <<today, inForce, vault, draft, incidents>>

RequestBatch(c, states) ==
  /\ RefreshAt(c, "idle")
  /\ LET todo == Selected(states, today) IN
       /\ todo # <<>>
       /\ refresh' = [refresh EXCEPT ![c] =
                        [NoCall EXCEPT !.pc = "lookup", !.todo = todo, !.asOf = today]]
  /\ UNCHANGED <<today, inForce, vault, draft, incidents>>

\* Mutant: only a note that has expired is a candidate.
Lookup_Expired(c) ==
  /\ RefreshAt(c, "lookup")
  /\ IF Note(c) \in inForce /\ CandidateState(Note(c), refresh[c].asOf) = "expired"
     THEN refresh' = [refresh EXCEPT ![c].pc = "find"]
     ELSE Proceed(c)
  /\ UNCHANGED <<today, inForce, vault, draft, incidents>>

\* getTemporalValidityCandidate, for the day the call began on.
Lookup(c) ==
  /\ RefreshAt(c, "lookup")
  /\ IF IsCandidate(Note(c), refresh[c].asOf)
     THEN refresh' = [refresh EXCEPT ![c].pc = "find"]
     ELSE Proceed(c)
  /\ UNCHANGED <<today, inForce, vault, draft, incidents>>

\* Mutant: the drafts there are do not count.
FindDraft_Blind(c) ==
  /\ RefreshAt(c, "find")
  /\ \/ /\ vault[Note(c)] = "missing"
        /\ Proceed(c)
     \/ /\ vault[Note(c)] = "torn" \/ (vault[Note(c)] # "missing" /\ Unreadable)
        /\ refresh' = [refresh EXCEPT ![c] = NoCall]
     \/ /\ vault[Note(c)] \in {"sound", "unfit"} /\ ~Unreadable
        /\ refresh' = [refresh EXCEPT ![c].pc = "compose"]
  /\ UNCHANGED <<today, inForce, vault, draft, incidents>>

\* The canonical note is read: one that is not found is passed over.  Then the drafts
\* of its corpus are: there is one already, or it is to be written.  A file that does
\* not parse makes the call throw, a batch with what it has done.
FindDraft(c) ==
  /\ RefreshAt(c, "find")
  /\ \/ /\ vault[Note(c)] = "missing"
        /\ Proceed(c)
     \/ /\ vault[Note(c)] = "torn" \/ (vault[Note(c)] # "missing" /\ Unreadable)
        /\ refresh' = [refresh EXCEPT ![c] = NoCall]
     \/ /\ vault[Note(c)] \in {"sound", "unfit"} /\ ~Unreadable
        /\ IF OpenDrafts(Note(c)) # {} THEN Proceed(c)
           ELSE refresh' = [refresh EXCEPT ![c].pc = "compose"]
  /\ UNCHANGED <<today, inForce, vault, draft, incidents>>

\* The model answers, or a fallback stands in; the file is opened.  A draft that
\* does not validate is refused: always, of an unfit note, or once in a while.
Compose(c) ==
  /\ RefreshAt(c, "compose")
  /\ \/ \E d \in Unused :
          /\ vault[Note(c)] # "unfit" /\ \A e \in Unused : d <= e
          /\ draft' = [draft EXCEPT ![d] = [file |-> "empty", source |-> Note(c)]]
          /\ refresh' = [refresh EXCEPT ![c].pc = "write", ![c].id = d]
          /\ UNCHANGED incidents
     \/ /\ IF vault[Note(c)] = "unfit" THEN UNCHANGED incidents
           ELSE incidents < MaxIncidents /\ incidents' = incidents + 1
        /\ Proceed(c)
        /\ UNCHANGED draft
  /\ UNCHANGED <<today, inForce, vault>>

\* The file is there, then the row; or the row fails and the file stays.
StoreDraft(c) ==
  /\ RefreshAt(c, "write")
  /\ draft' = [draft EXCEPT ![refresh[c].id].file = "open"]
  /\ Proceed(c)
  /\ UNCHANGED <<today, inForce, vault, incidents>>

\* The process dies with the calls it runs.
RefreshCrash(c) ==
  /\ ~RefreshAt(c, "idle") /\ incidents < MaxIncidents
  /\ incidents' = incidents + 1
  /\ refresh' = [refresh EXCEPT ![c] = NoCall]
  /\ UNCHANGED <<today, inForce, vault, draft>>

\* promoteDraft, of PromotionOutbox: with the draft as the current note of its
\* topic, which supersedes the source, or aside of it.  The former lists the canonical
\* files, and throws if one does not parse.  Its id is used again.
PromoteRefresh(d) ==
  /\ draft[d].file = "open" /\ TornNotes = {}
  /\ draft' = [draft EXCEPT ![d] = NoDraft]
  /\ inForce' = inForce \ {draft[d].source}
  /\ UNCHANGED <<today, vault, refresh, incidents>>

PromoteAside(d) ==
  /\ draft[d].file = "open" /\ incidents < MaxIncidents
  /\ incidents' = incidents + 1
  /\ draft' = [draft EXCEPT ![d] = NoDraft]
  /\ UNCHANGED <<today, inForce, vault, refresh>>

\* The process dies as it writes the superseded source, until the entry is replayed.
TearSource(d) ==
  /\ draft[d].file = "open" /\ TornNotes = {} /\ draft[d].source \in inForce
  /\ incidents < MaxIncidents /\ incidents' = incidents + 1
  /\ draft' = [draft EXCEPT ![d].file = "promoting"]
  /\ vault' = [vault EXCEPT ![draft[d].source] = "torn"]
  /\ UNCHANGED <<today, inForce, refresh>>

ReplayRefresh(d) ==
  /\ draft[d].file = "promoting"
  /\ draft' = [draft EXCEPT ![d] = NoDraft]
  /\ vault' = [vault EXCEPT ![draft[d].source] = "sound"]
  /\ inForce' = inForce \ {draft[d].source}
  /\ UNCHANGED <<today, refresh, incidents>>

NextDay ==
  /\ today < Horizon /\ today' = today + 1
  /\ UNCHANGED <<inForce, vault, draft, refresh, incidents>>

RefreshStep(c) == Lookup(c) \/ FindDraft(c) \/ Compose(c) \/ StoreDraft(c)

RefreshNext ==
  \/ \E c \in Callers :
       \/ \E n \in Notes : RequestRefresh(c, n)
       \/ \E states \in {DefaultOrder, <<"expiring_soon">>} : RequestBatch(c, states)
       \/ RefreshStep(c) \/ RefreshCrash(c)
  \/ \E d \in Drafts :
       PromoteRefresh(d) \/ PromoteAside(d) \/ TearSource(d) \/ ReplayRefresh(d)
  \/ NextDay

\* A call goes on; somebody keeps asking for batches, and the drafts they open
\* are reviewed and promoted.
RefreshFairness ==
  /\ \A c \in Callers :
       /\ WF_refreshVars(RefreshStep(c))
       /\ SF_refreshVars(RequestBatch(c, DefaultOrder))
  /\ \A d \in Drafts : WF_refreshVars(PromoteRefresh(d))

RefreshSpec == RefreshInit /\ [][RefreshNext]_refreshVars /\ RefreshFairness

-----------------------------------------------------------------------------
\* The same stale note does not get two open refresh drafts, as
\* current-implementation.md promises.  Calls that overlap break it.
NoDuplicateDrafts == \A n \in Notes : Cardinality(OpenDrafts(n)) <= 1

\* What is left of it: however long callers go on, a note never has more open drafts
\* than there are callers at once, as whoever looks later finds those that are there.
DuplicatesAreFew ==
  \A n \in Notes : Cardinality(OpenDrafts(n)) <= Cardinality(Callers)

\* The three counts of the summary, from which the health check warns, add up to
\* the notes there are to refresh, with those that start in the future and are
\* over or end soon counted twice: it warns if and only if a batch finds something.
SummaryCountsCandidates ==
  \A asOf \in 0 .. today :
    LET counts == Summary(asOf)
        sum == counts["expired"] + counts["future_dated"] + counts["expiring_soon"]
        twice == Category("future_dated", asOf)
                   \cap (Category("expired", asOf) \cup Category("expiring_soon", asOf)) IN
    /\ sum = Cardinality({n \in Notes : IsCandidate(n, asOf)}) + Cardinality(twice)
    /\ sum = 0 <=> Selected(DefaultOrder, asOf) = <<>>

\* Candidates that every batch passes over, and a batch that finds no others: such
\* notes stay candidates, and hold the head of their category for good.
PassedOver == {n \in inForce : vault[n] \in {"missing", "unfit"}}
HeadIsStuck == Range(Selected(DefaultOrder, today)) \subseteq PassedOver

\* A note that is out of its window gets a draft, or is superseded, however many
\* are more urgent, as long as drafts are promoted; unless the date makes it valid
\* again, its own file is missing or unfit, batches find none but such notes, or a
\* draft's or a note's file that does not parse stands in the way of every call.
StaleNotesAreDrafted ==
  \A n \in Notes : IsCandidate(n, today) ~>
    \/ OpenDrafts(n) # {} \/ ~IsCandidate(n, today)
    \/ n \in PassedOver \/ HeadIsStuck
    \/ Torn \/ TornNotes # {}
=============================================================================
