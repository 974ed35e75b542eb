----------------------------- MODULE ServingProofs -----------------------------
(***************************************************************************)
(* Theorems about TemporalRefresh and Retrieval, for any notes, windows,   *)
(* drafts, processes, calls and faults, and about the two side by side.    *)
(*                                                                         *)
(* Of a refresh: types, how many drafts a note may have open, and what the *)
(* summary counts.  Of retrieval: types, what of a superseded note a       *)
(* search may find, and what keeps the vector index from having what was   *)
(* promoted.                                                               *)
(***************************************************************************)
EXTENDS MCServing, FiniteSetTheorems, SequenceTheorems, TLAPS

-----------------------------------------------------------------------------
(* The refresh of notes whose windows end.                                   *)

\* The calls that found no draft for a note and have not stored theirs.
Renewing(n) ==
  {c \in Callers : (RefreshAt(c, "compose") \/ RefreshAt(c, "write")) /\ Note(c) = n}

\* A call may yet store each of the drafts that are missing to the bound.
RoomForAll ==
  \A n \in Notes : Cardinality(OpenDrafts(n)) + Cardinality(Renewing(n)) <= Cardinality(Callers)

\* A call writes an empty file of its own, for the note at hand.
WritesItsOwn ==
  \A c \in Callers : RefreshAt(c, "write") =>
    LET d == refresh[c].id IN
    /\ d \in Drafts /\ draft[d].file = "empty" /\ draft[d].source = Note(c)
    /\ \A e \in Callers \ {c} : RefreshAt(e, "write") => refresh[e].id # d

RefreshInv == RefreshTypeOK /\ RoomForAll /\ WritesItsOwn

-----------------------------------------------------------------------------
(* The selection of a batch is a sequence of notes: the places of the notes *)
(* of a category are the numbers up to its size.                           *)

LEMMA MinIsLeast ==
  ASSUME NEW a \in Nat, NEW b \in Nat
  PROVE  Min({a, b}) \in Nat /\ Min({a, b}) <= a /\ Min({a, b}) <= b
<1>1. \E x \in {a, b} : \A y \in {a, b} : x =< y
  OBVIOUS
<1> QED
  BY <1>1 DEF Min

LEMMA PlacesAreFilled ==
  ASSUME NEW S \in SUBSET Nat, IsFiniteSet(S), NEW date \in [S -> Nat],
         NEW i \in 1 .. Cardinality(S)
  PROVE  \E n \in S : i = Cardinality(
           {m \in S : date[m] < date[n] \/ (date[m] = date[n] /\ m <= n)})
<1> DEFINE upTo(n) == {m \in S : date[m] < date[n] \/ (date[m] = date[n] /\ m <= n)}
           place == [n \in S |-> Cardinality(upTo(n))]
<1>1. \A n \in S : IsFiniteSet(upTo(n)) /\ place[n] \in 1 .. Cardinality(S)
  <2> SUFFICES ASSUME NEW n \in S
               PROVE  IsFiniteSet(upTo(n)) /\ Cardinality(upTo(n)) \in 1 .. Cardinality(S)
    OBVIOUS
  <2>1. IsFiniteSet(upTo(n)) /\ Cardinality(upTo(n)) <= Cardinality(S)
    BY FS_Subset
  <2>2. n \in upTo(n)
    OBVIOUS
  <2>3. Cardinality(upTo(n)) \in Nat /\ Cardinality(upTo(n)) # 0
    BY <2>1, <2>2, FS_CardinalityType, FS_EmptySet
  <2>4. Cardinality(S) \in Nat
    BY FS_CardinalityType
  <2> HIDE DEF upTo
  <2> QED
    BY <2>1, <2>3, <2>4
<1>2. \A m, n \in S : m # n => place[m] # place[n]
  <2>1. ASSUME NEW m \in S, NEW n \in S, m # n,
               date[m] < date[n] \/ (date[m] = date[n] /\ m <= n)
        PROVE  place[m] # place[n]
    <3>1. upTo(m) \subseteq upTo(n) /\ n \in upTo(n) /\ n \notin upTo(m)
      <4>1. \A l \in S : l \in Nat /\ date[l] \in Nat
        OBVIOUS
      <4>2. ASSUME NEW l \in upTo(m) PROVE l \in upTo(n)
        BY <2>1, <4>1
      <4>3. n \in upTo(n)
        BY <4>1
      <4>4. n \notin upTo(m)
        BY <2>1, <4>1
      <4> HIDE DEF upTo
      <4> QED
        BY <4>2, <4>3, <4>4
    <3>2. Cardinality(upTo(m)) # Cardinality(upTo(n))
      BY <1>1, <3>1, FS_Subset
    <3> QED
      BY <3>2
  <2> QED
    BY <2>1
<1>3. place \in Injection(S, 1 .. Cardinality(S))
  BY <1>1, <1>2 DEF Injection, IsInjective
<1>4. IsFiniteSet(1 .. Cardinality(S)) /\ Cardinality(1 .. Cardinality(S)) = Cardinality(S)
  BY FS_CardinalityType, FS_Interval
<1>5. place \in Surjection(S, 1 .. Cardinality(S))
  BY <1>3, <1>4, FS_Injection
<1> HIDE DEF place
<1>6. \E n \in S : place[n] = i
  BY <1>5 DEF Surjection
<1> QED
  BY <1>6 DEF place

LEMMA CategoryHasDates ==
  ASSUME NEW state \in ValidityStates, NEW asOf \in Nat, inForce \subseteq Notes
  PROVE  /\ Category(state, asOf) \subseteq Notes /\ IsFiniteSet(Category(state, asOf))
         /\ \A n \in Category(state, asOf) :
              IF state = "future_dated" THEN ValidFrom(n) \in Nat ELSE ValidUntil(n) \in Nat
<1>1. Category(state, asOf) \subseteq Notes
  BY DEF Category
<1>2. IsFiniteSet(Category(state, asOf))
  BY <1>1, RefreshAssumption, FS_Subset
<1>3. \A n \in Notes : ValidFrom(n) \in Date /\ ValidUntil(n) \in Date
  BY RefreshAssumption DEF ValidFrom, ValidUntil
<1>4. ASSUME NEW n \in Notes, Falls(n, state, asOf)
      PROVE  IF state = "future_dated" THEN ValidFrom(n) \in Nat ELSE ValidUntil(n) \in Nat
  BY <1>3, <1>4 DEF Date, Falls, ValidityStates
<1> QED
  BY <1>1, <1>2, <1>4 DEF Category

LEMMA ListingIsOfNotes ==
  ASSUME NEW state \in ValidityStates, NEW asOf \in Nat, inForce \subseteq Notes
  PROVE  Listing(state, asOf) \in Seq(Notes)
<1> DEFINE date(n) == IF state = "future_dated" THEN ValidFrom(n) ELSE ValidUntil(n)
           all == Category(state, asOf)
           upTo(n) == {m \in all : date(m) < date(n) \/ (date(m) = date(n) /\ m <= n)}
           place == [n \in all |-> Cardinality(upTo(n))]
           dates == [n \in all |-> date(n)]
           k == Min({LimitPerCategory, Cardinality(all)})
<1>1. all \subseteq Notes /\ IsFiniteSet(all) /\ \A n \in all : date(n) \in Nat
  BY CategoryHasDates
<1>2. k \in Nat /\ k <= Cardinality(all) /\ Cardinality(all) \in Nat
  BY <1>1, RefreshAssumption, FS_CardinalityType, MinIsLeast
<1>3. dates \in [all -> Nat] /\ all \in SUBSET Nat
  BY <1>1, RefreshAssumption
<1>4. ASSUME NEW i \in 1 .. k PROVE (CHOOSE n \in all : place[n] = i) \in Notes
  <2>1. i \in 1 .. Cardinality(all)
    BY <1>2
  <2> HIDE DEF all
  <2>2. PICK n \in all : i = Cardinality(
          {m \in all : dates[m] < dates[n] \/ (dates[m] = dates[n] /\ m <= n)})
    BY <1>1, <1>3, <2>1, PlacesAreFilled
  <2>3. {m \in all : dates[m] < dates[n] \/ (dates[m] = dates[n] /\ m <= n)} = upTo(n)
    OBVIOUS
  <2>4. place[n] = i
    BY <2>2, <2>3
  <2> HIDE DEF place
  <2> QED
    BY <1>1, <2>4
<1>5. Listing(state, asOf) = [i \in 1 .. k |-> CHOOSE n \in all : place[n] = i]
  BY Zenon DEF Listing
<1> HIDE DEF all, place, k
<1>6. [i \in 1 .. k |-> CHOOSE n \in all : place[n] = i] \in [1 .. k -> Notes]
  BY <1>4
<1> QED
  BY <1>2, <1>5, <1>6

LEMMA SelectionIsOfNotes ==
  ASSUME NEW states \in {DefaultOrder, <<"expiring_soon">>}, NEW asOf \in Nat,
         inForce \subseteq Notes
  PROVE  Selected(states, asOf) \in Seq(Notes)
<1> DEFINE at(i) == IF i \in DOMAIN states THEN Listing(states[i], asOf) ELSE <<>>
           all == Flattened(states, asOf)
<1>1. \A i \in DOMAIN states : states[i] \in ValidityStates
  BY DEF DefaultOrder, ValidityStates
<1>2. \A i \in 1 .. 3 : at(i) \in Seq(Notes)
  BY <1>1, ListingIsOfNotes
<1>3. all = at(1) \o at(2) \o at(3)
  BY DEF Flattened
<1> HIDE DEF at
<1>4. all \in Seq(Notes)
  BY <1>2, <1>3
<1> HIDE DEF all
<1>5. Min({MaxDrafts, Len(all)}) \in Nat /\ Min({MaxDrafts, Len(all)}) <= Len(all)
  BY <1>4, RefreshAssumption, MinIsLeast
<1>6. SubSeq(all, 1, Min({MaxDrafts, Len(all)})) \in Seq(Notes)
  <2> DEFINE m == Min({MaxDrafts, Len(all)})
  <2>1. \A i \in 1 .. m : all[i] \in Notes
    BY <1>4, <1>5
  <2> HIDE DEF m
  <2>2. m \in Int /\ 1 \in Int
    BY <1>5 DEF m
  <2>3. SubSeq(all, 1, m) \in Seq(Notes)
    BY <2>1, <2>2, SubSeqProperties
  <2> QED
    BY <2>3 DEF m
<1> QED
  BY <1>6 DEF Selected, all

-----------------------------------------------------------------------------
(* What a step may do to the drafts and the calls of a note.               *)

LEMMA RoomKept ==
  ASSUME RefreshInv, NEW n \in Notes,
         \/ OpenDrafts(n)' \subseteq OpenDrafts(n) /\ Renewing(n)' \subseteq Renewing(n)
         \/ OpenDrafts(n)' = {}
         \/ \E d, c : /\ OpenDrafts(n)' \subseteq OpenDrafts(n) \cup {d}
                      /\ c \in Renewing(n) /\ Renewing(n)' \subseteq Renewing(n) \ {c}
  PROVE  Cardinality(OpenDrafts(n)') + Cardinality(Renewing(n)') <= Cardinality(Callers)
<1> DEFINE O == OpenDrafts(n)  R == Renewing(n)
           O2 == OpenDrafts(n)'  R2 == Renewing(n)'
<1>1. /\ O \subseteq Drafts /\ O2 \subseteq Drafts /\ R \subseteq Callers /\ R2 \subseteq Callers
      /\ Cardinality(O) + Cardinality(R) <= Cardinality(Callers)
  BY DEF OpenDrafts, Renewing, RefreshInv, RoomForAll
<1>2. \/ O2 \subseteq O /\ R2 \subseteq R
      \/ O2 = {}
      \/ \E d, c : O2 \subseteq O \cup {d} /\ c \in R /\ R2 \subseteq R \ {c}
  OBVIOUS
<1> HIDE DEF O, R, O2, R2
<1>3. /\ IsFiniteSet(O) /\ IsFiniteSet(R) /\ IsFiniteSet(O2) /\ IsFiniteSet(R2)
      /\ IsFiniteSet(Callers) /\ Cardinality(R2) <= Cardinality(Callers)
  BY <1>1, RefreshAssumption, FS_Subset
<1>4. /\ Cardinality(O) \in Nat /\ Cardinality(R) \in Nat /\ Cardinality(O2) \in Nat
      /\ Cardinality(R2) \in Nat /\ Cardinality(Callers) \in Nat
  BY <1>3, FS_CardinalityType
<1>5. CASE O2 \subseteq O /\ R2 \subseteq R
  <2>1. Cardinality(O2) <= Cardinality(O) /\ Cardinality(R2) <= Cardinality(R)
    BY <1>3, <1>5, FS_Subset
  <2> QED
    BY <1>1, <1>4, <2>1 DEF O2, R2
<1>6. CASE O2 = {}
  <2>1. Cardinality(O2) = 0
    BY <1>6, FS_EmptySet
  <2> QED
    BY <1>3, <1>4, <2>1 DEF O2, R2
<1>7. ASSUME NEW d, NEW c, O2 \subseteq O \cup {d}, c \in R, R2 \subseteq R \ {c}
      PROVE  Cardinality(O2) + Cardinality(R2) <= Cardinality(Callers)
  <2>1. IsFiniteSet(O \cup {d}) /\ Cardinality(O \cup {d}) <= Cardinality(O) + 1
    <3>1. /\ IsFiniteSet(O \cup {d})
          /\ Cardinality(O \cup {d}) = IF d \in O THEN Cardinality(O) ELSE Cardinality(O) + 1
      BY <1>3, FS_AddElement
    <3> QED
      BY <1>4, <3>1
  <2>2. IsFiniteSet(R \ {c}) /\ Cardinality(R \ {c}) = Cardinality(R) - 1
    BY <1>3, <1>7, FS_RemoveElement
  <2>3. Cardinality(O2) <= Cardinality(O \cup {d}) /\ Cardinality(O \cup {d}) \in Nat
    BY <1>7, <2>1, FS_Subset, FS_CardinalityType
  <2>4. Cardinality(R2) <= Cardinality(R \ {c})
    BY <1>7, <2>2, FS_Subset
  <2> QED
    BY <1>1, <1>4, <2>1, <2>2, <2>3, <2>4
<1> QED
  BY <1>2, <1>5, <1>6, <1>7 DEF O2, R2

LEMMA RefreshMoves ==
  ASSUME RefreshTypeOK, NEW c \in Callers, NEW new \in RefreshCall,
         refresh' = [refresh EXCEPT ![c] = new]
  PROVE  /\ refresh' \in [Callers -> RefreshCall] /\ refresh'[c] = new
         /\ \A e \in Callers \ {c} : refresh'[e] = refresh[e]
BY DEF RefreshTypeOK

\* A step of a call that leaves the drafts alone and is through with its note.
LEMMA LeavesNote ==
  ASSUME RefreshInv, NEW c \in Callers, NEW new \in RefreshCall,
         refresh' = [refresh EXCEPT ![c] = new], new.pc \notin {"compose", "write"},
         new.pc # "idle" => new.todo # <<>>,
         UNCHANGED <<today, inForce, vault, draft>>, incidents' \in 0 .. MaxIncidents
  PROVE  RefreshInv'
<1> USE DEF RefreshInv
<1>1. /\ refresh' \in [Callers -> RefreshCall] /\ refresh'[c] = new
      /\ \A e \in Callers \ {c} : refresh'[e] = refresh[e]
  BY RefreshMoves
<1>2. RefreshTypeOK'
  BY <1>1 DEF RefreshTypeOK
<1>3. \A n \in Notes : OpenDrafts(n)' \subseteq OpenDrafts(n)
  BY DEF OpenDrafts
<1>4. \A n \in Notes : Renewing(n)' \subseteq Renewing(n)
  BY <1>1 DEF Renewing, RefreshAt, Note
<1>5. RoomForAll'
  BY <1>3, <1>4, RoomKept DEF RoomForAll
<1>6. WritesItsOwn'
  BY <1>1 DEF WritesItsOwn, RefreshAt, Note
<1> QED
  BY <1>2, <1>5, <1>6

LEMMA CallsAreTyped ==
  ASSUME RefreshTypeOK, NEW c \in Callers
  PROVE  /\ refresh[c] \in RefreshCall /\ refresh[c].todo \in Seq(Notes)
         /\ ~RefreshAt(c, "idle") => /\ refresh[c].todo # <<>> /\ Note(c) \in Notes
                                     /\ Tail(refresh[c].todo) \in Seq(Notes)
<1>1. refresh[c] \in RefreshCall /\ (~RefreshAt(c, "idle") => refresh[c].todo # <<>>)
  BY DEF RefreshTypeOK, RefreshAt
<1>2. refresh[c].todo \in Seq(Notes)
  BY <1>1 DEF RefreshCall
<1> QED
  BY <1>1, <1>2, HeadTailProperties DEF Note

\* The next of a call that is done with a note.
NextCall(c) ==
  IF Len(refresh[c].todo) > 1
  THEN [refresh[c] EXCEPT !.pc = "lookup", !.todo = Tail(@), !.id = 0]
  ELSE NoCall

LEMMA NextIsCall ==
  ASSUME RefreshTypeOK, NEW c \in Callers, ~RefreshAt(c, "idle")
  PROVE  /\ NextCall(c) \in RefreshCall /\ NextCall(c).pc \notin {"compose", "write"}
         /\ NextCall(c).pc # "idle" => NextCall(c).todo # <<>>
         /\ Proceed(c) => refresh' = [refresh EXCEPT ![c] = NextCall(c)]
<1>1. /\ refresh[c] \in RefreshCall /\ refresh[c].todo \in Seq(Notes)
      /\ refresh[c].todo # <<>> /\ Tail(refresh[c].todo) \in Seq(Notes)
  BY CallsAreTyped
<1>2. Len(refresh[c].todo) > 1 => Tail(refresh[c].todo) # <<>>
  <2> DEFINE todo == refresh[c].todo
             rest == Tail(todo)
  <2>1. Len(rest) = Len(todo) - 1
    BY <1>1, HeadTailProperties
  <2>2. Len(todo) \in Nat
    BY <1>1
  <2> HIDE DEF rest, todo
  <2>3. Len(todo) > 1 => Len(rest) # 0
    BY <2>1, <2>2
  <2>4. rest = <<>> => Len(rest) = 0
    OBVIOUS
  <2> QED
    BY <2>3, <2>4 DEF rest, todo
<1>3. NoCall \in RefreshCall /\ NoCall.pc = "idle"
  BY RefreshAssumption DEF NoCall, RefreshCall
<1>4. Len(refresh[c].todo) > 1 =>
        /\ NextCall(c) \in RefreshCall /\ NextCall(c).pc = "lookup"
        /\ NextCall(c).todo = Tail(refresh[c].todo)
  BY <1>1 DEF NextCall, RefreshCall
<1>5. Proceed(c) => refresh' = [refresh EXCEPT ![c] = NextCall(c)]
  BY Zenon DEF Proceed, NextCall
<1> QED
  BY <1>2, <1>3, <1>4, <1>5 DEF NextCall

-----------------------------------------------------------------------------
(* The invariant, one lemma for each kind of step.                         *)

LEMMA RefreshInvInit == RefreshInit => RefreshInv
<1> SUFFICES ASSUME RefreshInit PROVE RefreshInv
  OBVIOUS
<1>1. NoCall \in RefreshCall /\ NoDraft \in Draft
  BY RefreshAssumption DEF NoCall, RefreshCall, NoDraft, Draft
<1>2. RefreshTypeOK
  BY <1>1, RefreshAssumption DEF RefreshInit, RefreshTypeOK, NoCall
<1>3. \A n \in Notes : OpenDrafts(n) = {} /\ Renewing(n) = {}
  BY DEF RefreshInit, OpenDrafts, Renewing, RefreshAt, NoCall, NoDraft
<1>4. Cardinality({}) = 0 /\ Cardinality(Callers) \in Nat
  BY RefreshAssumption, FS_EmptySet, FS_CardinalityType
<1>5. RoomForAll
  BY <1>3, <1>4 DEF RoomForAll
<1>6. WritesItsOwn
  BY DEF RefreshInit, WritesItsOwn, RefreshAt, NoCall
<1> QED
  BY <1>2, <1>5, <1>6 DEF RefreshInv

LEMMA RequestKeepsInv ==
  ASSUME RefreshInv, NEW c \in Callers,
         \/ \E n \in Notes : RequestRefresh(c, n)
         \/ \E states \in {DefaultOrder, <<"expiring_soon">>} : RequestBatch(c, states)
  PROVE  RefreshInv'
<1> USE DEF RefreshInv
<1>1. PICK todo \in Seq(Notes) :
        /\ todo # <<>> /\ UNCHANGED <<today, inForce, vault, draft, incidents>>
        /\ refresh' = [refresh EXCEPT ![c] =
                         [NoCall EXCEPT !.pc = "lookup", !.todo = todo, !.asOf = today]]
  <2>1. ASSUME NEW n \in Notes, RequestRefresh(c, n)
        PROVE  /\ <<n>> \in Seq(Notes) /\ <<n>> # <<>>
               /\ UNCHANGED <<today, inForce, vault, draft, incidents>>
               /\ refresh' = [refresh EXCEPT ![c] =
                                [NoCall EXCEPT !.pc = "lookup", !.todo = <<n>>, !.asOf = today]]
    <3>1. <<n>> \in Seq(Notes) /\ <<n>> # <<>>
      OBVIOUS
    <3> QED
      BY <2>1, <3>1, Zenon DEF RequestRefresh
  <2>2. ASSUME NEW states \in {DefaultOrder, <<"expiring_soon">>}, RequestBatch(c, states)
        PROVE  LET todo == Selected(states, today) IN
               /\ todo \in Seq(Notes) /\ todo # <<>>
               /\ UNCHANGED <<today, inForce, vault, draft, incidents>>
               /\ refresh' = [refresh EXCEPT ![c] =
                                [NoCall EXCEPT !.pc = "lookup", !.todo = todo, !.asOf = today]]
    <3>1. today \in Nat /\ inForce \subseteq Notes
      BY RefreshAssumption DEF RefreshTypeOK
    <3>2. Selected(states, today) \in Seq(Notes)
      BY <3>1, SelectionIsOfNotes
    <3> QED
      BY <2>2, <3>2, Zenon DEF RequestBatch
  <2> QED
    BY <2>1, <2>2, Zenon
<1> DEFINE new == [NoCall EXCEPT !.pc = "lookup", !.todo = todo, !.asOf = today]
<1>2. new \in RefreshCall /\ new.pc = "lookup" /\ new.todo # <<>>
  BY <1>1 DEF NoCall, RefreshCall, RefreshTypeOK
<1>3. refresh' = [refresh EXCEPT ![c] = new] /\ UNCHANGED <<today, inForce, vault, draft>>
  BY <1>1
<1>4. incidents' \in 0 .. MaxIncidents
  BY <1>1 DEF RefreshTypeOK
<1> HIDE DEF new
<1> QED
  BY <1>2, <1>3, <1>4, LeavesNote

LEMMA ProceedKeepsInv ==
  ASSUME RefreshInv, NEW c \in Callers, ~RefreshAt(c, "idle"), Proceed(c),
         UNCHANGED <<today, inForce, vault, draft>>, incidents' \in 0 .. MaxIncidents
  PROVE  RefreshInv'
BY NextIsCall, LeavesNote DEF RefreshInv

LEMMA EndKeepsInv ==
  ASSUME RefreshInv, NEW c \in Callers, refresh' = [refresh EXCEPT ![c] = NoCall],
         UNCHANGED <<today, inForce, vault, draft>>, incidents' \in 0 .. MaxIncidents
  PROVE  RefreshInv'
<1>1. NoCall \in RefreshCall /\ NoCall.pc = "idle"
  BY RefreshAssumption DEF NoCall, RefreshCall
<1> QED
  BY <1>1, LeavesNote

LEMMA LookupKeepsInv ==
  ASSUME RefreshInv, NEW c \in Callers, Lookup(c)
  PROVE  RefreshInv'
<1>1. /\ ~RefreshAt(c, "idle") /\ UNCHANGED <<today, inForce, vault, draft, incidents>>
      /\ Proceed(c) \/ refresh' = [refresh EXCEPT ![c].pc = "find"]
      /\ incidents' \in 0 .. MaxIncidents
  BY DEF Lookup, RefreshAt, RefreshInv, RefreshTypeOK
<1>2. CASE refresh' = [refresh EXCEPT ![c].pc = "find"]
  <2> DEFINE new == [refresh[c] EXCEPT !.pc = "find"]
  <2>1. refresh' = [refresh EXCEPT ![c] = new]
    BY <1>2
  <2>2. new \in RefreshCall /\ new.pc = "find" /\ new.todo # <<>>
    BY <1>1, CallsAreTyped DEF RefreshInv, RefreshCall
  <2> HIDE DEF new
  <2> QED
    BY <1>1, <2>1, <2>2, LeavesNote
<1> QED
  BY <1>1, <1>2, ProceedKeepsInv

LEMMA FindKeepsInv ==
  ASSUME RefreshInv, NEW c \in Callers, FindDraft(c)
  PROVE  RefreshInv'
<1> USE DEF RefreshInv
<1>1. /\ ~RefreshAt(c, "idle") /\ RefreshAt(c, "find")
      /\ UNCHANGED <<today, inForce, vault, draft, incidents>>
      /\ incidents' \in 0 .. MaxIncidents
      /\ \/ Proceed(c) \/ refresh' = [refresh EXCEPT ![c] = NoCall]
         \/ /\ OpenDrafts(Note(c)) = {}
            /\ refresh' = [refresh EXCEPT ![c].pc = "compose"]
  BY DEF FindDraft, RefreshAt, RefreshTypeOK
<1>2. ASSUME OpenDrafts(Note(c)) = {}, refresh' = [refresh EXCEPT ![c].pc = "compose"]
      PROVE  RefreshInv'
  <2> DEFINE new == [refresh[c] EXCEPT !.pc = "compose"]
  <2>1. refresh' = [refresh EXCEPT ![c] = new]
    BY <1>2
  <2>2. new \in RefreshCall /\ new.pc = "compose" /\ new.todo # <<>>
    BY <1>1, CallsAreTyped DEF RefreshCall
  <2> HIDE DEF new
  <2>3. /\ refresh' \in [Callers -> RefreshCall] /\ refresh'[c] = new
        /\ \A e \in Callers \ {c} : refresh'[e] = refresh[e]
    BY <2>1, <2>2, RefreshMoves
  <2>4. RefreshTypeOK'
    BY <1>1, <2>2, <2>3 DEF RefreshTypeOK
  <2>5. Note(c)' = Note(c) /\ \A n : OpenDrafts(n)' = OpenDrafts(n)
    BY <1>1, <1>2 DEF Note, OpenDrafts, RefreshTypeOK, RefreshCall
  <2>6. ASSUME NEW n \in Notes, n # Note(c) PROVE Renewing(n)' \subseteq Renewing(n)
    BY <2>3, <2>5, <2>6 DEF Renewing, RefreshAt, Note
  <2>7. RoomForAll'
    BY <1>2, <2>5, <2>6, RoomKept DEF RoomForAll
  <2>8. WritesItsOwn'
    BY <1>1, <2>2, <2>3 DEF WritesItsOwn, RefreshAt, Note
  <2> QED
    BY <2>4, <2>7, <2>8
<1> QED
  BY <1>1, <1>2, ProceedKeepsInv, EndKeepsInv

LEMMA ComposeKeepsInv ==
  ASSUME RefreshInv, NEW c \in Callers, Compose(c)
  PROVE  RefreshInv'
<1> USE DEF RefreshInv
<1>1. /\ ~RefreshAt(c, "idle") /\ RefreshAt(c, "compose") /\ UNCHANGED <<today, inForce, vault>>
      /\ \/ /\ Proceed(c) /\ UNCHANGED draft
            /\ \/ UNCHANGED incidents
               \/ incidents < MaxIncidents /\ incidents' = incidents + 1
         \/ /\ UNCHANGED incidents
            /\ \E d \in Unused :
                 /\ draft' = [draft EXCEPT ![d] = [file |-> "empty", source |-> Note(c)]]
                 /\ refresh' = [refresh EXCEPT ![c].pc = "write", ![c].id = d]
  BY DEF Compose, RefreshAt
<1>2. CASE /\ Proceed(c) /\ UNCHANGED draft
           /\ \/ UNCHANGED incidents
              \/ incidents < MaxIncidents /\ incidents' = incidents + 1
  <2>1. incidents' \in 0 .. MaxIncidents
    BY <1>2, RefreshAssumption DEF RefreshTypeOK
  <2> QED
    BY <1>1, <1>2, <2>1, ProceedKeepsInv
<1>3. ASSUME NEW d \in Unused, UNCHANGED incidents,
             draft' = [draft EXCEPT ![d] = [file |-> "empty", source |-> Note(c)]],
             refresh' = [refresh EXCEPT ![c].pc = "write", ![c].id = d]
      PROVE  RefreshInv'
  <2> DEFINE new == [refresh[c] EXCEPT !.pc = "write", !.id = d]
             opened == [file |-> "empty", source |-> Note(c)]
  <2>1. refresh' = [refresh EXCEPT ![c] = new]
    BY <1>3
  <2>2. d \in Drafts /\ draft[d].file = "none"
    BY DEF Unused
  <2>3. /\ new \in RefreshCall /\ new.pc = "write" /\ new.id = d /\ new.todo # <<>>
        /\ new.todo = refresh[c].todo /\ Note(c) \in Notes
    BY <1>1, <2>2, CallsAreTyped DEF RefreshCall
  <2>4. opened \in Draft /\ opened.file = "empty" /\ opened.source = Note(c)
    BY <2>3 DEF Draft
  <2> HIDE DEF new
  <2>5. /\ refresh' \in [Callers -> RefreshCall] /\ refresh'[c] = new
        /\ \A e \in Callers \ {c} : refresh'[e] = refresh[e]
    BY <2>1, <2>3, RefreshMoves
  <2> HIDE DEF opened
  <2>6. /\ draft' \in [Drafts -> Draft] /\ draft'[d] = opened
        /\ \A e \in Drafts \ {d} : draft'[e] = draft[e]
    BY <1>3, <2>2, <2>4 DEF RefreshTypeOK, opened
  <2>7. RefreshTypeOK'
    BY <1>1, <1>3, <2>3, <2>5, <2>6 DEF RefreshTypeOK
  <2>8. Note(c)' = Note(c)
    BY <2>3, <2>5 DEF Note
  <2>9. \A n : OpenDrafts(n)' \subseteq OpenDrafts(n)
    BY <2>4, <2>6 DEF OpenDrafts
  <2>10. \A n : Renewing(n)' \subseteq Renewing(n)
    BY <1>1, <2>5, <2>8 DEF Renewing, RefreshAt, Note
  <2>11. RoomForAll'
    BY <2>9, <2>10, RoomKept DEF RoomForAll
  <2>12. ASSUME NEW e \in Callers \ {c}, RefreshAt(e, "write")
         PROVE  refresh[e].id # d
    BY <2>2, <2>12 DEF WritesItsOwn
  <2>13. WritesItsOwn'
    BY <2>2, <2>3, <2>4, <2>5, <2>6, <2>8, <2>12 DEF WritesItsOwn, RefreshAt, Note
  <2> QED
    BY <2>7, <2>11, <2>13
<1> QED
  BY <1>1, <1>2, <1>3

LEMMA StoreKeepsInv ==
  ASSUME RefreshInv, NEW c \in Callers, StoreDraft(c)
  PROVE  RefreshInv'
<1> USE DEF RefreshInv
<1> DEFINE d == refresh[c].id
           stored == [draft[d] EXCEPT !.file = "open"]
<1>1. /\ ~RefreshAt(c, "idle") /\ RefreshAt(c, "write") /\ Proceed(c)
      /\ draft' = [draft EXCEPT ![d].file = "open"]
      /\ UNCHANGED <<today, inForce, vault, incidents>>
  BY DEF StoreDraft, RefreshAt
<1>2. /\ d \in Drafts /\ draft[d].source = Note(c)
      /\ \A e \in Callers \ {c} : RefreshAt(e, "write") => refresh[e].id # d
  BY <1>1 DEF WritesItsOwn
<1>3. /\ NextCall(c) \in RefreshCall /\ NextCall(c).pc \notin {"compose", "write"}
      /\ NextCall(c).pc # "idle" => NextCall(c).todo # <<>>
      /\ refresh' = [refresh EXCEPT ![c] = NextCall(c)]
  BY <1>1, NextIsCall
<1>4. /\ refresh' \in [Callers -> RefreshCall] /\ refresh'[c] = NextCall(c)
      /\ \A e \in Callers \ {c} : refresh'[e] = refresh[e]
  BY <1>3, RefreshMoves
<1>5. stored \in Draft /\ stored.source = Note(c)
  BY <1>2 DEF RefreshTypeOK, Draft
<1>6. draft' = [draft EXCEPT ![d] = stored]
  BY <1>1
<1> HIDE DEF d, stored
<1>7. /\ draft' \in [Drafts -> Draft] /\ draft'[d] = stored
      /\ \A e \in Drafts \ {d} : draft'[e] = draft[e]
  BY <1>2, <1>5, <1>6 DEF RefreshTypeOK
<1>8. RefreshTypeOK'
  BY <1>1, <1>3, <1>4, <1>7 DEF RefreshTypeOK
<1>9. ASSUME NEW n \in Notes, n = Note(c)
      PROVE  /\ OpenDrafts(n)' \subseteq OpenDrafts(n) \cup {d}
             /\ c \in Renewing(n) /\ Renewing(n)' \subseteq Renewing(n) \ {c}
  BY <1>1, <1>3, <1>4, <1>7, <1>9 DEF OpenDrafts, Renewing, RefreshAt, Note
<1>10. ASSUME NEW n \in Notes, n # Note(c)
       PROVE  OpenDrafts(n)' \subseteq OpenDrafts(n) /\ Renewing(n)' \subseteq Renewing(n)
  BY <1>3, <1>4, <1>5, <1>7, <1>10 DEF OpenDrafts, Renewing, RefreshAt, Note
<1>11. RoomForAll'
  BY <1>9, <1>10, RoomKept DEF RoomForAll
<1>12. WritesItsOwn'
  BY <1>2, <1>3, <1>4, <1>7 DEF WritesItsOwn, RefreshAt, Note
<1> QED
  BY <1>8, <1>11, <1>12

\* A draft that was open is taken away, or waits for its entry; or the day ends.
LEMMA TakenKeepsInv ==
  ASSUME RefreshInv, UNCHANGED refresh, today' \in 0 .. Horizon, inForce' \subseteq Notes,
         vault' \in [Notes -> CanonicalFile], incidents' \in 0 .. MaxIncidents,
         \/ UNCHANGED draft
         \/ \E d \in Drafts, new \in Draft :
              /\ draft[d].file # "empty" /\ draft' = [draft EXCEPT ![d] = new]
              /\ d \in OpenDrafts(new.source) \/ new.file = "none"
  PROVE  RefreshInv'
<1> USE DEF RefreshInv
<1>1. CASE UNCHANGED draft
  <2>1. RefreshTypeOK'
    BY <1>1 DEF RefreshTypeOK
  <2>2. \A n : OpenDrafts(n)' \subseteq OpenDrafts(n) /\ Renewing(n)' \subseteq Renewing(n)
    BY <1>1 DEF OpenDrafts, Renewing, RefreshAt, Note
  <2>3. RoomForAll'
    BY <2>2, RoomKept DEF RoomForAll
  <2>4. WritesItsOwn'
    BY <1>1 DEF WritesItsOwn, RefreshAt, Note
  <2> QED
    BY <2>1, <2>3, <2>4
<1>2. ASSUME NEW d \in Drafts, NEW new \in Draft,
             draft[d].file # "empty", draft' = [draft EXCEPT ![d] = new],
             d \in OpenDrafts(new.source) \/ new.file = "none"
      PROVE  RefreshInv'
  <2>0. /\ draft' \in [Drafts -> Draft] /\ draft'[d] = new
        /\ \A e \in Drafts \ {d} : draft'[e] = draft[e]
    BY <1>2 DEF RefreshTypeOK
  <2>1. RefreshTypeOK'
    BY <2>0 DEF RefreshTypeOK
  <2>2. ASSUME NEW n, NEW e \in OpenDrafts(n)' PROVE e \in OpenDrafts(n)
    <3>1. CASE e = d
      BY <1>2, <2>0, <2>2, <3>1 DEF OpenDrafts
    <3>2. CASE e # d
      BY <2>0, <2>2, <3>2 DEF OpenDrafts
    <3> QED
      BY <3>1, <3>2
  <2>3. \A n : OpenDrafts(n)' \subseteq OpenDrafts(n) /\ Renewing(n)' \subseteq Renewing(n)
    BY <2>2 DEF Renewing, RefreshAt, Note
  <2>4. RoomForAll'
    BY <2>3, RoomKept DEF RoomForAll
  <2>5. WritesItsOwn'
    BY <1>2, <2>0 DEF WritesItsOwn, RefreshAt, Note
  <2> QED
    BY <2>1, <2>4, <2>5
<1> QED
  BY <1>1, <1>2

LEMMA DraftMoves ==
  ASSUME RefreshTypeOK, NEW d \in Drafts
  PROVE  /\ NoDraft \in Draft /\ NoDraft.file = "none"
         /\ [draft[d] EXCEPT !.file = "promoting"] \in Draft
         /\ [draft[d] EXCEPT !.file = "promoting"].source = draft[d].source
         /\ draft[d].file \in {"open", "promoting"} => d \in OpenDrafts(draft[d].source)
BY DEF RefreshTypeOK, Draft, NoDraft, OpenDrafts

LEMMA RefreshInvNext == RefreshInv /\ [RefreshNext]_refreshVars => RefreshInv'
<1> SUFFICES ASSUME RefreshInv, [RefreshNext]_refreshVars PROVE RefreshInv'
  OBVIOUS
<1> USE DEF RefreshInv
<1>1. ASSUME NEW c \in Callers, RefreshStep(c) PROVE RefreshInv'
  BY <1>1, LookupKeepsInv, FindKeepsInv, ComposeKeepsInv, StoreKeepsInv DEF RefreshStep
<1>2. ASSUME NEW c \in Callers, RefreshCrash(c) PROVE RefreshInv'
  <2>1. incidents' \in 0 .. MaxIncidents
    BY <1>2, RefreshAssumption DEF RefreshCrash, RefreshTypeOK
  <2> QED
    BY <1>2, <2>1, EndKeepsInv DEF RefreshCrash
<1>3. ASSUME NEW d \in Drafts, PromoteRefresh(d) \/ PromoteAside(d) \/ ReplayRefresh(d)
      PROVE  RefreshInv'
  <2>1. /\ incidents' \in 0 .. MaxIncidents /\ today' \in 0 .. Horizon
        /\ inForce' \subseteq Notes /\ UNCHANGED refresh
    <3>1. /\ today' = today /\ refresh' = refresh
          /\ inForce' = inForce \/ inForce' = inForce \ {draft[d].source}
          /\ \/ incidents' = incidents
             \/ incidents < MaxIncidents /\ incidents' = incidents + 1
      BY <1>3, Zenon DEF PromoteRefresh, PromoteAside, ReplayRefresh
    <3>2. today \in 0 .. Horizon /\ inForce \subseteq Notes /\ incidents \in 0 .. MaxIncidents
      BY Zenon DEF RefreshTypeOK
    <3>3. incidents' \in 0 .. MaxIncidents
      BY <3>1, <3>2, RefreshAssumption
    <3> QED
      BY <3>1, <3>2, <3>3, Zenon
  <2>2. vault' \in [Notes -> CanonicalFile]
    <3>1. CASE PromoteRefresh(d) \/ PromoteAside(d)
      <4>1. vault' = vault
        BY <3>1, Zenon DEF PromoteRefresh, PromoteAside
      <4> QED
        BY <4>1 DEF RefreshTypeOK
    <3>2. CASE ReplayRefresh(d)
      <4>1. vault' = [vault EXCEPT ![draft[d].source] = "sound"]
        BY <3>2, Zenon DEF ReplayRefresh
      <4> QED
        BY <4>1 DEF RefreshTypeOK, CanonicalFile
    <3> QED
      BY <1>3, <3>1, <3>2
  <2>3. draft[d].file # "empty" /\ draft' = [draft EXCEPT ![d] = NoDraft]
    BY <1>3 DEF PromoteRefresh, PromoteAside, ReplayRefresh
  <2> QED
    BY <2>1, <2>2, <2>3, DraftMoves, TakenKeepsInv
<1>4. ASSUME NEW d \in Drafts, TearSource(d) PROVE RefreshInv'
  <2> DEFINE new == [draft[d] EXCEPT !.file = "promoting"]
  <2>1. /\ incidents' \in 0 .. MaxIncidents /\ today' \in 0 .. Horizon
        /\ inForce' \subseteq Notes /\ UNCHANGED refresh
    BY <1>4, RefreshAssumption DEF TearSource, RefreshTypeOK
  <2>2. vault' \in [Notes -> CanonicalFile]
    BY <1>4 DEF TearSource, RefreshTypeOK, CanonicalFile
  <2>3. draft[d].file # "empty" /\ draft' = [draft EXCEPT ![d] = new]
    BY <1>4 DEF TearSource, RefreshTypeOK
  <2>4. new \in Draft /\ d \in OpenDrafts(new.source)
    BY <1>4, DraftMoves DEF TearSource
  <2> HIDE DEF new
  <2> QED
    BY <2>1, <2>2, <2>3, <2>4, TakenKeepsInv
<1>5. CASE NextDay
  <2>1. today' \in 0 .. Horizon
    BY <1>5, RefreshAssumption DEF NextDay, RefreshTypeOK
  <2> QED
    BY <1>5, <2>1, TakenKeepsInv DEF NextDay, RefreshTypeOK
<1>6. CASE UNCHANGED refreshVars
  BY <1>6, TakenKeepsInv DEF refreshVars, RefreshTypeOK
<1> QED
  BY <1>1, <1>2, <1>3, <1>4, <1>5, <1>6, RequestKeepsInv DEF RefreshNext

LEMMA RefreshInvAlways == RefreshInit /\ [][RefreshNext]_refreshVars => []RefreshInv
BY RefreshInvInit, RefreshInvNext, PTL

-----------------------------------------------------------------------------
\* Notes, drafts and calls keep to their types: a batch is a sequence of notes, and
\* a call that is under way has a note at hand, however a batch went on or ended.
THEOREM RefreshTypeCorrect == RefreshSpec => []RefreshTypeOK
<1>1. RefreshInv => RefreshTypeOK
  BY DEF RefreshInv
<1> QED
  BY <1>1, RefreshInvAlways, PTL DEF RefreshSpec

LEMMA FewDuplicates == RefreshInv => DuplicatesAreFew
<1> SUFFICES ASSUME RefreshInv, NEW n \in Notes
             PROVE  Cardinality(OpenDrafts(n)) <= Cardinality(Callers)
  BY DEF DuplicatesAreFew
<1>1. Cardinality(OpenDrafts(n)) + Cardinality(Renewing(n)) <= Cardinality(Callers)
  BY DEF RefreshInv, RoomForAll
<1>2. OpenDrafts(n) \subseteq Drafts /\ Renewing(n) \subseteq Callers
  BY DEF OpenDrafts, Renewing
<1>3. /\ Cardinality(OpenDrafts(n)) \in Nat /\ Cardinality(Renewing(n)) \in Nat
      /\ Cardinality(Callers) \in Nat
  BY <1>2, RefreshAssumption, FS_Subset, FS_CardinalityType
<1> QED
  BY <1>1, <1>3

\* A note never has more open drafts than there are callers, in spite of the awaits
\* between looking for one and storing another, and of crashes and promotions.
THEOREM DuplicatesStayFew == RefreshSpec => []DuplicatesAreFew
BY FewDuplicates, RefreshInvAlways, PTL DEF RefreshSpec

-----------------------------------------------------------------------------
(* The summary against the look-up and the batch.                          *)

LEMMA StatesAreNamed == DefaultOrder = <<"expired", "future_dated", "expiring_soon">>
  /\ DOMAIN DefaultOrder = 1 .. 3 /\ \A i \in 1 .. 3 : DefaultOrder[i] \in ValidityStates
BY DEF DefaultOrder, ValidityStates

\* A listing is empty when its category is.
LEMMA ListingIsEmpty ==
  ASSUME NEW state \in ValidityStates, NEW asOf \in Nat, inForce \subseteq Notes
  PROVE  /\ Len(Listing(state, asOf)) \in Nat
         /\ Len(Listing(state, asOf)) = 0 <=> Cardinality(Category(state, asOf)) = 0
<1> DEFINE date(n) == IF state = "future_dated" THEN ValidFrom(n) ELSE ValidUntil(n)
           all == Category(state, asOf)
           place == [n \in all |-> Cardinality(
                       {m \in all : date(m) < date(n) \/ (date(m) = date(n) /\ m <= n)})]
           k == Min({LimitPerCategory, Cardinality(all)})
<1>1. Cardinality(all) \in Nat
  BY CategoryHasDates, FS_CardinalityType
<1>2. k \in Nat /\ (k = 0 <=> Cardinality(all) = 0)
  <2> HIDE DEF all
  <2>1. LimitPerCategory \in Nat \ {0}
    BY RefreshAssumption
  <2>2. \E x \in {LimitPerCategory, Cardinality(all)} :
          \A y \in {LimitPerCategory, Cardinality(all)} : x =< y
    BY <1>1, <2>1
  <2> QED
    BY <1>1, <2>1, <2>2 DEF Min
<1>3. Listing(state, asOf) = [i \in 1 .. k |-> CHOOSE n \in all : place[n] = i]
  BY Zenon DEF Listing
<1> HIDE DEF all, place, k
<1>4. Len(Listing(state, asOf)) = k
  BY <1>2, <1>3
<1> QED
  BY <1>2, <1>4 DEF all

\* A batch of the default order is empty when the three categories are.
LEMMA SelectionIsEmpty ==
  ASSUME NEW asOf \in Nat, inForce \subseteq Notes
  PROVE  Selected(DefaultOrder, asOf) = <<>> <=>
           \A state \in ValidityStates : Cardinality(Category(state, asOf)) = 0
<1> DEFINE at(i) == IF i \in DOMAIN DefaultOrder THEN Listing(DefaultOrder[i], asOf) ELSE <<>>
           all == Flattened(DefaultOrder, asOf)
           m == Min({MaxDrafts, Len(all)})
<1>1. \A i \in 1 .. 3 : /\ at(i) \in Seq(Notes) /\ Len(at(i)) \in Nat
                        /\ Len(at(i)) = 0 <=> Cardinality(Category(DefaultOrder[i], asOf)) = 0
  BY StatesAreNamed, ListingIsOfNotes, ListingIsEmpty
<1>2. all = at(1) \o at(2) \o at(3)
  BY DEF Flattened
<1> HIDE DEF at
<1>3. all \in Seq(Notes) /\ Len(all) = Len(at(1)) + Len(at(2)) + Len(at(3))
  BY <1>1, <1>2
<1> HIDE DEF all
<1>4. m \in Nat /\ m <= Len(all) /\ (m = 0 <=> Len(all) = 0)
  <2>1. MaxDrafts \in Nat \ {0} /\ Len(all) \in Nat
    BY <1>3, RefreshAssumption
  <2>2. \E x \in {MaxDrafts, Len(all)} : \A y \in {MaxDrafts, Len(all)} : x =< y
    BY <2>1
  <2> QED
    BY <2>1, <2>2 DEF Min
<1> HIDE DEF m
<1>5. Len(SubSeq(all, 1, m)) = m /\ SubSeq(all, 1, m) \in Seq(Notes)
  <2>1. \A i \in 1 .. m : all[i] \in Notes
    BY <1>3, <1>4
  <2>2. m \in Int /\ 1 \in Int
    BY <1>4
  <2> QED
    BY <1>4, <2>1, <2>2, SubSeqProperties
<1>6. SubSeq(all, 1, m) = <<>> <=> m = 0
  BY <1>5, EmptySeq
<1>7. Len(all) = 0 <=> \A i \in 1 .. 3 : Len(at(i)) = 0
  BY <1>1, <1>3
<1>8. (\A i \in 1 .. 3 : Cardinality(Category(DefaultOrder[i], asOf)) = 0) <=>
        \A state \in ValidityStates : Cardinality(Category(state, asOf)) = 0
  BY DEF DefaultOrder, ValidityStates
<1> QED
  BY <1>1, <1>4, <1>6, <1>7, <1>8 DEF Selected, m, all

\* The categories cover the candidates, and of two of them only those that start in
\* the future overlap another.
LEMMA CategoriesAddUp ==
  ASSUME inForce \subseteq Notes, NEW asOf \in Nat
  PROVE  LET E == Category("expired", asOf)
             F == Category("future_dated", asOf)
             S == Category("expiring_soon", asOf) IN
         Cardinality(E) + Cardinality(F) + Cardinality(S) =
           Cardinality({n \in Notes : IsCandidate(n, asOf)}) + Cardinality(F \cap (E \cup S))
<1> DEFINE E == Category("expired", asOf)
           F == Category("future_dated", asOf)
           S == Category("expiring_soon", asOf)
           C == {n \in Notes : IsCandidate(n, asOf)}
<1>1. IsFiniteSet(E) /\ IsFiniteSet(F) /\ IsFiniteSet(S)
  BY CategoryHasDates DEF ValidityStates
<1>2. \A n \in Notes : /\ ValidFrom(n) \in Nat \cup {NoDate}
                       /\ ValidUntil(n) \in Nat \cup {NoDate}
  BY RefreshAssumption DEF ValidFrom, ValidUntil, Date
<1>3. E \cap S = {}
  BY <1>2, RefreshAssumption DEF Category, Falls
<1>4. C = F \cup (E \cup S)
  BY <1>2 DEF IsCandidate, CandidateState, Category, Falls
<1> HIDE DEF E, F, S, C
<1>5. IsFiniteSet(E \cup S) /\ Cardinality(E \cup S) = Cardinality(E) + Cardinality(S)
  <2>1. Cardinality(E \cap S) = 0
    BY <1>3, FS_EmptySet
  <2>2. Cardinality(E) \in Nat /\ Cardinality(S) \in Nat
    BY <1>1, FS_CardinalityType
  <2>3. /\ IsFiniteSet(E \cup S)
        /\ Cardinality(E \cup S) = Cardinality(E) + Cardinality(S) - Cardinality(E \cap S)
    BY <1>1, FS_Union
  <2> QED
    BY <2>1, <2>2, <2>3
<1>6. Cardinality(C) = Cardinality(F) + Cardinality(E \cup S) - Cardinality(F \cap (E \cup S))
  BY <1>1, <1>4, <1>5, FS_Union
<1>7. IsFiniteSet(F \cap (E \cup S))
  BY <1>1, FS_Subset
<1>8. /\ Cardinality(E) \in Nat /\ Cardinality(F) \in Nat /\ Cardinality(S) \in Nat
      /\ Cardinality(F \cap (E \cup S)) \in Nat
  BY <1>1, <1>7, FS_CardinalityType
<1>9. Cardinality(E) + Cardinality(F) + Cardinality(S) = Cardinality(C) + Cardinality(F \cap (E \cup S))
  BY <1>5, <1>6, <1>8
<1> QED
  BY <1>9 DEF E, F, S, C

LEMMA CountsAddUp == RefreshInv => SummaryCountsCandidates
<1> SUFFICES ASSUME RefreshInv, NEW asOf \in 0 .. today
             PROVE
  LET counts == Summary(asOf)
      sum == counts["expired"] + counts["future_dated"] + counts["expiring_soon"]
      twice == Category("future_dated", asOf)
                 \cap (Category("expired", asOf) \cup Category("expiring_soon", asOf)) IN
  /\ sum = Cardinality({n \in Notes : IsCandidate(n, asOf)}) + Cardinality(twice)
  /\ sum = 0 <=> Selected(DefaultOrder, asOf) = <<>>
  BY DEF SummaryCountsCandidates
<1>1. asOf \in Nat /\ inForce \subseteq Notes
  BY RefreshAssumption DEF RefreshInv, RefreshTypeOK
<1>2. /\ Summary(asOf)["expired"] = Cardinality(Category("expired", asOf))
      /\ Summary(asOf)["future_dated"] = Cardinality(Category("future_dated", asOf))
      /\ Summary(asOf)["expiring_soon"] = Cardinality(Category("expiring_soon", asOf))
  BY DEF Summary, ValidityStates
<1>3. \A s \in ValidityStates : Cardinality(Category(s, asOf)) \in Nat
  BY <1>1, CategoryHasDates, FS_CardinalityType
<1>4. (Cardinality(Category("expired", asOf)) + Cardinality(Category("future_dated", asOf))
        + Cardinality(Category("expiring_soon", asOf)) = 0) <=>
      \A s \in ValidityStates : Cardinality(Category(s, asOf)) = 0
  BY <1>3 DEF ValidityStates
<1> QED
  BY <1>1, <1>2, <1>4, CategoriesAddUp, SelectionIsEmpty

\* The counts of the summary add up to the candidates of the look-up, but for the
\* notes counted twice, and are zero when a batch finds nothing, for any windows.
THEOREM SummaryCounts == RefreshSpec => []SummaryCountsCandidates
BY CountsAddUp, RefreshInvAlways, PTL DEF RefreshSpec

-----------------------------------------------------------------------------
(* Searches, and the syncs that they run into.                               *)

\* A call that is idle is blank, any other runs in a process; only a sync writes a
\* note.
Shaped ==
  \A c \in Calls :
    /\ Free(c) => call[c] = NoCallYet
    /\ ~Free(c) => By(c) \in Hosting
    /\ IsSearch(c) => call[c].note = {}
    /\ ~IsSearch(c) => ~CallAt(c, "classify") /\ ~CallAt(c, "rank")

\* Two calls that write a note have overlapped.
Alone == \A c, d \in Calls : c # d => call[c].note \cap call[d].note \subseteq overlapped

\* A call that is alone with its note writes what the vault says, first into the
\* tables, and leaves its entry open until it is through.
Sole ==
  \A c \in Calls : \A n \in call[c].note \ overlapped :
    /\ call[c].class = want[n] /\ <<n, call[c].class>> \in open
    /\ ~CallAt(c, "tables") => rows[n] = call[c].class /\ text[n] = call[c].class
    /\ CallAt(c, "finish") => points[n] = call[c].class \/ n \in missed

\* The stores of a note at rest say what the vault says.
Agrees ==
  \A n \in Served : AtRest(n) /\ n \notin overlapped =>
    /\ rows[n] = want[n] /\ text[n] = want[n]
    /\ points[n] = want[n] \/ n \in missed

\* Nothing is left that could write the note as current.
Settled(n) ==
  /\ want[n] = "superseded" /\ <<n, "current">> \notin open
  /\ text[n] # "current" /\ points[n] # "current"
  /\ \A d \in Calls : n \in call[d].note => call[d].class # "current"

\* What was superseded when a search began stays so, also where writes overlap.
StaySettled == \A c \in Calls : \A n \in call[c].settled : Settled(n)

\* Only an index with soft failure goes on to make the collection.
MadeSoftly == \A c \in Calls : CallAt(c, "create") => soft[By(c)]

MissedCaused == missed # {} => vectorFaults > 0 \/ refused # {}

Core == Shaped /\ Alone /\ Sole /\ Agrees /\ StaySettled /\ SupersededIsLeftOut
Causes == MissedCaused /\ MadeSoftly /\ HardIndexNeedsCollection
RetrievalInv == RetrievalTypeOK /\ Core /\ Causes

-----------------------------------------------------------------------------
LEMMA NoCallYetIsCall ==
  /\ NoCallYet \in Call /\ NoCallYet.pc = "idle" /\ NoCallYet.kind = "search"
  /\ NoCallYet.note = {} /\ NoCallYet.settled = {}
  /\ NoCallYet.lexical = {} /\ NoCallYet.vector = {}
BY DEF NoCallYet, Call, Presence

\* The types, without the one that no step touches.
StoreTypes ==
  /\ want \in [Served -> Presence] /\ rows \in [Served -> Presence]
  /\ text \in [Served -> Presence] /\ points \in [Served -> Presence]
  /\ collection \in Sizes \cup {None}
  /\ index \in [Hosting -> Index] /\ call \in [Calls -> Call]
  /\ open \subseteq Served \X Presence
  /\ missed \subseteq Served /\ overlapped \subseteq Served
  /\ refused \subseteq {"exists", "size"}
  /\ vectorFaults \in 0 .. MaxVectorFaults

LEMMA TypesSplit == RetrievalTypeOK <=> soft \in [Hosting -> BOOLEAN] /\ StoreTypes
BY Zenon DEF RetrievalTypeOK, StoreTypes

LEMMA TypesKept ==
  ASSUME RetrievalTypeOK, UNCHANGED soft, StoreTypes'
  PROVE  RetrievalTypeOK'
<1>1. soft' = soft
  OBVIOUS
<1>2. soft' \in [Hosting -> BOOLEAN]
  BY <1>1, TypesSplit, Zenon
<1> QED
  BY <1>2, Zenon DEF RetrievalTypeOK, StoreTypes

LEMMA RetrievalInvInit == RetrievalInit => RetrievalInv
<1> SUFFICES ASSUME RetrievalInit PROVE RetrievalInv
  OBVIOUS
<1>1. RetrievalTypeOK
  <2>1. soft \in [Hosting -> BOOLEAN]
    BY Zenon DEF RetrievalInit
  <2>2. StoreTypes
    <3>1. /\ want \in [Served -> Presence] /\ rows = want /\ text = want /\ points = want
          /\ index \in [Hosting -> Index]
      BY DEF RetrievalInit, NewIndex, Index, Presence
    <3>2. call \in [Calls -> Call]
      BY NoCallYetIsCall DEF RetrievalInit
    <3>3. /\ collection = None /\ open = {} /\ missed = {} /\ overlapped = {} /\ refused = {}
          /\ vectorFaults \in 0 .. MaxVectorFaults
      BY VectorAssumption DEF RetrievalInit
    <3> QED
      BY <3>1, <3>2, <3>3 DEF StoreTypes
  <2> QED
    BY <2>1, <2>2, TypesSplit
<1>2. \A c \in Calls : call[c] = NoCallYet
  BY DEF RetrievalInit
<1>3. Shaped /\ Alone /\ Sole /\ StaySettled /\ SupersededIsLeftOut
  BY <1>2, NoCallYetIsCall
     DEF Shaped, Alone, Sole, StaySettled, SupersededIsLeftOut, Free, CallAt, IsSearch
<1>4. Agrees
  BY DEF RetrievalInit, Agrees
<1>5. Causes
  BY <1>2, NoCallYetIsCall
     DEF RetrievalInit, Causes, MissedCaused, MadeSoftly, HardIndexNeedsCollection, CallAt
<1> QED
  BY <1>1, <1>3, <1>4, <1>5 DEF RetrievalInv, Core

LEMMA CallMoves ==
  ASSUME RetrievalTypeOK, NEW c \in Calls, NEW new \in Call, call' = [call EXCEPT ![c] = new]
  PROVE  /\ call' \in [Calls -> Call] /\ call'[c] = new
         /\ \A d \in Calls \ {c} : call'[d] = call[d]
BY DEF RetrievalTypeOK

LEMMA Kept ==
  ASSUME RetrievalInv
  PROVE  /\ want \in [Served -> Presence] /\ rows \in [Served -> Presence]
         /\ text \in [Served -> Presence] /\ points \in [Served -> Presence]
         /\ collection \in Sizes \cup {None} /\ index \in [Hosting -> Index]
         /\ call \in [Calls -> Call] /\ open \subseteq Served \X Presence
         /\ missed \subseteq Served /\ overlapped \subseteq Served
         /\ refused \subseteq {"exists", "size"}
         /\ \A c \in Calls : /\ call[c] \in Call /\ call[c].class \in Presence
                             /\ call[c].note \subseteq Served /\ call[c].settled \subseteq Served
         /\ Shaped /\ Alone /\ Sole /\ Agrees /\ StaySettled /\ SupersededIsLeftOut
<1>1. RetrievalTypeOK /\ Core
  BY DEF RetrievalInv
<1>2. \A c \in Calls : call[c] \in Call
  BY <1>1 DEF RetrievalTypeOK
<1>3. ASSUME NEW a \in Call
      PROVE  a.class \in Presence /\ a.note \subseteq Served /\ a.settled \subseteq Served
  BY DEF Call
<1> QED
  BY <1>1, <1>2, <1>3 DEF RetrievalTypeOK, Core

\* A call writes a note only while it is under way.
LEMMA FreeWritesNothing ==
  ASSUME RetrievalInv, NEW c \in Calls, Free(c)
  PROVE  call[c].note = {} /\ call[c].settled = {}
BY Kept, NoCallYetIsCall DEF Shaped

-----------------------------------------------------------------------------
\* A call goes on, and the stores change at most where it writes, as it writes.
LEMMA Onward ==
  ASSUME RetrievalInv, NEW c \in Calls, ~Free(c), NEW new \in Call,
         call' = [call EXCEPT ![c] = new], UNCHANGED <<soft, want, open, overlapped>>,
         new.pc \notin {"idle", "tables"}, new.by = call[c].by, new.kind = call[c].kind,
         new.note = call[c].note, new.class = call[c].class, new.settled = call[c].settled,
         ~IsSearch(c) => new.pc \notin {"classify", "rank"},
         \A n \in Served \ call[c].note :
           /\ rows'[n] = rows[n] /\ text'[n] = text[n] /\ points'[n] = points[n]
           /\ n \in missed => n \in missed',
         \A n \in call[c].note :
           /\ \/ rows'[n] = call[c].class /\ text'[n] = call[c].class
              \/ UNCHANGED <<rows, text>>
           /\ CallAt(c, "tables") => rows'[n] = call[c].class /\ text'[n] = call[c].class
           /\ points'[n] \in {points[n], "none", call[c].class}
           /\ new.pc = "finish" => points'[n] = call[c].class \/ n \in missed',
         ~new.all => (new.lexical \cup new.vector) \cap new.settled = {}
  PROVE  Core' /\ call' \in [Calls -> Call]
<1> USE Kept
<1>1. /\ call' \in [Calls -> Call] /\ call'[c] = new
      /\ \A d \in Calls \ {c} : call'[d] = call[d]
  BY CallMoves DEF RetrievalInv
<1>2. \A d \in Calls : /\ call'[d].note = call[d].note /\ call'[d].class = call[d].class
                       /\ call'[d].settled = call[d].settled
  BY <1>1
<1>3. Shaped'
  <2>1. ASSUME NEW d \in Calls, d # c
        PROVE  /\ Free(d)' => call'[d] = NoCallYet
               /\ ~Free(d)' => By(d)' \in Hosting
               /\ IsSearch(d)' => call'[d].note = {}
               /\ ~IsSearch(d)' => ~CallAt(d, "classify")' /\ ~CallAt(d, "rank")'
    BY <1>1, <2>1 DEF Shaped, Free, CallAt, IsSearch, By
  <2>2. /\ ~Free(c)' /\ By(c)' \in Hosting /\ (IsSearch(c)' => call'[c].note = {})
        /\ ~IsSearch(c)' => ~CallAt(c, "classify")' /\ ~CallAt(c, "rank")'
    BY <1>1 DEF Shaped, Free, CallAt, IsSearch, By
  <2> QED
    BY <2>1, <2>2 DEF Shaped
<1>4. Alone'
  BY <1>2 DEF Alone
<1>5. Sole'
  <2>1. ASSUME NEW d \in Calls, NEW n \in call[d].note, n \notin overlapped
        PROVE  /\ call[d].class = want[n] /\ <<n, call[d].class>> \in open
               /\ ~CallAt(d, "tables")' => rows'[n] = call[d].class /\ text'[n] = call[d].class
               /\ CallAt(d, "finish")' => points'[n] = call[d].class \/ n \in missed'
    <3>1. /\ call[d].class = want[n] /\ <<n, call[d].class>> \in open /\ n \in Served
          /\ ~CallAt(d, "tables") => rows[n] = call[d].class /\ text[n] = call[d].class
          /\ CallAt(d, "finish") => points[n] = call[d].class \/ n \in missed
      BY <2>1 DEF Sole
    <3>2. CASE d = c
      BY <1>1, <2>1, <3>1, <3>2 DEF CallAt
    <3>3. CASE d # c
      <4>1. n \notin call[c].note
        BY <2>1, <3>3 DEF Alone
      <4> QED
        BY <1>1, <3>1, <3>3, <4>1 DEF CallAt
    <3> QED
      BY <3>2, <3>3
  <2> QED
    BY <1>2, <2>1 DEF Sole
<1>6. \A n \in Served : AtRest(n)' => AtRest(n) /\ n \notin call[c].note
  BY <1>2 DEF AtRest, Syncing
<1>7. Agrees'
  BY <1>6 DEF Agrees
<1>8. StaySettled'
  <2>1. ASSUME NEW n \in Served, Settled(n) PROVE Settled(n)'
    <3>1. /\ want[n] = "superseded" /\ <<n, "current">> \notin open
          /\ text[n] # "current" /\ points[n] # "current"
          /\ \A d \in Calls : n \in call[d].note => call[d].class # "current"
      BY <2>1 DEF Settled
    <3>2. text'[n] # "current" /\ points'[n] # "current"
      BY <3>1
    <3> QED
      BY <1>2, <3>1, <3>2 DEF Settled
  <2> QED
    BY <1>2, <2>1 DEF StaySettled
<1>9. SupersededIsLeftOut'
  BY <1>1 DEF SupersededIsLeftOut
<1> QED
  BY <1>1, <1>3, <1>4, <1>5, <1>7, <1>8, <1>9 DEF Core

\* A call ends; its entry is open again, or was through.
LEMMA Ended ==
  ASSUME RetrievalInv, NEW c \in Calls, Ends(c),
         UNCHANGED <<soft, want, rows, text, overlapped, missed>>,
         \A n \in Served \ call[c].note : points'[n] = points[n],
         \A n \in call[c].note : points'[n] \in {points[n], call[c].class},
         \/ open' = open \cup Writes(c)
         \/ open' = open \ Writes(c) /\ CallAt(c, "finish") /\ UNCHANGED points
  PROVE  Core' /\ call' \in [Calls -> Call] /\ open' \subseteq Served \X Presence
<1> USE Kept
<1>1. /\ call' \in [Calls -> Call] /\ call'[c] = NoCallYet
      /\ \A d \in Calls \ {c} : call'[d] = call[d]
  BY CallMoves, NoCallYetIsCall DEF Ends, RetrievalInv
<1>2. \A n, k : <<n, k>> \in Writes(c) <=> n \in call[c].note /\ k = call[c].class
  BY DEF Writes
<1>3. \A n : n \notin call[c].note => \A k : <<n, k>> \in open' <=> <<n, k>> \in open
  BY <1>2
<1>4. open' \subseteq Served \X Presence
  BY DEF Writes
<1>5. Shaped'
  BY <1>1, NoCallYetIsCall DEF Shaped, Free, CallAt, IsSearch, By
<1>6. Alone'
  BY <1>1, NoCallYetIsCall DEF Alone
<1>7. Sole'
  <2>1. ASSUME NEW d \in Calls, NEW n \in call'[d].note, n \notin overlapped
        PROVE  /\ call'[d].class = want[n] /\ <<n, call'[d].class>> \in open'
               /\ ~CallAt(d, "tables")' => rows[n] = call'[d].class /\ text[n] = call'[d].class
               /\ CallAt(d, "finish")' => points'[n] = call'[d].class \/ n \in missed
    <3>1. d # c /\ call'[d] = call[d]
      BY <1>1, <2>1, NoCallYetIsCall
    <3>2. n \notin call[c].note /\ n \in Served
      BY <2>1, <3>1 DEF Alone
    <3> QED
      BY <1>3, <2>1, <3>1, <3>2 DEF Sole, CallAt
  <2> QED
    BY <2>1 DEF Sole
<1>8. Agrees'
  <2>1. ASSUME NEW n \in Served, AtRest(n)', n \notin overlapped
        PROVE  rows[n] = want[n] /\ text[n] = want[n] /\ (points'[n] = want[n] \/ n \in missed)
    <3>1. CASE n \in call[c].note
      <4>0. call[c].class \in Presence /\ \A k \in Presence : <<n, k>> \notin open'
        BY <2>1 DEF AtRest
      <4>1. <<n, call[c].class>> \notin open' /\ <<n, call[c].class>> \in Writes(c)
        BY <1>2, <3>1, <4>0
      <4>2. CallAt(c, "finish") /\ UNCHANGED points
        BY <4>1
      <4>3. /\ call[c].class = want[n]
            /\ rows[n] = call[c].class /\ text[n] = call[c].class
            /\ points[n] = call[c].class \/ n \in missed
        <5>1. CallAt(c, "finish") /\ ~CallAt(c, "tables")
          BY <4>2 DEF CallAt
        <5> QED
          BY <2>1, <3>1, <5>1 DEF Sole
      <4> QED
        BY <4>2, <4>3
    <3>2. CASE n \notin call[c].note
      <4>1. AtRest(n)
        BY <1>1, <1>3, <2>1, <3>2 DEF AtRest, Syncing
      <4> QED
        BY <2>1, <3>2, <4>1 DEF Agrees
    <3> QED
      BY <3>1, <3>2
  <2> QED
    BY <2>1 DEF Agrees
<1>9. StaySettled'
  <2>1. ASSUME NEW n \in Served, Settled(n) PROVE Settled(n)'
    <3>1. /\ want[n] = "superseded" /\ <<n, "current">> \notin open
          /\ text[n] # "current" /\ points[n] # "current"
          /\ \A d \in Calls : n \in call[d].note => call[d].class # "current"
      BY <2>1 DEF Settled
    <3>2. <<n, "current">> \notin open' /\ points'[n] # "current"
      BY <1>2, <3>1
    <3>3. \A d \in Calls : n \in call'[d].note => call'[d].class # "current"
      BY <1>1, <3>1, NoCallYetIsCall
    <3> QED
      BY <3>1, <3>2, <3>3 DEF Settled
  <2>2. \A d \in Calls : call'[d].settled \subseteq call[d].settled
    BY <1>1, NoCallYetIsCall
  <2> QED
    BY <2>1, <2>2 DEF StaySettled
<1>10. SupersededIsLeftOut'
  BY <1>1, NoCallYetIsCall DEF SupersededIsLeftOut
<1> QED
  BY <1>1, <1>4, <1>5, <1>6, <1>7, <1>8, <1>9, <1>10 DEF Core

-----------------------------------------------------------------------------
\* The ways a call goes on, or ends.
Stage == {"remove", "embed", "get", "create", "points", "rank", "finish"}

LEMMA MovedTo ==
  ASSUME RetrievalInv, NEW c \in Calls, NEW pc \in Stage
  PROVE  LET new == [call[c] EXCEPT !.pc = pc] IN
         /\ new \in Call /\ new.pc = pc /\ new.by = call[c].by /\ new.kind = call[c].kind
         /\ new.note = call[c].note /\ new.class = call[c].class /\ new.all = call[c].all
         /\ new.settled = call[c].settled
         /\ new.lexical = call[c].lexical /\ new.vector = call[c].vector
BY Kept DEF Call, Stage

LEMMA GoesOn ==
  ASSUME RetrievalInv, NEW c \in Calls, ~Free(c), NEW pc \in Stage, Go(c, pc),
         UNCHANGED <<soft, want, open, overlapped>>,
         ~IsSearch(c) => pc # "rank",
         \A n \in Served \ call[c].note :
           /\ rows'[n] = rows[n] /\ text'[n] = text[n] /\ points'[n] = points[n]
           /\ n \in missed => n \in missed',
         \A n \in call[c].note :
           /\ \/ rows'[n] = call[c].class /\ text'[n] = call[c].class
              \/ UNCHANGED <<rows, text>>
           /\ CallAt(c, "tables") => rows'[n] = call[c].class /\ text'[n] = call[c].class
           /\ points'[n] \in {points[n], "none", call[c].class}
           /\ pc = "finish" => points'[n] = call[c].class \/ n \in missed',
         pc = "create" => soft[By(c)]
  PROVE  Core' /\ call' \in [Calls -> Call] /\ MadeSoftly'
<1> DEFINE new == [call[c] EXCEPT !.pc = pc]
<1>1. /\ new \in Call /\ new.pc = pc /\ new.by = call[c].by /\ new.kind = call[c].kind
      /\ new.note = call[c].note /\ new.class = call[c].class /\ new.all = call[c].all
      /\ new.settled = call[c].settled
      /\ new.lexical = call[c].lexical /\ new.vector = call[c].vector
  BY MovedTo
<1>2. call' = [call EXCEPT ![c] = new]
  BY Kept DEF Go
<1> HIDE DEF new
<1>3. ~new.all => (new.lexical \cup new.vector) \cap new.settled = {}
  BY <1>1, Kept DEF SupersededIsLeftOut
<1>4. new.pc \notin {"idle", "tables"} /\ (~IsSearch(c) => new.pc \notin {"classify", "rank"})
  BY <1>1 DEF Stage
<1>5. Core' /\ call' \in [Calls -> Call]
  BY <1>1, <1>2, <1>3, <1>4, Onward
<1>6. /\ call'[c] = new /\ \A d \in Calls \ {c} : call'[d] = call[d]
  BY <1>1, <1>2, CallMoves DEF RetrievalInv
<1>7. MadeSoftly'
  BY <1>1, <1>6 DEF RetrievalInv, Causes, MadeSoftly, CallAt, By
<1> QED
  BY <1>5, <1>7

LEMMA EndedSoftly ==
  ASSUME RetrievalInv, NEW c \in Calls, Ends(c), UNCHANGED soft
  PROVE  MadeSoftly'
<1>1. /\ call'[c] = NoCallYet /\ \A d \in Calls \ {c} : call'[d] = call[d]
  BY CallMoves, NoCallYetIsCall DEF Ends, RetrievalInv
<1> QED
  BY <1>1, NoCallYetIsCall DEF RetrievalInv, Causes, MadeSoftly, CallAt, By

LEMMA Throws ==
  ASSUME RetrievalInv, NEW c \in Calls, Throw(c),
         UNCHANGED <<soft, want, rows, text, overlapped, missed>>,
         \A n \in Served \ call[c].note : points'[n] = points[n],
         \A n \in call[c].note : points'[n] \in {points[n], call[c].class}
  PROVE  /\ Core' /\ call' \in [Calls -> Call] /\ MadeSoftly'
         /\ open' \subseteq Served \X Presence
<1>1. Ends(c) /\ open' = open \cup Writes(c)
  BY DEF Throw
<1>2. Core' /\ call' \in [Calls -> Call] /\ open' \subseteq Served \X Presence
  BY <1>1, Ended
<1> QED
  BY <1>1, <1>2, EndedSoftly

LEMMA LeavesUnwritten ==
  ASSUME RetrievalInv, NEW c \in Calls, ~Free(c), ~CallAt(c, "tables"), Unwritten(c),
         UNCHANGED <<soft, want, rows, text, overlapped>>,
         \A n \in Served \ call[c].note : points'[n] = points[n],
         \A n \in call[c].note : points'[n] \in {points[n], call[c].class}
  PROVE  /\ Core' /\ call' \in [Calls -> Call] /\ MadeSoftly'
         /\ open' = open /\ missed' \subseteq Served
<1>1. /\ Go(c, "finish") /\ missed' = missed \cup call[c].note /\ open' = open
      /\ "finish" \in Stage
  BY DEF Unwritten, Stage
<1>2. Core' /\ call' \in [Calls -> Call] /\ MadeSoftly'
  BY <1>1, GoesOn
<1> QED
  BY <1>1, <1>2, Kept

LEMMA PassesOver ==
  ASSUME RetrievalInv, NEW c \in Calls, ~Free(c), ~CallAt(c, "tables"), PassOver(c),
         UNCHANGED <<soft, want, rows, text, points, overlapped>>
  PROVE  /\ Core' /\ call' \in [Calls -> Call] /\ MadeSoftly'
         /\ open' = open /\ missed' \subseteq Served
         /\ IsSearch(c) => missed' = missed
<1>1. CASE IsSearch(c)
  <2>1. /\ Go(c, "rank") /\ open' = open /\ missed' = missed /\ "rank" \in Stage
        /\ call[c].note = {}
    BY <1>1, Kept DEF PassOver, Stage, Shaped
  <2>2. Core' /\ call' \in [Calls -> Call] /\ MadeSoftly'
    BY <1>1, <2>1, GoesOn
  <2> QED
    BY <2>1, <2>2, Kept
<1>2. CASE ~IsSearch(c)
  <2>1. Unwritten(c)
    BY <1>2 DEF PassOver
  <2> QED
    BY <1>2, <2>1, LeavesUnwritten
<1> QED
  BY <1>1, <1>2

\* How an index knows how its last request went.
LEMMA IndexTypes ==
  ASSUME RetrievalInv, NEW c \in Calls, ~Free(c),
         \/ Succeeds(c) \/ Fails(c) \/ Remembers(c) \/ UNCHANGED index
  PROVE  index' \in [Hosting -> Index]
<1>1. By(c) \in Hosting /\ index \in [Hosting -> Index] /\ call[c].size \in Sizes \cup {None}
  BY Kept DEF Shaped, Call
<1>2. [size |-> call[c].size, status |-> "healthy"] \in Index
  BY <1>1 DEF Index
<1>3. ASSUME NEW st \in {"healthy", "degraded"}
      PROVE  [index EXCEPT ![By(c)].status = st] \in [Hosting -> Index]
  BY <1>1 DEF Index
<1> QED
  BY <1>1, <1>2, <1>3 DEF Succeeds, Fails, Remembers

\* What is missed has a cause, and a collection somebody to have made it.
LEMMA CausesKept ==
  ASSUME RetrievalInv, UNCHANGED soft, vectorFaults' \in Nat, vectorFaults' >= vectorFaults,
         refused \subseteq refused', missed' \subseteq missed \/ vectorFaults' > 0 \/ refused' # {},
         collection' # None => collection # None \/ \E p \in Hosting : soft[p], MadeSoftly'
  PROVE  Causes'
<1>1. MissedCaused'
  <2>1. vectorFaults > 0 => vectorFaults' > 0
    BY VectorAssumption DEF RetrievalInv, RetrievalTypeOK
  <2>2. refused # {} => refused' # {}
    OBVIOUS
  <2>3. missed # {} => vectorFaults > 0 \/ refused # {}
    BY DEF RetrievalInv, Causes, MissedCaused
  <2>4. missed' # {} => missed # {} \/ vectorFaults' > 0 \/ refused' # {}
    OBVIOUS
  <2> QED
    BY <2>1, <2>2, <2>3, <2>4 DEF MissedCaused
<1>2. HardIndexNeedsCollection'
  BY DEF RetrievalInv, Causes, HardIndexNeedsCollection
<1> QED
  BY <1>1, <1>2 DEF Causes

LEMMA FaultCounts ==
  ASSUME RetrievalTypeOK, Fault
  PROVE  /\ vectorFaults' \in 0 .. MaxVectorFaults /\ vectorFaults' \in Nat /\ vectorFaults' > 0
         /\ vectorFaults' >= vectorFaults
BY VectorAssumption DEF RetrievalTypeOK, Fault

\* A step that keeps the parts keeps the whole.
LEMMA Assembled ==
  ASSUME RetrievalInv, UNCHANGED soft, Core', MadeSoftly', call' \in [Calls -> Call],
         want' \in [Served -> Presence], rows' \in [Served -> Presence],
         text' \in [Served -> Presence], points' \in [Served -> Presence],
         collection' \in Sizes \cup {None}, index' \in [Hosting -> Index],
         open' \subseteq Served \X Presence, missed' \subseteq Served,
         overlapped' \subseteq Served,
         refused \subseteq refused', refused' \subseteq {"exists", "size"},
         vectorFaults' = vectorFaults \/ Fault,
         missed' \subseteq missed \/ Fault \/ refused' # {},
         collection' # None => collection # None \/ \E p \in Hosting : soft[p]
  PROVE  RetrievalInv'
<1>1. /\ vectorFaults' \in 0 .. MaxVectorFaults /\ vectorFaults' \in Nat
      /\ vectorFaults' >= vectorFaults /\ (Fault => vectorFaults' > 0)
  BY FaultCounts, VectorAssumption DEF RetrievalInv, RetrievalTypeOK
<1>2. StoreTypes'
  BY <1>1 DEF StoreTypes
<1>3. RetrievalTypeOK'
  BY <1>2, TypesKept DEF RetrievalInv
<1>4. Causes'
  BY <1>1, CausesKept
<1> QED
  BY <1>3, <1>4 DEF RetrievalInv

-----------------------------------------------------------------------------
\* Each step of a call keeps the invariant.
LEMMA Replaced ==
  ASSUME RetrievalInv, NEW c \in Calls, NEW f \in [Served -> Presence], NEW v \in Presence
  PROVE  LET g == [n \in Served |-> IF n \in call[c].note THEN v ELSE f[n]] IN
         /\ g \in [Served -> Presence]
         /\ \A n \in Served \ call[c].note : g[n] = f[n]
         /\ \A n \in call[c].note : g[n] = v
BY Kept

LEMMA TablesKeeps == ASSUME RetrievalInv, NEW c \in Calls, SyncTables(c) PROVE RetrievalInv'
<1>1. /\ CallAt(c, "tables") /\ Go(c, "remove") /\ "remove" \in Stage
      /\ UNCHANGED <<soft, want, points, collection, index, open, missed, overlapped, refused,
                     vectorFaults>>
      /\ rows' = [n \in Served |-> IF n \in call[c].note THEN call[c].class ELSE rows[n]]
      /\ text' = [n \in Served |-> IF n \in call[c].note THEN call[c].class ELSE text[n]]
  BY DEF SyncTables, Stage, histories
<1>2. ~Free(c)
  BY <1>1 DEF Free, CallAt
<1>3. /\ rows' \in [Served -> Presence] /\ text' \in [Served -> Presence]
      /\ \A n \in Served \ call[c].note : rows'[n] = rows[n] /\ text'[n] = text[n]
      /\ \A n \in call[c].note : rows'[n] = call[c].class /\ text'[n] = call[c].class
  BY <1>1, Kept, Replaced
<1>4. Core' /\ call' \in [Calls -> Call] /\ MadeSoftly'
  BY <1>1, <1>2, <1>3, GoesOn
<1> QED
  BY <1>1, <1>3, <1>4, Kept, Assembled

LEMMA RemoveKeeps == ASSUME RetrievalInv, NEW c \in Calls, RemovePoints(c) PROVE RetrievalInv'
<1>1. /\ CallAt(c, "remove") /\ "embed" \in Stage
      /\ UNCHANGED <<soft, want, rows, text, collection, overlapped, refused>>
  BY DEF RemovePoints, Stage
<1>2. ~Free(c) /\ ~CallAt(c, "tables")
  BY <1>1 DEF Free, CallAt
<1>3. CASE /\ points' = [n \in Served |-> IF n \in call[c].note THEN "none" ELSE points[n]]
           /\ Succeeds(c) /\ Go(c, "embed") /\ UNCHANGED <<open, missed, vectorFaults>>
  <2>1. /\ points' \in [Served -> Presence]
        /\ \A n \in Served \ call[c].note : points'[n] = points[n]
        /\ \A n \in call[c].note : points'[n] = "none"
    BY <1>3, Kept, Replaced DEF Presence
  <2>2. Core' /\ call' \in [Calls -> Call] /\ MadeSoftly'
    BY <1>1, <1>2, <1>3, <2>1, GoesOn
  <2>3. index' \in [Hosting -> Index]
    BY <1>2, <1>3, IndexTypes
  <2> QED
    BY <1>1, <1>3, <2>1, <2>2, <2>3, Kept, Assembled
<1>4. CASE /\ IF collection # None THEN Fault ELSE UNCHANGED vectorFaults
           /\ Fails(c) /\ Unanswered(c, Go(c, "embed") /\ UNCHANGED <<open, missed>>)
           /\ UNCHANGED points
  <2>1. /\ Core' /\ call' \in [Calls -> Call] /\ MadeSoftly'
        /\ open' \subseteq Served \X Presence /\ missed' = missed
    <3>1. CASE soft[By(c)]
      <4>1. Go(c, "embed") /\ open' = open /\ missed' = missed
        BY <1>4, <3>1 DEF Unanswered
      <4> QED
        BY <1>1, <1>2, <1>4, <4>1, Kept, GoesOn
    <3>2. CASE ~soft[By(c)]
      <4>1. Throw(c) /\ missed' = missed
        BY <1>4, <3>2 DEF Unanswered
      <4> QED
        BY <1>1, <1>2, <1>4, <4>1, Throws
    <3> QED
      BY <3>1, <3>2
  <2>2. index' \in [Hosting -> Index]
    BY <1>2, <1>4, IndexTypes
  <2> QED
    BY <1>1, <1>4, <2>1, <2>2, Kept, Assembled
<1> QED
  BY <1>3, <1>4 DEF RemovePoints

\* The lexical index gives a search no note that was superseded when it began.
LEMMA TextKeeps == ASSUME RetrievalInv, NEW c \in Calls, SearchText(c) PROVE RetrievalInv'
<1> DEFINE hits == {n \in Served : Visible(c, text[n]) /\ rows[n] # "none"}
           new == [call[c] EXCEPT !.pc = "embed", !.lexical = hits]
<1>1. /\ CallAt(c, "classify")
      /\ UNCHANGED <<soft, want, rows, text, points, collection, index, open, missed, overlapped,
                     refused, vectorFaults>>
  BY DEF SearchText, stores, histories
<1>2. ~Free(c) /\ IsSearch(c) /\ call[c].note = {}
  BY <1>1, Kept DEF Free, CallAt, Shaped
<1>3. hits \in SUBSET Served
  OBVIOUS
<1>4. call' = [call EXCEPT ![c] = new]
  BY Kept DEF SearchText
<1>5. ~call[c].all => hits \cap call[c].settled = {}
  BY Kept DEF Visible, StaySettled, Settled
<1>6. ~call[c].all => call[c].vector \cap call[c].settled = {}
  BY Kept DEF SupersededIsLeftOut
<1> HIDE DEF hits
<1>7. /\ new \in Call /\ new.pc = "embed" /\ new.by = call[c].by /\ new.kind = call[c].kind
      /\ new.note = call[c].note /\ new.class = call[c].class /\ new.all = call[c].all
      /\ new.settled = call[c].settled /\ new.lexical = hits /\ new.vector = call[c].vector
  BY <1>3, Kept DEF Call
<1> HIDE DEF new
<1>8. ~new.all => (new.lexical \cup new.vector) \cap new.settled = {}
  BY <1>5, <1>6, <1>7
<1>9. Core' /\ call' \in [Calls -> Call]
  BY <1>1, <1>2, <1>4, <1>7, <1>8, Onward
<1>10. MadeSoftly'
  BY <1>1, <1>4, <1>7, CallMoves DEF RetrievalInv, Causes, MadeSoftly, CallAt, By
<1> QED
  BY <1>1, <1>9, <1>10, Kept, Assembled

LEMMA EmbedKeeps == ASSUME RetrievalInv, NEW c \in Calls, Embed(c) PROVE RetrievalInv'
<1>1. /\ CallAt(c, "embed")
      /\ UNCHANGED <<soft, want, rows, text, points, collection, index, open, missed, overlapped,
                     refused, vectorFaults>>
  BY DEF Embed, stores, histories
<1>2. ~Free(c) /\ ~CallAt(c, "tables")
  BY <1>1 DEF Free, CallAt
<1>3. PICK s \in Sizes :
        call' = [call EXCEPT ![c].size = s,
                             ![c].pc = IF index[By(c)].size = s THEN "points" ELSE "get"]
  BY DEF Embed
<1> DEFINE pc == IF index[By(c)].size = s THEN "points" ELSE "get"
           new == [call[c] EXCEPT !.size = s, !.pc = pc]
<1>4. call' = [call EXCEPT ![c] = new]
  BY <1>3, Kept
<1>5. pc \in {"points", "get"}
  OBVIOUS
<1> HIDE DEF pc
<1>6. /\ new \in Call /\ new.pc = pc /\ new.by = call[c].by /\ new.kind = call[c].kind
      /\ new.note = call[c].note /\ new.class = call[c].class /\ new.all = call[c].all
      /\ new.settled = call[c].settled
      /\ new.lexical = call[c].lexical /\ new.vector = call[c].vector
  BY <1>5, Kept DEF Call
<1> HIDE DEF new
<1>7. ~new.all => (new.lexical \cup new.vector) \cap new.settled = {}
  BY <1>6, Kept DEF SupersededIsLeftOut
<1>8. Core' /\ call' \in [Calls -> Call]
  BY <1>1, <1>2, <1>4, <1>5, <1>6, <1>7, Onward
<1>9. MadeSoftly'
  BY <1>1, <1>4, <1>5, <1>6, CallMoves DEF RetrievalInv, Causes, MadeSoftly, CallAt, By
<1> QED
  BY <1>1, <1>8, <1>9, Kept, Assembled

LEMMA ModelKeeps == ASSUME RetrievalInv, NEW c \in Calls, ModelFails(c) PROVE RetrievalInv'
<1>1. /\ Fault /\ Throw(c)
      /\ UNCHANGED <<soft, want, rows, text, points, collection, index, missed, overlapped, refused>>
  BY DEF ModelFails, stores, histories
<1>2. Core' /\ call' \in [Calls -> Call] /\ MadeSoftly' /\ open' \subseteq Served \X Presence
  BY <1>1, Throws
<1> QED
  BY <1>1, <1>2, Kept, Assembled

LEMMA AnswerKeeps == ASSUME RetrievalInv, NEW c \in Calls, Answer(c) PROVE RetrievalInv'
<1>1. /\ CallAt(c, "rank") /\ Ends(c)
      /\ UNCHANGED <<soft, want, rows, text, points, collection, index, open, missed, overlapped,
                     refused, vectorFaults>>
  BY DEF Answer, stores, histories
<1>2. call[c].note = {}
  BY <1>1, Kept DEF CallAt, Shaped
<1>3. open' = open \cup Writes(c)
  BY <1>1, <1>2 DEF Writes
<1>4. Core' /\ call' \in [Calls -> Call] /\ MadeSoftly'
  BY <1>1, <1>3, Ended, EndedSoftly
<1> QED
  BY <1>1, <1>4, Kept, Assembled

LEMMA FinishKeeps == ASSUME RetrievalInv, NEW c \in Calls, FinishEntry(c) PROVE RetrievalInv'
<1>1. /\ CallAt(c, "finish") /\ Ends(c)
      /\ open' = open \ Writes(c) \/ open' = open \cup Writes(c)
      /\ UNCHANGED <<soft, want, rows, text, points, collection, index, missed, overlapped,
                     refused, vectorFaults>>
  BY DEF FinishEntry, stores, histories
<1>2. Core' /\ call' \in [Calls -> Call] /\ MadeSoftly' /\ open' \subseteq Served \X Presence
  BY <1>1, Ended, EndedSoftly
<1> QED
  BY <1>1, <1>2, Kept, Assembled

LEMMA GetKeeps == ASSUME RetrievalInv, NEW c \in Calls, GetCollection(c) PROVE RetrievalInv'
<1>1. /\ CallAt(c, "get") /\ "points" \in Stage /\ "create" \in Stage
      /\ UNCHANGED <<soft, want, rows, text, points, collection, overlapped>>
  BY DEF GetCollection, stores, Stage
<1>2. ~Free(c) /\ ~CallAt(c, "tables")
  BY <1>1 DEF Free, CallAt
<1>3. CASE /\ Remembers(c) /\ Go(c, "points")
           /\ UNCHANGED <<open, missed, refused, vectorFaults>>
  <2>1. Core' /\ call' \in [Calls -> Call] /\ MadeSoftly'
    BY <1>1, <1>2, <1>3, GoesOn
  <2>2. index' \in [Hosting -> Index]
    BY <1>2, <1>3, IndexTypes
  <2> QED
    BY <1>1, <1>3, <2>1, <2>2, Kept, Assembled
<1>4. CASE RefuseSize(c) /\ UNCHANGED vectorFaults
  <2>1. CASE soft[By(c)]
    <3>1. /\ Fails(c) /\ PassOver(c)
          /\ refused' = IF IsSearch(c) THEN refused ELSE refused \cup {"size"}
      BY <1>4, <2>1 DEF RefuseSize, GiveUp
    <3>2. /\ Core' /\ call' \in [Calls -> Call] /\ MadeSoftly'
          /\ open' = open /\ missed' \subseteq Served /\ (IsSearch(c) => missed' = missed)
      BY <1>1, <1>2, <3>1, PassesOver
    <3>3. index' \in [Hosting -> Index]
      BY <1>2, <3>1, IndexTypes
    <3>4. /\ refused \subseteq refused' /\ refused' \subseteq {"exists", "size"}
          /\ missed' \subseteq missed \/ refused' # {}
      BY <3>1, <3>2, Kept
    <3> QED
      BY <1>1, <1>4, <3>2, <3>3, <3>4, Kept, Assembled
  <2>2. CASE ~soft[By(c)]
    <3>1. Succeeds(c) /\ Throw(c) /\ UNCHANGED <<missed, refused>>
      BY <1>4, <2>2 DEF RefuseSize
    <3>2. Core' /\ call' \in [Calls -> Call] /\ MadeSoftly' /\ open' \subseteq Served \X Presence
      BY <1>1, <3>1, Throws
    <3>3. index' \in [Hosting -> Index]
      BY <1>2, <3>1, IndexTypes
    <3> QED
      BY <1>1, <1>4, <3>1, <3>2, <3>3, Kept, Assembled
  <2> QED
    BY <2>1, <2>2
<1>5. CASE /\ IF collection # None THEN Fault ELSE UNCHANGED vectorFaults
           /\ Fails(c) /\ Unanswered(c, Go(c, "create") /\ UNCHANGED <<open, missed>>)
           /\ UNCHANGED refused
  <2>1. /\ Core' /\ call' \in [Calls -> Call] /\ MadeSoftly'
        /\ open' \subseteq Served \X Presence /\ missed' = missed
    <3>1. CASE soft[By(c)]
      <4>1. Go(c, "create") /\ open' = open /\ missed' = missed
        BY <1>5, <3>1 DEF Unanswered
      <4> QED
        BY <1>1, <1>2, <3>1, <4>1, Kept, GoesOn
    <3>2. CASE ~soft[By(c)]
      <4>1. Throw(c) /\ missed' = missed
        BY <1>5, <3>2 DEF Unanswered
      <4> QED
        BY <1>1, <4>1, Throws
    <3> QED
      BY <3>1, <3>2
  <2>2. index' \in [Hosting -> Index]
    BY <1>2, <1>5, IndexTypes
  <2> QED
    BY <1>1, <1>5, <2>1, <2>2, Kept, Assembled
<1> QED
  BY <1>3, <1>4, <1>5 DEF GetCollection

LEMMA CreateKeeps == ASSUME RetrievalInv, NEW c \in Calls, CreateCollection(c) PROVE RetrievalInv'
<1>1. /\ CallAt(c, "create") /\ "points" \in Stage
      /\ UNCHANGED <<soft, want, rows, text, points, overlapped>>
  BY DEF CreateCollection, Stage
<1>2. ~Free(c) /\ ~CallAt(c, "tables")
  BY <1>1 DEF Free, CallAt
<1>3. By(c) \in Hosting /\ soft[By(c)]
  BY <1>1, <1>2, Kept DEF RetrievalInv, Causes, MadeSoftly, Shaped
<1>4. CASE /\ collection' = call[c].size /\ Remembers(c) /\ Go(c, "points")
           /\ UNCHANGED <<open, missed, refused, vectorFaults>>
  <2>1. Core' /\ call' \in [Calls -> Call] /\ MadeSoftly'
    BY <1>1, <1>2, <1>4, GoesOn
  <2>2. index' \in [Hosting -> Index]
    BY <1>2, <1>4, IndexTypes
  <2>3. collection' \in Sizes \cup {None}
    BY <1>4, Kept DEF Call
  <2> QED
    BY <1>1, <1>3, <1>4, <2>1, <2>2, <2>3, Kept, Assembled
<1>5. CASE /\ Fails(c) /\ PassOver(c) /\ UNCHANGED collection
           /\ \/ /\ refused' = IF IsSearch(c) THEN refused ELSE refused \cup {"exists"}
                 /\ UNCHANGED vectorFaults
              \/ Fault /\ UNCHANGED refused
  <2>1. /\ Core' /\ call' \in [Calls -> Call] /\ MadeSoftly'
        /\ open' = open /\ missed' \subseteq Served /\ (IsSearch(c) => missed' = missed)
    BY <1>1, <1>2, <1>5, PassesOver
  <2>2. index' \in [Hosting -> Index]
    BY <1>2, <1>5, IndexTypes
  <2>3. /\ vectorFaults' = vectorFaults \/ Fault
        /\ refused \subseteq refused' /\ refused' \subseteq {"exists", "size"}
        /\ missed' \subseteq missed \/ Fault \/ refused' # {}
    BY <1>5, <2>1, Kept
  <2> QED
    BY <1>1, <1>5, <2>1, <2>2, <2>3, Kept, Assembled
<1> QED
  BY <1>4, <1>5 DEF CreateCollection, GiveUp

\* Nor does the vector index, which alone decides for its hits.
LEMMA PointsFound ==
  ASSUME RetrievalInv, NEW c \in Calls, CallAt(c, "points"), IsSearch(c),
         call' = [call EXCEPT ![c].pc = "rank",
                    ![c].vector = {n \in Served : Visible(c, points[n]) /\ rows[n] # "none"}],
         UNCHANGED <<soft, want, rows, text, points, open, missed, overlapped>>
  PROVE  Core' /\ call' \in [Calls -> Call] /\ MadeSoftly'
<1> DEFINE hits == {n \in Served : Visible(c, points[n]) /\ rows[n] # "none"}
           new == [call[c] EXCEPT !.pc = "rank", !.vector = hits]
<1>1. ~Free(c) /\ call[c].note = {}
  BY Kept DEF Free, CallAt, Shaped
<1>2. hits \in SUBSET Served
  OBVIOUS
<1>3. call' = [call EXCEPT ![c] = new]
  BY Kept
<1>4. ~call[c].all => hits \cap call[c].settled = {}
  BY Kept DEF Visible, StaySettled, Settled
<1>5. ~call[c].all => call[c].lexical \cap call[c].settled = {}
  BY Kept DEF SupersededIsLeftOut
<1> HIDE DEF hits
<1>6. /\ new \in Call /\ new.pc = "rank" /\ new.by = call[c].by /\ new.kind = call[c].kind
      /\ new.note = call[c].note /\ new.class = call[c].class /\ new.all = call[c].all
      /\ new.settled = call[c].settled /\ new.vector = hits /\ new.lexical = call[c].lexical
  BY <1>2, Kept DEF Call
<1> HIDE DEF new
<1>7. ~new.all => (new.lexical \cup new.vector) \cap new.settled = {}
  BY <1>4, <1>5, <1>6
<1>8. Core' /\ call' \in [Calls -> Call]
  BY <1>1, <1>3, <1>6, <1>7, Onward
<1>9. MadeSoftly'
  BY <1>3, <1>6, CallMoves DEF RetrievalInv, Causes, MadeSoftly, CallAt, By
<1> QED
  BY <1>8, <1>9

LEMMA SearchKeeps == ASSUME RetrievalInv, NEW c \in Calls, SearchPoints(c) PROVE RetrievalInv'
<1>1. /\ CallAt(c, "points") /\ IsSearch(c) /\ "rank" \in Stage
      /\ UNCHANGED <<soft, want, rows, text, points, collection, overlapped, refused>>
  BY DEF SearchPoints, stores, Stage
<1>2. ~Free(c) /\ call[c].note = {}
  BY <1>1, Kept DEF Free, CallAt, Shaped
<1>3. CASE /\ call' = [call EXCEPT ![c].pc = "rank",
                ![c].vector = {n \in Served : Visible(c, points[n]) /\ rows[n] # "none"}]
           /\ Succeeds(c) /\ UNCHANGED <<open, missed, vectorFaults>>
  <2>1. Core' /\ call' \in [Calls -> Call] /\ MadeSoftly'
    BY <1>1, <1>3, PointsFound
  <2>2. index' \in [Hosting -> Index]
    BY <1>2, <1>3, IndexTypes
  <2> QED
    BY <1>1, <1>3, <2>1, <2>2, Kept, Assembled
<1>4. CASE Fault /\ Fails(c) /\ Unanswered(c, Go(c, "rank") /\ UNCHANGED <<open, missed>>)
  <2>1. /\ Core' /\ call' \in [Calls -> Call] /\ MadeSoftly'
        /\ open' \subseteq Served \X Presence /\ missed' = missed
    <3>1. CASE soft[By(c)]
      <4>1. Go(c, "rank") /\ open' = open /\ missed' = missed
        BY <1>4, <3>1 DEF Unanswered
      <4> QED
        BY <1>1, <1>2, <4>1, Kept, GoesOn
    <3>2. CASE ~soft[By(c)]
      <4>1. Throw(c) /\ missed' = missed
        BY <1>4, <3>2 DEF Unanswered
      <4> QED
        BY <1>1, <4>1, Throws
    <3> QED
      BY <3>1, <3>2
  <2>2. index' \in [Hosting -> Index]
    BY <1>2, <1>4, IndexTypes
  <2> QED
    BY <1>1, <1>4, <2>1, <2>2, Kept, Assembled
<1> QED
  BY <1>3, <1>4 DEF SearchPoints

LEMMA UpsertKeeps == ASSUME RetrievalInv, NEW c \in Calls, UpsertPoints(c) PROVE RetrievalInv'
<1> DEFINE written == [n \in Served |-> IF n \in call[c].note THEN call[c].class ELSE points[n]]
<1>1. /\ CallAt(c, "points") /\ ~IsSearch(c) /\ "finish" \in Stage
      /\ UNCHANGED <<soft, want, rows, text, collection, overlapped, refused>>
  BY DEF UpsertPoints, Stage
<1>2. ~Free(c) /\ ~CallAt(c, "tables")
  BY <1>1 DEF Free, CallAt
<1>3. /\ written \in [Served -> Presence]
      /\ \A n \in Served \ call[c].note : written[n] = points[n]
      /\ \A n \in call[c].note : written[n] = call[c].class
  BY Kept, Replaced
<1>4. CASE /\ points' = written /\ missed' = missed \ call[c].note
           /\ Succeeds(c) /\ Go(c, "finish") /\ UNCHANGED <<open, vectorFaults>>
  <2> HIDE DEF written
  <2>1. Core' /\ call' \in [Calls -> Call] /\ MadeSoftly'
    BY <1>1, <1>2, <1>3, <1>4, GoesOn
  <2>2. index' \in [Hosting -> Index]
    BY <1>2, <1>4, IndexTypes
  <2> QED
    BY <1>1, <1>3, <1>4, <2>1, <2>2, Kept, Assembled
<1>5. CASE points' \in {points, written} /\ Fault /\ Fails(c) /\ Unanswered(c, Unwritten(c))
  <2> HIDE DEF written
  <2>1. /\ points' \in [Served -> Presence]
        /\ \A n \in Served \ call[c].note : points'[n] = points[n]
        /\ \A n \in call[c].note : points'[n] \in {points[n], call[c].class}
    BY <1>3, <1>5, Kept
  <2>2. /\ Core' /\ call' \in [Calls -> Call] /\ MadeSoftly'
        /\ open' \subseteq Served \X Presence /\ missed' \subseteq Served
    <3>1. CASE soft[By(c)]
      <4>1. Unwritten(c)
        BY <1>5, <3>1 DEF Unanswered
      <4> QED
        BY <1>1, <1>2, <2>1, <4>1, Kept, LeavesUnwritten
    <3>2. CASE ~soft[By(c)]
      <4>1. Throw(c) /\ missed' = missed
        BY <1>5, <3>2 DEF Unanswered
      <4> QED
        BY <1>1, <2>1, <4>1, Kept, Throws
    <3> QED
      BY <3>1, <3>2
  <2>3. index' \in [Hosting -> Index]
    BY <1>2, <1>5, IndexTypes
  <2> QED
    BY <1>1, <1>5, <2>1, <2>2, <2>3, Kept, Assembled
<1> QED
  BY <1>4, <1>5 DEF UpsertPoints

-----------------------------------------------------------------------------
\* Calls begin, and processes restart.
LEMMA StartSyncKeeps ==
  ASSUME RetrievalInv, NEW c \in Calls, NEW p \in Hosting, NEW n \in Served,
         NEW class \in {"current", "superseded"}, StartSync(c, p, n, class)
  PROVE  RetrievalInv'
<1> DEFINE new == [NoCallYet EXCEPT !.pc = "tables", !.kind = "sync", !.by = p, !.note = {n},
                                    !.class = class]
<1> USE Kept
<1>1. /\ Free(c) /\ call' = [call EXCEPT ![c] = new]
      /\ open' = open \cup {<<n, class>>}
      /\ overlapped' = IF Syncing(n) THEN overlapped \cup {n} ELSE overlapped \ {n}
      /\ UNCHANGED <<soft, rows, text, points, collection, index, missed, refused, vectorFaults>>
  BY DEF StartSync, stores
<1>2. /\ want' \in [Served -> Presence] /\ want'[n] = class
      /\ \A m \in Served \ {n} : want'[m] = want[m]
  BY DEF StartSync, Presence
<1>3. class = "current" => want[n] = "none" \/ <<n, "current">> \in open
  BY DEF StartSync
<1>4. /\ new \in Call /\ new.pc = "tables" /\ new.kind = "sync" /\ new.by = p /\ new.note = {n}
      /\ new.class = class /\ new.settled = {} /\ new.lexical = {} /\ new.vector = {}
  BY DEF Call, NoCallYet, Presence
<1> HIDE DEF new
<1>5. /\ call' \in [Calls -> Call] /\ call'[c] = new
      /\ \A d \in Calls \ {c} : call'[d] = call[d]
  BY <1>1, <1>4, CallMoves DEF RetrievalInv
<1>6. call[c].note = {} /\ call[c].settled = {}
  BY <1>1, FreeWritesNothing
<1>7. \A d \in Calls \ {c} : n \in call[d].note => Syncing(n)
  BY DEF Syncing
<1>8. Shaped'
  <2>1. ASSUME NEW d \in Calls, d # c
        PROVE  /\ Free(d)' => call'[d] = NoCallYet
               /\ ~Free(d)' => By(d)' \in Hosting
               /\ IsSearch(d)' => call'[d].note = {}
               /\ ~IsSearch(d)' => ~CallAt(d, "classify")' /\ ~CallAt(d, "rank")'
    BY <1>5, <2>1 DEF Shaped, Free, CallAt, IsSearch, By
  <2>2. /\ ~Free(c)' /\ By(c)' \in Hosting /\ ~IsSearch(c)'
        /\ ~CallAt(c, "classify")' /\ ~CallAt(c, "rank")'
    BY <1>4, <1>5 DEF Free, CallAt, IsSearch, By
  <2> QED
    BY <2>1, <2>2 DEF Shaped
<1>9. Alone'
  <2>1. ASSUME NEW d \in Calls, NEW e \in Calls, d # e,
               NEW m \in call'[d].note, m \in call'[e].note
        PROVE  m \in overlapped'
    <3>1. CASE m = n
      <4>1. Syncing(n)
        BY <1>5, <1>7, <2>1, <3>1
      <4> QED
        BY <1>1, <3>1, <4>1
    <3>2. CASE m # n
      <4>1. d # c /\ e # c
        BY <1>4, <1>5, <2>1, <3>2
      <4>2. m \in overlapped
        BY <1>5, <2>1, <4>1 DEF Alone
      <4> QED
        BY <1>1, <3>2, <4>2
    <3> QED
      BY <3>1, <3>2
  <2> QED
    BY <2>1 DEF Alone
<1>10. Sole'
  <2>1. ASSUME NEW d \in Calls, NEW m \in call'[d].note, m \notin overlapped'
        PROVE  /\ call'[d].class = want'[m] /\ <<m, call'[d].class>> \in open'
               /\ ~CallAt(d, "tables")' => rows'[m] = call'[d].class /\ text'[m] = call'[d].class
               /\ CallAt(d, "finish")' => points'[m] = call'[d].class \/ m \in missed'
    <3>1. CASE d = c
      BY <1>1, <1>2, <1>4, <1>5, <2>1, <3>1 DEF CallAt
    <3>2. CASE d # c
      <4>1. m \in call[d].note /\ m \in Served /\ call'[d] = call[d]
        BY <1>5, <2>1, <3>2
      <4>2. m # n
        BY <1>1, <1>7, <2>1, <3>2, <4>1
      <4>3. m \notin overlapped
        BY <1>1, <2>1, <4>2
      <4> QED
        BY <1>1, <1>2, <4>1, <4>2, <4>3 DEF Sole, CallAt
    <3> QED
      BY <3>1, <3>2
  <2> QED
    BY <2>1 DEF Sole
<1>11. Agrees'
  <2>1. ASSUME NEW m \in Served, AtRest(m)', m \notin overlapped'
        PROVE  /\ rows'[m] = want'[m] /\ text'[m] = want'[m]
               /\ points'[m] = want'[m] \/ m \in missed'
    <3>1. m # n
      BY <1>4, <1>5, <2>1 DEF AtRest, Syncing
    <3>2. AtRest(m) /\ m \notin overlapped
      BY <1>1, <1>5, <1>6, <2>1, <3>1 DEF AtRest, Syncing
    <3> QED
      BY <1>1, <1>2, <3>1, <3>2 DEF Agrees
  <2> QED
    BY <2>1 DEF Agrees
<1>12. StaySettled'
  <2>1. ASSUME NEW m \in Served, Settled(m) PROVE Settled(m)'
    <3>1. /\ want[m] = "superseded" /\ <<m, "current">> \notin open
          /\ text[m] # "current" /\ points[m] # "current"
          /\ \A d \in Calls : m \in call[d].note => call[d].class # "current"
      BY <2>1 DEF Settled
    <3>2. m = n => class = "superseded"
      BY <1>3, <3>1
    <3>3. want'[m] = "superseded" /\ <<m, "current">> \notin open'
      BY <1>1, <1>2, <3>1, <3>2
    <3>4. \A d \in Calls : m \in call'[d].note => call'[d].class # "current"
      BY <1>4, <1>5, <3>1, <3>2
    <3> QED
      BY <1>1, <3>1, <3>3, <3>4 DEF Settled
  <2>2. \A d \in Calls : call'[d].settled \subseteq call[d].settled
    BY <1>4, <1>5
  <2> QED
    BY <2>1, <2>2 DEF StaySettled
<1>13. SupersededIsLeftOut'
  BY <1>4, <1>5 DEF SupersededIsLeftOut
<1>14. Core'
  BY <1>8, <1>9, <1>10, <1>11, <1>12, <1>13 DEF Core
<1>15. MadeSoftly'
  BY <1>1, <1>4, <1>5 DEF RetrievalInv, Causes, MadeSoftly, CallAt, By
<1>16. open' \subseteq Served \X Presence /\ overlapped' \subseteq Served
  BY <1>1 DEF Presence
<1> QED
  BY <1>1, <1>2, <1>5, <1>14, <1>15, <1>16, Assembled

LEMMA StartSearchKeeps ==
  ASSUME RetrievalInv, NEW c \in Calls, NEW p \in Hosting, NEW all \in BOOLEAN,
         StartSearch(c, p, all)
  PROVE  RetrievalInv'
<1> DEFINE done == {n \in Served : /\ want[n] = "superseded" /\ AtRest(n)
                                   /\ n \notin missed \cup overlapped}
           new == [NoCallYet EXCEPT !.pc = "classify", !.by = p, !.all = all, !.settled = done]
<1> USE Kept
<1>1. /\ Free(c) /\ call' = [call EXCEPT ![c] = new]
      /\ UNCHANGED <<soft, want, rows, text, points, collection, index, open, missed, overlapped,
                     refused, vectorFaults>>
  BY DEF StartSearch, stores, histories
<1>2. /\ done \in SUBSET Served
      /\ \A n \in done : /\ want[n] = "superseded" /\ AtRest(n)
                         /\ n \notin missed /\ n \notin overlapped
  OBVIOUS
<1> HIDE DEF done
<1>3. /\ new \in Call /\ new.pc = "classify" /\ new.kind = "search" /\ new.by = p /\ new.note = {}
      /\ new.settled = done /\ new.lexical = {} /\ new.vector = {}
  BY <1>2 DEF Call, NoCallYet, Presence
<1> HIDE DEF new
<1>4. /\ call' \in [Calls -> Call] /\ call'[c] = new
      /\ \A d \in Calls \ {c} : call'[d] = call[d]
  BY <1>1, <1>3, CallMoves DEF RetrievalInv
<1>5. \A d \in Calls : call'[d].note = call[d].note
  BY <1>1, <1>3, <1>4, FreeWritesNothing
<1>6. \A d \in Calls : \A n \in call[d].note : d # c
  BY <1>1, FreeWritesNothing
<1>7. Shaped'
  <2>1. ASSUME NEW d \in Calls, d # c
        PROVE  /\ Free(d)' => call'[d] = NoCallYet
               /\ ~Free(d)' => By(d)' \in Hosting
               /\ IsSearch(d)' => call'[d].note = {}
               /\ ~IsSearch(d)' => ~CallAt(d, "classify")' /\ ~CallAt(d, "rank")'
    BY <1>4, <2>1 DEF Shaped, Free, CallAt, IsSearch, By
  <2>2. ~Free(c)' /\ By(c)' \in Hosting /\ IsSearch(c)' /\ call'[c].note = {}
    BY <1>3, <1>4 DEF Free, CallAt, IsSearch, By
  <2> QED
    BY <2>1, <2>2 DEF Shaped
<1>8. Alone'
  BY <1>1, <1>5 DEF Alone
<1>9. Sole'
  <2>1. ASSUME NEW d \in Calls, NEW n \in call'[d].note, n \notin overlapped
        PROVE  d # c /\ call'[d] = call[d] /\ n \in call[d].note
    BY <1>4, <1>5, <1>6, <2>1
  <2> QED
    BY <1>1, <2>1 DEF Sole, CallAt
<1>10. \A n \in Served : AtRest(n)' <=> AtRest(n)
  BY <1>1, <1>5 DEF AtRest, Syncing
<1>11. Agrees'
  BY <1>1, <1>10 DEF Agrees
<1>12. \A n \in Served : Settled(n) => Settled(n)'
  <2>1. \A d \in Calls : \A n \in call'[d].note : n \in call[d].note /\ call'[d] = call[d]
    BY <1>4, <1>5, <1>6
  <2> QED
    BY <1>1, <2>1 DEF Settled
<1>13. \A n \in done : Settled(n)
  <2>1. ASSUME NEW n \in done PROVE Settled(n)
    <3>1. /\ n \in Served /\ want[n] = "superseded" /\ AtRest(n)
          /\ n \notin missed /\ n \notin overlapped
      BY <1>2, <2>1
    <3>2. text[n] = "superseded" /\ points[n] = "superseded"
      BY <3>1 DEF Agrees
    <3>3. <<n, "current">> \notin open /\ ~Syncing(n)
      BY <3>1 DEF AtRest, Presence
    <3> QED
      BY <3>1, <3>2, <3>3 DEF Settled, Syncing
  <2> QED
    BY <2>1
<1>14. StaySettled'
  <2>1. ASSUME NEW d \in Calls, NEW n \in call'[d].settled
        PROVE  n \in Served /\ Settled(n)
    <3>1. CASE d = c
      BY <1>2, <1>3, <1>4, <1>13, <2>1, <3>1
    <3>2. CASE d # c
      BY <1>4, <2>1, <3>2 DEF StaySettled
    <3> QED
      BY <3>1, <3>2
  <2> QED
    BY <1>12, <2>1 DEF StaySettled
<1>15. SupersededIsLeftOut'
  BY <1>3, <1>4 DEF SupersededIsLeftOut
<1>16. Core'
  BY <1>7, <1>8, <1>9, <1>11, <1>14, <1>15 DEF Core
<1>17. MadeSoftly'
  BY <1>1, <1>3, <1>4 DEF RetrievalInv, Causes, MadeSoftly, CallAt, By
<1> QED
  BY <1>1, <1>4, <1>16, <1>17, Assembled

LEMMA RestartKeeps == ASSUME RetrievalInv, NEW p \in Hosting, Restart(p) PROVE RetrievalInv'
<1> USE Kept
<1>1. /\ Fault /\ call' = [c \in Calls |-> IF By(c) = p THEN NoCallYet ELSE call[c]]
      /\ index' = [index EXCEPT ![p] = NewIndex]
      /\ UNCHANGED <<soft, want, rows, text, points, collection, open, missed, overlapped, refused>>
  BY DEF Restart, stores, histories
<1>2. /\ call' \in [Calls -> Call]
      /\ \A c \in Calls : call'[c] = NoCallYet \/ call'[c] = call[c]
  BY <1>1, NoCallYetIsCall
<1>3. \A c \in Calls : \A n \in call'[c].note : call'[c] = call[c] /\ n \in call[c].note
  BY <1>2, NoCallYetIsCall
<1>4. Shaped'
  <2>1. ASSUME NEW d \in Calls
        PROVE  /\ Free(d)' => call'[d] = NoCallYet
               /\ ~Free(d)' => By(d)' \in Hosting
               /\ IsSearch(d)' => call'[d].note = {}
               /\ ~IsSearch(d)' => ~CallAt(d, "classify")' /\ ~CallAt(d, "rank")'
    <3>1. CASE call'[d] = NoCallYet
      BY <3>1, NoCallYetIsCall DEF Free, CallAt, IsSearch, By
    <3>2. CASE call'[d] = call[d]
      BY <3>2 DEF Shaped, Free, CallAt, IsSearch, By
    <3> QED
      BY <1>2, <3>1, <3>2
  <2> QED
    BY <2>1 DEF Shaped
<1>5. Alone'
  BY <1>1, <1>3 DEF Alone
<1>6. Sole'
  BY <1>1, <1>3 DEF Sole, CallAt
<1>7. Agrees'
  <2>1. ASSUME NEW n \in Served, AtRest(n)', n \notin overlapped PROVE AtRest(n)
    <3>1. \A k \in Presence : <<n, k>> \notin open
      BY <1>1, <2>1 DEF AtRest
    <3>2. ~Syncing(n)
      BY <2>1, <3>1 DEF Syncing, Sole
    <3> QED
      BY <3>1, <3>2 DEF AtRest
  <2> QED
    BY <1>1, <2>1 DEF Agrees
<1>8. StaySettled'
  <2>1. \A n \in Served : Settled(n) => Settled(n)'
    BY <1>1, <1>3 DEF Settled
  <2>2. \A c \in Calls : call'[c].settled \subseteq call[c].settled
    BY <1>2, NoCallYetIsCall
  <2> QED
    BY <2>1, <2>2 DEF StaySettled
<1>9. SupersededIsLeftOut'
  BY <1>2, NoCallYetIsCall DEF SupersededIsLeftOut
<1>10. Core'
  BY <1>4, <1>5, <1>6, <1>7, <1>8, <1>9 DEF Core
<1>11. MadeSoftly'
  BY <1>1, <1>2, NoCallYetIsCall DEF RetrievalInv, Causes, MadeSoftly, CallAt, By
<1>12. index' \in [Hosting -> Index]
  BY <1>1 DEF NewIndex, Index
<1> QED
  BY <1>1, <1>2, <1>10, <1>11, <1>12, Assembled

LEMMA RetrievalInvNext == RetrievalInv /\ [RetrievalNext]_retrievalVars => RetrievalInv'
<1> SUFFICES ASSUME RetrievalInv, [RetrievalNext]_retrievalVars PROVE RetrievalInv'
  OBVIOUS
<1>1. CASE UNCHANGED retrievalVars
  <2>1. /\ UNCHANGED <<soft, want, rows, text, points, collection, index, call, open, missed,
                       overlapped, refused, vectorFaults>>
    BY <1>1 DEF retrievalVars
  <2>2. Core'
    BY <2>1 DEF RetrievalInv, Core, Shaped, Alone, Sole, Agrees, StaySettled, Settled,
                SupersededIsLeftOut, AtRest, Syncing, Free, CallAt, IsSearch, By
  <2>3. MadeSoftly'
    BY <2>1 DEF RetrievalInv, Causes, MadeSoftly, CallAt, By
  <2> QED
    BY <2>1, <2>2, <2>3, Kept, Assembled
<1>2. ASSUME NEW c \in Calls, RetrievalStep(c) PROVE RetrievalInv'
  BY <1>2, TablesKeeps, RemoveKeeps, TextKeeps, EmbedKeeps, GetKeeps, CreateKeeps, SearchKeeps,
     UpsertKeeps, FinishKeeps, AnswerKeeps DEF RetrievalStep
<1>3. ASSUME NEW p \in Hosting, Asks(p) PROVE RetrievalInv'
  BY <1>3, StartSearchKeeps DEF Asks
<1> QED
  BY <1>1, <1>2, <1>3, ModelKeeps, StartSyncKeeps, RestartKeeps DEF RetrievalNext

LEMMA RetrievalInvHolds == RetrievalInit /\ [][RetrievalNext]_retrievalVars => []RetrievalInv
BY RetrievalInvInit, RetrievalInvNext, PTL

LEMMA SafeRetrieval ==
  RetrievalInv => SupersededIsLeftOut /\ MissedHasCause /\ HardIndexNeedsCollection
<1> SUFFICES ASSUME RetrievalInv
             PROVE  SupersededIsLeftOut /\ MissedHasCause /\ HardIndexNeedsCollection
  OBVIOUS
<1>1. MissedHasCause
  BY Kept DEF RetrievalInv, Causes, Agrees, MissedCaused, MissedHasCause
<1> QED
  BY <1>1, Kept DEF RetrievalInv, Causes

-----------------------------------------------------------------------------
\* Every variable keeps its type, for any notes, processes, calls, sizes and faults.
THEOREM RetrievalTypeCorrect == RetrievalSpec => []RetrievalTypeOK
<1>1. RetrievalInv => RetrievalTypeOK
  BY DEF RetrievalInv
<1> QED
  BY <1>1, RetrievalInvHolds, PTL DEF RetrievalSpec

\* A note superseded in all stores when a search began, and not written twice at once
\* before, is no candidate of it, unless it asks for superseded notes: also when
\* writes overlap from then on.
THEOREM SupersededStaysOut == RetrievalSpec => []SupersededIsLeftOut
BY SafeRetrieval, RetrievalInvHolds, PTL DEF RetrievalSpec

\* Once nothing has to write a note that two calls did not write at once, the tables
\* have it as the vault does; Qdrant too, until a request failed or an index refused
\* a collection that was there.
THEOREM MissingIsExplained == RetrievalSpec => []MissedHasCause
BY SafeRetrieval, RetrievalInvHolds, PTL DEF RetrievalSpec

\* Without a process whose index fails softly there is never a collection.
THEOREM HardNeverCreates == RetrievalSpec => []HardIndexNeedsCollection
BY SafeRetrieval, RetrievalInvHolds, PTL DEF RetrievalSpec

-----------------------------------------------------------------------------
\* Each part of MCServing behaves as the module it comes from.
LEMMA PartsOfServing ==
  ServingSpec => /\ RefreshInit /\ [][RefreshNext]_refreshVars
                 /\ RetrievalInit /\ [][RetrievalNext]_retrievalVars
<1>1. ServingInit => RefreshInit /\ RetrievalInit
  BY DEF ServingInit
<1>2. [ServingNext]_servingVars => [RefreshNext]_refreshVars /\ [RetrievalNext]_retrievalVars
  BY DEF ServingNext, servingVars
<1> QED
  BY <1>1, <1>2, PTL DEF ServingSpec

\* What the two theorems of types say holds of the variables of both, whichever of
\* refreshes and retrieval goes on.
THEOREM ServingTypeCorrect == ServingSpec => []ServingTypeOK
<1>1. RefreshInv /\ RetrievalInv => ServingTypeOK
  BY DEF RefreshInv, RetrievalInv, ServingTypeOK
<1> QED
  BY <1>1, PartsOfServing, RefreshInvAlways, RetrievalInvHolds, PTL

\* The same of what refreshes and retrieval promise: each promise is kept while the
\* other part moves.
THEOREM ServingIsSafe ==
  ServingSpec => [](/\ DuplicatesAreFew /\ SummaryCountsCandidates
                    /\ SupersededIsLeftOut /\ MissedHasCause /\ HardIndexNeedsCollection)
BY SafeRetrieval, FewDuplicates, CountsAddUp, PartsOfServing, RefreshInvAlways, RetrievalInvHolds,
   PTL
=============================================================================
