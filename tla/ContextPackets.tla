---------------------------- MODULE ContextPackets ----------------------------
(***************************************************************************)
(* From hits to a packet: RankingFusionService, the round over scopes of   *)
(* HierarchicalRetrievalService, HeuristicLocalReasoningProvider, and      *)
(* ContextPacketService, which widens each candidate to the chunks around  *)
(* it and cuts the packet to its budget; then the warnings on what was     *)
(* delivered.  A promotion may replace the chunks of a note at any await.  *)
(*                                                                         *)
(* Texts are their lengths in characters, scores are in units of 1/10000.  *)
(* A chunk has one sentence and one qualifier, unlike those of others.     *)
(* Tag filters and a model that reranks are left out, and the hits are     *)
(* those an index returns, within its limit.                               *)
(* Sorting and selecting are InOrder and Kept, which a proof can expand.   *)
(***************************************************************************)
EXTENDS Integers, Sequences, FiniteSets, SequencesExt

CONSTANTS
  NoteInfo,     \* each note: its chunks, scope, class, freshness and type boost
  Questions,    \* what may be asked
  TextSize,     \* the length of each kind of text
  AddedSize     \*   and of what a paid model adds

Cited == DOMAIN NoteInfo
Chunks == UNION {{n} \X (1 .. NoteInfo[n].chunks) : n \in Cited}
NoteOf(c) == c[1]

Question ==
  [lexical : Seq(Chunks), vector : Seq(Chunks),  \* hits, the best one first
   similarity : 0 .. 10000,                      \* score of the hits of the vector index
   hierarchical : BOOLEAN, excerpts : BOOLEAN, model : BOOLEAN,
   maxTokens : Nat \ {0}, maxSources : Nat \ {0}, maxRawExcerpts : Nat,
   maxSummarySentences : Nat]

ASSUME QuestionAssumption == Questions \subseteq Question

ASSUME NoteAssumption ==
  \A n \in Cited : /\ NoteInfo[n].boost \in Int
                   /\ NoteInfo[n].class \in {"current", "stale", "superseded"}

ASSUME SizeAssumption ==
  {TextSize.prefix, TextSize.sentence, TextSize.nothing, TextSize.qualifier,
   TextSize.uncertainty, TextSize.source, TextSize.excerpt} \subseteq Nat

VARIABLES
  question,
  stored,    \* chunks with a row in the metadata store
  assembly   \* the call that answers the question

packetVars == <<question, stored, assembly>>
-----------------------------------------------------------------------------
Dispositions == {"local_answer", "partial", "needs_escalation"}
NoPacket == [evidence |-> <<>>, excerpts |-> 0, summary |-> 0, constraints |-> 0,
             uncertainties |-> 0, reported |-> 0, confidence |-> "low", clipped |-> FALSE]

PacketTypeOK ==
  /\ question \in Questions
  /\ stored \subseteq Chunks
  /\ assembly.pc \in {"search", "expand", "escalate", "done"}
  /\ \A s \in {assembly.ranked, assembly.candidates, assembly.left, assembly.window,
               assembly.packet.evidence} : ToSet(s) \subseteq Chunks
  /\ assembly.answer \in Dispositions /\ assembly.added \in BOOLEAN
  /\ DOMAIN assembly.packet = DOMAIN NoPacket
  /\ assembly.warned \subseteq Cited

PacketInit ==
  /\ question \in Questions
  /\ stored = Chunks
  /\ assembly = [pc |-> "search", ranked |-> <<>>, candidates |-> <<>>, left |-> <<>>,
                 window |-> <<>>, top |-> 0, answer |-> "partial", packet |-> NoPacket,
                 warned |-> {}, added |-> FALSE]

Take(s, n) == SubSeq(s, 1, Min({n, Len(s)}))

\* The elements of a finite set in the order R, a set of pairs.
InOrder(S, R) ==
  [k \in 1 .. Cardinality(S) |->
     CHOOSE c \in S : Cardinality({d \in S : <<d, c>> \in R}) = k - 1]

\* The elements of s that are in T, in their order.
Kept(s, T) ==
  LET places == {i \in DOMAIN s : s[i] \in T}
      nth == InOrder(places, {p \in places \X places : p[1] < p[2]})
  IN [k \in DOMAIN nth |-> s[nth[k]]]

\* Place of c in s, counted from 0.
Place(s, c) == SelectInSeq(s, LAMBDA d : d = c) - 1

-----------------------------------------------------------------------------
\* bm25 is never positive, so every hit of the lexical index scores 1.
LexicalScore == 10000

Reciprocal(s, c) == IF Contains(s, c) THEN 10000 \div (61 + Place(s, c)) ELSE 0

StalenessAdjustment(n) ==
  CASE NoteInfo[n].class = "current" -> 600
    [] NoteInfo[n].class = "stale" -> -1200
    [] NoteInfo[n].class = "superseded" -> -3500

\* A candidate starts from the score of the list that has it first.
FusedScore(lexical, vector, c) ==
  (IF Contains(lexical, c) THEN LexicalScore + LexicalScore \div 4 ELSE question.similarity)
  + Reciprocal(lexical, c) + Reciprocal(vector, c)
  + NoteInfo[NoteOf(c)].boost + StalenessAdjustment(NoteOf(c))

\* What is left by the limits of the fusion and, without a reranker, of rerankCandidates.
RankedLimit == Max({6, question.maxSources * 2})

\* Hits whose chunk is gone are dropped; equal scores stay in the order of the lists.
RankCandidates(hits1, hits2) ==
  LET lexical == Kept(hits1, stored)
      vector == Kept(hits2, stored)
      all == lexical \o Kept(vector, Chunks \ ToSet(lexical))
      score == [c \in ToSet(all) |-> FusedScore(lexical, vector, c)]
      better(c, d) == \/ score[c] > score[d]
                      \/ score[c] = score[d] /\ Place(all, c) < Place(all, d)
      order == InOrder(ToSet(all), {p \in ToSet(all) \X ToSet(all) : better(p[1], p[2])})
  IN [order |-> Take(order, RankedLimit), score |-> score]

ScopeOf(c) == NoteInfo[NoteOf(c)].scope
Depth(s, c) == Cardinality({i \in 1 .. Place(s, c) : ScopeOf(s[i]) = ScopeOf(c)})

\* Mutant: the first candidates, whatever their scope.
SelectHierarchical_First(ranked, limit) == Take(ranked, limit)

\* selectHierarchicalCandidates: one candidate of each scope in turn, in the order
\* in which the scopes appear.
SelectHierarchical(ranked, limit) ==
  LET opening(c) == SelectInSeq(ranked, LAMBDA d : ScopeOf(d) = ScopeOf(c))
      before(c, d) == \/ Depth(ranked, c) < Depth(ranked, d)
                      \/ Depth(ranked, c) = Depth(ranked, d) /\ opening(c) < opening(d)
  IN Take(InOrder(ToSet(ranked), {p \in ToSet(ranked) \X ToSet(ranked) : before(p[1], p[2])}),
          limit)

\* assessAnswerability of the heuristic provider.
Heuristic(order, score) ==
  IF order = <<>> THEN "needs_escalation"
  ELSE IF score[order[1]] >= 7200 THEN "local_answer"
  ELSE IF \/ score[order[1]] >= 4000
          \/ \E c \in ToSet(order) : score[c] >= 5200
          \/ Cardinality({NoteOf(c) : c \in ToSet(order)}) >= 2
       THEN "partial" ELSE "needs_escalation"

-----------------------------------------------------------------------------
\* estimateTokens
Tokens4(chars) == Max({1, (chars + 3) \div 4})

\* getChunkNeighborhood(chunkId, 1)
Neighborhood(c) ==
  IF c \in stored
  THEN Kept(<<<<c[1], c[2] - 1>>, c, <<c[1], c[2] + 1>>>>, stored)
  ELSE <<>>

\* What a candidate adds to the window: the chunks around it, or itself if it has
\* no row any more.
Widening(window, c) ==
  IF Contains(window, c) THEN <<>>
  ELSE IF Neighborhood(c) = <<>> THEN <<c>>
  ELSE Kept(Neighborhood(c), Chunks \ ToSet(window))

WindowSize ==
  Max({8, 3 * Max({question.maxSources,
                       Max({question.maxRawExcerpts, question.maxSummarySentences})})})

\* The limits enforceContextBudget starts from, and those after k rounds of its
\* loop: a round lowers the first of excerpts, sentences, sources and constraints
\* that can still be lowered, the last one drops the uncertainties.
Start ==
  [excerpts |-> IF question.excerpts \/ assembly.answer # "local_answer"
                THEN Min({question.maxRawExcerpts, Len(assembly.window)}) ELSE 0,
   sentences |-> question.maxSummarySentences,
   sources |-> Min({question.maxSources, Len(assembly.window)}),
   constraints |-> 8]

Beyond ==
  LET start == Start IN
    [excerpts |-> 0,
     sentences |-> start.excerpts,
     sources |-> start.excerpts + start.sentences,
     constraints |-> start.excerpts + start.sentences + Max({0, start.sources - 1})]
Rounds == Beyond.constraints + Start.constraints + 1

\* Mutant: the last source may go.
Limits_NoSource(k) ==
  [l \in DOMAIN Start |-> Min({Start[l], Max({0, Start[l] + Beyond[l] - k})})]

Limits(k) ==
  LET start == Start
      beyond == Beyond
  IN [l \in DOMAIN start |->
        Min({start[l], Max({IF l = "sources" THEN 1 ELSE 0, start[l] + beyond[l] - k})})]

\* A sentence follows a space, a qualifier or an uncertainty a line feed.
Lines(n, chars) == Max({0, n * (chars + 1) - 1})

\* The packet after k rounds, confidence and cost apart.
Cut(k) ==
  LET limits == Limits(k)
      chosen == Take(assembly.window, limits.sources)
      sentences == Min({limits.sentences, Len(chosen)})
  IN [NoPacket EXCEPT
        !.evidence = chosen,
        !.excerpts = Min({limits.excerpts, Len(chosen)}),
        !.summary = TextSize.prefix + (IF sentences > 0 THEN sentences * (TextSize.sentence + 1)
                                       ELSE TextSize.nothing),
        !.constraints = Lines(Min({limits.constraints, Len(chosen)}), TextSize.qualifier),
        !.uncertainties = IF k < Rounds /\ assembly.answer # "local_answer"
                          THEN TextSize.uncertainty ELSE 0]

\* estimatePacketTokens
Cost(p) ==
  Tokens4(p.summary) + Tokens4(p.constraints) + Tokens4(p.uncertainties)
  + Len(p.evidence) * Tokens4(TextSize.source) + p.excerpts * Tokens4(TextSize.excerpt)

\* The summary alone, cut: its cost is reported as no more than the budget.
Clipped(p) ==
  LET rest == [NoPacket EXCEPT !.summary = Min({p.summary, question.maxTokens * 4}),
                               !.clipped = TRUE]
  IN [rest EXCEPT !.reported = Min({Cost(rest), question.maxTokens})]

\* Mutant: what is left when every limit is lowered is taken to fit.
BudgetedPacket_Unclipped ==
  LET fits(k) == k = Rounds \/ Cost(Cut(k)) <= question.maxTokens
      least == CHOOSE k \in 0 .. Rounds : fits(k) /\ \A i \in 0 .. (k - 1) : ~fits(i)
  IN [Cut(least) EXCEPT !.reported = Cost(Cut(least))]

\* enforceContextBudget: the first packet that fits.
BudgetedPacket ==
  LET fitting == {k \in 0 .. Rounds : Cost(Cut(k)) <= question.maxTokens}
  IN IF fitting = {} THEN Clipped(Cut(Rounds))
     ELSE [Cut(Min(fitting)) EXCEPT !.reported = Cost(Cut(Min(fitting)))]

\* determineConfidence
Confidence(evidence) ==
  IF assembly.answer = "needs_escalation" THEN "low"
  ELSE IF assembly.answer = "local_answer" /\ evidence # <<>> /\ assembly.top >= 7200
  THEN "high" ELSE "medium"

\* Mutant: a candidate is delivered when its own chunk is cited.
DeliveredNotes_ByChunk(evidence) ==
  {NoteOf(c) : c \in ToSet(assembly.candidates) \cap ToSet(evidence)}

\* The notes of selectDeliveredCandidates: those cited, by whichever chunk.
DeliveredNotes(evidence) ==
  {NoteOf(c) : c \in ToSet(assembly.candidates)} \cap {NoteOf(c) : c \in ToSet(evidence)}

-----------------------------------------------------------------------------
\* Both searches, fusion, the round over scopes in the hierarchical strategy, and
\* answerability.
Search ==
  /\ assembly.pc = "search"
  /\ LET ranking == RankCandidates(question.lexical, question.vector)
         chosen == IF question.hierarchical
                   THEN SelectHierarchical(ranking.order, question.maxSources)
                   ELSE ranking.order IN
       \E answer \in Dispositions :
         /\ question.model \/ answer = Heuristic(chosen, ranking.score)
         /\ assembly' = [assembly EXCEPT
              !.pc = "expand", !.ranked = ranking.order, !.candidates = chosen, !.left = chosen,
              !.answer = answer,
              !.top = IF chosen = <<>> THEN 0 ELSE ranking.score[chosen[1]]]
  /\ UNCHANGED <<question, stored>>

\* expandNeighborhood, one candidate at a time.
Expand ==
  /\ assembly.pc = "expand" /\ assembly.left # <<>>
  /\ assembly' = [assembly EXCEPT
       !.window = Take(@ \o Widening(@, Head(assembly.left)), WindowSize), !.left = Tail(@)]
  /\ UNCHANGED <<question, stored>>

\* The packet and the warnings on the notes it delivers.
Assemble ==
  /\ assembly.pc = "expand" /\ assembly.left = <<>>
  /\ LET p == BudgetedPacket IN
       assembly' = [assembly EXCEPT
         !.pc = IF assembly.answer = "local_answer" THEN "done" ELSE "escalate",
         !.packet = [p EXCEPT !.confidence = Confidence(p.evidence)],
         !.warned = {n \in DeliveredNotes(p.evidence) : NoteInfo[n].freshness # "fresh"}]
  /\ UNCHANGED <<question, stored>>

\* A paid model, if there is one and it does not throw, adds to the uncertainties
\* of a packet that is already cut to its budget.
Escalate ==
  /\ assembly.pc = "escalate"
  /\ \E adds \in BOOLEAN :
       assembly' = [assembly EXCEPT !.pc = "done",
         !.packet.uncertainties = IF adds THEN @ + AddedSize ELSE @,
         !.added = adds]
  /\ UNCHANGED <<question, stored>>

\* A promotion clears the rows of a note, or fills them again; nothing reads them
\* once the packet is made.
Resync(n) ==
  /\ assembly.pc \in {"search", "expand"}
  /\ LET rows == {c \in Chunks : NoteOf(c) = n} IN
       stored' = IF rows \subseteq stored THEN stored \ rows ELSE stored \cup rows
  /\ UNCHANGED <<question, assembly>>

PacketNext == Search \/ Expand \/ Assemble \/ Escalate \/ \E n \in Cited : Resync(n)

PacketSpec == PacketInit /\ [][PacketNext]_packetVars

-----------------------------------------------------------------------------
Packet == assembly.packet
Finished == assembly.pc \in {"escalate", "done"}

\* A packet keeps to its budget, and reports its own cost, unless it is cut to
\* the summary, when it may exceed its budget by the two tokens of two empty texts.
\* What a paid model adds comes on top.
PacketWithinBudget ==
  Finished /\ ~assembly.added =>
    /\ Packet.reported <= question.maxTokens
    /\ IF Packet.clipped THEN Cost(Packet) <= question.maxTokens + 2
       ELSE Cost(Packet) = Packet.reported

\* However the budget cuts a packet, and whatever becomes of the rows of its notes
\* while it is made, it cites the note that ranked first before any other, cites no
\* chunk twice and no note that was not found; a packet cut to its summary cites
\* nothing and does not claim high confidence.
BestNoteIsCited ==
  Finished =>
    IF Packet.clipped THEN Packet.evidence = <<>> /\ Packet.confidence # "high"
    ELSE /\ assembly.ranked # <<>> =>
              Packet.evidence # <<>> /\ NoteOf(Packet.evidence[1]) = NoteOf(assembly.ranked[1])
         /\ IsInjective(Packet.evidence)
         /\ \A c \in ToSet(Packet.evidence) :
              \E d \in ToSet(assembly.candidates) : NoteOf(d) = NoteOf(c)

\* Every note cited that is expired, not yet valid or about to expire is warned of,
\* also when only a chunk beside the one that was found is cited.
FreshnessIsWarned ==
  Finished => \A c \in ToSet(Packet.evidence) :
    NoteInfo[NoteOf(c)].freshness # "fresh" => NoteOf(c) \in assembly.warned

\* In the hierarchical strategy a scope is never two candidates ahead of another
\* that had one more to give, and a scope gives its best ones.
ScopesShareTheRoom ==
  Finished /\ question.hierarchical =>
    LET taken(c) == Contains(assembly.candidates, c)
        room(s) == Cardinality({c \in ToSet(assembly.candidates) : ScopeOf(c) = s}) IN
    \A c, d \in ToSet(assembly.ranked) :
      taken(d) /\ ~taken(c) =>
        /\ room(ScopeOf(d)) <= room(ScopeOf(c)) + 1
        /\ ScopeOf(c) = ScopeOf(d) => Place(assembly.ranked, d) < Place(assembly.ranked, c)
=============================================================================
