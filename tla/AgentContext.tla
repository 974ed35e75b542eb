----------------------------- MODULE AgentContext -----------------------------
(***************************************************************************)
(* Session archives (SessionArchiveService, SqliteSessionArchiveStore) and *)
(* the context block of an agent (AgentContextAssemblyService), made of a  *)
(* context packet and of what is recalled from the archives, each within   *)
(* its share of the budget.  The packet itself is ContextPackets'; here it *)
(* has a length, or fails.                                                 *)
(*                                                                         *)
(* A message is its length in characters; all the messages archived match  *)
(* the queries asked.  An archive is written in one transaction and read   *)
(* in one statement, so neither is seen half done.                         *)
(***************************************************************************)
EXTENDS Integers, Sequences, FiniteSets, SequencesExt

CONSTANTS
  Sessions,
  Archives,     \* what a client may archive: sequences of lengths, 0 for a blank one
  Recalls,      \* what may be asked of the archives, and of the block
  PacketSizes,  \* the lengths a packet may have in the block
  Frame,        \* the length of the fixed lines of the block,
  HitFrame,     \*   and of what introduces a hit
  MaxMessages   \* bound: messages in the archives of a session

\* A limit or a budget that is not given is -1.
ASSUME RecallAssumption ==
  /\ \A q \in Recalls : {q.limit, q.maxTokens, q.total} \subseteq Int
  /\ PacketSizes \subseteq Nat /\ {Frame, HitFrame, MaxMessages} \subseteq Nat
  /\ IsFiniteSet(Sessions) /\ Archives \subseteq Seq(Nat)

VARIABLES
  archive,  \* the messages archived for each session
  answer    \* the last answer: a search of the archives, or a context block

agentVars == <<archive, answer>>
-----------------------------------------------------------------------------
NoRecall == [hits |-> <<>>, matches |-> 0, truncated |-> FALSE, limit |-> 1, maxTokens |-> 1]
NoAnswer == [text |-> 0, chars |-> 0, total |-> 1, planned |-> 0, truncated |-> FALSE,
             recall |-> NoRecall]

AgentTypeOK ==
  /\ archive \in [Sessions -> Seq(Nat)]
  /\ DOMAIN answer = DOMAIN NoAnswer /\ answer.truncated \in BOOLEAN
  /\ DOMAIN answer.recall = DOMAIN NoRecall /\ answer.recall.truncated \in BOOLEAN

AgentInit ==
  /\ archive = [s \in Sessions |-> <<>>]
  /\ answer = NoAnswer

TokensOf(chars) == Max({1, (chars + 3) \div 4})
TokensOfAll(s) == FoldLeft(LAMBDA sum, chars : sum + TokensOf(chars), 0, s)
SumOf(s) == FoldLeft(LAMBDA sum, chars : sum + chars, 0, s)

\* clampInteger
Clamp(value, default, least, most) ==
  IF value = -1 THEN default
  ELSE IF value < least THEN least ELSE IF value > most THEN most ELSE value

-----------------------------------------------------------------------------
\* createArchive: refused without messages, or with a blank one.
CreateArchive(s, messages) ==
  /\ Len(archive[s]) + Len(messages) <= MaxMessages
  /\ messages # <<>> /\ ~Contains(messages, 0)
  /\ archive' = [archive EXCEPT ![s] = @ \o messages]
  /\ answer' = NoAnswer

\* The messages a search may find: of one session, or of all.
Searched(q) ==
  {m \in Sessions \X (1 .. MaxMessages) :
     m[2] \in DOMAIN archive[m[1]] /\ q.session \in {m[1], "all"}}

\* Mutant: the statement reads as many rows as hits may be returned.
RowLimit_Exact(limit) == limit

\* The statement reads twice as many rows as hits may be returned.
RowLimit(limit) == limit * 2

\* searchArchives of the store on the matches in their order: rows are taken until
\* one is too many or too long.
Hits(order, limit, maxTokens) ==
  LET rows == [i \in 1 .. Min({Len(order), RowLimit(limit)}) |->
                 archive[order[i][1]][order[i][2]]]
      fits(n) == n <= limit /\ TokensOfAll(SubSeq(rows, 1, n)) <= maxTokens
      taken == Max({n \in 0 .. Len(rows) : \A k \in 1 .. n : fits(k)})
  IN [hits |-> SubSeq(rows, 1, taken), matches |-> Len(order),
      truncated |-> taken < Len(rows), limit |-> limit, maxTokens |-> maxTokens]

\* searchArchives of the service; bm25 may put the matches in any order.
SearchArchives(q) ==
  /\ \E order \in SetToSeqs(Searched(q)) :
       answer' = [NoAnswer EXCEPT !.recall =
         Hits(order, Clamp(q.limit, 10, 1, 20), Clamp(q.maxTokens, 4000, 1, 12000))]
  /\ UNCHANGED archive

-----------------------------------------------------------------------------
\* createBudgetPlan: the whole budget, and the shares of the archives and the packet.
TotalTokens(q) == Clamp(q.total, 6000, 1, 20000)
Share(q, tenths) == Max({1, (TotalTokens(q) * tenths) \div 10})

SessionTokens(q) == IF q.archives THEN Clamp(q.maxTokens, Share(q, 3), 1, Share(q, 3)) ELSE 0
CanonicalTokens(q) == IF q.archives THEN Share(q, 7) ELSE TotalTokens(q)

\* The recall of the block: its failure leaves the block without one.
Recalled(q) ==
  IF ~q.archives THEN {NoRecall}
  ELSE {NoRecall} \cup {Hits(order, Clamp(q.limit, 10, 1, 20), SessionTokens(q)) :
                          order \in SetToSeqs(Searched(q))}

Marker == 46
Closing == 17

\* Mutant: the marker and the closing tag come on top of what is kept.
Enforced_Appended(text, total) ==
  IF TokensOf(text) <= total THEN text
  ELSE Min({text - Closing, Max({128, total * 4})}) + Marker + Closing

\* enforceContextBlockBudget; trailing blanks, which are trimmed, are left out.
Enforced(text, total) ==
  IF TokensOf(text) <= total THEN text
  ELSE Min({text - Closing, Max({128, total * 4}) - Closing - Marker}) + Marker + Closing

\* assembleAgentContext; when retrieval fails there is no block.
AssembleAgentContext(q) ==
  /\ \E size \in PacketSizes, r \in Recalled(q) :
       LET text == Frame + size + SumOf(r.hits) + Len(r.hits) * HitFrame IN
         answer' = [text |-> text, chars |-> Enforced(text, TotalTokens(q)),
                    total |-> TotalTokens(q), planned |-> CanonicalTokens(q) + SessionTokens(q),
                    truncated |-> r.truncated \/ TokensOf(text) > TotalTokens(q), recall |-> r]
  /\ UNCHANGED archive

AgentNext ==
  \/ \E s \in Sessions, messages \in Archives : CreateArchive(s, messages)
  \/ \E q \in Recalls : SearchArchives(q) \/ AssembleAgentContext(q)

AgentSpec == AgentInit /\ [][AgentNext]_agentVars

-----------------------------------------------------------------------------
\* A search keeps to both its limits, and says it is truncated exactly when it
\* leaves out a message that matches.
TruncationIsReported ==
  LET r == answer.recall IN
    /\ Len(r.hits) <= r.limit
    /\ r.hits # <<>> => TokensOfAll(r.hits) <= r.maxTokens
    /\ r.truncated <=> Len(r.hits) < r.matches

\* The packet and the recall are planned within the budget, whatever is asked for the
\* recall; a block is within it too (or within 32 tokens), and one that does not say
\* it is truncated holds the whole packet and every match.
BlockIsBounded ==
  /\ answer.planned <= Max({2, answer.total})
  /\ TokensOf(answer.chars) <= Max({32, answer.total})
  /\ answer.text > 0 /\ ~answer.truncated =>
       answer.chars = answer.text /\ Len(answer.recall.hits) = answer.recall.matches
=============================================================================
