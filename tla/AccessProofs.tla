----------------------------- MODULE AccessProofs -----------------------------
(***************************************************************************)
(* The theorems about requests, tokens, sessions, packets and contexts     *)
(* hold of the modules side by side, whichever of them moves.              *)
(***************************************************************************)
EXTENDS MCAccess, IssuedTokensProofs, RequestsProofs, SessionStartupProofs, ContextProofs

\* Each part of MCAccess behaves as the module it comes from.
LEMMA PartsOfAccess ==
  AccessSpec => RequestSpec /\ TokenSpec /\ SessionSpec /\ PacketSpec /\ AgentSpec
<1>1. AccessInit => RequestInit /\ TokenInit /\ SessionInit /\ PacketInit /\ AgentInit
  BY DEF AccessInit
<1>2. [AccessNext]_accessVars =>
        /\ [RequestNext]_requestVars /\ [TokenNext]_tokenVars /\ [SessionNext]_sessionVars
        /\ [PacketNext]_packetVars /\ [AgentNext]_agentVars
  BY DEF AccessNext, accessVars
<1> QED
  BY <1>1, <1>2, PTL
  DEF AccessSpec, RequestSpec, TokenSpec, SessionSpec, PacketSpec, AgentSpec

\* What the theorems of types say holds of the variables of all of them, whichever of
\* requests, tokens, sessions, packets and contexts goes on.
THEOREM AccessTypeCorrect == AccessSpec => []AccessTypeOK
<1>1. RequestTypeOK /\ TokenTypeOK /\ SessionTypeOK /\ PacketTypeOK /\ AgentTypeOK
        => AccessTypeOK
  BY DEF AccessTypeOK
<1> QED
  BY <1>1, PartsOfAccess, RequestTypeCorrect, TokenTypeCorrect, SessionTypeCorrect,
     PacketTypeCorrect, AgentTypeCorrect, PTL

\* The same of what clients, policies, sessions, packets and archives promise: each
\* promise is kept while any other part moves.
THEOREM AccessIsSafe ==
  AccessSpec => [](/\ ConnectionServesItsStores /\ WaitingIsServed /\ TransportsAgree
                   /\ RevocationIsDurable /\ RevokedIsRefused /\ VerdictsAgree
                   /\ StartupPredictsVerdict /\ DirectoriesAreApart
                   /\ PacketWithinBudget /\ BestNoteIsCited /\ FreshnessIsWarned
                   /\ ScopesShareTheRoom /\ TruncationIsReported /\ BlockIsBounded)
BY PartsOfAccess, ConnectionIsKept, ClientsAreServed, TransportsTellFailure, RevokedForGood,
   ProcessesRefuse, VerdictsAlwaysAgree, ChecksPredictVerdicts, DirectoriesStayApart,
   PacketsKeepTheBudget, TheBestIsCitedFirst, WarningsCoverCitations, ScopesTakeTurns,
   SearchesTellTruncation, BlocksAreBounded, PTL
=============================================================================
