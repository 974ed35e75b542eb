------------------------------ MODULE MCServing ------------------------------
(* Instances for TLC of the modules with liveness properties.  They share   *)
(* no state: one of them moves in a behaviour, while the other stays in one *)
(* of its initial states.  Retrieval moves within one of two bounds.        *)
EXTENDS TemporalRefresh, Retrieval

CONSTANTS c1, c2, p1, p2, n1, s1, s2, model, fallback

VARIABLE part

-----------------------------------------------------------------------------
SomeWindows == <<[from |-> NoDate, until |-> 0], [from |-> 1, until |-> 1]>>

-----------------------------------------------------------------------------
servingVars == <<part, refreshVars, retrievalVars>>

ServingInit ==
  /\ part \in {"refresh", "overlap", "sizes"}
  /\ RefreshInit /\ RetrievalInit
  /\ inForce = IF part = "refresh" THEN Notes ELSE {}
  /\ vault \in {[[n \in Notes |-> "sound"] EXCEPT ![1] = file] :
                  file \in IF part = "refresh" THEN CanonicalFile ELSE {"sound"}}
  /\ CASE part = "refresh" -> soft = [p \in Hosting |-> TRUE]
       [] part = "overlap" -> soft = [p \in Hosting |-> p = p1]
       [] part = "sizes" -> ~soft[p2]

\* Bound: one of the callers asks on the first day only.
EarlyCaller == refresh[c2].asOf = 0

\* Bounds: two calls of one process at once, with vectors of one size and one search
\* at a time, for what is in force; or one call at a time, of any process and with
\* vectors of any size, and one open entry.
OneSize ==
  \A c \in Calls :
    \/ Free(c)
    \/ /\ By(c) = p1 /\ call[c].size \in {None, model}
       /\ IsSearch(c) => c = s1 /\ ~call[c].all
OneCall == Free(s2) /\ Cardinality(open) < 2

WithinBounds == (part = "overlap" /\ OneSize') \/ (part = "sizes" /\ OneCall')

ServingNext ==
  /\ \/ part = "refresh" /\ RefreshNext /\ EarlyCaller' /\ UNCHANGED retrievalVars
     \/ RetrievalNext /\ WithinBounds /\ UNCHANGED refreshVars
  /\ UNCHANGED part

\* RefreshFairness and RetrievalFairness, for the part that moves and what its bound
\* leaves.
ServingFairness ==
  /\ \A c \in Callers : WF_refreshVars(part = "refresh" /\ RefreshStep(c))
  /\ SF_refreshVars(part = "refresh" /\ RequestBatch(c1, DefaultOrder))
  /\ \A d \in Drafts : WF_refreshVars(part = "refresh" /\ PromoteRefresh(d))
  /\ \A c \in Calls : WF_retrievalVars(part # "refresh" /\ RetrievalStep(c))
  /\ \A p \in Hosting : SF_retrievalVars(Asks(p) /\ WithinBounds)

ServingSpec == ServingInit /\ [][ServingNext]_servingVars /\ ServingFairness

\* The variables of the modules keep to their types.
ServingTypeOK == RefreshTypeOK /\ RetrievalTypeOK
=============================================================================
