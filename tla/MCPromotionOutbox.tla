------------------------- MODULE MCPromotionOutbox -------------------------
(* Instances of PromotionOutbox for TLC.                                   *)
EXTENDS PromotionOutbox, TLC

CONSTANTS d1, d2, d3, t1, t2, s1, s2, b1, b2

\* Three drafts: d1 and d2 share a title and d1 and d3 share a scope.
MCTitleOf == [d \in Drafts |-> IF d = d3 THEN t2 ELSE t1]
MCScopeOf == [d \in Drafts |-> IF d = d2 THEN s2 ELSE s1]
MCFirstBody == [d \in Drafts |-> IF d = d1 THEN b1 ELSE b2]

ChunksOnly == <<"chunks">>
WithLexical == <<"chunks", "lexical">>
WithVector == <<"chunks", "vector">>

\* Workers are interchangeable: no definition tells one from another.
WorkerSymmetry == Permutations(Workers)
=============================================================================
