---------------------------- MODULE PromotionLog ----------------------------
(***************************************************************************)
(* What the promotion outbox promises, without workers, files or indexes:  *)
(* nothing enters the catalogue of canonical notes that no queued          *)
(* promotion asked for; a promotion is recorded only when every note it    *)
(* writes is catalogued, and acknowledged to its client only when it is    *)
(* recorded; and nothing queued, catalogued, recorded or acknowledged is   *)
(* ever withdrawn.                                                         *)
(***************************************************************************)
VARIABLES
  asked,        \* the notes each queued promotion writes, by promotion
  catalogued,   \* canonical notes with a row in the notes table
  promoted,     \* promotions recorded as done
  acknowledged  \* promotions whose client has been told so

vars == <<asked, catalogued, promoted, acknowledged>>

Init == asked = <<>> /\ catalogued = {} /\ promoted = {} /\ acknowledged = {}

\* One more promotion is queued; those queued before keep their notes.
Ask ==
  /\ DOMAIN asked \subseteq DOMAIN asked'
  /\ \A e \in DOMAIN asked : asked'[e] = asked[e]
  /\ UNCHANGED <<catalogued, promoted, acknowledged>>

Catalogue ==
  /\ catalogued \subseteq catalogued'
  /\ \A n \in catalogued' \ catalogued : \E e \in DOMAIN asked : n \in asked[e]
  /\ UNCHANGED <<asked, promoted, acknowledged>>

Promote(e) ==
  /\ asked[e] \subseteq catalogued
  /\ promoted' = promoted \cup {e}
  /\ UNCHANGED <<asked, catalogued, acknowledged>>

Acknowledge(e) ==
  /\ e \in promoted
  /\ acknowledged' = acknowledged \cup {e}
  /\ UNCHANGED <<asked, catalogued, promoted>>

Next == Ask \/ Catalogue \/ \E e \in DOMAIN asked : Promote(e) \/ Acknowledge(e)

Spec == Init /\ [][Next]_vars
=============================================================================
