---------------------------- MODULE MCCodingTask ----------------------------
(* Instances of CodingTask for TLC. *)
EXTENDS CodingTask, TLC

CONSTANTS fix, review

FixAndReview == {fix, review}
OneFix == {fix}
=============================================================================
