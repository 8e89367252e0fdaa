---------------------------- MODULE MCQueueRetry ----------------------------
(* Instances of QueueRetry: one Issue, with two bodies. *)
EXTENDS QueueRetry

CONSTANTS i1, plain, edited
=============================================================================
