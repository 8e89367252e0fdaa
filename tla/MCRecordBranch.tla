--------------------------- MODULE MCRecordBranch ---------------------------
(* Instances of RecordBranch: three jobs.  Two of them would write         *)
(* different records at one path; or all three write at one path, the      *)
(* first and the last the same record.                                     *)
EXTENDS RecordBranch, TLC

CONSTANTS w1, w2, w3, retry, stop, other, a, b

MCPathOf == (w1 :> retry) @@ (w2 :> retry) @@ (w3 :> stop)
MCSamePath == (w1 :> retry) @@ (w2 :> retry) @@ (w3 :> retry)
MCPayloadOf == (w1 :> a) @@ (w2 :> b) @@ (w3 :> a)

=============================================================================
