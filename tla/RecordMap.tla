------------------------------ MODULE RecordMap ------------------------------
(***************************************************************************)
(* What the recovery records promise their readers: a map from paths to    *)
(* payloads in which an entry, once there, neither changes nor goes away.  *)
(***************************************************************************)
CONSTANTS Path,     \* the paths of recovery records
          Payload,  \* what a record can say
          None      \* no record

VARIABLE records    \* the record at each path, or None

Init == records = [p \in Path |-> None]

(* One record appears at a path that had none. *)
Add(p, v) ==
  /\ records[p] = None
  /\ records' = [records EXCEPT ![p] = v]

Next == \E p \in Path, v \in Payload : Add(p, v)

Spec == Init /\ [][Next]_records
==============================================================================
