---------------------------- MODULE MCOpApiCache ----------------------------
(***************************************************************************)
(* Model for OpApiCache: record lists of up to three records, two          *)
(* canonical names so that a name can be flagged twice or by one record   *)
(* and not by another, and one routing field beside op_api.               *)
(***************************************************************************)
EXTENDS OpApiCache

CONSTANTS a, b

MCNames == {a, b}

MCRecords ==
  [kind : {"str", "other"}]
    \cup [kind : {"dict"}, name : MCNames, op_api : {"absent", "true", "false"},
          fields : {{}, {"wrap_impl"}}]

MCDocs == UNION {[1 .. n -> MCRecords] : n \in 0 .. 3}

=============================================================================
