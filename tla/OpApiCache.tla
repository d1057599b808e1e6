------------------------------ MODULE OpApiCache ------------------------------
(***************************************************************************)
(* The op-api eligibility set of codegen/utils.py: update_opapi_info       *)
(* (lines 414-422) adds the canonical name of one schema record flagged    *)
(* op_api to the process-wide GLOBAL_OPAPI_INFO_CACHE, and filed_tag       *)
(* (lines 92-99) pops FIELDS_TO_REMOVE (line 43), op_api among them, from  *)
(* every record of a list.  The driver that calls them is not part of the *)
(* repository; StripAfterUpdate says whether it finishes every            *)
(* update_opapi_info call before it calls filed_tag, otherwise the calls   *)
(* come in any order.                                                      *)
(*                                                                         *)
(* A record is a plain string entry, a mapping, or another YAML value.  A  *)
(* mapping keeps the func's name (what func.split("(")[0] returns), its    *)
(* op_api value ("absent" once popped or never written) and the other     *)
(* removable fields it carries.                                           *)
(***************************************************************************)
EXTENDS Sequences, SequencesExt

CONSTANTS
  Names,             \* func.split("(")[0] of the signatures in the schema
  Docs,              \* the record lists (custom_es) a run may be given
  StripAfterUpdate   \* the driver calls filed_tag only after every update

ASSUME StripAfterUpdate \in BOOLEAN

\* Line 43 without op_api, which is kept apart as a record field.
RoutingFields == {"wrap_impl", "impl_name", "impl_ns"}

Records ==
  [kind : {"str", "other"}]
    \cup [kind : {"dict"}, name : Names, op_api : {"absent", "true", "false"},
          fields : SUBSET RoutingFields]

VARIABLES
  custom_es,                \* the record list, mutated by filed_tag
  GLOBAL_OPAPI_INFO_CACHE,
  updated,                  \* indices update_opapi_info was called on
  tagged,                   \* filed_tag has run over custom_es
  original                  \* history: custom_es as loaded

vars == <<custom_es, GLOBAL_OPAPI_INFO_CACHE, updated, tagged, original>>

\* Mutant: the record counts as flagged when it has an op_api key at all.
OpApiFlagPresent(r) == r.op_api # "absent"

\* Line 419: op_info.get("op_api", False)
OpApiFlag(r) == r.op_api = "true"

\* Mutant: func popped with the routing fields.
StrippedDroppingName(r) ==
  IF r.kind = "dict" THEN [kind |-> "dict", op_api |-> "absent", fields |-> {}]
  ELSE r

\* Lines 95-98: the record with every field of FIELDS_TO_REMOVE popped; a
\* value that is not a mapping is printed and left as it is.
Stripped(r) ==
  IF r.kind = "dict" THEN [r EXCEPT !.op_api = "absent", !.fields = {}]
  ELSE r

Init ==
  /\ custom_es \in Docs
  /\ original = custom_es
  /\ GLOBAL_OPAPI_INFO_CACHE = {}
  /\ updated = {}
  /\ tagged = FALSE

\* Lines 414-422: a string is ignored, a non-mapping is warned about, a
\* flagged mapping adds its canonical name.
UpdateOpApiInfo ==
  \E i \in DOMAIN custom_es \ updated :
    LET r == custom_es[i] IN
    /\ GLOBAL_OPAPI_INFO_CACHE' =
         IF r.kind = "dict" /\ OpApiFlag(r)
         THEN GLOBAL_OPAPI_INFO_CACHE \cup {r.name}
         ELSE GLOBAL_OPAPI_INFO_CACHE
    /\ updated' = updated \cup {i}
    /\ UNCHANGED <<custom_es, tagged, original>>

\* Lines 92-99: one call of filed_tag over the whole list.
FiledTag ==
  /\ ~tagged
  /\ StripAfterUpdate => updated = DOMAIN custom_es
  /\ custom_es' = [i \in DOMAIN custom_es |-> Stripped(custom_es[i])]
  /\ tagged' = TRUE
  /\ UNCHANGED <<GLOBAL_OPAPI_INFO_CACHE, updated, original>>

Next == UpdateOpApiInfo \/ FiledTag

Spec == Init /\ [][Next]_vars

-----------------------------------------------------------------------------
TypeOK ==
  /\ custom_es \in Seq(Records)
  /\ GLOBAL_OPAPI_INFO_CACHE \subseteq Names
  /\ updated \subseteq DOMAIN custom_es
  /\ tagged \in BOOLEAN

\* The canonical names the loaded schema flags with op_api: true.
Flagged ==
  {original[i].name :
     i \in {j \in DOMAIN original :
              original[j].kind = "dict" /\ original[j].op_api = "true"}}

=============================================================================
