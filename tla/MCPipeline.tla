----------------------------- MODULE MCPipeline -----------------------------
(***************************************************************************)
(* Model for Pipeline: the signatures of MCWrapNameResolver (f1 and f2    *)
(* share the canonical name k1 with different cpp names, f3 is k2), the   *)
(* two native functions o1 (k1) and o2 (k2) of MCGenUnstructured, one      *)
(* op-plugin document with at most one custom and one official entry (or *)
(* one that loads as None, or one with a malformed func), and pta record  *)
(* lists of up to two records that flag k1 or k2 op_api true or false,    *)
(* one name flagged false by one record and true by the next, and a plain *)
(* string entry that update_opapi_info skips.                              *)
(* Each cache can end with either, both or none of k1 and k2, and k1 can   *)
(* be written twice.                                                       *)
(***************************************************************************)
EXTENDS Pipeline, TLC

CONSTANTS f1, f2, f3, k1, k2, n1, n2, n3, o1, o2

MCFuncs == {f1, f2, f3}
MCOpKey == (f1 :> k1) @@ (f2 :> k1) @@ (f3 :> k2)
MCCppName == (f1 :> n1) @@ (f2 :> n2) @@ (f3 :> n3)

MCDocuments ==
  {<<[custom |-> c, official |-> o, symint |-> <<>>]>> :
     c \in {<<>>, <<f1>>, <<f3>>}, o \in {<<>>, <<f2>>}}
    \cup {<<Null>>, <<[custom |-> <<NotStr>>, official |-> Null, symint |-> Null]>>}

Flag(k, v) == [kind |-> "dict", name |-> k, op_api |-> v, fields |-> {}]
MCOpApiDocs ==
  {<<>>, <<Flag(k1, "true")>>, <<Flag(k2, "true")>>,
   <<Flag(k1, "false"), Flag(k2, "true")>>,
   <<Flag(k1, "false"), Flag(k1, "true")>>,
   <<[kind |-> "str"], Flag(k2, "true")>>}

MCOps == <<o1, o2>>
MCOpKeyOf == (o1 :> k1) @@ (o2 :> k2)

\* Every kernel, manual and selector combination; o1 has a tensor argument
\* and o2 has none.
MCNativeInfos ==
  {n \in [{o1, o2} -> [has_kernel : BOOLEAN, manual : BOOLEAN,
                       selected : BOOLEAN, tensor_arg : BOOLEAN]] :
     n[o1].tensor_arg /\ ~n[o2].tensor_arg}

\* Every target, the namespaced definitions last (they raise NameError);
\* the names of GenUnstructured's DECL, ANON, REG and DEFN.
MCTargets == <<"NAMESPACED_DECLARATION", "ANONYMOUS_DEFINITION",
               "REGISTRATION", "NAMESPACED_DEFINITION">>

=============================================================================
