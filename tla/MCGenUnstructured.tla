-------------------------- MODULE MCGenUnstructured --------------------------
(***************************************************************************)
(* Model for GenUnstructured: two operators with their own canonical      *)
(* names, two wrapper symbols the wrap-name cache may hold for them, every *)
(* kernel/manual/selector/tensor-argument combination, every cache content *)
(* and both settings of the plugin probe and the registration skip.       *)
(***************************************************************************)
EXTENDS GenUnstructured, TLC

CONSTANTS o1, o2, k1, k2, w1, w2

MCOps == <<o1, o2>>
MCOpKeyOf == (o1 :> k1) @@ (o2 :> k2)
MCWrapNames == {w1, w2}

\* Every target, the namespaced definitions last so that a pass that
\* raises does not hide the others (each call's output does not depend on
\* the order of the passes).
MCTargets == <<DECL, ANON, REG, DEFN>>
MCDefinitionOnly == <<DEFN>>

=============================================================================
