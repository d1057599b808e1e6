------------------------- MODULE MCWrapNameResolver -------------------------
(***************************************************************************)
(* Model for WrapNameResolver: three signatures, two of which (f1, f2)    *)
(* share the canonical name k1 but have different cpp names, as when the  *)
(* pta and op-plugin schemas declare the same operator differently; f3 is *)
(* a second operator.  A run resolves one or two documents, each holding  *)
(* at most two declarations in custom and official together; the second  *)
(* document may also be one that loads as None.                           *)
(***************************************************************************)
EXTENDS WrapNameResolver, TLC

CONSTANTS f1, f2, f3, k1, k2, n1, n2, n3

MCFuncs == {f1, f2, f3}
MCOpKey == (f1 :> k1) @@ (f2 :> k1) @@ (f3 :> k2)
MCCppName == (f1 :> n1) @@ (f2 :> n2) @@ (f3 :> n3)

Lists == {<<>>, Null}
           \cup {<<e>> : e \in MCFuncs \cup {NotStr}}
           \cup {<<e1, e2>> : e1, e2 \in MCFuncs \cup {NotStr}}
SymintLists == {Null, <<>>, <<f1>>, <<f3>>}

Len0(l) == IF l = Null THEN 0 ELSE Len(l)

Docs == {d \in [custom : Lists, official : Lists, symint : SymintLists] :
           Len0(d.custom) + Len0(d.official) <= 2}

\* Null as a whole document: an existing file that parses to None.
MCDocuments == {<<d>> : d \in Docs} \cup {<<d1, d2>> : d1, d2 \in Docs}
                  \cup {<<Null>>} \cup {<<d, Null>> : d \in Docs}

=============================================================================
