----------------------------- MODULE MCYamlMerge -----------------------------
(***************************************************************************)
(* Model for YamlMerge: documents that are None or mappings over the two  *)
(* keys the rename connects ("official", "supported"), in either order,   *)
(* whose values are None, a string, a list of up to two operators, or a   *)
(* nested mapping with one "custom" key.                                  *)
(***************************************************************************)
EXTENDS YamlMerge, TLC

MCChars == "NPU" :> <<"N", "P", "U">>

Ops == {Str("add"), Str("mul")}
Leaves == {None, Str("NPU"), List(<<>>)}
            \cup {List(<<o>>) : o \in Ops} \cup {List(<<Str("add"), Str("mul")>>)}
Values == Leaves \cup {Map(<<>>)}
            \cup {Map(<<<<"custom", v>>>>) : v \in {None, List(<<Str("add")>>)}}

MCDocs ==
  {None, Map(<<>>)}
    \cup {Map(<<<<k, v>>>>) : k \in {"official", "supported"}, v \in Values}
    \cup {Map(<<<<k1, v1>>, <<k2, v2>>>>) :
            <<k1, k2>> \in {<<"official", "supported">>, <<"supported", "official">>},
            v1 \in Values, v2 \in Values}

=============================================================================
