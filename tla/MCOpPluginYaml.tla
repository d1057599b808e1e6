---------------------------- MODULE MCOpPluginYaml ----------------------------
(***************************************************************************)
(* Model for OpPluginYaml: the signatures of MCWrapNameResolver and every *)
(* file with an optional leading comment and the sections custom,         *)
(* official, symint, each absent, empty or holding one item (symint up to *)
(* two), plus a missing file.                                             *)
(***************************************************************************)
EXTENDS OpPluginYaml, TLC

CONSTANTS f1, f2, f3, k1, k2, n1, n2, n3

MCFuncs == {f1, f2, f3}
MCOpKey == (f1 :> k1) @@ (f2 :> k1) @@ (f3 :> k2)
MCCppName == (f1 :> n1) @@ (f2 :> n2) @@ (f3 :> n3)

Key(k) == [kind |-> "key", key |-> k]
Record(f) == [kind |-> "record", func |-> f]
String(f) == [kind |-> "string", func |-> f]
Comment == [kind |-> "comment"]

\* A section: absent, a key with no item, or a key and its item lines.
Sections(k, Items) == {<<>>, <<Key(k)>>} \cup {<<Key(k)>> \o is : is \in Items}

OpItems == {<<Record(f)>> : f \in MCFuncs \cup {NotStr}}
SymintItems(Forms) ==
  {<<i>> : i \in Forms} \cup {<<i, j>> : i, j \in Forms}

FilesWith(SymForms) ==
  {[exists |-> TRUE, lines |-> c \o cu \o of \o sy] :
     c \in {<<>>, <<Comment>>},
     cu \in Sections("custom", OpItems),
     of \in Sections("official", OpItems),
     sy \in Sections("symint", SymintItems(SymForms))}
    \cup {[exists |-> FALSE, lines |-> <<>>]}

\* Symint entries written as records only.
RecordFiles == FilesWith({Record(f) : f \in {f1, f3}})
\* Symint entries written as records or as signature strings.
AllFiles == FilesWith({Record(f) : f \in {f1, f3}} \cup {String(f) : f \in {f1, f3}})

=============================================================================
