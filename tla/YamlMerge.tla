------------------------------ MODULE YamlMerge ------------------------------
(***************************************************************************)
(* merge_custom_yaml and merge_yaml of codegen/utils.py (lines 62-89): the *)
(* pta schema (base) and the op-plugin schema (additional) are loaded with *)
(* yaml.safe_load, merged with base precedence, and the result is dumped   *)
(* to npu_native_functions_by_codegen.yaml next to the base file.          *)
(*                                                                         *)
(* A YAML node is None, a string, a list of nodes, or a mapping kept as    *)
(* the sequence of its (key, node) pairs in document order (safe_load      *)
(* keeps insertion order, and merge_yaml iterates it).  merge_yaml mutates *)
(* base in place; the model computes the node base ends up as.  Iterating  *)
(* a mapping yields its keys, iterating a string its characters, and       *)
(* iterating None or calling items() on a non-mapping raises: such a merge *)
(* yields Error and merge_custom_yaml writes nothing.                      *)
(***************************************************************************)
EXTENDS Sequences, SequencesExt

CONSTANTS
  Chars,    \* string -> the sequence of its one-character strings
  Docs      \* the documents safe_load may return for either schema file

VARIABLES
  pta_es,       \* yaml.safe_load(pta_file)
  op_es,        \* yaml.safe_load(op_plugin_file)
  merged_yaml,  \* what was dumped to the codegen yaml, or "unset"
  status        \* "loaded", "written" or "raised"

vars == <<pta_es, op_es, merged_yaml, status>>

None == [t |-> "none"]
Error == [t |-> "error"]
Str(s) == [t |-> "str", s |-> s]
List(items) == [t |-> "list", items |-> items]
Map(pairs) == [t |-> "map", pairs |-> pairs]

KeysOf(m) == [i \in DOMAIN m.pairs |-> m.pairs[i][1]]
HasKey(m, k) == Contains(KeysOf(m), k)
Get(m, k) == m.pairs[SelectInSeq(m.pairs, LAMBDA p : p[1] = k)][2]

\* base_data[k] = v: replaced where k is, appended when k is new.
Put(m, k, v) ==
  IF HasKey(m, k)
  THEN Map([m.pairs EXCEPT ![SelectInSeq(m.pairs, LAMBDA p : p[1] = k)] =
              <<k, v>>])
  ELSE Map(Append(m.pairs, <<k, v>>))

\* Line 64-65: map_dict = {"official": "supported"}; key_map
KeyMap(k) == IF k = "official" THEN "supported" ELSE k

\* What "for item in additional_data" visits (line 73).
Iterated(n) ==
  CASE n.t = "list" -> n.items
    [] n.t = "map"  -> [i \in DOMAIN n.pairs |-> Str(n.pairs[i][1])]
    [] n.t = "str"  -> [i \in DOMAIN Chars[n.s] |-> Str(Chars[n.s][i])]

\* Mutant: every item is appended, the "not in base_data" test dropped.
AppendAll(items, add) == items \o add

\* Lines 73-75: append every item not already in the list.
RECURSIVE AppendMissing(_, _)
AppendMissing(items, add) ==
  IF add = <<>> THEN items
  ELSE AppendMissing(IF Contains(items, Head(add)) THEN items
                                                  ELSE Append(items, Head(add)),
                     Tail(add))

RECURSIVE MergeYaml(_, _), MergePairs(_, _)

\* Mutant: a key present in both takes the additional value (no recursion).
MergePairsAdditionalWins(base, pairs) ==
  IF base = Error \/ pairs = <<>> THEN base
  ELSE LET k == KeyMap(Head(pairs)[1])
           v == Head(pairs)[2]
       IN MergePairs(Put(base, k, v), Tail(pairs))

\* Lines 67-71: the loop over additional_data.items().
MergePairs(base, pairs) ==
  IF base = Error \/ pairs = <<>> THEN base
  ELSE LET k == KeyMap(Head(pairs)[1])
           v == Head(pairs)[2]
           r == IF HasKey(base, k) THEN MergeYaml(Get(base, k), v) ELSE v
       IN MergePairs(IF r = Error THEN Error ELSE Put(base, k, r), Tail(pairs))

\* Lines 62-76.
MergeYaml(base, additional) ==
  CASE base.t = "map" ->
         IF additional.t = "map" THEN MergePairs(base, additional.pairs)
                                 ELSE Error
    [] base.t = "list" ->
         IF additional.t = "none" THEN Error
         ELSE List(AppendMissing(base.items, Iterated(additional)))
    [] OTHER -> base

Init ==
  /\ pta_es \in Docs
  /\ op_es \in Docs
  /\ merged_yaml = "unset"
  /\ status = "loaded"

\* Lines 85-89: merge, then dump the result next to the pta file.
MergeCustomYaml ==
  /\ status = "loaded"
  /\ MergeYaml(pta_es, op_es) # Error
  /\ merged_yaml' = MergeYaml(pta_es, op_es)
  /\ status' = "written"
  /\ UNCHANGED <<pta_es, op_es>>

\* Line 85: merge_yaml raises; nothing is written.
MergeCustomYamlRaises ==
  /\ status = "loaded"
  /\ MergeYaml(pta_es, op_es) = Error
  /\ status' = "raised"
  /\ UNCHANGED <<pta_es, op_es, merged_yaml>>

Next == MergeCustomYaml \/ MergeCustomYamlRaises

Spec == Init /\ [][Next]_vars

-----------------------------------------------------------------------------
\* merged holds all of base: a mapping's keys in their order, each with its
\* content kept; a list's items as a prefix; anything else unchanged.
RECURSIVE Preserves(_, _)
Preserves(base, merged) ==
  CASE base.t = "map" ->
         /\ merged.t = "map"
         /\ IsPrefix(KeysOf(base), KeysOf(merged))
         /\ \A i \in DOMAIN base.pairs :
              Preserves(base.pairs[i][2], merged.pairs[i][2])
    [] base.t = "list" ->
         merged.t = "list" /\ IsPrefix(base.items, merged.items)
    [] OTHER -> merged = base

(* Spec 3 and 8: the merge never loses or reorders anything of the base   *)
(* (pta) schema, at any depth: its keys keep their order and their values, *)
(* its lists keep their items in order, its scalars win every conflict,   *)
(* also when an op-plugin "official" key lands on a base "supported" key. *)
BasePreserved == status = "written" => Preserves(pta_es, merged_yaml)

\* Where base and additional meet as lists, every additional item is in
\* merged, and what was appended after base is new to base and has no item
\* twice; the check recurses through keys the two mappings share.  Where
\* the base holds a scalar (None or a string) the base wins and nothing of
\* the additional node is kept (spec 3, base precedence on scalars), and a
\* string or mapping merged into a list (line 73) is not judged: neither
\* case is checked here.
RECURSIVE AdditionalMerged(_, _, _)
AdditionalMerged(base, add, merged) ==
  CASE base.t = "map" /\ add.t = "map" ->
         \A i \in DOMAIN add.pairs :
           LET k == KeyMap(add.pairs[i][1]) IN
           /\ HasKey(merged, k)
           /\ HasKey(base, k) =>
                AdditionalMerged(Get(base, k), add.pairs[i][2], Get(merged, k))
    [] base.t = "list" /\ add.t = "list" ->
         LET appended == SubSeq(merged.items, Len(base.items) + 1,
                                Len(merged.items))
         IN /\ ToSet(add.items) \subseteq ToSet(merged.items)
            /\ IsInjective(appended)
            /\ ToSet(appended) \cap ToSet(base.items) = {}
    [] OTHER -> TRUE

(* Spec 3, sequence nodes, and spec 8's length bound, lines 67-75: the    *)
(* merge adds every key of the op-plugin schema, at any depth and also     *)
(* when "official" and "supported" both land on one base key, and where a  *)
(* base list meets an op-plugin list it keeps every op-plugin item and     *)
(* appends an item only when the list (as grown so far) does not hold it  *)
(* yet: no operator record of a list-against-list merge is dropped, none   *)
(* is declared twice.  A None or string base wins over an op-plugin list  *)
(* and drops it (line 76), which base precedence allows.                  *)
AdditionalItemsMerged ==
  status = "written" => AdditionalMerged(pta_es, op_es, merged_yaml)

(* Spec 8: merging a document with an identical copy of itself gives the  *)
(* same document.                                                         *)
MergeIdempotent ==
  status # "loaded" /\ pta_es = op_es =>
    status = "written" /\ merged_yaml = pta_es

=============================================================================
