----------------------------- MODULE SchemaLoader -----------------------------
(***************************************************************************)
(* parse_npu_yaml of codegen/utils.py (lines 46-59): a missing file loads *)
(* as {}; otherwise every line without a ':' is dropped and the rest is    *)
(* handed to yaml.load.  A schema file is abstracted to its lines, each    *)
(* one of                                                                  *)
(*   a top-level key      "custom:"          (has a ':')                   *)
(*   a record item        "- func: <sig>"    (has a ':')                   *)
(*   a string item        "- <sig>"          (a signature has no ':')      *)
(*   a comment            "# ..."            (taken to have no ':')        *)
(* and the loaded document to the three keys parse_opplugin_yaml pops:     *)
(* <<>> when the key is absent, Null when it has no item, else the func of *)
(* each item (line 117 reads a record's func and a string as itself).     *)
(***************************************************************************)
EXTENDS Sequences, SequencesExt

CONSTANTS
  Funcs,    \* valid func signature strings (model values)
  NotStr,   \* "- func:" with no value: func is None
  Null      \* a key with no value, or a whole document that is None

SectionKeys == {"custom", "official", "symint"}

Lines ==
  [kind : {"key"}, key : SectionKeys]
    \cup [kind : {"record", "string"}, func : Funcs \cup {NotStr}]
    \cup [kind : {"comment"}]

\* Mutant: a filter that wants the separator right after a leading key
\* (a pattern like ^\w+:) and so drops every item line.
HasSeparatorAfterKey(l) == l.kind = "key"

\* Line 53: if ':' not in line: continue
HasSeparator(l) == l.kind \in {"key", "record"}

IsKey(l) == l.kind = "key"

\* What yaml.load makes of the item lines under key k of the kept lines.
Section(kept, k) ==
  LET at   == SelectInSeq(kept, LAMBDA l : IsKey(l) /\ l.key = k)
      rest == SubSeq(kept, at + 1, Len(kept))
      stop == SelectInSeq(rest, IsKey)
      items == IF stop = 0 THEN rest ELSE SubSeq(rest, 1, stop - 1)
  IN IF at = 0 THEN <<>>
     ELSE IF items = <<>> THEN Null
     ELSE [i \in DOMAIN items |-> items[i].func]

\* Lines 46-59.
ParseNpuYaml(file) ==
  IF ~file.exists
  THEN [k \in SectionKeys |-> <<>>]
  ELSE LET kept == SelectSeq(file.lines, HasSeparator) IN
       IF kept = <<>> THEN Null
       ELSE [k \in SectionKeys |-> Section(kept, k)]

=============================================================================
