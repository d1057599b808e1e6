----------------------------- MODULE OpPluginYaml -----------------------------
(***************************************************************************)
(* The schema loader feeding the wrap-name resolver: parse_opplugin_yaml   *)
(* (line 103) calls parse_npu_yaml on one schema file and resolves the     *)
(* document it returns.  The file is fixed for the run; the resolver's     *)
(* steps are those of WrapNameResolver.                                    *)
(***************************************************************************)
EXTENDS SchemaLoader

CONSTANTS
  OpKey,     \* Funcs -> canonical operator names
  CppName,   \* Funcs -> default wrapper symbols
  Files      \* the schema files a run may be given

VARIABLES
  file,
  input, pc, source_es, support_ops, symint_set,
  GLOBAL_STRUCTURED_OP_INFO_CACHE, warnings, cache_at_call, written

R == INSTANCE WrapNameResolver
       WITH Documents <- {<<ParseNpuYaml(f)>> : f \in Files}

allvars == <<file, R!vars>>

Init ==
  /\ file \in Files
  /\ R!Init
  /\ input = <<ParseNpuYaml(file)>>

Next == R!Next /\ UNCHANGED file

Spec == Init /\ [][Next]_allvars

-----------------------------------------------------------------------------
\* The items written under key k in the file, whatever their form.
Written(k) ==
  LET sec == Section(SelectSeq(file.lines, LAMBDA l : l.kind # "comment"), k)
  IN
  IF file.exists /\ sec # Null THEN ToSet(sec) ELSE {}

TypeOK == R!TypeOK /\ file \in Files

(* Spec 6 and line 117: a symint entry is either a record with a func or  *)
(* the signature string itself; in both forms the canonical name it       *)
(* declares must end up in the symint set the resolver suffixes with.     *)
SymintDeclarationsHonoured ==
  pc = "loop" => symint_set = {OpKey[f] : f \in Written("symint")}

(* Spec 4.1 and 8: a schema file that exists but holds only lines without *)
(* a separator (or no line at all) loads as an empty document; the run    *)
(* aborts only on an entry whose func is not a string.                    *)
AbortsOnlyOnMalformedFunc ==
  pc = "aborted" => NotStr \in Written("custom") \cup Written("official")

=============================================================================
