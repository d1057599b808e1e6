--------------------------- MODULE WrapNameResolver ---------------------------
(***************************************************************************)
(* parse_opplugin_yaml of codegen/utils.py, one statement group per step: *)
(* the three top-level keys are popped and the symint name set is built   *)
(* (ParseOpPluginYaml), then the loop over custom + official writes one    *)
(* canonical name -> wrapper symbol pair into the process-wide            *)
(* GLOBAL_STRUCTURED_OP_INFO_CACHE per iteration (ResolveSupportOp), or    *)
(* stops on the assertion that func is a string (RejectNonStrFunc).        *)
(* The function may be called once per schema document (the warning text *)
(* names "pta" and "opplugin"); the cache outlives each call, the symint   *)
(* set does not.                                                           *)
(***************************************************************************)
EXTENDS Sequences, SequencesExt, FiniteSets

CONSTANTS
  Funcs,     \* valid func signature strings (model values)
  NotStr,    \* a func field that is missing or not a string
  Null,      \* a top-level key present with an empty (None) value
  OpKey,     \* Funcs -> canonical operator names: str(func.name)
  CppName,   \* Funcs -> default wrapper symbols: cpp.name(func)
  Documents  \* the schema documents one run may be given, in call order

ASSUME NotStr \notin Funcs

VARIABLES
  input,        \* documents parse_opplugin_yaml is still to be called on
  pc,           \* "idle" between calls, "loop" inside one, "aborted"
  source_es,    \* the document of the current call (custom, official, symint)
  support_ops,  \* the entries of custom + official the loop has not reached
  symint_set,   \* canonical names listed under symint in the current document
  GLOBAL_STRUCTURED_OP_INFO_CACHE,
  warnings,     \* the conflict messages printed: [key, old, new]
  \* history variables (not program state)
  cache_at_call,  \* the cache when the current call started
  written         \* canonical name -> every wrapper symbol ever written

vars == <<input, pc, source_es, support_ops, symint_set,
          GLOBAL_STRUCTURED_OP_INFO_CACHE, warnings, cache_at_call, written>>

Keys == {OpKey[f] : f \in Funcs}
WrapNames == [name : {CppName[f] : f \in Funcs}, symint : BOOLEAN]

\* custom = source_es.pop('custom', []); if custom is None: custom = []
OrEmpty(l) == IF l = Null THEN <<>> ELSE l

\* Mutant: official resolved before custom.
SupportOpsOfficialFirst(d) == OrEmpty(d.official) \o OrEmpty(d.custom)

\* support_ops = custom + official
SupportOps(d) == OrEmpty(d.custom) \o OrEmpty(d.official)

\* symint_set = set([str(FunctionSchema.parse(op).name) for op in symint])
SymintSet(d) == {OpKey[f] : f \in ToSet(OrEmpty(d.symint))}

\* Mutant: the wrapper named after the canonical name instead of cpp.name.
WrapNameFromKey(f, syms) == [name |-> OpKey[f], symint |-> OpKey[f] \in syms]

\* wrap_name = cpp.name(func), plus "_symint" when op_key is in symint_set
WrapName(f, syms) == [name |-> CppName[f], symint |-> OpKey[f] \in syms]

\* Mutant: the names compared before "_symint" is appended.
ConflictIgnoringSuffix(k, w, cache) ==
  k \in DOMAIN cache /\ cache[k].name # w.name

\* cur_wrap_name and cur_wrap_name != wrap_name
Conflict(k, w, cache) == k \in DOMAIN cache /\ cache[k] # w

Init ==
  /\ input \in Documents
  /\ pc = "idle"
  /\ source_es = Null
  /\ support_ops = <<>>
  /\ symint_set = {}
  /\ GLOBAL_STRUCTURED_OP_INFO_CACHE = <<>>
  /\ warnings = {}
  /\ cache_at_call = <<>>
  /\ written = [k \in Keys |-> {}]

\* Lines 103-118: load the document, pop custom/official/symint, build the
\* symint name set.
ParseOpPluginYaml ==
  /\ pc = "idle"
  /\ input # <<>>
  /\ Head(input) # Null
  /\ LET d == Head(input) IN
       /\ source_es' = d
       /\ support_ops' = SupportOps(d)
       /\ symint_set' = SymintSet(d)
  /\ input' = Tail(input)
  /\ pc' = "loop"
  /\ cache_at_call' = GLOBAL_STRUCTURED_OP_INFO_CACHE
  /\ UNCHANGED <<GLOBAL_STRUCTURED_OP_INFO_CACHE, warnings, written>>

\* Line 105: parse_npu_yaml returned None (yaml.load of a file with no line
\* left after filtering) and source_es.pop raises AttributeError.
PopFromNone ==
  /\ pc = "idle"
  /\ input # <<>>
  /\ Head(input) = Null
  /\ input' = Tail(input)
  /\ pc' = "aborted"
  /\ UNCHANGED <<source_es, support_ops, symint_set,
                 GLOBAL_STRUCTURED_OP_INFO_CACHE, warnings, cache_at_call,
                 written>>

\* Lines 121-133: one iteration of the loop over support_ops.
ResolveSupportOp ==
  /\ pc = "loop"
  /\ support_ops # <<>>
  /\ Head(support_ops) # NotStr
  /\ LET f == Head(support_ops)
         k == OpKey[f]
         w == WrapName(f, symint_set)
     IN /\ warnings' =
             IF Conflict(k, w, GLOBAL_STRUCTURED_OP_INFO_CACHE)
             THEN warnings \cup
                    {[key |-> k, old |-> GLOBAL_STRUCTURED_OP_INFO_CACHE[k],
                      new |-> w]}
             ELSE warnings
        /\ GLOBAL_STRUCTURED_OP_INFO_CACHE' =
             (k :> w) @@ GLOBAL_STRUCTURED_OP_INFO_CACHE
        /\ written' = [written EXCEPT ![k] = @ \cup {w}]
  /\ support_ops' = Tail(support_ops)
  /\ UNCHANGED <<input, pc, source_es, symint_set, cache_at_call>>

\* Line 123: assert isinstance(funcs, str) fails and the run stops.
RejectNonStrFunc ==
  /\ pc = "loop"
  /\ support_ops # <<>>
  /\ Head(support_ops) = NotStr
  /\ pc' = "aborted"
  /\ UNCHANGED <<input, source_es, support_ops, symint_set,
                 GLOBAL_STRUCTURED_OP_INFO_CACHE, warnings, cache_at_call,
                 written>>

\* Line 135: the loop is done; the call returns what is left of source_es.
ReturnSourceEs ==
  /\ pc = "loop"
  /\ support_ops = <<>>
  /\ pc' = "idle"
  /\ source_es' = Null
  /\ UNCHANGED <<input, support_ops, symint_set,
                 GLOBAL_STRUCTURED_OP_INFO_CACHE, warnings, cache_at_call,
                 written>>

Next ==
  \/ ParseOpPluginYaml
  \/ PopFromNone
  \/ ResolveSupportOp
  \/ RejectNonStrFunc
  \/ ReturnSourceEs

Spec == Init /\ [][Next]_vars

-----------------------------------------------------------------------------
TypeOK ==
  /\ pc \in {"idle", "loop", "aborted"}
  /\ support_ops \in Seq(Funcs \cup {NotStr})
  /\ symint_set \subseteq Keys
  /\ DOMAIN GLOBAL_STRUCTURED_OP_INFO_CACHE \subseteq Keys
  /\ \A k \in DOMAIN GLOBAL_STRUCTURED_OP_INFO_CACHE :
       GLOBAL_STRUCTURED_OP_INFO_CACHE[k] \in WrapNames
  /\ warnings \subseteq [key : Keys, old : WrapNames, new : WrapNames]

(* The naming-conflict warning of line 131 is printed for a canonical name *)
(* exactly when two different wrapper symbols have been written for it,   *)
(* in this call or across calls (pta then op-plugin): a rename that the    *)
(* _symint suffix alone causes is a conflict too.                          *)
ConflictWarnedIffRenamed ==
  \A k \in Keys :
    (\E m \in warnings : m.key = k) <=> Cardinality(written[k]) > 1

(* Resolving one document entry by entry implements the per-document       *)
(* promise of WrapNameCache: last declaration wins, custom before          *)
(* official, _symint exactly for the names the same document lists under   *)
(* symint, entries before a malformed one are kept when the run stops, and *)
(* a None document stops it with the cache untouched.                      *)
Abstract == INSTANCE WrapNameCache WITH
  pending <- IF pc = "loop" THEN <<source_es>> \o input ELSE input,
  cache   <- IF pc = "loop" THEN cache_at_call
                            ELSE GLOBAL_STRUCTURED_OP_INFO_CACHE,
  status  <- IF pc = "aborted" THEN "aborted" ELSE "running"

ImplementsWrapNameCache == Abstract!ASpec

=============================================================================
