------------------------------ MODULE Pipeline ------------------------------
(***************************************************************************)
(* The three stages of codegen/utils.py that share the two process-wide   *)
(* caches, composed over those caches: parse_opplugin_yaml writes          *)
(* GLOBAL_STRUCTURED_OP_INFO_CACHE (WrapNameResolver), update_opapi_info   *)
(* and filed_tag write GLOBAL_OPAPI_INFO_CACHE and strip the records       *)
(* (OpApiCache), and gen_unstructured reads both for every (target,       *)
(* operator) call (GenUnstructured).  The driver that calls them is not   *)
(* part of the repository: the resolver and the op-api updates run in any *)
(* interleaving (they touch disjoint state), and the generator makes its  *)
(* first call only once both have written everything they will write      *)
(* (ResolutionDone), the caller obligation of spec section 6.             *)
(* The op-plugin documents the resolver reads and the record lists the    *)
(* op-api updates read are separate inputs.                               *)
(***************************************************************************)
EXTENDS Sequences, FiniteSets

CONSTANTS
  Funcs, NotStr, Null, OpKey, CppName,  \* as in WrapNameResolver
  Documents,     \* op-plugin schema documents, in call order
  OpApiDocs,     \* record lists offered to update_opapi_info
  Ops, OpKeyOf,  \* the native functions torchgen visits, as in GenUnstructured
  Targets, ClassMethod,
  NativeInfos    \* the [Ops -> OpInfo] tables of GenUnstructured a run may be given

VARIABLES
  \* WrapNameResolver
  input, pc, source_es, support_ops, symint_set,
  GLOBAL_STRUCTURED_OP_INFO_CACHE, warnings, cache_at_call, written,
  \* OpApiCache
  custom_es, GLOBAL_OPAPI_INFO_CACHE, updated, tagged, original,
  \* GenUnstructured
  native, device_guard, plugin_enabled, skip_registration, todo, generated,
  status

resolver_vars == <<input, pc, source_es, support_ops, symint_set,
                   GLOBAL_STRUCTURED_OP_INFO_CACHE, warnings, cache_at_call,
                   written>>
opapi_vars == <<custom_es, GLOBAL_OPAPI_INFO_CACHE, updated, tagged, original>>
gen_vars == <<native, device_guard, plugin_enabled, skip_registration, todo,
              generated, status>>
vars == <<resolver_vars, opapi_vars, gen_vars>>

R == INSTANCE WrapNameResolver
O == INSTANCE OpApiCache WITH Names <- R!Keys, Docs <- OpApiDocs,
                              StripAfterUpdate <- TRUE
G == INSTANCE GenUnstructured WITH WrapNames <- R!WrapNames

\* Spec 6: every document resolved without an abort, and every record
\* offered to update_opapi_info, before gen_unstructured is first called.
ResolutionDone ==
  /\ pc = "idle" /\ input = <<>>
  /\ updated = DOMAIN custom_es

Init ==
  /\ R!Init
  /\ O!Init
  /\ native \in NativeInfos
  /\ device_guard \in BOOLEAN
  /\ plugin_enabled \in BOOLEAN
  /\ skip_registration \in BOOLEAN
  /\ todo = G!CallOrder
  /\ generated = [c \in G!TargetSet \X G!OpSet |-> G!NoOutput]
  /\ status = "running"

Resolve == R!Next /\ UNCHANGED <<opapi_vars, gen_vars>>

TagOpApi == O!Next /\ UNCHANGED <<resolver_vars, gen_vars>>

Generate ==
  /\ ResolutionDone
  /\ G!Next
  /\ UNCHANGED <<input, pc, source_es, support_ops, symint_set, warnings,
                 cache_at_call, written, custom_es, updated, tagged, original>>

Next == Resolve \/ TagOpApi \/ Generate

Spec == Init /\ [][Next]_vars

\* The generator is one single-threaded process that runs to completion:
\* a step it can take is eventually taken, and it only stops where no step
\* is possible (every call made, a raise, or an aborted resolution).
FairSpec == Spec /\ WF_vars(Next)

-----------------------------------------------------------------------------
TypeOK == R!TypeOK /\ O!TypeOK /\ G!TypeOK

\* The generator's registration property, over the caches the resolution reaches.
RegisteredWrapperDefined == G!RegisteredWrapperDefined

(* Spec 8, from the schema inputs to the generated code: the anonymous    *)
(* wrapper of an operator carries the runtime op-api branch exactly when  *)
(* the pta records flag its canonical name op_api: true and no op-plugin   *)
(* document declares it.                                                   *)
OpApiBranchFromSchema ==
  \A f \in G!OpSet :
    generated[<<G!ANON, f>>].kind = "anon" =>
      (generated[<<G!ANON, f>>].call.opapi <=>
         OpKeyOf[f] \in O!Flagged /\ written[OpKeyOf[f]] = {})

(* Lines 173-182 and 215-344: torchgen asks for the anonymous wrapper of *)
(* every function with a kernel that is not registered manually, and the  *)
(* generator is never left waiting on the resolution: each such call is   *)
(* eventually made and returns the wrapper, whatever the selector says,   *)
(* unless the resolution aborts or an earlier call raised NameError (line *)
(* 203 or 251) and stopped the run before it.  The property is about what *)
(* the calls return: with NAMESPACED_DEFINITION among the targets, a run  *)
(* that has a kernel to define raises at line 203 sooner or later, and    *)
(* then emits nothing at all (spec 7).                                    *)
WrapperEventuallyDefined ==
  \A f \in G!OpSet :
    native[f].has_kernel /\ ~native[f].manual ~>
      \/ generated[<<G!ANON, f>>].kind = "anon"
      \/ pc = "aborted"
      \/ status = "NameError" /\ \E i \in DOMAIN todo : todo[i] = <<G!ANON, f>>

=============================================================================
