--------------------------- MODULE GenUnstructured ---------------------------
(***************************************************************************)
(* gen_unstructured of codegen/utils.py: the per-operator C++ synthesis    *)
(* that torchgen calls once per (target, operator).  One step is one call; *)
(* the emitted text is abstracted to what decides dispatch: which wrapper  *)
(* is defined or registered, which kernel it calls, and whether it carries *)
(* the runtime op-api branch.  The two process-wide caches filled during   *)
(* schema resolution are read here and never written.                      *)
(***************************************************************************)
EXTENDS Integers, Sequences, FiniteSets

CONSTANTS
  Ops,          \* the native functions, in the order torchgen visits them
  OpKeyOf,      \* Ops -> canonical names str(f.func.name)
  WrapNames,    \* wrapper symbols the wrap-name cache may hold
  Targets,      \* the targets requested, in the order the caller asks
  ClassMethod   \* self.class_method_name is not None

DECL == "NAMESPACED_DECLARATION"
DEFN == "NAMESPACED_DEFINITION"
ANON == "ANONYMOUS_DEFINITION"
REG  == "REGISTRATION"

ASSUME Targets \in Seq({DECL, DEFN, ANON, REG})
ASSUME Ops \in Seq(DOMAIN OpKeyOf)
ASSUME ClassMethod \in BOOLEAN

OpSet == {Ops[i] : i \in DOMAIN Ops}
Keys == {OpKeyOf[f] : f \in OpSet}

\* What the code knows of one native function.
OpInfo == [has_kernel : BOOLEAN,   \* backend_index.has_kernel(f)
           manual     : BOOLEAN,   \* f.manual_kernel_registration
           selected   : BOOLEAN,   \* selector.is_native_function_selected(f)
           tensor_arg : BOOLEAN]   \* some argument is tensor-like

NoOutput == [kind |-> "None"]

VARIABLES
  native,           \* OpSet -> OpInfo
  device_guard,     \* self.backend_index.device_guard
  plugin_enabled,   \* enable_opplugin(): third_party/op-plugin exists
  skip_registration, \* self.skip_dispatcher_op_registration
  GLOBAL_STRUCTURED_OP_INFO_CACHE,  \* canonical name -> wrapper symbol
  GLOBAL_OPAPI_INFO_CACHE,          \* canonical names opted into op-api
  todo,             \* the (target, operator) calls still to make
  generated,        \* [requested target x OpSet -> output]
  status            \* "running", or "NameError" once a call has raised

vars == <<native, device_guard, plugin_enabled, skip_registration,
          GLOBAL_STRUCTURED_OP_INFO_CACHE, GLOBAL_OPAPI_INFO_CACHE,
          todo, generated, status>>

TargetSet == {Targets[i] : i \in DOMAIN Targets}

\* Every operator for the first target, then every one for the next, ...
CallOrder ==
  LET n == Len(Ops) IN
  [i \in 1 .. Len(Targets) * n |->
     <<Targets[((i - 1) \div n) + 1], Ops[((i - 1) % n) + 1]>>]

\* Mutant: the selector test attached to the anonymous-definition target.
SkippedSelectorOnAnon(t, f) ==
  \/ ~native[f].has_kernel
  \/ native[f].manual
  \/ t = ANON /\ ~native[f].selected

\* Lines 173-182: no kernel, manual registration, or (for registration
\* only) not selected.
Skipped(t, f) ==
  \/ ~native[f].has_kernel
  \/ native[f].manual
  \/ t = REG /\ ~native[f].selected

\* Mutant: the kernel named after the schema name, not metadata.kernel.
ImplNameFromSchema(f) ==
  [ns |-> IF ClassMethod THEN "native_class" ELSE "native",
   kernel |-> OpKeyOf[f]]

\* Lines 235-238: metadata.cpp_namespace[::class_method_name]::kernel
ImplName(f) == [ns |-> IF ClassMethod THEN "native_class" ELSE "native",
                kernel |-> f]

\* Lines 306-309: the op-plugin wrapper replaces the native kernel.
ResolvedImpl(f) ==
  LET k == OpKeyOf[f] IN
  IF plugin_enabled /\ k \in DOMAIN GLOBAL_STRUCTURED_OP_INFO_CACHE
  THEN [ns |-> "op_plugin", kernel |-> GLOBAL_STRUCTURED_OP_INFO_CACHE[k]]
  ELSE ImplName(f)

\* Lines 425-427: is_opapi
IsOpApi(k) == k \in GLOBAL_OPAPI_INFO_CACHE

\* Lines 400-401: is_op_valid
IsOpValid(k) == k \in DOMAIN GLOBAL_STRUCTURED_OP_INFO_CACHE

\* Line 311: is_opapi(op_key) and not is_op_valid(op_key)
UseOpApi(k) == IsOpApi(k) /\ ~IsOpValid(k)

\* Lines 311-330: the return statement of the anonymous wrapper.
ReturnCode(f) ==
  [impl        |-> ResolvedImpl(f),
   opapi       |-> UseOpApi(OpKeyOf[f]),
   format_check |-> UseOpApi(OpKeyOf[f]) /\ native[f].tensor_arg]

Init ==
  /\ native \in [OpSet -> OpInfo]
  /\ device_guard \in BOOLEAN
  /\ plugin_enabled \in BOOLEAN
  /\ skip_registration \in BOOLEAN
  /\ GLOBAL_STRUCTURED_OP_INFO_CACHE \in
       UNION {[D -> WrapNames] : D \in SUBSET Keys}
  /\ GLOBAL_OPAPI_INFO_CACHE \in SUBSET Keys
  /\ todo = CallOrder
  /\ generated = [c \in TargetSet \X OpSet |-> NoOutput]
  /\ status = "running"

\* The next call of the torchgen loop is gen_unstructured(f) for target t.
Calling(t, f) ==
  /\ status = "running"
  /\ todo # <<>>
  /\ Head(todo) = <<t, f>>

\* The call returns out, which torchgen collects.
Returns(t, f, out) ==
  /\ generated' = [generated EXCEPT ![<<t, f>>] = out]
  /\ todo' = Tail(todo)
  /\ UNCHANGED <<native, device_guard, plugin_enabled, skip_registration,
                 GLOBAL_STRUCTURED_OP_INFO_CACHE, GLOBAL_OPAPI_INFO_CACHE,
                 status>>

\* The call raises NameError; the generator run is aborted.
Raises ==
  /\ status' = "NameError"
  /\ UNCHANGED <<native, device_guard, plugin_enabled, skip_registration,
                 GLOBAL_STRUCTURED_OP_INFO_CACHE, GLOBAL_OPAPI_INFO_CACHE,
                 todo, generated>>

\* Lines 173-182: the early returns of None.
GenSkipped ==
  \E t \in TargetSet, f \in OpSet :
    /\ Calling(t, f)
    /\ Skipped(t, f)
    /\ Returns(t, f, NoOutput)

\* Lines 196-200: one TORCH_API declaration per C++ signature.
GenDeclaration ==
  \E f \in OpSet :
    /\ Calling(DECL, f)
    /\ ~Skipped(DECL, f)
    /\ Returns(DECL, f, [kind |-> "decl", op |-> f])

\* Lines 201-203: "def generate_defn(cpp_sig: CppSignature)" evaluates its
\* annotation when the def runs, and CppSignature is not imported.
GenDefinition ==
  \E f \in OpSet :
    /\ Calling(DEFN, f)
    /\ ~Skipped(DEFN, f)
    /\ Raises

\* Lines 248-251: with a device-guarded backend the device check reads
\* itertools.chain, and itertools is not imported.
GenAnonymousDeviceCheck ==
  \E f \in OpSet :
    /\ Calling(ANON, f)
    /\ ~Skipped(ANON, f)
    /\ device_guard
    /\ Raises

\* Lines 215-344: the anonymous wrapper with its return statement (the
\* inplace_meta and out/inplace-wrapper short circuits are dead: both flags
\* are the constant False; the device guard is omitted because the backend
\* is not device-guarded).
GenAnonymous ==
  \E f \in OpSet :
    /\ Calling(ANON, f)
    /\ ~Skipped(ANON, f)
    /\ ~device_guard
    /\ Returns(ANON, f, [kind |-> "anon", wrapper |-> f, call |-> ReturnCode(f)])

\* Lines 346-351: m.impl("<schema name>", TORCH_FN(<wrapper>)).
GenRegistration ==
  \E f \in OpSet :
    /\ Calling(REG, f)
    /\ ~Skipped(REG, f)
    /\ Returns(REG, f,
         IF skip_registration
         THEN NoOutput
         ELSE [kind |-> "reg", schema |-> OpKeyOf[f], fn |-> f])

Next ==
  \/ GenSkipped
  \/ GenDeclaration
  \/ GenDefinition
  \/ GenAnonymousDeviceCheck
  \/ GenAnonymous
  \/ GenRegistration

Spec == Init /\ [][Next]_vars

-----------------------------------------------------------------------------
Impls == [ns : {"native", "native_class"}, kernel : OpSet]
           \cup [ns : {"op_plugin"}, kernel : WrapNames]

Outputs ==
  {NoOutput}
    \cup [kind : {"decl"}, op : OpSet]
    \cup [kind : {"anon"}, wrapper : OpSet,
          call : [impl : Impls, opapi : BOOLEAN, format_check : BOOLEAN]]
    \cup [kind : {"reg"}, schema : Keys, fn : OpSet]

TypeOK ==
  /\ status \in {"running", "NameError"}
  /\ todo \in Seq(TargetSet \X OpSet)
  /\ generated \in [TargetSet \X OpSet -> Outputs]

\* Every call of target t has returned.
PassDone(t) == t \in TargetSet /\ \A i \in DOMAIN todo : todo[i][1] # t

(* Every m.impl registration emitted names a wrapper that the anonymous-   *)
(* definition pass of the same run defined: the selector, manual and      *)
(* kernel early returns of the two targets never let a registration refer *)
(* to a wrapper that was skipped (a C++ link error in the generated file). *)
RegisteredWrapperDefined ==
  PassDone(ANON) /\ PassDone(REG) =>
    \A f \in OpSet :
      generated[<<REG, f>>].kind = "reg" => generated[<<ANON, f>>].kind = "anon"

(* Spec 7: the only internal error is an unrecognized target; a run over  *)
(* recognized targets never aborts.                                       *)
NoInternalError == status # "NameError"

=============================================================================
