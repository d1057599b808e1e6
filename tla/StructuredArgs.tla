---------------------------- MODULE StructuredArgs ----------------------------
(***************************************************************************)
(* scripts/codegen/api/structured.py: the translation of JIT argument     *)
(* types to the C++ types of the structured-kernel API                    *)
(* (argumenttype_type, argument) and the three argument lists built from  *)
(* a NativeFunctionsGroup (impl_arguments, meta_arguments, out_arguments). *)
(* The types are pure operators; impl_arguments, the one function with a  *)
(* loop over mutable state, is modelled step by step.                     *)
(*                                                                         *)
(* A JIT type is a base type, an optional or a list; a C++ type is a base *)
(* C type, a const reference, an optional or an ArrayRef of one.  Names   *)
(* and C type names are strings standing for themselves.                  *)
(***************************************************************************)
EXTENDS Sequences, SequencesExt

CONSTANTS
  Groups,   \* the NativeFunctionsGroups a run may be given
  Null      \* g.out.precomputed is None

Base(n) == [t |-> "base", name |-> n]
Opt(e) == [t |-> "opt", elem |-> e]
ListOf(e) == [t |-> "list", elem |-> e]

CBase(n) == [c |-> "base", name |-> n]
ConstRef(e) == [c |-> "constref", elem |-> e]
COptional(e) == [c |-> "optional", elem |-> e]
CArrayRef(e) == [c |-> "arrayref", elem |-> e]
Raised == [c |-> "AssertionError"]

\* What a function returning bindings gives: its list, or that it raised.
Ok(bs) == [raised |-> FALSE, bindings |-> bs]
Raise == [raised |-> TRUE, bindings |-> <<>>]

\* str(t) for the two list element types the translation names.
TypeStr(t) == IF t.t = "base" THEN t.name ELSE "compound"

\* cpp.valuetype_type (torchgen): a base type other than Tensor and Scalar
\* is a value type, an optional of a value type is one, a list is not.
RECURSIVE ValuetypeType(_)
ValuetypeType(t) ==
  CASE t.t = "base" ->
         IF t.name \in {"Tensor", "Scalar"} THEN Null ELSE CBase(t.name)
    [] t.t = "opt" ->
         IF ValuetypeType(t.elem) = Null THEN Null
         ELSE COptional(ValuetypeType(t.elem))
    [] t.t = "list" -> Null

\* Wraps a translated element, propagating a raise.
Wrap(Ctor(_), r) == IF r = Raised THEN Raised ELSE Ctor(r)

RECURSIVE ArgumenttypeType(_)

\* Mutant: OptionalCType(elem) wraps the NamedCType, not elem.type.
ArgumenttypeTypeNamedElem(t) ==
  IF ValuetypeType(t) # Null THEN ValuetypeType(t)
  ELSE CASE t.t = "base" /\ t.name = "Tensor" -> ConstRef(CBase("tensorT"))
         [] t.t = "base" /\ t.name = "Scalar" -> ConstRef(CBase("scalarT"))
         [] t.t = "opt" /\ t.elem = Base("Tensor") -> CBase("optionalTensorRefT")
         [] t.t = "opt" /\ t.elem = Base("Scalar") -> CBase("optionalScalarRefT")
         [] t.t = "opt" ->
              Wrap(LAMBDA e : COptional([binds |-> "x", type |-> e]),
                   ArgumenttypeType(t.elem))
         [] t.t = "list" /\ t.elem = Base("Tensor") -> Raised
         [] t.t = "list" /\ TypeStr(t.elem) = "int" -> CBase("intArrayRefT")
         [] t.t = "list" /\ TypeStr(t.elem) = "Dimname" -> CBase("dimnameListT")
         [] t.t = "list" -> Wrap(CArrayRef, ArgumenttypeType(t.elem))
         [] OTHER -> Raised

\* Lines 37-74.
ArgumenttypeType(t) ==
  IF ValuetypeType(t) # Null THEN ValuetypeType(t)
  ELSE CASE t.t = "base" /\ t.name = "Tensor" -> ConstRef(CBase("tensorT"))
         [] t.t = "base" /\ t.name = "Scalar" -> ConstRef(CBase("scalarT"))
         [] t.t = "opt" /\ t.elem = Base("Tensor") -> CBase("optionalTensorRefT")
         [] t.t = "opt" /\ t.elem = Base("Scalar") -> CBase("optionalScalarRefT")
         [] t.t = "opt" -> Wrap(COptional, ArgumenttypeType(t.elem))
         [] t.t = "list" /\ t.elem = Base("Tensor") -> Raised
         [] t.t = "list" /\ TypeStr(t.elem) = "int" -> CBase("intArrayRefT")
         [] t.t = "list" /\ TypeStr(t.elem) = "Dimname" -> CBase("dimnameListT")
         [] t.t = "list" -> Wrap(CArrayRef, ArgumenttypeType(t.elem))
         [] OTHER -> Raised

\* Lines 85-98: an Argument gives one binding, a SelfArgument the binding
\* of the Argument it wraps, TensorOptionsArguments raise.
RECURSIVE Argument(_)
Argument(a) ==
  CASE a.kind = "arg" ->
         IF ArgumenttypeType(a.type) = Raised THEN Raise
         ELSE Ok(<<[name |-> a.name, type |-> ArgumenttypeType(a.type)]>>)
    [] a.kind = "self" -> Argument(a.argument)
    [] a.kind = "topts" -> Raise

\* [r for arg in args for r in argument(arg)]
Bindings(args) ==
  LET bs == [i \in DOMAIN args |-> Argument(args[i])] IN
  IF \E i \in DOMAIN bs : bs[i].raised THEN Raise
  ELSE Ok(FlattenSeq([i \in DOMAIN bs |-> bs[i].bindings]))

\* Lines 126-129.
MetaArguments(g) == Bindings(g.functional_non_out)

\* Lines 131-134.
OutArguments(g) == Bindings(g.out)

\* Mutant: the argument is kept in front of its replacements.
ReplacementWithArg(a, replace) == <<a>> \o replace[a.name]

\* Lines 113-114: the parameters that take the place of a.
Replacement(a, replace) == replace[a.name]

\* Line 110: only a plain Argument is looked up in precomputed.replace.
IsReplaced(a, g) == a.kind = "arg" /\ a.name \in DOMAIN g.precomputed

VARIABLES
  g,          \* the group
  args,       \* args
  replaced,   \* non_out_args_replaced
  todo,       \* the non-out arguments the loop has not reached
  result,     \* what the call returned, Ok(bindings) or Raise
  pc          \* "start", "loop", "extend", "done"

vars == <<g, args, replaced, todo, result, pc>>

Init ==
  /\ g \in Groups
  /\ args = <<>>
  /\ replaced = <<>>
  /\ todo = <<>>
  /\ result = Ok(<<>>)
  /\ pc = "start"

\* Lines 103 and 120-121: with no precomputed, the non-out arguments as
\* they are; otherwise the loop over them.
ImplStart ==
  /\ pc = "start"
  /\ IF g.precomputed = Null
     THEN /\ args' = g.out_non_out
          /\ pc' = "extend"
          /\ UNCHANGED todo
     ELSE /\ todo' = g.out_non_out
          /\ pc' = "loop"
          /\ UNCHANGED args
  /\ UNCHANGED <<g, replaced, result>>

\* Lines 110-114.
ReplaceArg ==
  /\ pc = "loop"
  /\ todo # <<>>
  /\ IsReplaced(Head(todo), g)
  /\ replaced' = replaced \o Replacement(Head(todo), g.precomputed)
  /\ todo' = Tail(todo)
  /\ UNCHANGED <<g, args, result, pc>>

\* Lines 115-117.
KeepArg ==
  /\ pc = "loop"
  /\ todo # <<>>
  /\ ~IsReplaced(Head(todo), g)
  /\ replaced' = Append(replaced, Head(todo))
  /\ todo' = Tail(todo)
  /\ UNCHANGED <<g, args, result, pc>>

\* Line 119.
ExtendReplaced ==
  /\ pc = "loop"
  /\ todo = <<>>
  /\ args' = replaced
  /\ pc' = "extend"
  /\ UNCHANGED <<g, replaced, todo, result>>

\* Lines 123-124: the out arguments last, then every argument translated.
ImplFinish ==
  /\ pc = "extend"
  /\ result' = Bindings(args \o g.out)
  /\ pc' = "done"
  /\ UNCHANGED <<g, args, replaced, todo>>

Next == ImplStart \/ ReplaceArg \/ KeepArg \/ ExtendReplaced \/ ImplFinish

Spec == Init /\ [][Next]_vars

-----------------------------------------------------------------------------
RECURSIVE IsCType(_)
IsCType(c) ==
  /\ "c" \in DOMAIN c
  /\ \/ c.c = "base"
     \/ c.c \in {"constref", "optional", "arrayref"} /\ IsCType(c.elem)

TypeOK ==
  /\ pc \in {"start", "loop", "extend", "done"}
  /\ g \in Groups
  /\ pc = "done" =>
       \A i \in DOMAIN result.bindings : IsCType(result.bindings[i].type)

\* The name a non-out argument has in the schema.
NameOf(a) == IF a.kind = "self" THEN a.argument.name ELSE a.name

\* The comment of lines 104-106: every parameter named in
\* precomputed.replace is replaced by its precomputed counterparts.
ReplaceNamed(as, replace) ==
  FlattenSeq([i \in DOMAIN as |->
                IF as[i].kind # "topts" /\ NameOf(as[i]) \in DOMAIN replace
                THEN replace[NameOf(as[i])] ELSE <<as[i]>>])

Concat(b1, b2) ==
  IF b1.raised \/ b2.raised THEN Raise ELSE Ok(b1.bindings \o b2.bindings)

(* The impl kernel's parameters are the meta function's parameters, with  *)
(* every precomputed parameter in the place of the one it replaces, then  *)
(* the out parameters: impl_arguments agrees with meta_arguments and      *)
(* out_arguments of the same group, and raises exactly when they do.      *)
ImplIsMetaThenOut ==
  pc = "done" =>
    result = IF g.precomputed = Null
             THEN Concat(MetaArguments(g), OutArguments(g))
             ELSE Concat(Bindings(ReplaceNamed(g.functional_non_out,
                                               g.precomputed)),
                         OutArguments(g))

\* A list whose elements are tensors, optional or not, at any depth.
RECURSIVE HasTensorList(_)
HasTensorList(t) ==
  \/ t.t = "list" /\ t.elem \in {Base("Tensor"), Opt(Base("Tensor"))}
  \/ t.t \in {"opt", "list"} /\ HasTensorList(t.elem)

\* Every argument of the group with its JIT type.
TypedArgs ==
  {IF a.kind = "self" THEN a.argument ELSE a :
     a \in {x \in ToSet(g.functional_non_out \o g.out) : x.kind # "topts"}}

(* Lines 58-63: lists of tensors are not supported by the structured API   *)
(* (the torch::List issue), so a signature holding one is rejected rather *)
(* than given an ArrayRef type that does not match the dispatcher's.      *)
TensorListsRejected ==
  pc = "done" /\ ~result.raised =>
    \A a \in TypedArgs : ~HasTensorList(a.type)

=============================================================================
