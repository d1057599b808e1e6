--------------------------- MODULE MCStructuredArgs ---------------------------
(***************************************************************************)
(* Model for StructuredArgs: JIT types up to two constructors deep over    *)
(* the base types the translation tells apart, groups whose non-out part  *)
(* is an optional self argument and up to two plain arguments (or         *)
(* tensor options), an optional out tensor, and precomputed replacements  *)
(* of one argument by one or two parameters.                              *)
(***************************************************************************)
EXTENDS StructuredArgs

CONSTANTS NoPrecompute

BaseNames == {"Tensor", "Scalar", "int", "Dimname", "bool"}
Bases == {Base(n) : n \in BaseNames}
Types == Bases \cup {Opt(b) : b \in Bases} \cup {ListOf(b) : b \in Bases}
           \cup {Opt(ListOf(b)) : b \in Bases} \cup {ListOf(Opt(b)) : b \in Bases}

Arg(n, t) == [kind |-> "arg", name |-> n, type |-> t]
SelfArg == [kind |-> "self", argument |-> Arg("self", Base("Tensor"))]
TensorOptions == [kind |-> "topts"]

\* The parameters a precomputed entry may stand for.
Replacements == {<<Arg("xH", Base("int"))>>,
                 <<Arg("xH", Base("int")), Arg("xW", Base("int"))>>}

\* The arguments after self: x of any type, or x then y (y an int), or
\* tensor options.
Rest == {<<>>, <<TensorOptions>>}
          \cup {<<Arg("x", t)>> : t \in Types}
          \cup {<<Arg("x", t), Arg("y", Base("int"))>> : t \in Types}

NonOuts == {<<SelfArg>> \o r : r \in Rest} \cup Rest

Outs == {<<>>, <<Arg("out", Base("Tensor"))>>}

\* precomputed.replace maps names of the given arguments.
Precomputes(keys) ==
  {NoPrecompute}
    \cup UNION {[K -> Replacements] : K \in SUBSET keys \ {{}}}

GroupsOver(keys) ==
  {[functional_non_out |-> n, out_non_out |-> n, out |-> o, precomputed |-> p] :
     n \in NonOuts, o \in Outs, p \in Precomputes(keys)}

\* Replacements of plain arguments (precomputed entries name arguments of
\* native_functions.yaml such as kernel_size, never self).
MCGroups == GroupsOver({"x", "y"})

=============================================================================
