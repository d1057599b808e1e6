---------------------------- MODULE WrapNameCache ----------------------------
(***************************************************************************)
(* What the wrap-name resolution of codegen/utils.py promises, stated one  *)
(* schema document at a time: after a document is resolved, every         *)
(* canonical operator name that it declares (in custom, then official)     *)
(* maps to the wrapper symbol of its LAST declaration, suffixed with       *)
(* _symint exactly when the same document lists that name under symint;    *)
(* names the document does not declare keep what earlier documents left.  *)
(* A document with a non-string func aborts the run after the entries      *)
(* before it have been applied; a document that is not a mapping (None)    *)
(* aborts it before anything is applied.                                   *)
(***************************************************************************)
EXTENDS Sequences, SequencesExt, FiniteSets

CONSTANTS
  Funcs,     \* valid func signature strings (model values)
  NotStr,    \* a func field that is missing or not a string
  Null,      \* a top-level key present with an empty (None) value
  OpKey,     \* Funcs -> canonical operator names: str(func.name)
  CppName    \* Funcs -> default wrapper symbols: cpp.name(func)

VARIABLES
  pending,   \* documents not yet resolved, in call order
  cache,     \* canonical name -> [name, symint] (a partial function)
  status     \* "running" or "aborted"

avars == <<pending, cache, status>>

Listed(l) == IF l = Null THEN <<>> ELSE l

Declarations(d) == Listed(d.custom) \o Listed(d.official)

\* The declarations that are applied before a malformed one stops the run.
Applied(d) ==
  LET decl == Declarations(d)
      bad  == SelectInSeq(decl, LAMBDA f : f = NotStr)
  IN IF bad = 0 THEN decl ELSE SubSeq(decl, 1, bad - 1)

SymintNames(d) == {OpKey[f] : f \in ToSet(Listed(d.symint))}

\* The wrapper symbol the last declaration of name k in d resolves to.
LastDeclared(d, k) ==
  LET decl == Applied(d)
      f    == decl[SelectLastInSeq(decl, LAMBDA g : OpKey[g] = k)]
  IN [name |-> CppName[f], symint |-> k \in SymintNames(d)]

ResolveDocument ==
  /\ status = "running"
  /\ pending # <<>>
  /\ Head(pending) # Null
  /\ LET d        == Head(pending)
         declared == {OpKey[f] : f \in ToSet(Applied(d))}
     IN /\ cache' = [k \in declared \cup DOMAIN cache |->
                       IF k \in declared THEN LastDeclared(d, k) ELSE cache[k]]
        /\ status' = IF NotStr \in ToSet(Declarations(d)) THEN "aborted"
                                                          ELSE "running"
  /\ pending' = Tail(pending)

RejectDocument ==
  /\ status = "running"
  /\ pending # <<>>
  /\ Head(pending) = Null
  /\ status' = "aborted"
  /\ pending' = Tail(pending)
  /\ UNCHANGED cache

\* Any sequence of documents may be pending; nothing is resolved yet.
AInit == cache = <<>> /\ status = "running"

ASpec == AInit /\ [][ResolveDocument \/ RejectDocument]_avars

=============================================================================
