-------------------------- MODULE LanguageAdapter --------------------------
(***************************************************************************)
(* The language adapters (infrastructure/language): which one fits a pull  *)
(* request, which of its files are in scope, and which definition encloses *)
(* a line.  A changed file is a record of                                  *)
(*   path, and kind: what its name makes it;                               *)
(*   patched: it has a patch;  skipped: its path is unsafe, or looks       *)
(*   generated or vendored;                                                *)
(*   hunks: the RIGHT line numbers of each hunk;                           *)
(*   definitions: the defs and classes of its content, [name, first, last, *)
(*   depth], depth being how deep in the syntax tree.  Content that does   *)
(*   not parse has none.                                                   *)
(***************************************************************************)
EXTENDS Integers, Sequences, FiniteSets, SequencesExt

FileKinds == {"python", "requirements", "project", "other"}

(* AdapterRegistry.select: PythonAdapter scores when a file is Python's,   *)
(* and GenericAdapter is the fallback.                                     *)
Select(files) ==
    IF \E f \in ToSet(files) : f.kind = "python" THEN "python" ELSE "generic"

GenericInScope(f) == f.patched /\ ~f.skipped
PythonRelevant(f) == f.kind # "other"
PythonInScope(f) == GenericInScope(f) /\ PythonRelevant(f)

InScope(adapter, f) == IF adapter = "python" THEN PythonInScope(f) ELSE GenericInScope(f)

NoSymbol == ""

Encloses(d, line) == d.first <= line /\ line <= d.last
Around(f, line) == {d \in f.definitions : Encloses(d, line)}

(* ast.walk is breadth-first: d is visited before e.                       *)
Visited(d, e) == d.depth < e.depth \/ (d.depth = e.depth /\ d.first < e.first)

(* Seeded fault: the walk stops at the first definition found.             *)
OutermostSymbol(adapter, f, line) ==
    IF adapter = "generic" \/ f.kind # "python" \/ Around(f, line) = {} THEN NoSymbol
    ELSE (CHOOSE d \in Around(f, line) : \A e \in Around(f, line) \ {d} : Visited(d, e)).name

(* enclosing_symbol: the last definition visited that holds the line.      *)
EnclosingSymbol(adapter, f, line) ==
    IF adapter = "generic" \/ f.kind # "python" \/ Around(f, line) = {} THEN NoSymbol
    ELSE (CHOOSE d \in Around(f, line) : \A e \in Around(f, line) \ {d} : Visited(e, d)).name
=============================================================================
