--------------------------- MODULE MCReversibleFiles ---------------------------
(* An instance of ReversibleFiles for TLC. *)
EXTENDS ReversibleFiles, TLC

CONSTANT MaxBegun   \* bound: the changes and the undo requests that begin

FewBegun ==
    Cardinality({c \in Changes : work[c].step # "idle"})
        + Cardinality({u \in Undos : undo[u].step # "idle"}) <= MaxBegun

\* Undo requests and texts are only compared.
Symmetry == Permutations(Undos) \union Permutations(Texts)
===============================================================================
