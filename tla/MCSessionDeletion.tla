------------------------- MODULE MCSessionDeletion -------------------------
(* TLC instances of SessionDeletion.                                       *)
EXTENDS SessionDeletion

\* Each document keeps a source of the one before it and adds one.
DocumentSources(v) ==
  CASE v = 1 -> {"s1", "s2"}
    [] v = 2 -> {"s2", "s3"}
    [] OTHER -> {"s3"}

RemovalBudget == [age |-> 2, hold |-> 1, fault |-> 1, crash |-> 2, undo |-> 1]

\* A hook and a removal, and nothing goes wrong.
QuietBudget == [age |-> 1, hold |-> 0, fault |-> 0, crash |-> 0, undo |-> 0]
=============================================================================
