----------------------------- MODULE MCCatalog -----------------------------
(* TLC instances of Catalog.                                               *)
EXTENDS Catalog

\* Two publications, of one machine or of two, a collection with its recovery,
\* and a process that stops or a write that lands late.
CatalogBudget == [publish |-> 2, collect |-> 1, stop |-> 1]

\* The first content of a machine has nothing to differ from.
OfferedContents(n) == IF n = 1 THEN {1} ELSE {1, 2}
=============================================================================
