----------------------------- MODULE MCSources -----------------------------
(* The source table on a small instance, against every order of messages.  *)
EXTENDS Sources, TLC

\* Addresses are interchangeable: the code never compares two of them.
ObjSymmetry == Permutations(Obj)

\* The last listener call and the withdrawn streams have no effect on what
\* follows, and no invariant but the type reads them.
TableView == <<tables, now, announced>>
=============================================================================
