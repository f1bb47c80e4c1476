-------------------------------- MODULE Units --------------------------------
(***************************************************************************)
(* The total of a ledger.  A ledger is a function from holders to naturals; *)
(* holder x owns the units <<x, 1>>, ..., <<x, f[x]>>, and the total is the *)
(* number of units there are.  Written this way the total needs no          *)
(* recursion, so what it does under an update follows from the library's    *)
(* facts about cardinalities.                                               *)
(***************************************************************************)
EXTENDS Naturals, FiniteSets

UnitsOf(f, x) == {x} \X (1 .. f[x])

Units(f) == UNION {UnitsOf(f, x) : x \in DOMAIN f}

TotalOf(f) == Cardinality(Units(f))
=============================================================================
