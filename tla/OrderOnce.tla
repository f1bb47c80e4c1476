------------------------------ MODULE OrderOnce ------------------------------
(***************************************************************************)
(* What cross-chain relaying promises of a trade intent, whatever fails:    *)
(* it is registered before it is acted on, at most one order is placed for  *)
(* it, and it is marked executed only after its order was placed.           *)
(***************************************************************************)
CONSTANT Intents

VARIABLE phase

Phases == {"new", "registered", "placed", "executed"}

OOInit == phase = [i \in Intents |-> "new"]

Advance(i, from, to) ==
  /\ phase[i] = from
  /\ phase' = [phase EXCEPT ![i] = to]

Register(i) == Advance(i, "new", "registered")
PlaceOrder(i) == Advance(i, "registered", "placed")
Execute(i) == Advance(i, "placed", "executed")

OONext == \E i \in Intents : Register(i) \/ PlaceOrder(i) \/ Execute(i)

OOSpec == OOInit /\ [][OONext]_phase
=============================================================================
