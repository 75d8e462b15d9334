-------------------------- MODULE MCProgressiveSession -------------------------
EXTENDS ProgressiveSession

CONSTANTS
  stop, burn,         \* status and CPU of one resource
  leak,               \* memory of another
  errors,             \* request errors: no cause of their own
  payment, carts

MCCauseOf == [t \in Tools |-> CASE t \in {stop, burn} -> payment [] t = leak -> carts [] OTHER -> NoCause]
MCCost == [t \in Tools |-> IF t \in {stop, leak} THEN 1 ELSE 2]
MCOwnedPair == payment :> burn @@ carts :> leak
=============================================================================
