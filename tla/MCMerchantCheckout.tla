------------------------- MODULE MCMerchantCheckout -------------------------
(***************************************************************************)
(* Instances of MerchantCheckout for TLC, all about one session.  pay and  *)
(* payRetry complete it under one key with one body; payOther completes it *)
(* under a key of its own, with a body that fails the schema.  open        *)
(* creates it, and update changes it under the key that open has used.     *)
(***************************************************************************)
EXTENDS MerchantCheckout

CONSTANTS pay, payRetry, payOther, cancel, update, open, s1, k1, k2, k3

MCOpOf == [r \in Request |->
  CASE r \in {pay, payRetry, payOther} -> "complete"
    [] r = cancel -> "cancel"
    [] r = update -> "update"
    [] r = open -> "create"]

MCSessionOf == [r \in Request |-> s1]

MCKeyOf == [r \in Request |->
  CASE r \in {pay, payRetry} -> k1
    [] r \in {open, payOther, update} -> k2
    [] r = cancel -> k3]

MCAmountOf == [r \in Request |-> CASE r = update -> 2 [] r = open -> 1 [] OTHER -> 0]

MCWellFormed == Request \ {payOther}
=============================================================================
