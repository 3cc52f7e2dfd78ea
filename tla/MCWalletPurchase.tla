---------------------------- MODULE MCWalletPurchase ----------------------------
(***************************************************************************)
(* Instances of WalletPurchase for TLC: a UCP and an ACP purchase under    *)
(* one idempotency key (the second is a retry, or resumes the first), and  *)
(* a third call under another key that may be a browser-manual session.    *)
(* The caps are three a day and four a week: two purchases of two fit into *)
(* the week and never into one day.                                        *)
(***************************************************************************)
EXTENDS WalletPurchase

MCProtocol == [first |-> "ucp", again |-> "acp", other |-> "acp"]
MCKeyOf == [first |-> "k1", again |-> "k1", other |-> "k2"]
MCPrice == [first |-> 2, again |-> 2, other |-> 2]
MCTotal == [k1 |-> {1, 3}, k2 |-> {2}]
MCLength == [daily |-> 0, weekly |-> 7]
MCLimits == [daily |-> [USD |-> 3], weekly |-> [USD |-> 4]]
MCLegacy == [old |-> 1]
NoLegacy == [i \in {} |-> 0]
================================================================================
