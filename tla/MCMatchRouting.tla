----------------------------- MODULE MCMatchRouting -----------------------------
(***************************************************************************)
(* MatchRouting with a guest, a past guest and a blocked member, and       *)
(* camera items with and without locks and use cases.                      *)
(***************************************************************************)
EXTENDS MatchRouting, TLC

CONSTANTS a, i, b
MCCategory == (a :> "ACTIVE") @@ (i :> "INACTIVE") @@ (b :> "BLOCKLIST")

Item(locks, uc1, uc3, uc5) ==
  [locks |-> locks, enable_uc1 |-> uc1, enable_uc3 |-> uc3, enable_uc5 |-> uc5]
MCItems == { Item(TRUE, TRUE, TRUE, TRUE), Item(FALSE, TRUE, TRUE, FALSE) }
================================================================================
