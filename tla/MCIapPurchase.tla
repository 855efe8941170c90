---------------------------- MODULE MCIapPurchase ----------------------------
(***************************************************************************)
(* Finite instances of IapPurchase: how the platform's slot calls and the  *)
(* skus are spread over the flows of an instance.  The order ids are       *)
(* interchangeable.                                                        *)
(***************************************************************************)
EXTENDS IapPurchase, TLC

AllCallers == SlotCalls \cup Recoveries

(* The slot calls reach every flow.                                        *)
SpreadCalls ==
    CHOOSE m \in [SlotCalls -> Flows] :
        \A f \in Flows : \E c \in SlotCalls : m[c] = f

(* All flows buy one sku, or as many different skus as there are.          *)
SameSku == [f \in Flows |-> CHOOSE k \in Skus : TRUE]
SpreadSkus ==
    CHOOSE m \in [Flows -> Skus] : \A k \in Skus : \E f \in Flows : m[f] = k

OrderSymmetry == Permutations(Orders)
=============================================================================
