-------------------------- MODULE PurchaseContract --------------------------
(***************************************************************************)
(* What the IAP adapter promises its consumer, with nothing said of how:   *)
(* the documented meaning of the purchase and recovery results             *)
(* (packages/sdk/src/index.ts, IapPurchaseResult; README, "completed       *)
(* requires both ...").  Its state is what a consumer can see: the orders  *)
(* whose grant callback resolved, the answer of every purchase call and    *)
(* the answer of every recovery call.                                      *)
(***************************************************************************)
CONSTANTS Orders, Subs, Flows, Recoveries, None

VARIABLES entitled,   \* orders the consumer's server granted
          answer,     \* per purchase call
          recovered   \* per recovery call

Pending == "none"

Answers == [status : {"completed", "canceled", "failed", "mismatch",
                      "grant_failed", "unknown", "rejected"},
            order : Orders \cup {None}, sub : Subs \cup {None}]

RecoveryAnswers == {"completed", "notify_failed", "grant_failed", "rejected"}

Init ==
    /\ entitled = {}
    /\ answer = [f \in Flows |-> [status |-> Pending, order |-> None, sub |-> None]]
    /\ recovered = [r \in Recoveries |-> [status |-> Pending, order |-> None]]

(***************************************************************************)
(* The server grants an order, for ever.                                   *)
(***************************************************************************)
Entitle(o) ==
    /\ entitled' = entitled \cup {o}
    /\ UNCHANGED <<answer, recovered>>

(***************************************************************************)
(* A purchase call answers, once.  "completed" names an order the server   *)
(* has granted; a cancellation and a failure name none.                    *)
(***************************************************************************)
AnswerPurchase(f) ==
    /\ answer[f].status = Pending
    /\ \E a \in Answers :
          /\ a.status = "completed" => a.order \in entitled
          /\ a.status = "grant_failed" => a.order # None
          /\ a.status \in {"canceled", "failed", "mismatch", "rejected"} =>
                a.order = None /\ a.sub = None
          /\ answer' = [answer EXCEPT ![f] = a]
    /\ UNCHANGED <<entitled, recovered>>

(***************************************************************************)
(* A recovery call answers, once; it got as far as notifying the platform  *)
(* only if the server has granted the order.                               *)
(***************************************************************************)
AnswerRecovery(r) ==
    /\ recovered[r].status = Pending
    /\ \E st \in RecoveryAnswers, o \in Orders :
          /\ st \in {"completed", "notify_failed"} => o \in entitled
          /\ recovered' = [recovered EXCEPT ![r] = [status |-> st, order |-> o]]
    /\ UNCHANGED <<entitled, answer>>

Next ==
    \/ \E o \in Orders : Entitle(o)
    \/ \E f \in Flows : AnswerPurchase(f)
    \/ \E r \in Recoveries : AnswerRecovery(r)

Spec == Init /\ [][Next]_<<entitled, answer, recovered>>
=============================================================================
