----------------------------- MODULE OrderStatus -----------------------------
(***************************************************************************)
(* getIapOrderStatus, packages/api-core/src/iap.ts: the bounded loop that  *)
(* asks the provider for an order again while its status is transient, and *)
(* the normalizer that decides what an answer proves.                      *)
(*                                                                         *)
(* A call keeps nothing once it has returned.  Orders move on at the       *)
(* provider while a call runs, so what a verdict may claim is what held at *)
(* some time since its last request.                                       *)
(***************************************************************************)
EXTENDS Naturals

CONSTANTS Orders,       \* ids of orders that are asked for
          OtherIds,     \* ids that only an answer names
          Skus,
          Queries,      \* calls of getIapOrderStatus
          MaxAttempts,  \* the option iapOrderStatusMaxAttempts
          None          \* undefined

ASSUME OrderAssumption ==
    /\ None \notin Orders \cup OtherIds \cup Skus
    /\ Orders \cap OtherIds = {}
    /\ MaxAttempts \in Nat \ {0}

VARIABLES order,   \* external: what has become of an order, and its sku
          query    \* the calls

orderVars == <<order, query>>

OrderStates == {"absent", "pending", "paid", "failed", "refunded"}

(***************************************************************************)
(* Provider statuses, once trimmed and in upper case, by the classes that  *)
(* matter.  "PURCHASED" stands for both payable ones, "PENDING" for the    *)
(* four incomplete ones, "other" for the rest, known or not, which say     *)
(* nothing of the payment; their codes are taken together likewise.        *)
(***************************************************************************)
ProviderStatuses ==
    {"PURCHASED", "PENDING", "NOT_FOUND", "FAILED", "REFUNDED", "other"}

VerificationCode ==
    [PURCHASED |-> "none", PENDING |-> "PAYMENT_INCOMPLETE",
     NOT_FOUND |-> "ORDER_NOT_FOUND", FAILED |-> "PAYMENT_FAILED",
     REFUNDED |-> "PAYMENT_REFUNDED", other |-> "UNKNOWN_STATUS"]

RetryableStatuses == {"PENDING", "NOT_FOUND"}

(***************************************************************************)
(* An answer, by what the normalizer reads of it: whether it failed (its   *)
(* HTTP status is not 2xx, or `ok` is false); the resultType over all its  *)
(* aliases ("bare": SUCCESS without an object nested in it, "bad": a       *)
(* failure, an unknown value, no string, or aliases that disagree);        *)
(* whether every field that is present is a string; and the fields, where  *)
(* None and "none" are absent ones.                                        *)
(***************************************************************************)
OrderAnswers ==
    [failed : BOOLEAN, envelope : {"none", "SUCCESS", "bare", "bad"},
     typed : BOOLEAN, id : Orders \cup OtherIds \cup {None},
     status : ProviderStatuses \cup {"none"}, sku : Skus \cup {None}]

-----------------------------------------------------------------------------
(***************************************************************************)
(* The normalizer.                                                         *)
(***************************************************************************)
ErrorVerdict == [ok |-> FALSE, verified |-> FALSE, code |-> "none",
                 status |-> "other", skuCheck |-> "none", stub |-> FALSE]

\* Mutant: the expected sku stands in for one the provider left out.
SkuCheckFilled(provided, expected) ==
    CASE expected = None -> "none"
      [] expected # None /\ provided \in {None, expected} -> "MATCHED"
      [] OTHER -> "MISMATCHED"

IsEvidence(a) ==
    /\ ~a.failed
    /\ a.envelope \in {"none", "SUCCESS"}
    /\ a.typed
    /\ a.id # None /\ a.status # "none"

SkuCheck(provided, expected) ==
    CASE expected = None -> "none"
      [] expected # None /\ provided = None -> "NOT_PROVIDED"
      [] expected # None /\ provided = expected -> "MATCHED"
      [] OTHER -> "MISMATCHED"

Normalize(c, a) ==
    IF ~IsEvidence(a) THEN ErrorVerdict
    ELSE [ok |-> TRUE,
          verified |-> a.status = "PURCHASED" /\ a.id = c.order,
          code |-> IF a.id = c.order THEN VerificationCode[a.status]
                   ELSE "ORDER_ID_MISMATCH",
          status |-> a.status,
          skuCheck |-> SkuCheck(a.sku, c.sku), stub |-> FALSE]

StubVerdict(c) ==
    [ok |-> TRUE, verified |-> FALSE, code |-> "STUB_EVIDENCE",
     status |-> "PURCHASED",
     skuCheck |-> IF c.sku = None THEN "none" ELSE "MATCHED", stub |-> TRUE]

Retryable(v) == v.ok /\ v.status \in RetryableStatuses

-----------------------------------------------------------------------------
(***************************************************************************)
(* The provider.  A coherent answer about the order that was asked for     *)
(* says what holds of it while it is asked; an answer that contradicts     *)
(* itself, or is about another order, can say anything.  `seen` is         *)
(* history: the states the order has had since the call's last request.    *)
(***************************************************************************)
ClaimedStates(status) ==
    CASE status = "PURCHASED" -> {"paid"}
      [] status = "PENDING" -> {"pending"}
      [] status = "NOT_FOUND" -> {"absent"}
      [] status = "FAILED" -> {"failed"}
      [] status = "REFUNDED" -> {"refunded"}
      [] OTHER -> OrderStates

Coherent(a) ==
    ~a.failed /\ a.typed /\ a.envelope \in {"none", "SUCCESS"}

OrderAnswerIsPossible(c, a) ==
    Coherent(a) /\ a.id = c.order =>
        /\ a.sku \in {None, order[c.order].sku}
        /\ a.status # "none" => ClaimedStates(a.status) \cap c.seen # {}

OrderMoves(o, s) ==
    /\ <<order[o].state, s>> \in
          {<<"absent", "pending">>, <<"pending", "paid">>,
           <<"pending", "failed">>, <<"paid", "refunded">>}
    /\ order' = [order EXCEPT ![o].state = s]
    /\ query' = [q \in Queries |->
                   [query[q] EXCEPT !.seen =
                      IF query[q].phase = "asking" /\ query[q].order = o
                      THEN @ \cup {s} ELSE @]]

-----------------------------------------------------------------------------
IdleQuery == [phase |-> "idle", order |-> None, sku |-> None, attempt |-> 0,
              seen |-> {}, verdict |-> ErrorVerdict]

OrderInit ==
    /\ order \in [Orders -> [state : OrderStates, sku : Skus]]
    /\ query = [q \in Queries |-> IdleQuery]

\* Mutant: the attempts are not counted.
AskUncounted(c) ==
    [c EXCEPT !.phase = "asking", !.attempt = 1,
              !.seen = {order[c.order].state}]

(* The next round of the loop: a request leaves.                           *)
Ask(c) ==
    [c EXCEPT !.phase = "asking", !.attempt = @ + 1,
              !.seen = {order[c.order].state}]

Returned(c, v) == [c EXCEPT !.phase = "returned", !.verdict = v]

(***************************************************************************)
(* A call, up to its first request.  Stub mode, and a call without an      *)
(* order id, ask nobody.                                                   *)
(***************************************************************************)
GetOrderStatus(q, o, sku, stub) ==
    LET c == [IdleQuery EXCEPT !.order = o, !.sku = sku]
    IN /\ query[q].phase = "idle"
       /\ query' = [query EXCEPT ![q] =
             CASE o = None -> Returned(c, ErrorVerdict)
               [] o # None /\ stub -> Returned(c, StubVerdict(c))
               [] OTHER -> Ask(c)]
       /\ UNCHANGED order

\* Mutant: a transient answer does not replace an earlier one.
AnswerKeepingFirst(q, a) ==
    LET c == query[q]
        v == Normalize(c, a)
        kept == IF c.attempt > 1 /\ Retryable(v) THEN c.verdict ELSE v
    IN /\ c.phase = "asking"
       /\ OrderAnswerIsPossible(c, a)
       /\ query' = [query EXCEPT ![q] =
             IF Retryable(v) /\ c.attempt < MaxAttempts
             THEN [c EXCEPT !.phase = "sleeping", !.verdict = kept]
             ELSE Returned(c, kept)]
       /\ UNCHANGED order

(***************************************************************************)
(* The answer arrives: the loop ends, or sleeps for the retry delay.  A    *)
(* delay of zero is a Wake that follows at once.                           *)
(***************************************************************************)
Answer(q, a) ==
    LET c == query[q]
        v == Normalize(c, a)
    IN /\ c.phase = "asking"
       /\ OrderAnswerIsPossible(c, a)
       /\ query' = [query EXCEPT ![q] =
             IF Retryable(v) /\ c.attempt < MaxAttempts
             THEN [c EXCEPT !.phase = "sleeping", !.verdict = v]
             ELSE Returned(c, v)]
       /\ UNCHANGED order

Wake(q) ==
    /\ query[q].phase = "sleeping"
    /\ query' = [query EXCEPT ![q] = Ask(query[q])]
    /\ UNCHANGED order

(***************************************************************************)
(* requestToss rejects: the call does, and what it had learnt is lost.     *)
(***************************************************************************)
RequestThrows(q) ==
    /\ query[q].phase = "asking"
    /\ query' = [query EXCEPT ![q].phase = "thrown"]
    /\ UNCHANGED order

-----------------------------------------------------------------------------
QueryAnswered(q) ==
    \/ \E a \in OrderAnswers : Answer(q, a)
    \/ RequestThrows(q)

QueryStep(q) ==
    \/ \E o \in Orders \cup {None}, sku \in Skus \cup {None}, stub \in BOOLEAN :
          GetOrderStatus(q, o, sku, stub)
    \/ QueryAnswered(q)
    \/ Wake(q)

OrderNext ==
    \/ \E o \in Orders, s \in OrderStates : OrderMoves(o, s)
    \/ \E q \in Queries : QueryStep(q)

OrderSpec == OrderInit /\ [][OrderNext]_orderVars

-----------------------------------------------------------------------------
VerificationCodes ==
    {"none", "ORDER_ID_MISMATCH", "STUB_EVIDENCE", "PAYMENT_INCOMPLETE",
     "ORDER_NOT_FOUND", "PAYMENT_FAILED", "PAYMENT_REFUNDED",
     "UNKNOWN_STATUS"}

OrderVerdicts ==
    [ok : BOOLEAN, verified : BOOLEAN, code : VerificationCodes,
     status : ProviderStatuses,
     skuCheck : {"none", "NOT_PROVIDED", "MATCHED", "MISMATCHED"},
     stub : BOOLEAN]

QueryRecords ==
    [phase : {"idle", "asking", "sleeping", "returned", "thrown"},
     order : Orders \cup {None}, sku : Skus \cup {None},
     attempt : 0..MaxAttempts, seen : SUBSET OrderStates,
     verdict : OrderVerdicts]

(* Type invariant of the provider's orders and of the calls.               *)
OrderTypeOK ==
    /\ order \in [Orders -> [state : OrderStates, sku : Skus]]
    /\ query \in [Queries -> QueryRecords]

(* A verdict about the order that was asked for held at the provider since *)
(* the loop's last request, whatever earlier rounds have said, and a       *)
(* transient one is returned only when all attempts are used up.           *)
IsCurrent(c) ==
    c.phase = "returned" /\ c.verdict.ok /\ ~c.verdict.stub =>
        /\ c.verdict.code # "ORDER_ID_MISMATCH" =>
              ClaimedStates(c.verdict.status) \cap c.seen # {}
        /\ Retryable(c.verdict) => c.attempt = MaxAttempts

OrderVerdictsAreCurrent == \A q \in Queries : IsCurrent(query[q])

(* The gate the README gives to consumers (verified, no stub, sku matched) *)
(* lets nothing through but an order that was paid while it was asked for, *)
(* and that is for the expected sku: no answer that contradicts itself, is *)
(* about another order, leaves something out or is made up opens it.       *)
Grantable(v) == v.verified /\ ~v.stub /\ v.skuCheck = "MATCHED"

IsSound(c) ==
    c.phase = "returned" /\ Grantable(c.verdict) =>
        "paid" \in c.seen /\ order[c.order].sku = c.sku

GrantGateIsSound == \A q \in Queries : IsSound(query[q])
=============================================================================
