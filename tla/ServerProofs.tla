---------------------------- MODULE ServerProofs ----------------------------
(***************************************************************************)
(* Theorems about the server calls that talk to the provider: OrderStatus  *)
(* and SmartMessage, for any orders, calls, sends and attempt limit;       *)
(* PromotionServer, for any keys, rewards and legacy calls; and            *)
(* MtlsTransport, which carries their requests, for any set of requests    *)
(* and any limits.                                                         *)
(***************************************************************************)
EXTENDS OrderStatus, SmartMessage, PromotionServer, MtlsTransport, TLAPS

(* A call that asks or sleeps has an order to ask for, one that sleeps has *)
(* an attempt left, and only an order that was asked for is verified.      *)
RunsWithinLimit(c) ==
    /\ c.phase \in {"asking", "sleeping"} => c.order \in Orders
    /\ c.phase = "sleeping" => c.attempt < MaxAttempts
    /\ c.phase = "returned" /\ c.verdict.verified => c.order \in Orders

QueryIInv(c) ==
    /\ c \in QueryRecords
    /\ RunsWithinLimit(c)
    /\ IsCurrent(c)
    /\ IsSound(c)

OrderIInv ==
    /\ order \in [Orders -> [state : OrderStates, sku : Skus]]
    /\ DOMAIN query = Queries
    /\ query = [q \in Queries |-> query[q]]
    /\ \A q \in Queries : QueryIInv(query[q])

-----------------------------------------------------------------------------
(***************************************************************************)
(* What the normalizer makes of an answer.                                 *)
(***************************************************************************)
LEMMA NormalizeTyped ==
    ASSUME NEW c \in QueryRecords, NEW a \in OrderAnswers
    PROVE  Normalize(c, a) \in OrderVerdicts
<1>1. ErrorVerdict \in OrderVerdicts
  BY DEF ErrorVerdict, OrderVerdicts, VerificationCodes, ProviderStatuses
<1>2. ASSUME IsEvidence(a) PROVE a.status \in ProviderStatuses
  BY <1>2 DEF IsEvidence, OrderAnswers
<1>3. ASSUME NEW s \in ProviderStatuses
      PROVE  VerificationCode[s] \in VerificationCodes
  BY DEF ProviderStatuses, VerificationCode, VerificationCodes
<1>4. ASSUME NEW provided, NEW expected
      PROVE  SkuCheck(provided, expected) \in
                {"none", "NOT_PROVIDED", "MATCHED", "MISMATCHED"}
  BY DEF SkuCheck
<1>5. ASSUME IsEvidence(a) PROVE Normalize(c, a) \in OrderVerdicts
  <2> HIDE DEF VerificationCode
  <2>1. IF a.id = c.order THEN VerificationCode[a.status] \in VerificationCodes
        ELSE "ORDER_ID_MISMATCH" \in VerificationCodes
    BY <1>2, <1>3, <1>5 DEF VerificationCodes
  <2> QED
    BY <1>2, <1>4, <1>5, <2>1 DEF Normalize, OrderVerdicts
<1> QED
  BY <1>1, <1>5 DEF Normalize

LEMMA NormalizeIsCurrent ==
    ASSUME NEW c \in QueryRecords, c.order \in Orders,
           NEW a \in OrderAnswers, OrderAnswerIsPossible(c, a),
           Normalize(c, a).ok, Normalize(c, a).code # "ORDER_ID_MISMATCH"
    PROVE  ClaimedStates(Normalize(c, a).status) \cap c.seen # {}
<1>1. IsEvidence(a)
  BY DEF Normalize, ErrorVerdict
<1>2. a.id = c.order
  BY <1>1 DEF Normalize
<1>3. Normalize(c, a).status = a.status /\ a.status # "none"
  BY <1>1 DEF Normalize, IsEvidence
<1> QED
  BY <1>1, <1>2, <1>3 DEF OrderAnswerIsPossible, Coherent, IsEvidence

LEMMA NormalizeIsSound ==
    ASSUME NEW c \in QueryRecords, c.order \in Orders,
           NEW a \in OrderAnswers, OrderAnswerIsPossible(c, a),
           Grantable(Normalize(c, a))
    PROVE  "paid" \in c.seen /\ order[c.order].sku = c.sku
<1>1. IsEvidence(a)
  BY DEF Normalize, ErrorVerdict, Grantable
<1>2. a.id = c.order /\ a.status = "PURCHASED"
  BY <1>1 DEF Normalize, Grantable
<1>3. SkuCheck(a.sku, c.sku) = "MATCHED"
  BY <1>1 DEF Normalize, Grantable
<1>4. a.sku = c.sku /\ a.sku # None
  BY <1>3 DEF SkuCheck
<1>5. ClaimedStates(a.status) = {"paid"}
  BY <1>2 DEF ClaimedStates
<1> QED
  BY <1>1, <1>2, <1>4, <1>5 DEF OrderAnswerIsPossible, Coherent, IsEvidence

-----------------------------------------------------------------------------
(***************************************************************************)
(* What the rounds of the loop make of a call.                             *)
(***************************************************************************)
LEMMA AskKeeps ==
    ASSUME NEW c \in QueryRecords, c.order \in Orders, c.attempt < MaxAttempts,
           order \in [Orders -> [state : OrderStates, sku : Skus]]
    PROVE  QueryIInv(Ask(c))
<1>1. c.attempt + 1 \in 0..MaxAttempts
  BY OrderAssumption DEF QueryRecords
<1>2. {order[c.order].state} \in SUBSET OrderStates
  OBVIOUS
<1>3. Ask(c) \in QueryRecords
  BY <1>1, <1>2 DEF Ask, QueryRecords
<1> QED
  BY <1>3 DEF Ask, QueryIInv, QueryRecords, RunsWithinLimit, IsCurrent, IsSound

LEMMA ReturnKeeps ==
    ASSUME NEW c \in QueryRecords, NEW v \in OrderVerdicts,
           v.ok /\ ~v.stub /\ v.code # "ORDER_ID_MISMATCH" =>
              ClaimedStates(v.status) \cap c.seen # {},
           v.verified => c.order \in Orders,
           Retryable(v) /\ ~v.stub => c.attempt = MaxAttempts,
           Grantable(v) => "paid" \in c.seen /\ order[c.order].sku = c.sku
    PROVE  QueryIInv(Returned(c, v))
<1>1. Returned(c, v) \in QueryRecords
  BY DEF Returned, QueryRecords
<1>2. /\ Returned(c, v).phase = "returned" /\ Returned(c, v).verdict = v
      /\ Returned(c, v).seen = c.seen /\ Returned(c, v).order = c.order
      /\ Returned(c, v).sku = c.sku /\ Returned(c, v).attempt = c.attempt
  BY DEF Returned, QueryRecords
<1> QED
  BY <1>1, <1>2 DEF QueryIInv, RunsWithinLimit, IsCurrent, IsSound

LEMMA IdleIsARecord == IdleQuery \in QueryRecords
BY OrderAssumption DEF IdleQuery, QueryRecords, ErrorVerdict, OrderVerdicts,
      VerificationCodes, ProviderStatuses

LEMMA StepOfOneQuery ==
    ASSUME OrderIInv, NEW q \in Queries, NEW c, QueryIInv(c),
           query' = [query EXCEPT ![q] = c], UNCHANGED order
    PROVE  OrderIInv'
<1>1. query' = [p \in Queries |-> IF p = q THEN c ELSE query[p]]
  BY DEF OrderIInv
<1>2. \A p \in Queries : QueryIInv(query'[p])
  BY <1>1 DEF OrderIInv
<1>3. \A p \in Queries : QueryIInv(query[p])'
  BY <1>2 DEF QueryIInv, RunsWithinLimit, IsCurrent, IsSound
<1> QED
  BY <1>1, <1>3 DEF OrderIInv

-----------------------------------------------------------------------------
LEMMA OrderInitially == OrderInit => OrderIInv
<1> SUFFICES ASSUME OrderInit PROVE OrderIInv
  OBVIOUS
<1>1. QueryIInv(IdleQuery)
  BY IdleIsARecord
     DEF IdleQuery, QueryIInv, RunsWithinLimit, IsCurrent, IsSound
<1> QED
  BY <1>1 DEF OrderInit, OrderIInv

LEMMA OrderMovesKeeps ==
    ASSUME OrderIInv, NEW o \in Orders, NEW s \in OrderStates, OrderMoves(o, s)
    PROVE  OrderIInv'
<1>1. order' \in [Orders -> [state : OrderStates, sku : Skus]]
  BY DEF OrderIInv, OrderMoves
<1>2. \A p \in Orders : order'[p].sku = order[p].sku
  BY DEF OrderIInv, OrderMoves
<1>3. ASSUME NEW q \in Queries PROVE QueryIInv(query[q])'
  <2>1. QueryIInv(query[q]) /\ query[q] \in QueryRecords
    BY DEF OrderIInv, QueryIInv
  <2>2. CASE query[q].phase = "asking" /\ query[q].order = o
    <3>1. query'[q] = [query[q] EXCEPT !.seen = @ \cup {s}]
      BY <2>2 DEF OrderMoves
    <3> QED
      BY <2>1, <2>2, <3>1 DEF QueryIInv, QueryRecords, RunsWithinLimit,
         IsCurrent, IsSound
  <2>3. CASE ~(query[q].phase = "asking" /\ query[q].order = o)
    <3>1. query'[q] = query[q]
      BY <2>1, <2>3 DEF OrderMoves, QueryRecords
    <3>2. IsSound(query[q])'
      BY <1>2, <2>1, <3>1 DEF QueryIInv, RunsWithinLimit, IsSound, Grantable
    <3> QED
      BY <2>1, <3>1, <3>2 DEF QueryIInv, RunsWithinLimit, IsCurrent
  <2> QED
    BY <2>2, <2>3
<1> QED
  BY <1>1, <1>3 DEF OrderIInv, OrderMoves

LEMMA GetOrderStatusKeeps ==
    ASSUME OrderIInv, NEW q \in Queries, NEW o \in Orders \cup {None},
           NEW sku \in Skus \cup {None}, NEW stub \in BOOLEAN,
           GetOrderStatus(q, o, sku, stub)
    PROVE  OrderIInv'
<1> DEFINE c == [IdleQuery EXCEPT !.order = o, !.sku = sku]
<1>1. c \in QueryRecords /\ c.order = o /\ c.attempt = 0
  BY IdleIsARecord DEF IdleQuery, QueryRecords
<1>2. CASE o = None
  <2>1. /\ ErrorVerdict \in OrderVerdicts
        /\ ~ErrorVerdict.ok /\ ~ErrorVerdict.verified
    BY DEF ErrorVerdict, OrderVerdicts, VerificationCodes, ProviderStatuses
  <2>2. QueryIInv(Returned(c, ErrorVerdict))
    BY <1>1, <2>1, ReturnKeeps DEF Retryable, Grantable
  <2> QED
    BY <1>2, <2>2, StepOfOneQuery DEF GetOrderStatus
<1>3. CASE o # None /\ stub
  <2>1. StubVerdict(c) \in OrderVerdicts
    BY DEF StubVerdict, OrderVerdicts, VerificationCodes, ProviderStatuses
  <2>2. StubVerdict(c).stub /\ ~StubVerdict(c).verified
    BY DEF StubVerdict
  <2>3. QueryIInv(Returned(c, StubVerdict(c)))
    BY <1>1, <2>1, <2>2, ReturnKeeps DEF Grantable
  <2> QED
    BY <1>3, <2>3, StepOfOneQuery DEF GetOrderStatus
<1>4. CASE o # None /\ ~stub
  <2>1. c.order \in Orders /\ c.attempt < MaxAttempts
    BY <1>1, <1>4, OrderAssumption
  <2>2. QueryIInv(Ask(c))
    <3> HIDE DEF c
    <3> QED
      BY <1>1, <2>1, AskKeeps DEF OrderIInv
  <2> QED
    BY <1>4, <2>2, StepOfOneQuery DEF GetOrderStatus
<1> QED
  BY <1>2, <1>3, <1>4

LEMMA AnswerKeeps ==
    ASSUME OrderIInv, NEW q \in Queries, NEW a \in OrderAnswers, Answer(q, a)
    PROVE  OrderIInv'
<1> DEFINE c == query[q]
           v == Normalize(c, a)
<1>1. c \in QueryRecords /\ c.phase = "asking" /\ c.order \in Orders
  BY DEF OrderIInv, QueryIInv, RunsWithinLimit, Answer
<1>2. c.attempt \in 0..MaxAttempts
  BY <1>1 DEF QueryRecords
<1>3. v \in OrderVerdicts
  BY <1>1, NormalizeTyped
<1>4. OrderAnswerIsPossible(c, a)
  BY DEF Answer
<1> HIDE DEF c, v
<1>5. CASE Retryable(v) /\ c.attempt < MaxAttempts
  <2> DEFINE d == [c EXCEPT !.phase = "sleeping", !.verdict = v]
  <2>1. d \in QueryRecords
    BY <1>1, <1>3 DEF QueryRecords
  <2>2. QueryIInv(d)
    BY <1>1, <1>5, <2>1
       DEF QueryIInv, QueryRecords, RunsWithinLimit, IsCurrent, IsSound
  <2> QED
    BY <1>5, <2>2, StepOfOneQuery DEF Answer, c, v
<1>6. CASE ~(Retryable(v) /\ c.attempt < MaxAttempts)
  <2>1. v.ok /\ ~v.stub /\ v.code # "ORDER_ID_MISMATCH" =>
           ClaimedStates(v.status) \cap c.seen # {}
    BY <1>1, <1>4, NormalizeIsCurrent DEF v
  <2>2. Grantable(v) => "paid" \in c.seen /\ order[c.order].sku = c.sku
    BY <1>1, <1>4, NormalizeIsSound DEF v
  <2>3. Retryable(v) => c.attempt = MaxAttempts
    BY <1>2, <1>6, OrderAssumption
  <2>4. QueryIInv(Returned(c, v))
    BY <1>1, <1>3, <2>1, <2>2, <2>3, ReturnKeeps
  <2> QED
    BY <1>6, <2>4, StepOfOneQuery DEF Answer, c, v
<1> QED
  BY <1>5, <1>6

LEMMA WakeKeeps ==
    ASSUME OrderIInv, NEW q \in Queries, Wake(q)
    PROVE  OrderIInv'
<1>1. /\ query[q] \in QueryRecords /\ query[q].order \in Orders
      /\ query[q].attempt < MaxAttempts
  BY DEF OrderIInv, QueryIInv, RunsWithinLimit, Wake
<1>2. QueryIInv(Ask(query[q]))
  BY <1>1, AskKeeps DEF OrderIInv
<1> QED
  BY <1>2, StepOfOneQuery DEF Wake

LEMMA RequestThrowsKeeps ==
    ASSUME OrderIInv, NEW q \in Queries, RequestThrows(q)
    PROVE  OrderIInv'
<1> DEFINE d == [query[q] EXCEPT !.phase = "thrown"]
<1>1. query[q] \in QueryRecords
  BY DEF OrderIInv, QueryIInv
<1>2. d \in QueryRecords /\ d.phase = "thrown"
  BY <1>1 DEF QueryRecords
<1>3. QueryIInv(d)
  BY <1>2 DEF QueryIInv, RunsWithinLimit, IsCurrent, IsSound
<1>4. query' = [query EXCEPT ![q] = d] /\ UNCHANGED order
  BY DEF RequestThrows
<1> QED
  BY <1>3, <1>4, StepOfOneQuery

LEMMA OrderInductive == OrderIInv /\ [OrderNext]_orderVars => OrderIInv'
<1> SUFFICES ASSUME OrderIInv, [OrderNext]_orderVars PROVE OrderIInv'
  OBVIOUS
<1>1. ASSUME NEW o \in Orders, NEW s \in OrderStates, OrderMoves(o, s)
      PROVE  OrderIInv'
  BY <1>1, OrderMovesKeeps
<1>2. ASSUME NEW q \in Queries, QueryStep(q) PROVE OrderIInv'
  BY <1>2, GetOrderStatusKeeps, AnswerKeeps, WakeKeeps, RequestThrowsKeeps
     DEF QueryStep, QueryAnswered
<1>3. CASE UNCHANGED orderVars
  BY <1>3 DEF orderVars, OrderIInv, QueryIInv, RunsWithinLimit, IsCurrent,
     IsSound
<1> QED
  BY <1>1, <1>2, <1>3 DEF OrderNext

LEMMA OrderInvariant == OrderSpec => []OrderIInv
BY OrderInitially, OrderInductive, PTL DEF OrderSpec

-----------------------------------------------------------------------------
(* Orders and calls have their types.                                      *)
THEOREM OrderTypeCorrect == OrderSpec => []OrderTypeOK
<1>1. OrderIInv => OrderTypeOK
  BY DEF OrderIInv, QueryIInv, OrderTypeOK
<1> QED
  BY <1>1, OrderInvariant, PTL

(* What a call returns about its order has held since its last request,    *)
(* and a transient status is returned only at the end of its attempts.     *)
THEOREM OrderVerdictsCurrent == OrderSpec => []OrderVerdictsAreCurrent
<1>1. OrderIInv => OrderVerdictsAreCurrent
  BY DEF OrderIInv, QueryIInv, OrderVerdictsAreCurrent
<1> QED
  BY <1>1, OrderInvariant, PTL

(* The gate the README gives to consumers opens for an order only that     *)
(* was paid while it was asked for, and that is for the expected sku.      *)
THEOREM OrderGateIsSound == OrderSpec => []GrantGateIsSound
<1>1. OrderIInv => GrantGateIsSound
  BY DEF OrderIInv, QueryIInv, GrantGateIsSound
<1> QED
  BY <1>1, OrderInvariant, PTL

-----------------------------------------------------------------------------
(* Requests are made in order, and every one before the latest was         *)
(* rejected: only then does the consumer send again.                       *)
RequestsInOrder ==
    \A n \in Sends :
        /\ n > message.tries => posted[n] = "none"
        /\ n < message.tries => posted[n] = "rejected"

(* Between requests the latest one has been rejected too.                  *)
BetweenRequests ==
    /\ message.stage \in {"sending", "SENT", "FAILED"} => message.tries \in Sends
    /\ message.stage \in {"new", "calling", "refused", "FAILED"} =>
          \A n \in Sends : n = message.tries => posted[n] = "rejected"

MessageIInv ==
    /\ MessageTypeOK
    /\ RequestsInOrder
    /\ BetweenRequests
    /\ MessageVerdictsAreTrue

-----------------------------------------------------------------------------
(***************************************************************************)
(* The normalizer tells the truth: what it makes of any answer the         *)
(* provider may give to a request holds of that request.                   *)
(***************************************************************************)
LEMMA MessageVerdictIsTrue ==
    ASSUME NEW n, NEW a \in MessageAnswers, MessageAnswerIsPossible(n, a)
    PROVE  /\ MessageVerdict(a) \in {"SENT", "FAILED", "UNKNOWN"}
           /\ MessageVerdict(a) = "FAILED" => posted[n] = "rejected"
           /\ MessageVerdict(a) = "SENT" => posted[n] \in {"sent", "empty"}
<1> DEFINE Holds(v) ==
             /\ v \in {"SENT", "FAILED", "UNKNOWN"}
             /\ v = "FAILED" => posted[n] = "rejected"
             /\ v = "SENT" => posted[n] \in {"sent", "empty"}
<1>1. ASSUME a.http = "2xx", IsEnvelopeFree(a)
      PROVE  Holds(NormalizedVerdict(a))
  BY <1>1 DEF MessageAnswers, MessageAnswerIsPossible, NormalizedVerdict,
              IsEnvelopeFree, StatesFailure, SaysSent, OwnVocabulary
<1>2. ASSUME a.http = "2xx", a.ok # "false" \/ IsEnvelopeFree(a),
             ~IsEnvelopeFree(a), a.envelope \in {"none", "SUCCESS"},
             a.envelope = "SUCCESS" => a.stated # "failure"
      PROVE  Holds(EvidenceVerdict(a))
  <2>1. ~StatesFailure(a) /\ ~SaysSent(a)
    BY <1>2 DEF MessageAnswers, StatesFailure, SaysSent, OwnVocabulary,
                IsEnvelopeFree
  <2>2. CASE IsContradictory(a)
    BY <2>2 DEF EvidenceVerdict
  <2>3. CASE ~IsContradictory(a)
    <3>1. HasResult(a)
      BY <1>2, <2>1, <2>3 DEF MessageAnswers, HasResult, IsContradictory
    <3> QED
      BY <2>3, <3>1 DEF MessageAnswers, EvidenceVerdict, NothingSent,
                        Processed, MessageAnswerIsPossible
  <2> QED
    BY <2>2, <2>3
<1>3. ASSUME a.http = "2xx", a.ok # "false", a.envelope # "none"
      PROVE  Holds(EnvelopeVerdict(a))
  <2>1. CASE a.envelope = "failure" \/ (a.envelope = "SUCCESS" /\ a.stated = "failure")
    BY <1>3, <2>1 DEF MessageAnswerIsPossible, StatesFailure, EnvelopeVerdict
  <2>2. CASE a.envelope = "SUCCESS" /\ a.stated \notin {"failure", "invalid", "conflict"}
    BY <1>2, <1>3, <2>2 DEF EnvelopeVerdict, IsEnvelopeFree
  <2> QED
    BY <2>1, <2>2 DEF EnvelopeVerdict
<1>4. CASE a.http # "2xx"
  BY <1>4 DEF MessageAnswers, MessageVerdict, MessageAnswerIsPossible,
              StatesFailure
<1>5. CASE a.http = "2xx" /\ a.ok = "false" /\ ~IsEnvelopeFree(a)
  BY <1>5 DEF MessageVerdict, MessageAnswerIsPossible, StatesFailure
<1>6. CASE a.http = "2xx" /\ IsEnvelopeFree(a)
  BY <1>1, <1>6 DEF MessageVerdict
<1>7. CASE a.http = "2xx" /\ a.ok # "false" /\ ~IsEnvelopeFree(a)
  BY <1>2, <1>3, <1>7 DEF MessageVerdict
<1> QED
  BY <1>4, <1>5, <1>6, <1>7

-----------------------------------------------------------------------------
LEMMA MessageInitially == MessageInit => MessageIInv
BY SendsAssumption
   DEF MessageInit, MessageIInv, MessageTypeOK, RequestsInOrder,
       BetweenRequests, MessageVerdictsAreTrue, Sends

(***************************************************************************)
(* One step per action.                                                    *)
(***************************************************************************)
LEMMA MessageInductive ==
    MessageIInv /\ [MessageNext]_messageVars => MessageIInv'
<1> SUFFICES ASSUME MessageIInv, [MessageNext]_messageVars
             PROVE  MessageIInv'
  OBVIOUS
<1> USE SendsAssumption DEF MessageIInv, MessageTypeOK, RequestsInOrder,
          BetweenRequests, MessageVerdictsAreTrue, Sends
<1>1. ASSUME NEW n \in Sends, NEW outcome \in {"sent", "empty", "rejected"},
             RequestArrives(n, outcome)
      PROVE  MessageIInv'
  BY <1>1 DEF RequestArrives
<1>2. CASE Send
  BY <1>2 DEF Send
<1>3. CASE SendRefused
  BY <1>3 DEF SendRefused
<1>4. CASE RequestLeaves
  BY <1>4 DEF RequestLeaves
<1>5. CASE SendThrows
  BY <1>5 DEF SendThrows
<1>6. ASSUME NEW a \in MessageAnswers, SendAnswered(a)
      PROVE  MessageIInv'
  BY <1>6, MessageVerdictIsTrue DEF SendAnswered
<1>7. CASE UNCHANGED messageVars
  BY <1>7 DEF messageVars
<1> QED
  BY <1>1, <1>2, <1>3, <1>4, <1>5, <1>6, <1>7 DEF MessageNext

LEMMA MessageInvariant == MessageSpec => []MessageIInv
BY MessageInitially, MessageInductive, PTL DEF MessageSpec

-----------------------------------------------------------------------------
(* The requests and the consumer's call keep their types.                  *)
THEOREM MessageTypeCorrect == MessageSpec => []MessageTypeOK
<1>1. MessageIInv => MessageTypeOK
  BY DEF MessageIInv
<1> QED
  BY <1>1, MessageInvariant, PTL

(* SENT and FAILED, as the normalizer hands them out, are true of the      *)
(* request they answer.                                                    *)
THEOREM MessageVerdictsTrue == MessageSpec => []MessageVerdictsAreTrue
<1>1. MessageIInv => MessageVerdictsAreTrue
  BY DEF MessageIInv
<1> QED
  BY <1>1, MessageInvariant, PTL

(* A consumer that sends again only after FAILED has its message delivered *)
(* once at most, however often it sends.                                   *)
THEOREM MessageIsDeliveredOnce == MessageSpec => []MessageDeliveredOnce
<1>1. MessageIInv => MessageDeliveredOnce
  BY SendsAssumption DEF MessageIInv, MessageTypeOK, RequestsInOrder,
     MessageDeliveredOnce, Sends
<1> QED
  BY <1>1, MessageInvariant, PTL

-----------------------------------------------------------------------------
(***************************************************************************)
(* PromotionServer: a reward is paid from one key at most, and the         *)
(* verdicts of execute and status are true. The invariants are not         *)
(* inductive: what carries them is that of all keys ever issued for a      *)
(* reward, only the one its consumer holds can be paid.                    *)
(***************************************************************************)

Waiting(r) == consumer[r].stage \in {"new", "preparing"}
Unsent(r) == consumer[r].stage \in {"prepared", "dispatching"}

(* The key a consumer holds is its own, only issued keys have owners, and  *)
(* a key has no record before its execute request arrives.                 *)
KeysAreOwned ==
    /\ \A r \in Rewards : consumer[r].key # NoKey => owner[consumer[r].key] = r
    /\ \A r \in Rewards : ~Waiting(r) => consumer[r].key \in Keys
    /\ \A r \in Rewards : Waiting(r) =>
          consumer[r].key = NoKey /\ consumer[r].verdict = "none"
    /\ \A r \in Rewards : Unsent(r) => ledger[consumer[r].key] = "issued"
    /\ \A k \in Keys : ledger[k] = "unissued" => owner[k] = NoKey
    /\ \A k \in wire : ledger[k] = "issued"

(* A key that its consumer has not sent, has given up or has replaced is   *)
(* not live.                                                               *)
OnlyTheHeldKeyIsLive ==
    /\ \A r \in Rewards : Unsent(r) \/ consumer[r].stage = "failed" =>
          ~Live(consumer[r].key)
    /\ \A r \in Rewards, k \in Keys :
          owner[k] = r /\ k # consumer[r].key => ~Live(k)

VerdictsHaveRecords ==
    \A r \in Rewards :
        LET k == consumer[r].key IN
        /\ consumer[r].verdict \in {"SUBMITTED", "PENDING"} => HasRecord(k)
        /\ consumer[r].verdict = "GRANTED" => ledger[k] = "granted"

(* A legacy call has at most one key of its own, the one it names.         *)
LegacyKeysAreNamed ==
    \A c \in Legacy, k \in Keys : owner[k] = c =>
        /\ legacy[c].phase \notin {"idle", "key"}
        /\ legacy[c].phase # "thrown" => legacy[c].key = k

ServerIInv ==
    /\ ServerTypeOK
    /\ KeysAreOwned
    /\ OnlyTheHeldKeyIsLive
    /\ VerdictsHaveRecords
    /\ LegacyKeysAreNamed
-----------------------------------------------------------------------------
LEMMA ServerStart == ServerInit => ServerIInv
  <1> SUFFICES ASSUME ServerInit PROVE ServerIInv
    OBVIOUS
  <1>1. ServerTypeOK
    BY DEF ServerInit, ServerTypeOK, Stages, Verdicts, LegacyPhases, LegacyResults
  <1>2. KeysAreOwned
    BY DEF ServerInit, KeysAreOwned, Waiting, Unsent
  <1>3. OnlyTheHeldKeyIsLive
    BY ServerAssumption DEF ServerInit, OnlyTheHeldKeyIsLive, Unsent, Live
  <1>4. VerdictsHaveRecords
    BY DEF ServerInit, VerdictsHaveRecords
  <1>5. LegacyKeysAreNamed
    BY ServerAssumption DEF ServerInit, LegacyKeysAreNamed
  <1> QED
    BY <1>1, <1>2, <1>3, <1>4, <1>5 DEF ServerIInv

(***************************************************************************)
(* The two things a consumer does to the ledger and the wire: it takes a   *)
(* key nobody has, and it sends the key it holds.                          *)
(***************************************************************************)
LEMMA PrepareSucceedsKeeps ==
  ASSUME ServerIInv, NEW r \in Rewards, NEW k \in Keys, NEW a \in KeyAnswers,
         PrepareSucceeds(r, k, a)
  PROVE  ServerIInv'
  <1> USE DEF ServerIInv, PrepareSucceeds, Issue
  <1>1. ServerTypeOK'
    BY DEF ServerTypeOK, Stages, Verdicts
  <1>2. KeysAreOwned'
    BY ServerAssumption DEF ServerTypeOK, KeysAreOwned, Waiting, Unsent
  <1>3. OnlyTheHeldKeyIsLive'
    BY ServerAssumption
    DEF ServerTypeOK, KeysAreOwned, OnlyTheHeldKeyIsLive, Waiting, Unsent, Live
  <1>4. VerdictsHaveRecords'
    BY DEF ServerTypeOK, KeysAreOwned, VerdictsHaveRecords, HasRecord, Waiting
  <1>5. LegacyKeysAreNamed'
    BY ServerAssumption DEF ServerTypeOK, LegacyKeysAreNamed
  <1> QED
    BY <1>1, <1>2, <1>3, <1>4, <1>5

LEMMA DispatchExecuteKeeps ==
  ASSUME ServerIInv, NEW r \in Rewards, DispatchExecute(r)
  PROVE  ServerIInv'
  <1> USE DEF ServerIInv, DispatchExecute
  <1>1. ServerTypeOK'
    BY DEF ServerTypeOK, KeysAreOwned, Stages, Waiting
  <1>2. KeysAreOwned'
    BY ServerAssumption DEF ServerTypeOK, KeysAreOwned, Waiting, Unsent
  <1>3. OnlyTheHeldKeyIsLive'
    BY ServerAssumption
    DEF ServerTypeOK, KeysAreOwned, OnlyTheHeldKeyIsLive, Waiting, Unsent, Live
  <1>4. VerdictsHaveRecords'
    BY DEF ServerTypeOK, VerdictsHaveRecords, HasRecord
  <1>5. LegacyKeysAreNamed'
    BY DEF LegacyKeysAreNamed
  <1> QED
    BY <1>1, <1>2, <1>3, <1>4, <1>5

(***************************************************************************)
(* The other steps of a consumer change its record only, so it is enough   *)
(* that the new record is right about the ledger as it is.                 *)
(***************************************************************************)
LEMMA ConsumerRecordKeeps ==
  ASSUME ServerIInv, NEW r \in Rewards,
         NEW stage \in Stages \ {"new", "preparing"}, NEW verdict \in Verdicts,
         UNCHANGED <<ledger, owner, wire, legacy>>,
         consumer' = [consumer EXCEPT ![r].stage = stage,
                                      ![r].verdict = verdict],
         ~Waiting(r),
         stage \in {"prepared", "dispatching"} => Unsent(r),
         stage = "failed" => ~Live(consumer[r].key),
         verdict \in {"SUBMITTED", "PENDING"} => HasRecord(consumer[r].key),
         verdict = "GRANTED" => ledger[consumer[r].key] = "granted"
  PROVE  ServerIInv'
  <1> USE DEF ServerIInv
  <1>1. ServerTypeOK'
    BY ZenonT(60) DEF ServerTypeOK, Stages
  <1>2. KeysAreOwned'
    BY DEF ServerTypeOK, KeysAreOwned, Waiting, Unsent
  <1>3. OnlyTheHeldKeyIsLive'
    BY DEF ServerTypeOK, OnlyTheHeldKeyIsLive, Unsent, Live
  <1>4. VerdictsHaveRecords'
    BY DEF ServerTypeOK, VerdictsHaveRecords, HasRecord
  <1>5. LegacyKeysAreNamed'
    BY DEF LegacyKeysAreNamed
  <1> QED
    BY <1>1, <1>2, <1>3, <1>4, <1>5

LEMMA ConsumerWaitsKeeps ==
  ASSUME ServerIInv, NEW r \in Rewards,
         \/ Prepare(r)
         \/ PrepareFails(r)
         \/ Crash(r) /\ consumer[r].stage = "preparing"
         \/ Renew(r)
  PROVE  ServerIInv'
  <1> USE DEF ServerIInv, Prepare, PrepareFails, Crash, Renew
  <1>1. ServerTypeOK'
    BY DEF ServerTypeOK, Stages, Verdicts
  <1>2. KeysAreOwned'
    <2>1. /\ consumer'[r].stage \in {"new", "preparing"}
          /\ consumer'[r].key = NoKey
          /\ consumer'[r].verdict = "none"
      BY DEF ServerTypeOK, KeysAreOwned, Waiting
    <2>2. \A q \in Rewards \ {r} : consumer'[q] = consumer[q]
      BY DEF ServerTypeOK
    <2> QED
      BY <2>1, <2>2 DEF KeysAreOwned, Waiting, Unsent
  <1>3. OnlyTheHeldKeyIsLive'
    BY DEF ServerTypeOK, KeysAreOwned, OnlyTheHeldKeyIsLive, Waiting, Unsent, Live
  <1>4. VerdictsHaveRecords'
    BY DEF ServerTypeOK, VerdictsHaveRecords, HasRecord
  <1>5. LegacyKeysAreNamed'
    BY DEF LegacyKeysAreNamed
  <1> QED
    BY <1>1, <1>2, <1>3, <1>4, <1>5

(***************************************************************************)
(* What an answer may say and what the code makes of it meet here.         *)
(***************************************************************************)
LEMMA ExecuteVerdictIsTrue ==
  ASSUME NEW k \in Keys, NEW a \in ExecuteAnswers, ExecuteAnswerIsPossible(k, a)
  PROVE  /\ ExecuteVerdict(a) \in Verdicts
         /\ ExecuteVerdict(a) = "SUBMITTED" => HasRecord(k)
         /\ ExecuteVerdict(a) \notin {"PENDING", "GRANTED"}
         /\ ExecuteVerdict(a) = "FAILED" /\ a.code # "4113" => ~Live(k)
  BY DEF ExecuteAnswers, Https, Types, Codes, ExecuteAnswerIsPossible, Refusal,
         Confirmation, ExecuteVerdict, ExplicitSuccess, DefiniteRejection,
         ExplicitFail, Failed, Verdicts, HasRecord, Live

LEMMA StatusVerdictIsTrue ==
  ASSUME NEW k \in Keys, NEW a \in StatusAnswers, StatusAnswerIsPossible(k, a)
  PROVE  /\ StatusVerdict(a) \in Verdicts
         /\ StatusVerdict(a) # "SUBMITTED"
         /\ StatusVerdict(a) = "PENDING" => HasRecord(k)
         /\ StatusVerdict(a) = "GRANTED" => ledger[k] = "granted"
         /\ StatusVerdict(a) = "FAILED" => ledger[k] = "failed"
  BY DEF StatusAnswers, Https, Types, Codes, StatusAnswerIsPossible,
         Confirmation, StatusVerdict, ExplicitSuccess, ExplicitFail, Failed,
         Verdicts, HasRecord

LEMMA ExecuteAnsweredKeeps ==
  ASSUME ServerIInv, NEW r \in Rewards, NEW a \in ExecuteAnswers,
         ExecuteAnswered(r, a)
  PROVE  ServerIInv'
  <1> DEFINE stage == IF ExecuteVerdict(a) = "FAILED" /\ a.code # "4113"
                      THEN "failed" ELSE "polling"
  <1>1. consumer[r].key \in Keys /\ ~Waiting(r)
    BY DEF ServerIInv, KeysAreOwned, Waiting, ExecuteAnswered
  <1>2. stage \in Stages \ {"new", "preparing"}
    BY DEF Stages
  <1>3. ExecuteAnswerIsPossible(consumer[r].key, a)
    BY DEF ExecuteAnswered
  <1>4. consumer' = [consumer EXCEPT ![r].stage = stage,
                                     ![r].verdict = ExecuteVerdict(a)]
    BY DEF ExecuteAnswered
  <1> DEFINE verdict == ExecuteVerdict(a)
  <1>5. /\ verdict \in Verdicts
        /\ verdict \in {"SUBMITTED", "PENDING"} => HasRecord(consumer[r].key)
        /\ verdict # "GRANTED"
        /\ stage = "failed" => ~Live(consumer[r].key)
    BY <1>1, <1>3, ExecuteVerdictIsTrue
  <1>6. stage \notin {"prepared", "dispatching"}
    OBVIOUS
  <1>7. UNCHANGED <<ledger, owner, wire, legacy>>
    BY DEF ExecuteAnswered
  <1> HIDE DEF stage, verdict
  <1>8. consumer' = [consumer EXCEPT ![r].stage = stage,
                                     ![r].verdict = verdict]
    BY <1>4 DEF verdict
  <1> QED
    BY <1>1, <1>2, <1>5, <1>6, <1>7, <1>8, ConsumerRecordKeeps

LEMMA StatusAnsweredKeeps ==
  ASSUME ServerIInv, NEW r \in Rewards, StatusAnswered(r)
  PROVE  ServerIInv'
  <1> DEFINE k == consumer[r].key
  <1>1. k \in Keys /\ ~Waiting(r)
    BY DEF ServerIInv, KeysAreOwned, Waiting, StatusAnswered
  <1>2. PICK a \in PossibleStatus(k) :
          consumer' = [consumer EXCEPT
             ![r].stage = CASE StatusVerdict(a) = "GRANTED" -> "credited"
                            [] StatusVerdict(a) = "FAILED" -> "failed"
                            [] OTHER -> "polling",
             ![r].verdict = StatusVerdict(a)]
    BY DEF StatusAnswered
  <1>3. a \in StatusAnswers /\ StatusAnswerIsPossible(k, a)
    BY DEF PossibleStatus
  <1> DEFINE verdict == StatusVerdict(a)
             stage == CASE verdict = "GRANTED" -> "credited"
                        [] verdict = "FAILED" -> "failed"
                        [] OTHER -> "polling"
  <1>4. consumer' = [consumer EXCEPT ![r].stage = stage,
                                     ![r].verdict = verdict]
    BY <1>2
  <1>5. /\ verdict \in Verdicts
        /\ verdict \in {"SUBMITTED", "PENDING"} => HasRecord(k)
        /\ verdict = "GRANTED" => ledger[k] = "granted"
        /\ verdict = "FAILED" => ledger[k] = "failed"
    BY <1>1, <1>3, StatusVerdictIsTrue
  <1> HIDE DEF verdict
  <1>6. /\ stage \in {"credited", "failed", "polling"}
        /\ stage = "failed" => verdict = "FAILED"
    OBVIOUS
  <1> HIDE DEF stage
  <1>7. ledger[k] = "failed" => ~Live(k)
    BY <1>1 DEF ServerIInv, KeysAreOwned, Live
  <1>8. /\ stage \in Stages \ {"new", "preparing"}
        /\ stage \notin {"prepared", "dispatching"}
    BY <1>6 DEF Stages
  <1>9. UNCHANGED <<ledger, owner, wire, legacy>>
    BY DEF StatusAnswered
  <1> QED
    BY <1>1, <1>4, <1>5, <1>6, <1>7, <1>8, <1>9, ConsumerRecordKeeps

LEMMA ExplicitStepKeeps ==
  ASSUME ServerIInv, NEW r \in Rewards, ExplicitStep(r)
  PROVE  ServerIInv'
  <1>1. CASE Prepare(r) \/ PrepareFails(r) \/ Renew(r)
    BY <1>1, ConsumerWaitsKeeps
  <1>2. CASE \E k \in Keys, a \in KeyAnswers : PrepareSucceeds(r, k, a)
    BY <1>2, PrepareSucceedsKeeps
  <1>3. CASE Execute(r) \/ DispatchFails(r)
    <2> DEFINE stage == IF Execute(r) THEN "dispatching" ELSE "prepared"
    <2>1. Unsent(r) /\ ~Waiting(r)
      BY <1>3 DEF Execute, DispatchFails, Unsent, Waiting
    <2>2. consumer[r].verdict \in Verdicts
      BY DEF ServerIInv, ServerTypeOK
    <2>3. consumer' = [consumer EXCEPT ![r].stage = stage,
                                       ![r].verdict = consumer[r].verdict]
      BY <1>3 DEF ServerIInv, ServerTypeOK, Execute, DispatchFails
    <2>4. /\ consumer[r].verdict \in {"SUBMITTED", "PENDING"} =>
                HasRecord(consumer[r].key)
          /\ consumer[r].verdict = "GRANTED" =>
                ledger[consumer[r].key] = "granted"
      BY DEF ServerIInv, VerdictsHaveRecords
    <2>5. stage \in Stages \ {"new", "preparing"} /\ stage # "failed"
      BY DEF Stages
    <2>6. UNCHANGED <<ledger, owner, wire, legacy>>
      BY <1>3 DEF Execute, DispatchFails
    <2> HIDE DEF stage
    <2> QED
      BY <2>1, <2>2, <2>3, <2>4, <2>5, <2>6, ConsumerRecordKeeps
  <1>4. CASE DispatchExecute(r)
    BY <1>4, DispatchExecuteKeeps
  <1>5. CASE ExecuteRejected(r)
    <2>1. "polling" \in Stages \ {"new", "preparing"} /\ "UNKNOWN" \in Verdicts
      BY DEF Stages, Verdicts
    <2>2. /\ ~Waiting(r)
          /\ UNCHANGED <<ledger, owner, wire, legacy>>
          /\ consumer' = [consumer EXCEPT ![r].stage = "polling",
                                          ![r].verdict = "UNKNOWN"]
      BY <1>5 DEF ExecuteRejected, Waiting
    <2> QED
      BY <2>1, <2>2, ConsumerRecordKeeps
  <1>6. CASE \E a \in ExecuteAnswers : ExecuteAnswered(r, a)
    BY <1>6, ExecuteAnsweredKeeps
  <1>7. CASE StatusAnswered(r)
    BY <1>7, StatusAnsweredKeeps
  <1>8. CASE Crash(r)
    <2>1. CASE consumer[r].stage = "preparing"
      BY <1>8, <2>1, ConsumerWaitsKeeps
    <2>2. CASE consumer[r].stage # "preparing"
      <3>1. consumer' = [consumer EXCEPT ![r].stage = "polling",
                                         ![r].verdict = consumer[r].verdict]
        BY <1>8, <2>2 DEF ServerIInv, ServerTypeOK, Crash
      <3>2. "polling" \in Stages \ {"new", "preparing"}
        BY DEF Stages
      <3>3. /\ consumer[r].verdict \in Verdicts
            /\ consumer[r].verdict \in {"SUBMITTED", "PENDING"} =>
                  HasRecord(consumer[r].key)
            /\ consumer[r].verdict = "GRANTED" =>
                  ledger[consumer[r].key] = "granted"
        BY DEF ServerIInv, ServerTypeOK, VerdictsHaveRecords
      <3>4. ~Waiting(r) /\ UNCHANGED <<ledger, owner, wire, legacy>>
        BY <1>8, <2>2 DEF Crash, Waiting
      <3> QED
        BY <3>1, <3>2, <3>3, <3>4, ConsumerRecordKeeps
    <2> QED
      BY <2>1, <2>2
  <1> QED
    BY <1>1, <1>2, <1>3, <1>4, <1>5, <1>6, <1>7, <1>8 DEF ExplicitStep

LEMMA ProviderStepKeeps ==
  ASSUME ServerIInv, NEW k \in Keys, ProviderStep(k)
  PROVE  ServerIInv'
  <1> USE DEF ServerIInv, ProviderStep, ExecuteArrives, ProviderSettles
  <1>1. ServerTypeOK'
    BY DEF ServerTypeOK
  <1>2. KeysAreOwned'
    BY ServerAssumption
    DEF ServerTypeOK, KeysAreOwned, OnlyTheHeldKeyIsLive, Waiting, Unsent, Live
  <1>3. OnlyTheHeldKeyIsLive'
    <2>1. \A j \in Keys : Live(j)' => Live(j)
      BY DEF ServerTypeOK, Live
    <2>2. \A r \in Rewards : Unsent(r) \/ consumer[r].stage = "failed" =>
                               consumer[r].key \in Keys
      BY DEF KeysAreOwned, Waiting, Unsent
    <2> QED
      BY <2>1, <2>2 DEF OnlyTheHeldKeyIsLive, Unsent
  <1>4. VerdictsHaveRecords'
    <2>1. \A r \in Rewards : consumer[r].verdict # "none" =>
                               consumer[r].key \in Keys
      BY DEF KeysAreOwned
    <2> QED
      BY <2>1 DEF ServerTypeOK, KeysAreOwned, VerdictsHaveRecords, HasRecord
  <1>5. LegacyKeysAreNamed'
    BY DEF LegacyKeysAreNamed
  <1> QED
    BY <1>1, <1>2, <1>3, <1>4, <1>5

(***************************************************************************)
(* A legacy call changes its own record only, except when it takes a key   *)
(* nobody has and executes it.                                             *)
(***************************************************************************)
LEMMA LegacyExecuteKeeps ==
  ASSUME ServerIInv, NEW c \in Legacy, NEW k \in Keys, LegacyExecute(c, k)
  PROVE  ServerIInv'
  <1> USE DEF ServerIInv, LegacyExecute, Issue
  <1>1. ServerTypeOK'
    BY DEF ServerTypeOK, LegacyPhases, LegacyResults
  <1>2. KeysAreOwned'
    BY ServerAssumption DEF ServerTypeOK, KeysAreOwned, Waiting, Unsent
  <1>3. OnlyTheHeldKeyIsLive'
    BY ServerAssumption
    DEF ServerTypeOK, KeysAreOwned, OnlyTheHeldKeyIsLive, Waiting, Unsent, Live
  <1>4. VerdictsHaveRecords'
    BY DEF ServerTypeOK, KeysAreOwned, VerdictsHaveRecords, HasRecord
  <1>5. LegacyKeysAreNamed'
    BY ServerAssumption DEF ServerTypeOK, KeysAreOwned, LegacyKeysAreNamed
  <1> QED
    BY <1>1, <1>2, <1>3, <1>4, <1>5

LEMMA LegacyRecordKeeps ==
  ASSUME ServerIInv, NEW c \in Legacy, LegacyStep(c),
         ~\E k \in Keys : LegacyExecute(c, k)
  PROVE  ServerIInv'
  <1>1. UNCHANGED <<ledger, owner, wire, consumer>>
    BY DEF LegacyStep, LegacyIncomplete, LegacyLookup, LegacyGetKey,
           LegacyKeyFails, LegacyExecuteAnswered, LegacyResultAnswered,
           LegacyThrows
  <1>2. ServerTypeOK'
    BY DEF ServerIInv, ServerTypeOK, LegacyStep, LegacyIncomplete, LegacyLookup,
           LegacyGetKey, LegacyKeyFails, LegacyExecuteAnswered,
           LegacyResultAnswered, LegacyThrows, LegacyReturns, LegacyStatus,
           LegacyPhases, LegacyResults
  <1>3. KeysAreOwned'
    BY <1>1 DEF ServerIInv, KeysAreOwned, Waiting, Unsent
  <1>4. OnlyTheHeldKeyIsLive'
    BY <1>1 DEF ServerIInv, OnlyTheHeldKeyIsLive, Unsent, Live
  <1>5. VerdictsHaveRecords'
    BY <1>1 DEF ServerIInv, VerdictsHaveRecords, HasRecord
  <1>6. LegacyKeysAreNamed'
    BY <1>1
    DEF ServerIInv, ServerTypeOK, LegacyKeysAreNamed, LegacyStep, LegacyIncomplete,
        LegacyLookup, LegacyGetKey, LegacyKeyFails, LegacyExecuteAnswered,
        LegacyResultAnswered, LegacyThrows, LegacyReturns
  <1> QED
    BY <1>2, <1>3, <1>4, <1>5, <1>6 DEF ServerIInv

LEMMA ServerStep == ServerIInv /\ [ServerNext]_serverVars => ServerIInv'
  <1> SUFFICES ASSUME ServerIInv, [ServerNext]_serverVars PROVE ServerIInv'
    OBVIOUS
  <1>1. CASE \E k \in Keys : ProviderStep(k)
    BY <1>1, ProviderStepKeeps
  <1>2. CASE \E r \in Rewards : ExplicitStep(r)
    BY <1>2, ExplicitStepKeeps
  <1>3. CASE \E c \in Legacy : LegacyStep(c)
    BY <1>3, LegacyExecuteKeeps, LegacyRecordKeeps
  <1>4. CASE UNCHANGED serverVars
    BY <1>4
    DEF serverVars, ServerIInv, ServerTypeOK, KeysAreOwned, OnlyTheHeldKeyIsLive,
        VerdictsHaveRecords, LegacyKeysAreNamed, Waiting, Unsent, Live,
        HasRecord
  <1> QED
    BY <1>1, <1>2, <1>3, <1>4 DEF ServerNext

-----------------------------------------------------------------------------
(* Every reachable state of the promotion functions, their consumers and   *)
(* the provider satisfies the inductive invariant.                         *)
THEOREM ServerInvariant == ServerSpec => []ServerIInv
  BY ServerStart, ServerStep, PTL DEF ServerSpec

(* Ledger, wire, consumers and legacy calls keep their types.              *)
THEOREM ServerTypeCorrect == ServerSpec => []ServerTypeOK
  <1>1. ServerIInv => ServerTypeOK
    BY DEF ServerIInv
  <1> QED
    BY <1>1, ServerInvariant, PTL

(* A reward is paid from one key at most, whatever is lost, late or        *)
(* interrupted: any live key of a reward is the one its consumer holds.    *)
THEOREM ServerRewardPaidOnce == ServerSpec => []RewardPaidOnce
  <1>1. ServerIInv => RewardPaidOnce
    BY DEF ServerIInv, OnlyTheHeldKeyIsLive, RewardPaidOnce
  <1> QED
    BY <1>1, ServerInvariant, PTL

(* The verdicts of execute and status are true of the provider's ledger.   *)
THEOREM ServerVerdictsAreTrue == ServerSpec => []VerdictsAreTrue
  <1>1. ServerIInv => VerdictsAreTrue
    BY DEF ServerIInv, OnlyTheHeldKeyIsLive, VerdictsHaveRecords,
           VerdictsAreTrue
  <1> QED
    BY <1>1, ServerInvariant, PTL

(* A legacy call that returns names the key it has executed, and a lookup  *)
(* touches no prepared key.                                                *)
THEOREM ServerLegacyIsRecoverable == ServerSpec => []LegacyIsRecoverable
  <1>1. ServerIInv => LegacyIsRecoverable
    BY DEF ServerIInv, LegacyKeysAreNamed, OnlyTheHeldKeyIsLive, Unsent,
           LegacyIsRecoverable
  <1> QED
    BY <1>1, ServerInvariant, PTL

-----------------------------------------------------------------------------
(***************************************************************************)
(* The refinement.  A step changes what has been paid only when the        *)
(* provider grants a key, and what is credited only when a status says     *)
(* GRANTED; every other step is a stutter of the ledger.                   *)
(***************************************************************************)
LEMMA SamePayments ==
  ASSUME \A k \in Keys : ledger[k] = "granted" <=> ledger'[k] = "granted",
         \A k \in Keys : ledger[k] = "granted" => owner'[k] = owner[k]
  PROVE  Payments' = Payments
  BY DEF Payments, PaidWith

LEMMA IssueIsNoPayment ==
  ASSUME ServerIInv, NEW k \in Keys, NEW who, Issue(k, who)
  PROVE  Payments' = Payments
  <1>1. \A j \in Keys : ledger[j] = "granted" <=> ledger'[j] = "granted"
    BY DEF ServerIInv, ServerTypeOK, Issue
  <1>2. \A j \in Keys : ledger[j] = "granted" => owner'[j] = owner[j]
    BY DEF ServerIInv, ServerTypeOK, Issue
  <1> QED
    BY <1>1, <1>2, SamePayments

LEMMA SameCredits ==
  ASSUME \A r \in Rewards : consumer[r].stage = "credited"
                               <=> consumer'[r].stage = "credited"
  PROVE  Credited' = Credited
  BY DEF Credited

(* The provider grants a key: the reward it was issued for had not been    *)
(* paid, because the key was live until now.                               *)
LEMMA ProviderPays ==
  ASSUME ServerIInv, NEW k \in Keys, ProviderStep(k)
  PROVE  Ledger!LedgerNext \/ UNCHANGED <<Payments, Credited>>
  <1> USE DEF ServerIInv, ServerTypeOK
  <1>1. UNCHANGED <<owner, consumer>>
    BY DEF ProviderStep, ExecuteArrives, ProviderSettles
  <1>2. UNCHANGED Credited
    BY <1>1, SameCredits
  <1>3. CASE ledger[k] = "pending" /\ owner[k] \in Rewards
             /\ ledger' = [ledger EXCEPT ![k] = "granted"]
    <2> DEFINE r == owner[k]
    <2>1. Live(k)
      BY <1>3 DEF Live
    <2>2. \A j \in Keys : owner[j] = r /\ ledger[j] = "granted" => j = k
      BY <1>3, <2>1 DEF OnlyTheHeldKeyIsLive, Live
    <2>3. PaidWith(r) = {}
      BY <1>3, <2>2 DEF PaidWith
    <2>4. /\ PaidWith(r)' = {k}
          /\ \A q \in Rewards \ {r} : PaidWith(q)' = PaidWith(q)
      BY <1>1, <1>3, <2>2 DEF PaidWith
    <2>5. Payments[r] = {} /\ Payments' = [Payments EXCEPT ![r] = {k}]
      BY <1>1, <1>3, <2>3, <2>4 DEF Payments
    <2>6. Ledger!Pay(r, k)
      BY <1>2, <2>5 DEF Ledger!Pay
    <2> QED
      BY <1>3, <2>6 DEF Ledger!LedgerNext
  <1>4. CASE ledger[k] = "pending" /\ owner[k] \notin Rewards
             /\ ledger' = [ledger EXCEPT ![k] = "granted"]
    BY <1>1, <1>2, <1>4 DEF Payments, PaidWith
  <1>5. CASE \/ \E accepted \in BOOLEAN : ExecuteArrives(k, accepted)
             \/ ProviderSettles(k, "failed")
    <2>1. \A j \in Keys : ledger[j] = "granted" <=> ledger'[j] = "granted"
      BY <1>5 DEF ExecuteArrives, ProviderSettles
    <2> QED
      BY <1>1, <1>2, <2>1, SamePayments
  <1> QED
    BY <1>3, <1>4, <1>5 DEF ProviderStep, ProviderSettles

(* A status is answered: GRANTED credits a reward whose key was granted.   *)
LEMMA StatusCredits ==
  ASSUME ServerIInv, NEW r \in Rewards, StatusAnswered(r)
  PROVE  Ledger!LedgerNext \/ UNCHANGED <<Payments, Credited>>
  <1> DEFINE k == consumer[r].key
  <1>1. /\ k \in Keys
        /\ owner[k] = r
    BY ServerAssumption
    DEF ServerIInv, KeysAreOwned, Waiting, StatusAnswered
  <1>2. UNCHANGED Payments
    BY DEF StatusAnswered, Payments, PaidWith
  <1>3. PICK a \in PossibleStatus(k) :
          consumer' = [consumer EXCEPT
             ![r].stage = CASE StatusVerdict(a) = "GRANTED" -> "credited"
                            [] StatusVerdict(a) = "FAILED" -> "failed"
                            [] OTHER -> "polling",
             ![r].verdict = StatusVerdict(a)]
    BY DEF StatusAnswered
  <1>4. \A q \in Rewards \ {r} : consumer'[q] = consumer[q]
    BY <1>3 DEF ServerIInv, ServerTypeOK
  <1>5. consumer[r].stage = "polling"
    BY DEF StatusAnswered
  <1>6. CASE StatusVerdict(a) = "GRANTED"
    <2>1. ledger[k] = "granted"
      BY <1>1, <1>6, StatusVerdictIsTrue DEF PossibleStatus
    <2>2. Payments[r] # {}
      BY <1>1, <2>1 DEF Payments, PaidWith
    <2>3. consumer'[r].stage = "credited"
      BY <1>3, <1>6 DEF ServerIInv, ServerTypeOK
    <2>4. Credited' = Credited \cup {r}
      BY <1>4, <2>3 DEF Credited
    <2>5. Ledger!Credit(r)
      BY <1>2, <2>2, <2>4 DEF Ledger!Credit
    <2> QED
      BY <2>5 DEF Ledger!LedgerNext
  <1>7. CASE StatusVerdict(a) # "GRANTED"
    <2>1. consumer'[r].stage # "credited"
      BY <1>3, <1>7 DEF ServerIInv, ServerTypeOK
    <2>2. UNCHANGED Credited
      BY <1>4, <1>5, <2>1, SameCredits
    <2> QED
      BY <1>2, <2>2
  <1> QED
    BY <1>6, <1>7

(* No other step of a consumer pays, credits, or takes a credit back.      *)
LEMMA ConsumerPaysNothing ==
  ASSUME ServerIInv, NEW r \in Rewards, ExplicitStep(r), ~StatusAnswered(r)
  PROVE  UNCHANGED <<Payments, Credited>>
  <1>1. UNCHANGED Payments
    <2>1. CASE \E k \in Keys, a \in KeyAnswers : PrepareSucceeds(r, k, a)
      BY <2>1, IssueIsNoPayment DEF PrepareSucceeds
    <2>2. CASE UNCHANGED <<ledger, owner>>
      BY <2>2, SamePayments
    <2> QED
      BY <2>1, <2>2
      DEF ExplicitStep, Prepare, PrepareFails, Execute, DispatchFails,
          DispatchExecute, ExecuteRejected, ExecuteAnswered, Crash, Renew
  <1>2. /\ consumer[r].stage # "credited"
        /\ consumer'[r].stage # "credited"
        /\ \A q \in Rewards \ {r} : consumer'[q] = consumer[q]
    <2> USE DEF ServerIInv, ServerTypeOK
    <2>1. CASE Prepare(r) \/ PrepareFails(r) \/ Renew(r)
      BY <2>1 DEF Prepare, PrepareFails, Renew
    <2>2. CASE \E k \in Keys, a \in KeyAnswers : PrepareSucceeds(r, k, a)
      BY <2>2 DEF PrepareSucceeds
    <2>3. CASE Execute(r) \/ DispatchFails(r) \/ DispatchExecute(r)
      BY <2>3 DEF Execute, DispatchFails, DispatchExecute
    <2>4. CASE ExecuteRejected(r)
      BY <2>4 DEF ExecuteRejected
    <2>5. CASE \E a \in ExecuteAnswers : ExecuteAnswered(r, a)
      BY <2>5 DEF ExecuteAnswered
    <2>6. CASE Crash(r)
      BY <2>6 DEF Crash
    <2> QED
      BY <2>1, <2>2, <2>3, <2>4, <2>5, <2>6 DEF ExplicitStep
  <1>3. UNCHANGED Credited
    BY <1>2, SameCredits
  <1> QED
    BY <1>1, <1>3

LEMMA LegacyPaysNoReward ==
  ASSUME ServerIInv, NEW c \in Legacy, LegacyStep(c)
  PROVE  UNCHANGED <<Payments, Credited>>
  <1>1. UNCHANGED consumer
    BY DEF LegacyStep, LegacyIncomplete, LegacyLookup, LegacyGetKey,
           LegacyKeyFails, LegacyExecute, LegacyExecuteAnswered,
           LegacyResultAnswered, LegacyThrows
  <1>2. UNCHANGED Payments
    <2>1. CASE \E k \in Keys : LegacyExecute(c, k)
      BY <2>1, IssueIsNoPayment DEF LegacyExecute
    <2>2. CASE UNCHANGED <<ledger, owner>>
      BY <2>2, SamePayments
    <2> QED
      BY <2>1, <2>2
      DEF LegacyStep, LegacyIncomplete, LegacyLookup, LegacyGetKey,
          LegacyKeyFails, LegacyExecuteAnswered, LegacyResultAnswered,
          LegacyThrows
  <1> QED
    BY <1>1, <1>2, SameCredits

LEMMA LedgerSimulation ==
    ServerIInv /\ [ServerNext]_serverVars =>
        [Ledger!LedgerNext]_<<Payments, Credited>>
  <1> SUFFICES ASSUME ServerIInv, [ServerNext]_serverVars
               PROVE  Ledger!LedgerNext \/ UNCHANGED <<Payments, Credited>>
    OBVIOUS
  <1>1. CASE \E k \in Keys : ProviderStep(k)
    BY <1>1, ProviderPays
  <1>2. CASE \E r \in Rewards : ExplicitStep(r)
    BY <1>2, StatusCredits, ConsumerPaysNothing
  <1>3. CASE \E c \in Legacy : LegacyStep(c)
    BY <1>3, LegacyPaysNoReward
  <1>4. CASE UNCHANGED serverVars
    BY <1>4, SamePayments, SameCredits DEF serverVars
  <1> QED
    BY <1>1, <1>2, <1>3, <1>4 DEF ServerNext

(* The promotion functions and the consumer the README prescribes          *)
(* implement a ledger that pays a reward once and for good, and credits it *)
(* afterwards only.                                                        *)
THEOREM ServerImplementsLedger == ServerSpec => ImplementsLedger
  <1>1. ServerInit => Ledger!LedgerInit
    BY DEF ServerInit, Ledger!LedgerInit, Payments, PaidWith, Credited
  <1> QED
    BY <1>1, ServerInvariant, LedgerSimulation, PTL
    DEF ServerSpec, ImplementsLedger, Ledger!LedgerSpec, Ledger!ledgerVars

-----------------------------------------------------------------------------
(***************************************************************************)
(* MtlsTransport. Every event is one function of a request's record, so    *)
(* the invariant is a predicate of one record, RequestIInv, and each event *)
(* has a lemma that its function keeps it.                                 *)
(***************************************************************************)

(* Nothing is attached before a request starts, or if it is refused.       *)
UnstartedIsBare(q) ==
    ~Started(q) =>
        /\ ~q.settled /\ ~q.completed
        /\ ~q.timer /\ ~q.listening /\ ~q.destroyed
        /\ q.promise # "resolved"
        /\ q.phase = "idle" => q.promise = "pending"
        /\ q.received = 0 /\ q.kept = 0 /\ q.delivered = 0
        /\ ~q.ended /\ ~q.closed

(* settled is what the promise shows; completed never runs ahead of it.    *)
PromiseFollowsSettled(q) ==
    /\ Started(q) => (q.settled <=> q.promise # "pending")
    /\ q.completed => q.settled

(* Until a request settles, everything delivered is kept and fits.         *)
PendingIsWhole(q) ==
    ~q.settled => /\ q.kept = q.delivered
                  /\ q.received = q.kept
                  /\ q.kept <= MaxBytes
                  /\ ~q.ended /\ ~q.closed

Whole(q) ==
    q.promise = "resolved" => /\ q.ended
                              /\ q.kept = q.delivered
                              /\ q.kept <= MaxBytes

Released(q, d) ==
    /\ Started(q) => (q.timer <=> d /\ q.promise = "pending")
    /\ q.promise # "pending" => ~q.listening
    /\ Started(q) => (q.destroyed <=> q.promise \in Failures)

RequestIInv(q, d) ==
    /\ q \in RequestType
    /\ UnstartedIsBare(q)
    /\ PromiseFollowsSettled(q)
    /\ PendingIsWhole(q)
    /\ Whole(q)
    /\ Released(q, d)

TransportIInv ==
    /\ TypeOK
    /\ \A r \in Requests : RequestIInv(req[r], deadline)

-----------------------------------------------------------------------------
LEMMA IdleIsRight == ASSUME NEW d \in BOOLEAN PROVE RequestIInv(Idle, d)
  <1>1. Idle \in RequestType
    BY DEF Idle, RequestType, Failures
  <1> QED
    BY <1>1, TransportAssumption
    DEF Idle, RequestIInv, Failures, Started, UnstartedIsBare,
        PromiseFollowsSettled, PendingIsWhole, Whole, Released

LEMMA TransportInit == Init => TransportIInv
  BY IdleIsRight DEF Init, TransportIInv, TypeOK, RequestIInv

(* settle and fail keep the record right, whatever the failure, and leave  *)
(* it settled and in its phase.                                            *)
LEMMA SettleKeeps ==
  ASSUME NEW q, NEW d \in BOOLEAN, RequestIInv(q, d), Started(q),
         NEW code \in Failures
  PROVE  /\ RequestIInv(Settle(q, code), d)
         /\ Settle(q, code).settled
         /\ Settle(q, code).phase = q.phase
         /\ q.settled => Settle(q, code) = q
         /\ ~q.settled => Settle(q, code).promise = code
  BY DEF Settle, Cleanup, RequestIInv, RequestType, Failures, Started,
         UnstartedIsBare, PromiseFollowsSettled, PendingIsWhole, Whole,
         Released

LEMMA FailKeeps ==
  ASSUME NEW q, NEW d \in BOOLEAN, RequestIInv(q, d), Started(q),
         NEW code \in Failures
  PROVE  /\ RequestIInv(Fail(q, code), d)
         /\ Fail(q, code).settled
         /\ Fail(q, code).phase = q.phase
         /\ q.settled => Fail(q, code) = q
         /\ ~q.settled => Fail(q, code).promise = code
  BY DEF Fail, Settle, Cleanup, RequestIInv, RequestType, Failures, Started,
         UnstartedIsBare, PromiseFollowsSettled, PendingIsWhole, Whole,
         Released

(* A chunk, counted or ignored.                                            *)
LEMMA TakeKeeps ==
  ASSUME NEW q, NEW d \in BOOLEAN, RequestIInv(q, d), Streaming(q),
         NEW n \in Nat
  PROVE  RequestIInv([Take(q, n) EXCEPT !.delivered = q.delivered + n], d)
  <1> DEFINE p == [Take(q, n) EXCEPT !.delivered = q.delivered + n]
  <1>0. /\ q.received + n \in Nat
        /\ q.kept + n \in Nat
        /\ q.delivered + n \in Nat
    BY DEF RequestIInv, RequestType
  <1>1. CASE q.completed \/ q.settled
    BY <1>0, <1>1
    DEF Take, RequestIInv, RequestType, Failures, Streaming, Started,
        UnstartedIsBare, PromiseFollowsSettled, PendingIsWhole, Whole, Released
  <1>2. CASE ~(q.completed \/ q.settled) /\ q.received + n > MaxBytes
    <2>1. q \in RequestType /\ Started(q)
      BY DEF RequestIInv, Streaming, Started
    <2>2. p = [q EXCEPT !.received = @ + n, !.delivered = @ + n,
                        !.completed = TRUE, !.settled = TRUE,
                        !.timer = FALSE, !.listening = FALSE,
                        !.destroyed = TRUE, !.promise = "RESPONSE_TOO_LARGE"]
      BY <1>2, <2>1 DEF Take, Fail, Settle, Cleanup, RequestType
    <2> HIDE DEF p
    <2>3. p \in RequestType
      BY <1>0, <2>1, <2>2 DEF RequestType, Failures
    <2>4. /\ Started(p) /\ p.settled /\ ~p.timer /\ ~p.listening
          /\ p.destroyed /\ p.promise = "RESPONSE_TOO_LARGE"
      BY <2>1, <2>2 DEF RequestType, Started
    <2>5. RequestIInv(p, d)
      BY <2>3, <2>4
      DEF RequestIInv, Failures, UnstartedIsBare, PromiseFollowsSettled,
          PendingIsWhole, Whole, Released
    <2> QED
      BY <2>5 DEF p
  <1>3. CASE ~(q.completed \/ q.settled) /\ ~(q.received + n > MaxBytes)
    <2>1. q \in RequestType /\ Started(q)
      BY DEF RequestIInv, Streaming, Started
    <2>2. p = [q EXCEPT !.received = @ + n, !.kept = @ + n,
                        !.delivered = @ + n]
      BY <1>3, <2>1 DEF Take, RequestType
    <2> HIDE DEF p
    <2>3. p \in RequestType
      BY <1>0, <2>1, <2>2 DEF RequestType
    <2>4. PendingIsWhole(p)
      BY <1>3, <2>1, <2>2, TransportAssumption
      DEF RequestIInv, RequestType, PendingIsWhole
    <2>5. RequestIInv(p, d)
      BY <1>3, <2>1, <2>2, <2>3, <2>4
      DEF RequestIInv, RequestType, Started, UnstartedIsBare,
          PromiseFollowsSettled, Whole, Released
    <2> QED
      BY <2>5 DEF p
  <1> QED
    BY <1>1, <1>2, <1>3

(* The end of the body, convertible or not.                                *)
LEMMA FinishKeeps ==
  ASSUME NEW q, NEW d \in BOOLEAN, RequestIInv(q, d), Streaming(q),
         NEW convertible \in BOOLEAN
  PROVE  RequestIInv([Finish(q, convertible) EXCEPT !.ended = TRUE], d)
  <1> USE DEF RequestIInv, RequestType, Failures, Streaming, Started,
              UnstartedIsBare, PromiseFollowsSettled, PendingIsWhole, Whole,
              Released
  <1>1. CASE q.completed \/ q.settled
    BY <1>1 DEF Finish
  <1>2. CASE ~(q.completed \/ q.settled) /\ convertible
    BY <1>2 DEF Finish, Cleanup
  <1>3. CASE ~(q.completed \/ q.settled) /\ ~convertible
    BY <1>3 DEF Finish, Fail, Settle, Cleanup
  <1> QED
    BY <1>1, <1>2, <1>3

(* A close: after the body's end the request has settled already.          *)
LEMMA CloseKeeps ==
  ASSUME NEW q, NEW d \in BOOLEAN, RequestIInv(q, d), q.phase = "responding"
  PROVE  RequestIInv([(IF q.ended THEN q ELSE Fail(q, "REQUEST_FAILED"))
                         EXCEPT !.closed = TRUE], d)
  <1> DEFINE p == IF q.ended THEN q ELSE Fail(q, "REQUEST_FAILED")
  <1>1. RequestIInv(p, d) /\ p.settled /\ p.phase = "responding"
    BY FailKeeps
    DEF RequestIInv, PendingIsWhole, Failures, Started
  <1> HIDE DEF p
  <1>2. RequestIInv([p EXCEPT !.closed = TRUE], d)
    BY <1>1
    DEF RequestIInv, RequestType, Started, UnstartedIsBare,
        PromiseFollowsSettled, PendingIsWhole, Whole, Released
  <1> QED
    BY <1>2 DEF p

-----------------------------------------------------------------------------
(* A step of one request is right if the record it writes is.              *)
LEMMA OneRecord ==
  ASSUME TransportIInv, NEW r \in Requests, NEW p,
         RequestIInv(p, deadline),
         req' = [req EXCEPT ![r] = p],
         UNCHANGED <<deadline, aborted>>
  PROVE  TransportIInv'
  <1>1. req' \in [Requests -> RequestType]
    BY DEF TransportIInv, TypeOK, RequestIInv
  <1>2. \A q \in Requests : RequestIInv(req'[q], deadline)
    BY DEF TransportIInv, TypeOK
  <1> QED
    BY <1>1, <1>2
    DEF TransportIInv, TypeOK, RequestIInv, UnstartedIsBare,
        PromiseFollowsSettled, PendingIsWhole, Whole, Released

LEMMA RequestStepKeeps ==
  ASSUME TransportIInv, NEW r \in Requests, RequestStep(r)
  PROVE  TransportIInv'
  <1> DEFINE q == req[r]
  <1>q. q \in RequestType /\ RequestIInv(q, deadline) /\ deadline \in BOOLEAN
    BY DEF TransportIInv, TypeOK
  <1>c. {"TIMEOUT", "ABORTED", "REQUEST_FAILED", "INVALID_URL",
         "UNSUPPORTED_BODY", "ALREADY_ABORTED"} \subseteq Failures
    BY DEF Failures
  <1>1. ASSUME NEW code \in {"INVALID_URL", "UNSUPPORTED_BODY",
                             "ALREADY_ABORTED", "REQUEST_FAILED"},
               Refuse(r, code)
        PROVE  TransportIInv'
    <2> DEFINE p == [q EXCEPT !.phase = "refused", !.promise = code]
    <2>1. RequestIInv(p, deadline)
      BY <1>1, <1>q
      DEF Refuse, RequestIInv, RequestType, Failures, Started,
          UnstartedIsBare, PromiseFollowsSettled, PendingIsWhole, Whole,
          Released
    <2>2. req' = [req EXCEPT ![r] = p] /\ UNCHANGED <<deadline, aborted>>
      BY <1>1 DEF Refuse
    <2> HIDE DEF p
    <2> QED
      BY <2>1, <2>2, OneRecord
  <1>2. ASSUME NEW signal \in BOOLEAN, Start(r, signal)
        PROVE  TransportIInv'
    <2> DEFINE p == [q EXCEPT !.phase = "requested", !.timer = deadline,
                              !.listening = signal]
    <2>1. RequestIInv(p, deadline)
      <3>1. p \in RequestType
        BY <1>2, <1>q DEF RequestType
      <3>2. q.phase = "idle" /\ p.phase = "requested" /\ p.timer = deadline
        BY <1>2, <1>q DEF Start, RequestType
      <3> QED
        BY <1>2, <1>q, <3>1, <3>2
        DEF RequestIInv, RequestType, Failures, Started, UnstartedIsBare,
            PromiseFollowsSettled, PendingIsWhole, Whole, Released
    <2>2. req' = [req EXCEPT ![r] = p] /\ UNCHANGED <<deadline, aborted>>
      BY <1>2 DEF Start
    <2> HIDE DEF p
    <2> QED
      BY <2>1, <2>2, OneRecord
  <1>3. CASE TimerFires(r)
    <2>1. Started(q)
      BY <1>3, <1>q DEF TimerFires, RequestIInv, UnstartedIsBare
    <2> DEFINE p == Settle(q, "TIMEOUT")
    <2>2. RequestIInv(p, deadline)
      BY <1>q, <1>c, <2>1, SettleKeeps
    <2>3. req' = [req EXCEPT ![r] = p] /\ UNCHANGED <<deadline, aborted>>
      BY <1>3 DEF TimerFires
    <2> HIDE DEF p
    <2> QED
      BY <2>2, <2>3, OneRecord
  <1>4. CASE RequestError(r)
    <2> DEFINE p == Settle(q, "REQUEST_FAILED")
    <2>1. RequestIInv(p, deadline)
      BY <1>4, <1>q, <1>c, SettleKeeps DEF RequestError, Started
    <2>2. req' = [req EXCEPT ![r] = p] /\ UNCHANGED <<deadline, aborted>>
      BY <1>4 DEF RequestError
    <2> HIDE DEF p
    <2> QED
      BY <2>1, <2>2, OneRecord
  <1>5. CASE Response(r)
    <2> DEFINE p == [q EXCEPT !.phase = "responding"]
    <2>1. RequestIInv(p, deadline)
      BY <1>5, <1>q
      DEF Response, RequestIInv, RequestType, Started, UnstartedIsBare,
          PromiseFollowsSettled, PendingIsWhole, Whole, Released
    <2>2. req' = [req EXCEPT ![r] = p] /\ UNCHANGED <<deadline, aborted>>
      BY <1>5 DEF Response
    <2> HIDE DEF p
    <2> QED
      BY <2>1, <2>2, OneRecord
  <1>6. ASSUME NEW n \in 1..MaxDelivered, Data(r, n)
        PROVE  TransportIInv'
    <2> DEFINE p == [Take(q, n) EXCEPT !.delivered = q.delivered + n]
    <2>1. n \in Nat
      BY TransportAssumption
    <2>2. RequestIInv(p, deadline)
      BY <1>6, <1>q, <2>1, TakeKeeps DEF Data
    <2>3. req' = [req EXCEPT ![r] = p] /\ UNCHANGED <<deadline, aborted>>
      BY <1>6 DEF Data
    <2> HIDE DEF p
    <2> QED
      BY <2>2, <2>3, OneRecord
  <1>7. CASE ResponseFails(r)
    <2> DEFINE p == Fail(q, "REQUEST_FAILED")
    <2>1. RequestIInv(p, deadline)
      BY <1>7, <1>q, <1>c, FailKeeps DEF ResponseFails, Streaming, Started
    <2>2. req' = [req EXCEPT ![r] = p] /\ UNCHANGED <<deadline, aborted>>
      BY <1>7 DEF ResponseFails
    <2> HIDE DEF p
    <2> QED
      BY <2>1, <2>2, OneRecord
  <1>8. ASSUME NEW convertible \in BOOLEAN, End(r, convertible)
        PROVE  TransportIInv'
    <2> DEFINE p == [Finish(q, convertible) EXCEPT !.ended = TRUE]
    <2>1. RequestIInv(p, deadline)
      BY <1>8, <1>q, FinishKeeps DEF End
    <2>2. req' = [req EXCEPT ![r] = p] /\ UNCHANGED <<deadline, aborted>>
      BY <1>8 DEF End
    <2> HIDE DEF p
    <2> QED
      BY <2>1, <2>2, OneRecord
  <1>9. CASE Close(r)
    <2> DEFINE p == [(IF q.ended THEN q ELSE Fail(q, "REQUEST_FAILED"))
                        EXCEPT !.closed = TRUE]
    <2>1. RequestIInv(p, deadline)
      BY <1>9, <1>q, CloseKeeps DEF Close
    <2>2. req' = [req EXCEPT ![r] = p] /\ UNCHANGED <<deadline, aborted>>
      BY <1>9 DEF Close
    <2> HIDE DEF p
    <2> QED
      BY <2>1, <2>2, OneRecord
  <1> QED
    BY <1>1, <1>2, <1>3, <1>4, <1>5, <1>6, <1>7, <1>8, <1>9 DEF RequestStep

(* One abort settles every request that listens.                           *)
LEMMA AbortKeeps == ASSUME TransportIInv, Abort PROVE TransportIInv'
  <1>1. ASSUME NEW r \in Requests
        PROVE  RequestIInv(req'[r], deadline)
    <2>1. RequestIInv(req[r], deadline) /\ deadline \in BOOLEAN
      BY DEF TransportIInv, TypeOK
    <2>2. CASE ~req[r].listening
      BY <2>1, <2>2 DEF Abort
    <2>3. CASE req[r].listening
      <3>1. Started(req[r])
        BY <2>1, <2>3 DEF RequestIInv, UnstartedIsBare
      <3>2. RequestIInv(Settle(req[r], "ABORTED"), deadline)
        BY <2>1, <3>1, SettleKeeps DEF Failures
      <3>3. req'[r] = Settle(req[r], "ABORTED")
        BY <2>3 DEF Abort
      <3> QED
        BY <3>2, <3>3
    <2> QED
      BY <2>2, <2>3
  <1>2. req' \in [Requests -> RequestType]
    <2>1. \A r \in Requests : req'[r] \in RequestType
      BY <1>1 DEF RequestIInv
    <2>2. req' = [r \in Requests |-> req'[r]]
      BY DEF Abort
    <2> QED
      BY <2>1, <2>2
  <1> QED
    BY <1>1, <1>2
    DEF Abort, TransportIInv, TypeOK, RequestIInv, UnstartedIsBare,
        PromiseFollowsSettled, PendingIsWhole, Whole, Released

LEMMA TransportStep == TransportIInv /\ [Next]_vars => TransportIInv'
  <1> SUFFICES ASSUME TransportIInv, [Next]_vars PROVE TransportIInv'
    OBVIOUS
  <1>1. CASE Abort
    BY <1>1, AbortKeeps
  <1>2. CASE \E r \in Requests : RequestStep(r)
    BY <1>2, RequestStepKeeps
  <1>3. CASE UNCHANGED vars
    BY <1>3
    DEF vars, TransportIInv, TypeOK, RequestIInv, UnstartedIsBare,
        PromiseFollowsSettled, PendingIsWhole, Whole, Released
  <1> QED
    BY <1>1, <1>2, <1>3 DEF Next

-----------------------------------------------------------------------------
(* Every reachable state of the transport satisfies the invariant.         *)
THEOREM TransportInvariant == Spec => []TransportIInv
  BY TransportInit, TransportStep, PTL DEF Spec

(* What the closures of the requests hold keeps its type.                  *)
THEOREM TransportTypeCorrect == Spec => []TypeOK
  <1>1. TransportIInv => TypeOK
    BY DEF TransportIInv
  <1> QED
    BY <1>1, TransportInvariant, PTL

(* A resolved request carries the whole body the server delivered, within  *)
(* the limit, whatever the sizes of its chunks.                            *)
THEOREM TransportResolvedIsWhole == Spec => []ResolvedIsWhole
  <1>1. TransportIInv => ResolvedIsWhole
    BY DEF TransportIInv, RequestIInv, Whole, ResolvedIsWhole
  <1> QED
    BY <1>1, TransportInvariant, PTL

(* Timer and abort listener are there exactly while the request is         *)
(* pending, and a failed request is destroyed, in any order of its events. *)
THEOREM TransportSettledIsReleased == Spec => []SettledIsReleased
  <1>1. TransportIInv => SettledIsReleased
    BY DEF TransportIInv, RequestIInv, Released, SettledIsReleased
  <1> QED
    BY <1>1, TransportInvariant, PTL
=============================================================================
