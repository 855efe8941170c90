----------------------------- MODULE IapPurchase -----------------------------
(***************************************************************************)
(* The IAP adapter: purchases (packages/sdk/src/iap/purchase-flow.ts run   *)
(* on packages/sdk/src/event-flow.ts), the deadline around them and        *)
(* pending-order recovery (packages/sdk/src/iap/adapter.ts), on top of the *)
(* adapter's one grant coordinator.                                        *)
(*                                                                         *)
(* A flow is one purchaseOneTime/purchaseSubscription call.  The platform  *)
(* may invoke a flow's callbacks at any time once startOrder has begun,    *)
(* also synchronously from inside startOrder, in any order, more than once *)
(* and after the flow has settled.  Turns of the event loop are actions;   *)
(* microtasks run before the next timer, so a timer needs an empty queue.  *)
(***************************************************************************)
EXTENDS GrantCoordinator

CONSTANTS Flows,       \* purchase calls
          SlotCalls,   \* calls of processProductGrant by the platform
          Recoveries,  \* recoverPendingOrder calls
          FlowOf,      \* the flow whose slot a slot call invokes
          SkuOf,       \* the sku each flow buys
          Deadline     \* purchaseTimeoutMs > 0

ASSUME CallerAssumption ==
    /\ Callers = SlotCalls \cup Recoveries
    /\ SlotCalls \cap Recoveries = {}
    /\ FlowOf \in [SlotCalls -> Flows]
    /\ SkuOf \in [Flows -> Skus]
    /\ Deadline \in BOOLEAN

VARIABLES flow,      \* the closure state of each purchase flow
          result,    \* what each purchase call returned
          recovery,  \* the state of each recovery call
          notified   \* orders completeProductGrant was called for

iapVars == <<flow, result, recovery, notified>>
vars == <<coordVars, iapVars>>

MaybeOrder == Orders \cup {None}

Result(status, o, s) == [status |-> status, order |-> o, sub |-> s]
NoResult == Result("none", None, None)

Results == [status : {"none", "completed", "canceled", "failed", "mismatch",
                      "grant_failed", "unknown", "rejected"},
            order : MaybeOrder, sub : MaybeSub]

(***************************************************************************)
(* The closure variables of runPurchaseFlow and runEventFlow.  "outcome"   *)
(* is the settled result of the event flow; "overdue" says that the clock  *)
(* has reached the deadline, whether or not the timer has run.             *)
(***************************************************************************)
FreshFlow ==
    [stage |-> "idle", overdue |-> FALSE, outcome |-> NoResult,
     observed |-> None, observedSub |-> None,
     confirmed |-> None, confirmedSub |-> None,
     stashed |-> None, failure |-> None]

FreshRecovery == [stage |-> "idle", order |-> None, sku |-> None,
                  status |-> "none"]

Settled(fl) == fl.outcome # NoResult

FirstOf(a, b) == IF a # None THEN a ELSE b

KnownOrder(fl) == FirstOf(fl.confirmed, FirstOf(fl.observed, fl.stashed))
KnownSub(fl) == FirstOf(fl.confirmedSub, fl.observedSub)

UnknownResult(fl) == Result("unknown", KnownOrder(fl), KnownSub(fl))

\* Mutant: the two order ids are not compared.
EvaluateAnyOrder(fl) ==
    CASE fl.failure # None -> Result("grant_failed", fl.failure, None)
      [] fl.failure = None /\ None \in {fl.stashed, fl.confirmed} -> NoResult
      [] fl.failure = None /\ None \notin {fl.stashed, fl.confirmed} ->
            Result("completed", fl.confirmed, fl.confirmedSub)

(***************************************************************************)
(* evaluate(): the result the flow's observations amount to, if any.       *)
(***************************************************************************)
Evaluate(fl) ==
    CASE fl.failure # None -> Result("grant_failed", fl.failure, None)
      [] fl.failure = None /\ None \in {fl.stashed, fl.confirmed} -> NoResult
      [] fl.failure = None /\ None \notin {fl.stashed, fl.confirmed} ->
            IF fl.stashed = fl.confirmed
              THEN Result("completed", fl.confirmed, fl.confirmedSub)
              ELSE Result("mismatch", None, None)

\* Mutant: an order is known only once its grant is confirmed.
ReduceErrorConfirmedOnly(fl, canceled) ==
    CASE fl.failure # None -> Evaluate(fl)
      [] fl.failure = None /\ fl.confirmed # None -> UnknownResult(fl)
      [] fl.failure = None /\ fl.confirmed = None ->
            Result(IF canceled THEN "canceled" ELSE "failed", None, None)

(***************************************************************************)
(* reduce() of an SDK error event.                                         *)
(***************************************************************************)
ReduceError(fl, canceled) ==
    CASE fl.failure # None -> Evaluate(fl)
      [] fl.failure = None /\ KnownOrder(fl) # None -> UnknownResult(fl)
      [] fl.failure = None /\ KnownOrder(fl) = None ->
            Result(IF canceled THEN "canceled" ELSE "failed", None, None)

(***************************************************************************)
(* emit(): a settled flow ignores the event, another takes reduce's result.*)
(***************************************************************************)
Emit(fl, outcome) == IF Settled(fl) THEN fl ELSE [fl EXCEPT !.outcome = outcome]

Stash(fl, o) == IF Settled(fl) THEN fl ELSE [fl EXCEPT !.stashed = o]

(***************************************************************************)
(* The event loop: the turn in which startOrder runs lasts until startOrder*)
(* returns or throws, and the callbacks it makes belong to it.             *)
(***************************************************************************)
Busy == \E f \in Flows : flow[f].stage = "registering"

MicrotasksPending ==
    \/ \E c \in Callers : call[c].phase = "settled"
    \/ \E o \in Orders : inFlight[o].state \in {"resolved", "rejected"}
    \/ \E f \in Flows : flow[f].stage = "open" /\ Settled(flow[f])

Registered(f) == flow[f].stage \in {"registering", "open", "returned"}

Init ==
    /\ CoordInit
    /\ flow = [f \in Flows |-> FreshFlow]
    /\ result = [f \in Flows |-> NoResult]
    /\ recovery = [r \in Recoveries |-> FreshRecovery]
    /\ notified = {}

(***************************************************************************)
(* purchaseOneTime / purchaseSubscription: the loader is called and the    *)
(* deadline starts.                                                        *)
(***************************************************************************)
Purchase(f) ==
    /\ ~Busy
    /\ flow[f].stage = "idle"
    /\ flow' = [flow EXCEPT ![f].stage = "loading"]
    /\ UNCHANGED <<coordVars, result, recovery, notified>>

(***************************************************************************)
(* The clock reaches the deadline.  The timer may run much later: a        *)
(* synchronous startOrder or a long turn can hold it back.                 *)
(***************************************************************************)
DeadlinePasses(f) ==
    /\ Deadline
    /\ flow[f].stage \in {"loading", "registering", "open"}
    /\ ~flow[f].overdue
    /\ flow' = [flow EXCEPT ![f].overdue = TRUE]
    /\ UNCHANGED <<coordVars, result, recovery, notified>>

Refuse(f, res) ==
    /\ flow' = [flow EXCEPT ![f].stage = "refused"]
    /\ result' = [result EXCEPT ![f] = res]
    /\ UNCHANGED <<coordVars, recovery, notified>>

\* Mutant: the loader's late answer still starts the payment.
LoadResolvesLate(f) ==
    /\ ~Busy
    /\ flow[f].stage \in {"loading", "refused"}
    /\ flow' = [flow EXCEPT ![f].stage = "registering"]
    /\ UNCHANGED <<coordVars, result, recovery, notified>>

(***************************************************************************)
(* The loader resolves: past the deadline the purchase is never started,   *)
(* else the flow calls startOrder.                                         *)
(***************************************************************************)
LoadResolves(f) ==
    /\ ~Busy
    /\ flow[f].stage = "loading"
    /\ \/ /\ flow[f].overdue
          /\ Refuse(f, Result("unknown", None, None))
       \/ /\ ~flow[f].overdue
          /\ flow' = [flow EXCEPT ![f].stage = "registering"]
          /\ UNCHANGED <<coordVars, result, recovery, notified>>

(***************************************************************************)
(* The SDK is unavailable, or lacks the requested operation.               *)
(***************************************************************************)
LoadFails(f) ==
    /\ ~Busy
    /\ flow[f].stage = "loading"
    /\ Refuse(f, Result("rejected", None, None))

\* Mutant: the deadline does not cover the loading phase.
LoadTimeoutMissing(f) ==
    /\ flow[f].stage = "loading"
    /\ FALSE
    /\ Refuse(f, Result("unknown", None, None))

LoadTimeout(f) ==
    /\ ~Busy /\ ~MicrotasksPending
    /\ flow[f].stage = "loading"
    /\ flow[f].overdue
    /\ Refuse(f, Result("unknown", None, None))

StartOrderReturns(f) ==
    /\ flow[f].stage = "registering"
    /\ flow' = [flow EXCEPT ![f].stage = "open"]
    /\ UNCHANGED <<coordVars, result, recovery, notified>>

(***************************************************************************)
(* startOrder throws: an unsettled flow rejects with its error.            *)
(***************************************************************************)
StartOrderThrows(f) ==
    /\ flow[f].stage = "registering"
    /\ flow' = [flow EXCEPT
                  ![f] = [Emit(@, Result("rejected", None, None))
                            EXCEPT !.stage = "open"]]
    /\ UNCHANGED <<coordVars, result, recovery, notified>>

(***************************************************************************)
(* onEvent: the platform reports the payment of order o.                   *)
(***************************************************************************)
PlatformSuccess(f, o) ==
    /\ Registered(f)
    /\ flow' = [flow EXCEPT
                  ![f] = Emit(Stash(@, o), Evaluate(Stash(@, o)))]
    /\ UNCHANGED <<coordVars, result, recovery, notified>>

(***************************************************************************)
(* onError: the platform reports a cancellation or any other error.        *)
(***************************************************************************)
PlatformError(f, canceled) ==
    /\ Registered(f)
    /\ flow' = [flow EXCEPT ![f] = Emit(@, ReduceError(@, canceled))]
    /\ UNCHANGED <<coordVars, result, recovery, notified>>

(***************************************************************************)
(* processProductGrant, up to its await: the order is remembered and the   *)
(* coordinator runs or joins the server grant.                             *)
(***************************************************************************)
SlotCall(c, o, s) ==
    /\ Registered(FlowOf[c])
    /\ Run(c, [order |-> o, sku |-> SkuOf[FlowOf[c]], sub |-> s])
    /\ flow' = [flow EXCEPT ![FlowOf[c]].observed = o,
                            ![FlowOf[c]].observedSub = s]
    /\ UNCHANGED <<result, recovery, notified>>

(***************************************************************************)
(* processProductGrant, after its await.                                   *)
(***************************************************************************)
Confirm(fl, k) == [fl EXCEPT !.confirmed = k.order, !.confirmedSub = k.sub]
FailGrant(fl, k) == [fl EXCEPT !.failure = k.order]

\* Mutants: a failed grant is ignored, or taken for a confirmed one.
GrantSettledIfOk(fl, k) ==
    IF k.verdict = "ok" THEN Emit(Confirm(fl, k), Evaluate(Confirm(fl, k)))
                        ELSE fl
GrantSettledAnyway(fl, k) == Emit(Confirm(fl, k), Evaluate(Confirm(fl, k)))

GrantSettled(fl, k) ==
    LET seen == IF k.verdict = "ok" THEN Confirm(fl, k) ELSE FailGrant(fl, k)
    IN  Emit(seen, Evaluate(seen))

SlotResumes(c) ==
    /\ ~Busy
    /\ Continue(c)
    /\ flow' = [flow EXCEPT ![FlowOf[c]] = GrantSettled(@, call[c])]
    /\ UNCHANGED <<result, recovery, notified>>

(***************************************************************************)
(* The flow's own timer.                                                   *)
(***************************************************************************)
FlowTimeout(f) ==
    /\ ~Busy /\ ~MicrotasksPending
    /\ flow[f].stage = "open"
    /\ flow[f].overdue
    /\ ~Settled(flow[f])
    /\ flow' = [flow EXCEPT ![f] = Emit(@, UnknownResult(@))]
    /\ UNCHANGED <<coordVars, result, recovery, notified>>

(***************************************************************************)
(* purchaseWithDeadline resumes: a rejection passes through, and a result  *)
(* that settled past the deadline becomes unknown with the order it names. *)
(***************************************************************************)
AfterDeadline(res) == Result("unknown", res.order, res.sub)

Return(f) ==
    /\ ~Busy
    /\ flow[f].stage = "open"
    /\ Settled(flow[f])
    /\ flow' = [flow EXCEPT ![f].stage = "returned"]
    /\ result' = [result EXCEPT
                    ![f] = IF flow[f].overdue /\ flow[f].outcome.status # "rejected"
                             THEN AfterDeadline(flow[f].outcome)
                             ELSE flow[f].outcome]
    /\ UNCHANGED <<coordVars, recovery, notified>>

(***************************************************************************)
(* recoverPendingOrder.                                                    *)
(***************************************************************************)
Recover(r, o, k) ==
    /\ ~Busy
    /\ recovery[r].stage = "idle"
    /\ recovery' = [recovery EXCEPT
                      ![r] = [stage |-> "loading", order |-> o, sku |-> k,
                              status |-> "none"]]
    /\ UNCHANGED <<coordVars, flow, result, notified>>

EndRecovery(r, status) ==
    recovery' = [recovery EXCEPT ![r].stage = "done", ![r].status = status]

RecoveryLoadFails(r) ==
    /\ ~Busy
    /\ recovery[r].stage = "loading"
    /\ EndRecovery(r, "rejected")
    /\ UNCHANGED <<coordVars, flow, result, notified>>

(***************************************************************************)
(* The platform has loaded: the server grant comes first.                  *)
(***************************************************************************)
RecoveryRuns(r) ==
    /\ ~Busy
    /\ recovery[r].stage = "loading"
    /\ Run(r, [order |-> recovery[r].order, sku |-> recovery[r].sku,
               sub |-> None])
    /\ recovery' = [recovery EXCEPT ![r].stage = "granting"]
    /\ UNCHANGED <<flow, result, notified>>

\* Mutant: the platform is notified whatever the grant's verdict.
RecoveryResumesUnchecked(r) ==
    /\ ~Busy
    /\ recovery[r].stage = "granting"
    /\ Continue(r)
    /\ recovery' = [recovery EXCEPT ![r].stage = "notifying"]
    /\ notified' = notified \cup {recovery[r].order}
    /\ UNCHANGED <<flow, result>>

(***************************************************************************)
(* The grant settled: only a confirmed one is notified to the platform.    *)
(***************************************************************************)
RecoveryResumes(r) ==
    /\ ~Busy
    /\ recovery[r].stage = "granting"
    /\ Continue(r)
    /\ \/ /\ call[r].verdict = "ok"
          /\ recovery' = [recovery EXCEPT ![r].stage = "notifying"]
          /\ notified' = notified \cup {recovery[r].order}
       \/ /\ call[r].verdict # "ok"
          /\ EndRecovery(r, "grant_failed")
          /\ UNCHANGED notified
    /\ UNCHANGED <<flow, result>>

(***************************************************************************)
(* completeProductGrant answers true, or answers false or rejects.         *)
(***************************************************************************)
NotifySettles(r, ok) ==
    /\ ~Busy
    /\ recovery[r].stage = "notifying"
    /\ EndRecovery(r, IF ok THEN "completed" ELSE "notify_failed")
    /\ UNCHANGED <<coordVars, flow, result, notified>>

(***************************************************************************)
(* The coordinator's own turns.                                            *)
(***************************************************************************)
ServerAnswers(o) ==
    /\ ~Busy
    /\ GrantResolves(o) \/ GrantRejects(o)
    /\ UNCHANGED iapVars

ForgetAttempt(o) ==
    /\ ~Busy
    /\ Release(o)
    /\ UNCHANGED iapVars

-----------------------------------------------------------------------------

PurchaseStep(f) ==
    \/ Purchase(f)
    \/ DeadlinePasses(f)
    \/ LoadResolves(f)
    \/ LoadFails(f)
    \/ LoadTimeout(f)
    \/ StartOrderReturns(f)
    \/ StartOrderThrows(f)
    \/ \E o \in Orders : PlatformSuccess(f, o)
    \/ \E canceled \in BOOLEAN : PlatformError(f, canceled)
    \/ FlowTimeout(f)
    \/ Return(f)

SlotStep(c) ==
    \/ \E o \in Orders, s \in MaybeSub : SlotCall(c, o, s)
    \/ SlotResumes(c)

RecoveryStep(r) ==
    \/ \E o \in Orders, k \in Skus : Recover(r, o, k)
    \/ RecoveryLoadFails(r)
    \/ RecoveryRuns(r)
    \/ RecoveryResumes(r)
    \/ \E ok \in BOOLEAN : NotifySettles(r, ok)

Next ==
    \/ \E f \in Flows : PurchaseStep(f)
    \/ \E c \in SlotCalls : SlotStep(c)
    \/ \E r \in Recoveries : RecoveryStep(r)
    \/ \E o \in Orders : ServerAnswers(o) \/ ForgetAttempt(o)

Spec == Init /\ [][Next]_vars

(***************************************************************************)
(* What the host guarantees: time passes, timers fire, microtasks run and  *)
(* a synchronous startOrder comes back.  Neither the loader, the platform's*)
(* callbacks nor the server's answer is assumed to come.                   *)
(***************************************************************************)
Fairness ==
    /\ \A f \in Flows :
          /\ WF_vars(DeadlinePasses(f))
          /\ WF_vars(LoadTimeout(f))
          /\ WF_vars(StartOrderReturns(f) \/ StartOrderThrows(f))
          /\ WF_vars(FlowTimeout(f))
          /\ WF_vars(Return(f))
    /\ \A c \in SlotCalls : WF_vars(SlotResumes(c))
    /\ \A r \in Recoveries : WF_vars(RecoveryResumes(r))
    /\ \A o \in Orders : WF_vars(ForgetAttempt(o))

FairSpec == Spec /\ Fairness

-----------------------------------------------------------------------------

FlowType ==
    [stage : {"idle", "loading", "registering", "open", "returned", "refused"},
     overdue : BOOLEAN, outcome : Results,
     observed : MaybeOrder, observedSub : MaybeSub,
     confirmed : MaybeOrder, confirmedSub : MaybeSub,
     stashed : MaybeOrder, failure : MaybeOrder]

RecoveryType ==
    [stage : {"idle", "loading", "granting", "notifying", "done"},
     order : MaybeOrder, sku : Skus \cup {None},
     status : {"none", "completed", "notify_failed", "grant_failed",
               "rejected"}]

(* Type invariant of the adapter: the coordinator's Maps, the closure      *)
(* state of every flow and recovery, and what the calls returned.          *)
TypeOK ==
    /\ CoordTypeOK
    /\ flow \in [Flows -> FlowType]
    /\ result \in [Flows -> Results]
    /\ recovery \in [Recoveries -> RecoveryType]
    /\ notified \subseteq Orders

Identified(f) ==
    \/ flow[f].stashed # None
    \/ \E c \in SlotCalls : FlowOf[c] = f /\ call[c].phase # "idle"

(* A purchase that returned "completed" names an order for which both      *)
(* halves happened: the platform's success event of this very flow, and a  *)
(* grant callback that resolved exactly once for that order, this flow's   *)
(* sku and the subscription it reports (evaluate in purchase-flow.ts over  *)
(* the join rules of the coordinator).                                     *)
CompletedIsPaidAndGranted ==
    \A f \in Flows :
        result[f].status = "completed" =>
            LET o == result[f].order
            IN  /\ o \in Orders
                /\ flow[f].stashed = o
                /\ successes[o] = 1
                /\ granted[o].sku = SkuOf[f]
                /\ result[f].sub \in {None, granted[o].sub}

(* A purchase is never reported successful over a failed server grant: at  *)
(* the step that settles a flow as completed, no grant the platform asked  *)
(* of that flow has failed before.                                         *)
NoSuccessOverFailedGrant ==
    [][\A f \in Flows :
          /\ ~Settled(flow[f])
          /\ flow'[f].outcome.status = "completed"
          => \A c \in SlotCalls :
                /\ FlowOf[c] = f
                /\ call'[c].phase = "done"
                => call'[c].verdict = "ok"]_vars

(* Once the platform has named an order, the flow does not lose it: an SDK *)
(* error is no longer a definite failure or cancellation, on which a       *)
(* consumer would retry and pay twice, and an unknown result names an      *)
(* order, without which the payment cannot be verified or recovered (the   *)
(* identified-order branch of the sdkError case, onTimeout).               *)
IdentifiedOrderIsReported ==
    [][\A f \in Flows :
          ~Settled(flow[f]) /\ Identified(f) =>
              /\ flow'[f].outcome.status \notin {"canceled", "failed"}
              /\ flow'[f].outcome.status = "unknown" =>
                    flow'[f].outcome.order # None]_vars

(* After a purchase call has returned, its startOrder never begins: a      *)
(* loader that resolves late does not open a payment nobody waits for.     *)
NoPaymentAfterReturn ==
    [][\A f \in Flows :
          flow[f].stage # "registering" /\ flow'[f].stage = "registering" =>
              result[f] = NoResult /\ ~flow[f].overdue]_vars

(* The platform is told that an order is complete only after the server    *)
(* grant of that order, and a recovery call reports completion only for an *)
(* order it notified (the order of the two awaits in recoverPendingOrder). *)
NotifyOnlyAfterGrant ==
    /\ \A o \in notified : successes[o] = 1
    /\ \A r \in Recoveries :
          recovery[r].status \in {"completed", "notify_failed"} =>
              /\ recovery[r].order \in notified
              /\ granted[recovery[r].order].sku = recovery[r].sku

(* With a deadline every purchase call returns, although the loader, the   *)
(* platform and the server may all stay silent for ever.                   *)
PurchaseReturns ==
    \A f \in Flows : flow[f].stage = "loading" ~> result[f] # NoResult

(* The adapter implements its documented contract: what the consumer sees  *)
(* of flows and recoveries is a behaviour of PurchaseContract.             *)
Contract ==
    INSTANCE PurchaseContract WITH
        entitled <- {o \in Orders : IsGranted(o)},
        answer <- result,
        recovered <- [r \in Recoveries |->
                        IF recovery[r].stage = "done"
                          THEN [status |-> recovery[r].status,
                                order |-> recovery[r].order]
                          ELSE [status |-> "none", order |-> None]]

ImplementsContract == Contract!Spec

(* purchase-flow.ts, onTimeout: the result includes "the order the platform*)
(* already handed to the grant slot [...] consumers need it to verify and  *)
(* recover": an unknown result that names an order and a subscription      *)
(* names two things the platform handed over together.                     *)
UnknownPairWasHandedOver ==
    \A f \in Flows :
        /\ result[f].status = "unknown"
        /\ result[f].order # None
        /\ result[f].sub # None
        => \E c \in SlotCalls : /\ FlowOf[c] = f
                               /\ call[c].order = result[f].order
                               /\ call[c].sub = result[f].sub

(* purchase-flow.ts: "Timeout yields `unknown` (with the known orderId when*)
(* available)", and the adapter's "preserve any order identity the result  *)
(* already carries": a purchase reported as unknown names an order if its  *)
(* flow had both a confirmed grant and a success event.                    *)
UnknownNamesConfirmedOrder ==
    [][\A f \in Flows :
          /\ result[f] = NoResult
          /\ result'[f].status = "unknown"
          /\ flow[f].confirmed # None
          /\ flow[f].stashed # None
          => result'[f].order # None]_vars
=============================================================================
