-------------------------- MODULE IapPurchaseProofs --------------------------
(***************************************************************************)
(* Theorems about IapPurchase, for any flows, slot calls, recoveries,      *)
(* orders, skus and subscriptions: what the results of purchases and       *)
(* recoveries mean, and that the adapter implements PurchaseContract.      *)
(*                                                                         *)
(* Every step of the adapter is a step of its coordinator or leaves it     *)
(* alone, so CoordIInv holds here as well.  On top of it, a slot call is   *)
(* tied to the flow it was made for, a recovery to its call, and what a    *)
(* flow has confirmed or settled with to the grants that are stored.       *)
(***************************************************************************)
EXTENDS IapPurchase, GrantCoordinatorProofs

(* The grants g have order o for sku k and, if s names one, subscription s.*)
GrantedFor(g, o, k, s) ==
    /\ o \in Orders
    /\ g[o] # NotGranted
    /\ g[o].sku = k
    /\ s \in {None, g[o].sub}

(* What a result says of a flow that buys k and has stashed an order.      *)
ResultIsSound(g, out, stashed, k) ==
    /\ out.status = "none" => out = NoResult
    /\ out.status = "completed" =>
          out.order = stashed /\ GrantedFor(g, out.order, k, out.sub)
    /\ out.status = "grant_failed" => out.order # None
    /\ out.status \in {"canceled", "failed", "mismatch", "rejected"} =>
          out.order = None /\ out.sub = None

(* A flow that has not begun its startOrder has seen nothing; what it has  *)
(* confirmed is granted.                                                   *)
FlowIsSound(g, fl, k) ==
    /\ fl.stage \in {"idle", "loading", "refused"} =>
          /\ ~Settled(fl)
          /\ {fl.observed, fl.confirmed, fl.stashed, fl.failure} = {None}
          /\ {fl.observedSub, fl.confirmedSub} = {None}
    /\ fl.stage = "returned" => Settled(fl)
    /\ fl.confirmed # None => GrantedFor(g, fl.confirmed, k, fl.confirmedSub)
    /\ ResultIsSound(g, fl.outcome, fl.stashed, k)

FlowsAreSound == \A f \in Flows : FlowIsSound(granted, flow[f], SkuOf[f])

(* A slot call belongs to a registered flow, which has observed its order, *)
(* and asks for that flow's sku; if it failed, the flow knows.             *)
SlotCallsAreSeen ==
    \A c \in SlotCalls : call[c].phase # "idle" =>
        /\ Registered(FlowOf[c])
        /\ flow[FlowOf[c]].observed # None
        /\ call[c].sku = SkuOf[FlowOf[c]]
        /\ call[c].phase = "done" /\ call[c].verdict # "ok" =>
              flow[FlowOf[c]].failure # None

(* A purchase call has answered exactly when its flow is over, with what   *)
(* the flow settled with or with unknown.                                  *)
AnswersAreSound ==
    \A f \in Flows :
        /\ result[f] = NoResult <=> flow[f].stage \notin {"returned", "refused"}
        /\ result[f].status = "none" => result[f] = NoResult
        /\ result[f].status = "completed" =>
              flow[f].stage = "returned" /\ result[f] = flow[f].outcome

(* A recovery is tied to the call it makes, notifies the platform of what  *)
(* that call was granted, and answers at its end.                          *)
RecoveryIsSound(r) ==
    LET rec == recovery[r] IN
    /\ rec.stage # "idle" => rec.order \in Orders /\ rec.sku \in Skus
    /\ rec.stage \in {"idle", "loading"} => call[r].phase = "idle"
    /\ rec.stage = "granting" => call[r].order = rec.order /\ call[r].sku = rec.sku
    /\ rec.stage = "notifying" \/ rec.status \in {"completed", "notify_failed"} =>
          rec.order \in notified /\ GrantedFor(granted, rec.order, rec.sku, None)
    /\ rec.status = "none" <=> rec.stage # "done"

RecoveriesAreSound ==
    /\ \A r \in Recoveries : RecoveryIsSound(r)
    /\ \A o \in notified : IsGranted(o)

IapIInv ==
    /\ CoordIInv
    /\ TypeOK
    /\ FlowsAreSound
    /\ SlotCallsAreSeen
    /\ AnswersAreSound
    /\ RecoveriesAreSound

-----------------------------------------------------------------------------
(***************************************************************************)
(* The functions of a flow's closure state.                                *)
(***************************************************************************)
LEMMA NoResultIsSound ==
  /\ NoResult \in Results
  /\ \A g, o, k : ResultIsSound(g, NoResult, o, k)
  BY DEF NoResult, Result, Results, ResultIsSound, MaybeOrder, MaybeSub

(* evaluate() completes only on a confirmed grant of the stashed order.    *)
LEMMA EvaluateIsSound ==
  ASSUME NEW g, NEW fl \in FlowType, NEW k,
         fl.confirmed # None => GrantedFor(g, fl.confirmed, k, fl.confirmedSub)
  PROVE  /\ Evaluate(fl) \in Results
         /\ ResultIsSound(g, Evaluate(fl), fl.stashed, k)
         /\ Evaluate(fl).status = "completed" => fl.failure = None
         /\ Evaluate(fl).status \notin {"canceled", "failed", "unknown"}
  <1> USE DEF FlowType, Results, Result, NoResult, MaybeOrder, MaybeSub
  <1>1. CASE fl.failure # None
    BY <1>1 DEF Evaluate, ResultIsSound
  <1>2. CASE fl.failure = None /\ None \in {fl.stashed, fl.confirmed}
    BY <1>2 DEF Evaluate, ResultIsSound
  <1>3. CASE fl.failure = None /\ None \notin {fl.stashed, fl.confirmed}
    BY <1>3 DEF Evaluate, ResultIsSound
  <1> QED
    BY <1>1, <1>2, <1>3

(* onTimeout and an error after an order is known.                         *)
LEMMA UnknownIsSound ==
  ASSUME NEW g, NEW fl \in FlowType, NEW k
  PROVE  /\ UnknownResult(fl) \in Results
         /\ ResultIsSound(g, UnknownResult(fl), fl.stashed, k)
         /\ UnknownResult(fl).status = "unknown"
         /\ UnknownResult(fl).order = KnownOrder(fl)
  BY DEF FlowType, Results, Result, MaybeOrder, MaybeSub, UnknownResult,
         KnownOrder, KnownSub, FirstOf, ResultIsSound

(* reduce() of an error is definite only if no order is known.             *)
LEMMA ReduceErrorIsSound ==
  ASSUME NEW g, NEW fl \in FlowType, NEW k, NEW canceled \in BOOLEAN,
         fl.confirmed # None => GrantedFor(g, fl.confirmed, k, fl.confirmedSub)
  PROVE  LET out == ReduceError(fl, canceled) IN
         /\ out \in Results
         /\ ResultIsSound(g, out, fl.stashed, k)
         /\ out.status # "completed"
         /\ KnownOrder(fl) # None => out.status \notin {"canceled", "failed"}
         /\ out.status = "unknown" => out.order # None
  <1>1. CASE fl.failure # None
    BY <1>1, EvaluateIsSound DEF ReduceError
  <1>2. CASE fl.failure = None /\ KnownOrder(fl) # None
    <2>1. ReduceError(fl, canceled) = UnknownResult(fl)
      BY <1>2 DEF ReduceError
    <2> QED
      BY <1>2, <2>1, UnknownIsSound
  <1>3. CASE fl.failure = None /\ KnownOrder(fl) = None
    <2>1. ReduceError(fl, canceled) =
            Result(IF canceled THEN "canceled" ELSE "failed", None, None)
      BY <1>3 DEF ReduceError
    <2> QED
      BY <1>3, <2>1 DEF Result, Results, ResultIsSound, MaybeOrder, MaybeSub
  <1> QED
    BY <1>1, <1>2, <1>3

(* A registered flow that takes a sound result is sound, and only its      *)
(* outcome has changed.                                                    *)
LEMMA EmitIsSound ==
  ASSUME NEW g, NEW fl \in FlowType, NEW k, NEW out \in Results,
         fl.stage \in {"registering", "open", "returned"}, FlowIsSound(g, fl, k),
         ResultIsSound(g, out, fl.stashed, k)
  PROVE  /\ Emit(fl, out) \in FlowType
         /\ FlowIsSound(g, Emit(fl, out), k)
         /\ Emit(fl, out) = [fl EXCEPT !.outcome = Emit(fl, out).outcome]
         /\ Settled(fl) => Emit(fl, out) = fl
         /\ ~Settled(fl) => Emit(fl, out).outcome = out
  <1>1. CASE Settled(fl)
    BY <1>1 DEF Emit, FlowType
  <1>2. CASE ~Settled(fl)
    BY <1>2 DEF Emit, FlowType, FlowIsSound, Settled
  <1> QED
    BY <1>1, <1>2

LEMMA StashIsSound ==
  ASSUME NEW g, NEW fl \in FlowType, NEW k, NEW o \in Orders,
         fl.stage \in {"registering", "open", "returned"}, FlowIsSound(g, fl, k)
  PROVE  /\ Stash(fl, o) \in FlowType
         /\ FlowIsSound(g, Stash(fl, o), k)
         /\ Stash(fl, o) = [fl EXCEPT !.stashed = Stash(fl, o).stashed]
         /\ Settled(fl) => Stash(fl, o) = fl
  <1>1. CASE Settled(fl)
    BY <1>1 DEF Stash, FlowType
  <1>2. CASE ~Settled(fl)
    BY <1>2, NoResultIsSound
    DEF Stash, FlowType, FlowIsSound, Settled, MaybeOrder
  <1> QED
    BY <1>1, <1>2

-----------------------------------------------------------------------------
(***************************************************************************)
(* What the steps do to the coordinator.                                   *)
(***************************************************************************)
Grow(g, h) == \A o \in Orders : g[o] # NotGranted => h[o] = g[o]

LEMMA SoundUnderMoreGrants ==
  ASSUME NEW g, NEW h, Grow(g, h)
  PROVE  /\ \A o, k, s : GrantedFor(g, o, k, s) => GrantedFor(h, o, k, s)
         /\ \A fl, k : FlowIsSound(g, fl, k) => FlowIsSound(h, fl, k)
  <1>1. \A o, k, s : GrantedFor(g, o, k, s) => GrantedFor(h, o, k, s)
    BY DEF Grow, GrantedFor
  <1> QED
    BY <1>1 DEF FlowIsSound, ResultIsSound

LEMMA CoordPart == IapIInv /\ [Next]_vars => [CoordNext]_coordVars
  <1> SUFFICES ASSUME IapIInv, [Next]_vars
               PROVE  CoordNext \/ UNCHANGED coordVars
    OBVIOUS
  <1> USE DEF IapIInv, TypeOK
  <1>1. CASE \E f \in Flows : PurchaseStep(f)
    BY <1>1
    DEF PurchaseStep, Purchase, DeadlinePasses, LoadResolves, LoadFails,
        LoadTimeout, Refuse, StartOrderReturns, StartOrderThrows,
        PlatformSuccess, PlatformError, FlowTimeout, Return
  <1>2. ASSUME NEW c \in SlotCalls, SlotStep(c)
        PROVE  CoordNext
    <2>1. c \in Callers /\ SkuOf[FlowOf[c]] \in Skus
      BY CallerAssumption
    <2>2. ASSUME NEW o \in Orders, NEW s \in MaybeSub, SlotCall(c, o, s)
          PROVE  CoordNext
      BY <2>1, <2>2 DEF SlotCall, CoordNext, Targets
    <2>3. ASSUME SlotResumes(c)
          PROVE  CoordNext
      BY <2>1, <2>3 DEF SlotResumes, CoordNext
    <2> QED
      BY <1>2, <2>2, <2>3 DEF SlotStep
  <1>3. ASSUME NEW r \in Recoveries, RecoveryStep(r)
        PROVE  CoordNext \/ UNCHANGED coordVars
    <2>1. r \in Callers
      BY CallerAssumption
    <2>2. CASE RecoveryRuns(r)
      <3>1. [order |-> recovery[r].order, sku |-> recovery[r].sku, sub |-> None]
              \in Targets
        BY <2>2 DEF RecoveriesAreSound, RecoveryIsSound, RecoveryRuns, Targets,
                    MaybeSub
      <3> QED
        BY <2>1, <2>2, <3>1 DEF RecoveryRuns, CoordNext
    <2>3. CASE RecoveryResumes(r)
      BY <2>1, <2>3 DEF RecoveryResumes, CoordNext
    <2> QED
      BY <1>3, <2>2, <2>3
      DEF RecoveryStep, Recover, RecoveryLoadFails, NotifySettles
  <1>4. CASE \E o \in Orders : ServerAnswers(o) \/ ForgetAttempt(o)
    BY <1>4 DEF ServerAnswers, ForgetAttempt, CoordNext
  <1>5. CASE UNCHANGED vars
    BY <1>5 DEF vars
  <1> QED
    BY <1>1, <1>2, <1>3, <1>4, <1>5 DEF Next

LEMMA CoordKept ==
  ASSUME IapIInv, [Next]_vars
  PROVE  CoordIInv' /\ Grow(granted, granted')
  <1>1. [CoordNext]_coordVars
    BY CoordPart
  <1>2. Grow(granted, granted')
    BY <1>1, StepKeepsGrants DEF IapIInv, Grow, IsGranted
  <1> QED
    BY <1>1, <1>2, CoordNextIInv DEF IapIInv

(* A call of run() is answered or waits; it asks for its target.           *)
LEMMA RunCall ==
  ASSUME CoordTypeOK, NEW c \in Callers, NEW t \in Targets, Run(c, t)
  PROVE  /\ call'[c].phase \in {"waiting", "settled"}
         /\ call'[c].order = t.order
         /\ call'[c].sku = t.sku
         /\ \A d \in Callers \ {c} : call'[d] = call[d]
         /\ granted' = granted
  BY DEF CoordTypeOK, Run, Join, RefuseConflict, Reuse, Attempt, Dispatch, CallFor

LEMMA ContinueCall ==
  ASSUME CoordTypeOK, NEW c \in Callers, Continue(c)
  PROVE  /\ call'[c].phase = "done"
         /\ call'[c].verdict = call[c].verdict
         /\ call'[c].sku = call[c].sku
         /\ \A d \in Callers \ {c} : call'[d] = call[d]
         /\ granted' = granted
  BY DEF CoordTypeOK, CallType, Continue

(* What a confirmed call was granted.                                      *)
LEMMA OkCallIsGranted ==
  ASSUME CoordIInv, NEW c \in Callers, call[c].phase = "settled",
         call[c].verdict = "ok"
  PROVE  GrantedFor(granted, call[c].order, call[c].sku, call[c].sub)
  BY DEF CoordIInv, Named, OkMeansGranted, IsGranted, GrantedFor

(* An attempt that settles or is forgotten resumes its waiters, which are  *)
(* neither idle nor done.                                                  *)
LEMMA AttemptCalls ==
  ASSUME CoordIInv, NEW o \in Orders,
         GrantResolves(o) \/ GrantRejects(o) \/ Release(o)
  PROVE  \A c \in Callers :
            /\ call'[c].order = call[c].order
            /\ call'[c].sku = call[c].sku
            /\ call[c].phase \in {"idle", "done"} => call'[c] = call[c]
            /\ call[c].phase \notin {"idle", "done"} =>
                  call'[c].phase \notin {"idle", "done"}
  <1>1. ASSUME NEW v \in {"ok", "failed"}, call' = Resume(o, v)
        PROVE  \A c \in Callers :
            /\ call'[c].order = call[c].order
            /\ call'[c].sku = call[c].sku
            /\ call[c].phase \in {"idle", "done"} => call'[c] = call[c]
            /\ call[c].phase \notin {"idle", "done"} =>
                  call'[c].phase \notin {"idle", "done"}
    <2>1. \A c \in inFlight[o].waiters : call[c].phase \notin {"idle", "done"}
      BY DEF CoordIInv, Waiters
    <2> QED
      BY <1>1, <2>1, ResumeFields DEF CoordIInv
  <1>2. CASE Release(o)
    BY <1>2 DEF Release
  <1> QED
    BY <1>1, <1>2 DEF GrantResolves, GrantRejects

-----------------------------------------------------------------------------
(***************************************************************************)
(* The inductive step, action by action.                                   *)
(***************************************************************************)
LEMMA IapInit == Init => IapIInv
  <1> SUFFICES ASSUME Init PROVE IapIInv
    OBVIOUS
  <1> USE DEF Init
  <1>1. CoordIInv
    BY CoordInitIInv
  <1>2. FreshFlow \in FlowType /\ \A k : FlowIsSound(granted, FreshFlow, k)
    BY NoResultIsSound
    DEF FreshFlow, FlowType, FlowIsSound, Settled, MaybeOrder, MaybeSub
  <1>3. FreshRecovery \in RecoveryType
    BY DEF FreshRecovery, RecoveryType, MaybeOrder
  <1>4. TypeOK
    BY <1>1, <1>2, <1>3, NoResultIsSound DEF TypeOK, CoordIInv
  <1>5. FlowsAreSound
    BY <1>2 DEF FlowsAreSound
  <1>6. \A c \in Callers : call[c].phase = "idle"
    BY DEF CoordInit, IdleCall
  <1>7. SlotCallsAreSeen
    BY <1>6, CallerAssumption DEF SlotCallsAreSeen
  <1>8. AnswersAreSound
    BY DEF AnswersAreSound, FreshFlow, NoResult, Result
  <1>9. RecoveriesAreSound
    BY <1>6, CallerAssumption
    DEF RecoveriesAreSound, RecoveryIsSound, FreshRecovery
  <1> QED
    BY <1>1, <1>4, <1>5, <1>7, <1>8, <1>9 DEF IapIInv

(* A step that changes one flow, keeps what it has observed and failed     *)
(* with, and is not its end.                                               *)
LEMMA FlowChanges ==
  ASSUME IapIInv, NEW f \in Flows, NEW new \in FlowType,
         flow' = [flow EXCEPT ![f] = new],
         UNCHANGED <<coordVars, result, recovery, notified>>,
         FlowIsSound(granted, new, SkuOf[f]),
         new.observed = flow[f].observed,
         new.failure = flow[f].failure,
         Registered(f) => new.stage \in {"registering", "open", "returned"},
         new.stage \in {"returned", "refused"}
            <=> flow[f].stage \in {"returned", "refused"},
         flow[f].stage = "returned" =>
            new.stage = "returned" /\ new.outcome = flow[f].outcome
  PROVE  IapIInv'
  <1> USE DEF IapIInv, coordVars
  <1>1. /\ flow'[f] = new
        /\ \A g \in Flows \ {f} : flow'[g] = flow[g]
    BY DEF TypeOK
  <1>2. CoordIInv'
    BY CoordStutterIInv
  <1>3. TypeOK'
    BY <1>2 DEF TypeOK, CoordIInv
  <1>4. FlowsAreSound'
    BY <1>1 DEF FlowsAreSound
  <1>5. SlotCallsAreSeen'
    BY <1>1, CallerAssumption DEF SlotCallsAreSeen, Registered
  <1>6. AnswersAreSound'
    BY <1>1 DEF AnswersAreSound, FlowType
  <1>7. RecoveriesAreSound'
    BY DEF RecoveriesAreSound, RecoveryIsSound, IsGranted
  <1> QED
    BY <1>2, <1>3, <1>4, <1>5, <1>6, <1>7

(* A purchase, its deadline, its loader and the end of its startOrder.     *)
LEMMA StageKeeps ==
  ASSUME IapIInv, NEW f \in Flows,
         \/ Purchase(f)
         \/ LoadResolves(f) /\ ~flow[f].overdue
         \/ StartOrderReturns(f)
  PROVE  IapIInv'
  <1>1. /\ flow[f] \in FlowType
        /\ FlowIsSound(granted, flow[f], SkuOf[f])
    BY DEF IapIInv, TypeOK, FlowsAreSound
  <1>2. PICK stage \in {"loading", "registering", "open"} :
          /\ flow' = [flow EXCEPT ![f].stage = stage]
          /\ stage = "loading" => flow[f].stage = "idle"
          /\ stage = "registering" => flow[f].stage = "loading"
          /\ stage = "open" => flow[f].stage = "registering"
    BY DEF Purchase, LoadResolves, StartOrderReturns
  <1> DEFINE new == [flow[f] EXCEPT !.stage = stage]
  <1>3. /\ new \in FlowType
        /\ new.stage = stage
        /\ new.observed = flow[f].observed
        /\ new.failure = flow[f].failure
    BY <1>1 DEF FlowType
  <1>4. FlowIsSound(granted, new, SkuOf[f])
    BY <1>1, <1>2 DEF FlowType, FlowIsSound, Settled
  <1>5. flow' = [flow EXCEPT ![f] = new]
    BY <1>2 DEF IapIInv, TypeOK
  <1>6. UNCHANGED <<coordVars, result, recovery, notified>>
    BY <1>2, <1>1 DEF Purchase, LoadResolves, StartOrderReturns, Refuse
  <1> HIDE DEF new
  <1> QED
    BY <1>2, <1>3, <1>4, <1>5, <1>6, FlowChanges DEF Registered

LEMMA DeadlinePassesKeeps ==
  ASSUME IapIInv, NEW f \in Flows, DeadlinePasses(f)
  PROVE  IapIInv'
  <1>1. /\ flow[f] \in FlowType
        /\ FlowIsSound(granted, flow[f], SkuOf[f])
    BY DEF IapIInv, TypeOK, FlowsAreSound
  <1> DEFINE new == [flow[f] EXCEPT !.overdue = TRUE]
  <1>2. /\ new \in FlowType
        /\ new.stage = flow[f].stage
        /\ new.observed = flow[f].observed
        /\ new.failure = flow[f].failure
        /\ new.outcome = flow[f].outcome
    BY <1>1 DEF FlowType
  <1>3. FlowIsSound(granted, new, SkuOf[f])
    BY <1>1 DEF FlowType, FlowIsSound, Settled
  <1>4. flow' = [flow EXCEPT ![f] = new]
    BY DEF IapIInv, TypeOK, DeadlinePasses
  <1> HIDE DEF new
  <1> QED
    BY <1>2, <1>3, <1>4, FlowChanges DEF DeadlinePasses, Registered

(* What the platform or a timer emits.                                     *)
LEMMA EmittingKeeps ==
  ASSUME IapIInv, NEW f \in Flows, Registered(f), NEW fl \in FlowType,
         FlowIsSound(granted, fl, SkuOf[f]),
         fl = [flow[f] EXCEPT !.stashed = fl.stashed],
         Settled(flow[f]) => fl = flow[f],
         NEW out \in Results, ResultIsSound(granted, out, fl.stashed, SkuOf[f]),
         flow' = [flow EXCEPT ![f] = Emit(fl, out)],
         UNCHANGED <<coordVars, result, recovery, notified>>
  PROVE  IapIInv'
  <1> DEFINE new == Emit(fl, out)
  <1>1. flow[f] \in FlowType /\ FlowIsSound(granted, flow[f], SkuOf[f])
    BY DEF IapIInv, TypeOK, FlowsAreSound
  <1>2. /\ fl.stage = flow[f].stage
        /\ fl.observed = flow[f].observed
        /\ fl.failure = flow[f].failure
        /\ fl.outcome = flow[f].outcome
    BY <1>1 DEF FlowType
  <1>3. /\ new \in FlowType
        /\ FlowIsSound(granted, new, SkuOf[f])
        /\ new = [fl EXCEPT !.outcome = new.outcome]
        /\ Settled(fl) => new = fl
    BY <1>2, EmitIsSound DEF Registered
  <1> HIDE DEF new
  <1>4. /\ new.stage = flow[f].stage
        /\ new.observed = flow[f].observed
        /\ new.failure = flow[f].failure
    BY <1>2, <1>3 DEF FlowType
  <1>5. flow[f].stage = "returned" => new.outcome = flow[f].outcome
    BY <1>1, <1>2, <1>3 DEF FlowIsSound
  <1>6. flow' = [flow EXCEPT ![f] = new]
    BY DEF new
  <1> QED
    BY <1>3, <1>4, <1>5, <1>6, FlowChanges DEF Registered

LEMMA PlatformSuccessKeeps ==
  ASSUME IapIInv, NEW f \in Flows, NEW o \in Orders, PlatformSuccess(f, o)
  PROVE  IapIInv'
  <1> DEFINE fl == Stash(flow[f], o)
  <1>1. flow[f] \in FlowType /\ FlowIsSound(granted, flow[f], SkuOf[f])
    BY DEF IapIInv, TypeOK, FlowsAreSound
  <1>2. /\ fl \in FlowType
        /\ FlowIsSound(granted, fl, SkuOf[f])
        /\ fl = [flow[f] EXCEPT !.stashed = fl.stashed]
        /\ Settled(flow[f]) => fl = flow[f]
    BY <1>1, StashIsSound DEF PlatformSuccess, Registered
  <1>3. /\ Registered(f)
        /\ flow' = [flow EXCEPT ![f] = Emit(fl, Evaluate(fl))]
        /\ UNCHANGED <<coordVars, result, recovery, notified>>
    BY DEF PlatformSuccess
  <1> HIDE DEF fl
  <1>4. /\ Evaluate(fl) \in Results
        /\ ResultIsSound(granted, Evaluate(fl), fl.stashed, SkuOf[f])
    BY <1>2, EvaluateIsSound DEF FlowIsSound
  <1> QED
    BY <1>2, <1>3, <1>4, EmittingKeeps

LEMMA PlatformErrorKeeps ==
  ASSUME IapIInv, NEW f \in Flows, NEW canceled \in BOOLEAN,
         PlatformError(f, canceled)
  PROVE  IapIInv'
  <1> DEFINE fl == flow[f]
             out == ReduceError(fl, canceled)
  <1>1. fl \in FlowType /\ FlowIsSound(granted, fl, SkuOf[f])
    BY DEF IapIInv, TypeOK, FlowsAreSound
  <1>2. out \in Results /\ ResultIsSound(granted, out, fl.stashed, SkuOf[f])
    BY <1>1, ReduceErrorIsSound DEF FlowIsSound
  <1>3. fl = [fl EXCEPT !.stashed = fl.stashed]
    BY <1>1 DEF FlowType
  <1> QED
    BY <1>1, <1>2, <1>3, EmittingKeeps DEF PlatformError

LEMMA FlowTimeoutKeeps ==
  ASSUME IapIInv, NEW f \in Flows, FlowTimeout(f)
  PROVE  IapIInv'
  <1> DEFINE fl == flow[f]
             out == UnknownResult(fl)
  <1>1. fl \in FlowType /\ FlowIsSound(granted, fl, SkuOf[f])
    BY DEF IapIInv, TypeOK, FlowsAreSound
  <1>2. out \in Results /\ ResultIsSound(granted, out, fl.stashed, SkuOf[f])
    BY <1>1, UnknownIsSound
  <1>3. fl = [fl EXCEPT !.stashed = fl.stashed]
    BY <1>1 DEF FlowType
  <1> QED
    BY <1>1, <1>2, <1>3, EmittingKeeps DEF FlowTimeout, Registered

LEMMA StartOrderThrowsKeeps ==
  ASSUME IapIInv, NEW f \in Flows, StartOrderThrows(f)
  PROVE  IapIInv'
  <1> DEFINE out == Result("rejected", None, None)
             fl == Emit(flow[f], out)
             new == [fl EXCEPT !.stage = "open"]
  <1>1. /\ flow[f] \in FlowType
        /\ FlowIsSound(granted, flow[f], SkuOf[f])
        /\ flow[f].stage = "registering"
    BY DEF IapIInv, TypeOK, FlowsAreSound, StartOrderThrows
  <1>2. out \in Results /\ \A o, k : ResultIsSound(granted, out, o, k)
    BY DEF Result, Results, ResultIsSound, MaybeOrder, MaybeSub
  <1>3. /\ fl \in FlowType
        /\ FlowIsSound(granted, fl, SkuOf[f])
        /\ fl = [flow[f] EXCEPT !.outcome = fl.outcome]
    BY <1>1, <1>2, EmitIsSound
  <1>4. flow' = [flow EXCEPT ![f] = new]
    BY DEF StartOrderThrows
  <1> HIDE DEF fl, out
  <1>5. /\ new \in FlowType
        /\ new.stage = "open"
        /\ new.observed = flow[f].observed
        /\ new.failure = flow[f].failure
    BY <1>1, <1>3 DEF FlowType
  <1>6. FlowIsSound(granted, new, SkuOf[f])
    BY <1>1, <1>3 DEF FlowType, FlowIsSound, Settled
  <1>7. UNCHANGED <<coordVars, result, recovery, notified>>
    BY DEF StartOrderThrows
  <1> HIDE DEF new
  <1> QED
    BY <1>1, <1>4, <1>5, <1>6, <1>7, FlowChanges

(* A purchase call that answers: refused while it loads, or after its flow *)
(* has settled.                                                            *)
LEMMA AnswerKeeps ==
  ASSUME IapIInv, NEW f \in Flows, NEW res \in Results,
         NEW stage \in {"refused", "returned"},
         IF stage = "refused" THEN flow[f].stage = "loading"
                              ELSE flow[f].stage = "open" /\ Settled(flow[f]),
         res.status # "none",
         res.status = "completed" =>
            stage = "returned" /\ res = flow[f].outcome,
         flow' = [flow EXCEPT ![f].stage = stage],
         result' = [result EXCEPT ![f] = res],
         UNCHANGED <<coordVars, recovery, notified>>
  PROVE  IapIInv'
  <1> USE DEF IapIInv, coordVars
  <1>1. /\ flow'[f] = [flow[f] EXCEPT !.stage = stage]
        /\ \A g \in Flows \ {f} : flow'[g] = flow[g] /\ result'[g] = result[g]
        /\ result'[f] = res
        /\ flow[f] \in FlowType
    BY DEF TypeOK
  <1>2. /\ flow'[f] \in FlowType
        /\ flow'[f].stage = stage
        /\ flow'[f].observed = flow[f].observed
        /\ flow'[f].failure = flow[f].failure
        /\ flow'[f].outcome = flow[f].outcome
    BY <1>1 DEF FlowType
  <1>3. FlowIsSound(granted, flow'[f], SkuOf[f])
    BY <1>1, <1>2 DEF FlowsAreSound, FlowIsSound, FlowType, Settled
  <1>4. CoordIInv'
    BY CoordStutterIInv
  <1>5. TypeOK'
    BY <1>2, <1>4 DEF TypeOK, CoordIInv
  <1>6. FlowsAreSound'
    BY <1>1, <1>3 DEF FlowsAreSound
  <1>7. SlotCallsAreSeen'
    BY <1>1, <1>2, CallerAssumption DEF SlotCallsAreSeen, Registered
  <1>8. AnswersAreSound'
    BY <1>1, <1>2 DEF AnswersAreSound, NoResult, Result
  <1>9. RecoveriesAreSound'
    BY DEF RecoveriesAreSound, RecoveryIsSound, IsGranted
  <1> QED
    BY <1>4, <1>5, <1>6, <1>7, <1>8, <1>9

LEMMA RefuseKeeps ==
  ASSUME IapIInv, NEW f \in Flows, flow[f].stage = "loading",
         NEW status \in {"unknown", "rejected"},
         Refuse(f, Result(status, None, None))
  PROVE  IapIInv'
  <1> DEFINE res == Result(status, None, None)
  <1>1. /\ res \in Results
        /\ res.status \notin {"none", "completed"}
    BY DEF Result, Results, MaybeOrder, MaybeSub
  <1> HIDE DEF res
  <1>2. /\ flow' = [flow EXCEPT ![f].stage = "refused"]
        /\ result' = [result EXCEPT ![f] = res]
        /\ UNCHANGED <<coordVars, recovery, notified>>
    BY DEF Refuse, res
  <1> QED
    BY <1>1, <1>2, AnswerKeeps

(* What a call answers: its flow's outcome, or unknown.                    *)
LEMMA ReturnedResult ==
  ASSUME IapIInv, NEW f \in Flows, Return(f)
  PROVE  \E res \in Results :
            /\ result' = [result EXCEPT ![f] = res]
            /\ res.status # "none"
            /\ res = flow[f].outcome \/ res.status = "unknown"
  <1> DEFINE out == flow[f].outcome
  <1>1. /\ out \in Results
        /\ out # NoResult /\ (out.status = "none" => out = NoResult)
    BY DEF IapIInv, TypeOK, FlowsAreSound, FlowIsSound, ResultIsSound, FlowType,
           Return, Settled
  <1>2. AfterDeadline(out) \in Results /\ AfterDeadline(out).status = "unknown"
    BY <1>1 DEF AfterDeadline, Result, Results
  <1> HIDE DEF out
  <1>3. \/ result' = [result EXCEPT ![f] = out]
        \/ result' = [result EXCEPT ![f] = AfterDeadline(out)]
    BY DEF Return, out
  <1> QED
    BY <1>1, <1>2, <1>3 DEF out

LEMMA ReturnKeeps ==
  ASSUME IapIInv, NEW f \in Flows, Return(f)
  PROVE  IapIInv'
  <1>1. PICK res \in Results :
            /\ result' = [result EXCEPT ![f] = res]
            /\ res.status # "none"
            /\ res = flow[f].outcome \/ res.status = "unknown"
    BY ReturnedResult
  <1>2. /\ flow[f].stage = "open" /\ Settled(flow[f])
        /\ flow' = [flow EXCEPT ![f].stage = "returned"]
        /\ UNCHANGED <<coordVars, recovery, notified>>
    BY DEF Return
  <1> QED
    BY <1>1, <1>2, AnswerKeeps

LEMMA PurchaseStepKeeps ==
  ASSUME IapIInv, NEW f \in Flows, PurchaseStep(f)
  PROVE  IapIInv'
  <1>1. CASE Purchase(f) \/ StartOrderReturns(f)
    BY <1>1, StageKeeps
  <1>2. CASE LoadResolves(f) \/ LoadFails(f) \/ LoadTimeout(f)
    BY <1>2, StageKeeps, RefuseKeeps DEF LoadResolves, LoadFails, LoadTimeout
  <1> QED
    BY <1>1, <1>2, DeadlinePassesKeeps, StartOrderThrowsKeeps,
       PlatformSuccessKeeps, PlatformErrorKeeps, FlowTimeoutKeeps, ReturnKeeps
    DEF PurchaseStep

(* A slot call: the flow has observed its order before the grant is known. *)
LEMMA SlotCallKeeps ==
  ASSUME IapIInv, NEW c \in SlotCalls, NEW o \in Orders, NEW s \in MaybeSub,
         SlotCall(c, o, s), [Next]_vars
  PROVE  IapIInv'
  <1> DEFINE f == FlowOf[c]
             t == [order |-> o, sku |-> SkuOf[f], sub |-> s]
  <1> USE DEF IapIInv
  <1>1. /\ c \in Callers /\ f \in Flows /\ t \in Targets
        /\ c \notin Recoveries
    BY CallerAssumption DEF Targets
  <1>2. /\ Run(c, t)
        /\ Registered(f)
        /\ UNCHANGED <<result, recovery, notified>>
    BY DEF SlotCall
  <1>3. /\ flow'[f] = [flow[f] EXCEPT !.observed = o, !.observedSub = s]
        /\ \A g \in Flows \ {f} : flow'[g] = flow[g]
        /\ DOMAIN flow' = Flows
        /\ flow' = [g \in Flows |-> flow'[g]]
        /\ flow[f] \in FlowType
    BY <1>1 DEF TypeOK, SlotCall
  <1>4. /\ call'[c].phase \in {"waiting", "settled"}
        /\ call'[c].sku = SkuOf[f]
        /\ \A d \in Callers \ {c} : call'[d] = call[d]
        /\ granted' = granted
    BY <1>1, <1>2, RunCall DEF CoordIInv
  <1>5. /\ flow'[f] \in FlowType
        /\ flow'[f].stage = flow[f].stage
        /\ flow'[f].observed = o
        /\ flow'[f].failure = flow[f].failure
        /\ flow'[f].outcome = flow[f].outcome
    BY <1>3 DEF FlowType, MaybeOrder
  <1>6. o # None
    BY NoneAssumption
  <1>7. CoordIInv'
    BY CoordKept
  <1>8. TypeOK'
    BY <1>2, <1>3, <1>5, <1>7 DEF TypeOK, CoordIInv
  <1>9. FlowIsSound(granted, flow'[f], SkuOf[f])
    BY <1>1, <1>2, <1>3
    DEF FlowsAreSound, FlowIsSound, FlowType, Settled, Registered
  <1>10. FlowsAreSound'
    BY <1>3, <1>4, <1>9 DEF FlowsAreSound
  <1>11. \A g \in Flows :
            /\ flow'[g].stage = flow[g].stage
            /\ flow'[g].failure = flow[g].failure
            /\ flow'[g].outcome = flow[g].outcome
            /\ flow[g].observed # None => flow'[g].observed # None
    BY <1>3, <1>5, <1>6
  <1>12. SlotCallsAreSeen'
    <2>1. \A d \in SlotCalls : d \in Callers /\ FlowOf[d] \in Flows
      BY CallerAssumption
    <2>2. flow'[FlowOf[c]].observed # None
      BY <1>5, <1>6
    <2> QED
      BY <1>2, <1>4, <1>11, <2>1, <2>2 DEF SlotCallsAreSeen, Registered
  <1>13. AnswersAreSound'
    BY <1>2, <1>11 DEF AnswersAreSound
  <1>14. RecoveriesAreSound'
    <2>1. \A r \in Recoveries : call'[r] = call[r]
      BY <1>1, <1>4, CallerAssumption
    <2> QED
      BY <1>2, <1>4, <2>1 DEF RecoveriesAreSound, RecoveryIsSound, IsGranted
  <1> QED
    BY <1>7, <1>8, <1>10, <1>12, <1>13, <1>14

(* What the flow remembers of a grant, and what that makes of it.          *)
Seen(fl, k) == IF k.verdict = "ok" THEN Confirm(fl, k) ELSE FailGrant(fl, k)

LEMMA SeenIsSound ==
  ASSUME NEW g, NEW fl \in FlowType, NEW sku, NEW k \in CallType,
         fl.stage \in {"registering", "open", "returned"},
         FlowIsSound(g, fl, sku), k.order \in Orders,
         k.verdict = "ok" => GrantedFor(g, k.order, sku, k.sub)
  PROVE  /\ Seen(fl, k) \in FlowType
         /\ FlowIsSound(g, Seen(fl, k), sku)
         /\ Seen(fl, k).stage = fl.stage
         /\ Seen(fl, k).observed = fl.observed
         /\ Seen(fl, k).outcome = fl.outcome
         /\ fl.failure # None \/ k.verdict # "ok" => Seen(fl, k).failure # None
  <1>1. k.order # None
    BY NoneAssumption
  <1>2. CASE k.verdict = "ok"
    <2>1. Seen(fl, k) = Confirm(fl, k)
      BY <1>2 DEF Seen
    <2>2. Confirm(fl, k) \in FlowType
      BY DEF Confirm, FlowType, CallType, MaybeOrder, MaybeSub
    <2>3. /\ Confirm(fl, k).stage = fl.stage
          /\ Confirm(fl, k).observed = fl.observed
          /\ Confirm(fl, k).outcome = fl.outcome
          /\ Confirm(fl, k).stashed = fl.stashed
          /\ Confirm(fl, k).failure = fl.failure
          /\ Confirm(fl, k).confirmed = k.order
          /\ Confirm(fl, k).confirmedSub = k.sub
      BY DEF Confirm, FlowType
    <2> QED
      BY <1>2, <2>1, <2>2, <2>3 DEF FlowIsSound, Settled
  <1>3. CASE k.verdict # "ok"
    <2>1. Seen(fl, k) = FailGrant(fl, k)
      BY <1>3 DEF Seen
    <2>2. FailGrant(fl, k) \in FlowType
      BY DEF FailGrant, FlowType, MaybeOrder
    <2>3. /\ FailGrant(fl, k).stage = fl.stage
          /\ FailGrant(fl, k).observed = fl.observed
          /\ FailGrant(fl, k).outcome = fl.outcome
          /\ FailGrant(fl, k).stashed = fl.stashed
          /\ FailGrant(fl, k).failure = k.order
          /\ FailGrant(fl, k).confirmed = fl.confirmed
          /\ FailGrant(fl, k).confirmedSub = fl.confirmedSub
      BY DEF FailGrant, FlowType
    <2> QED
      BY <1>1, <2>1, <2>2, <2>3 DEF FlowIsSound, Settled
  <1> QED
    BY <1>2, <1>3

LEMMA GrantSettledIsSound ==
  ASSUME NEW g, NEW fl \in FlowType, NEW sku, NEW k \in CallType,
         fl.stage \in {"registering", "open", "returned"},
         FlowIsSound(g, fl, sku), k.order \in Orders,
         k.verdict = "ok" => GrantedFor(g, k.order, sku, k.sub)
  PROVE  /\ GrantSettled(fl, k) \in FlowType
         /\ FlowIsSound(g, GrantSettled(fl, k), sku)
         /\ GrantSettled(fl, k).stage = fl.stage
         /\ GrantSettled(fl, k).observed = fl.observed
         /\ Settled(fl) => GrantSettled(fl, k).outcome = fl.outcome
         /\ ~Settled(fl) => GrantSettled(fl, k).outcome = Evaluate(Seen(fl, k))
         /\ GrantSettled(fl, k).failure = Seen(fl, k).failure
  <1> DEFINE seen == Seen(fl, k)
             new == Emit(seen, Evaluate(seen))
  <1>1. GrantSettled(fl, k) = new
    BY DEF GrantSettled, Seen
  <1>2. /\ seen \in FlowType
        /\ FlowIsSound(g, seen, sku)
        /\ seen.stage = fl.stage
        /\ seen.observed = fl.observed
        /\ seen.outcome = fl.outcome
    BY SeenIsSound
  <1> HIDE DEF seen
  <1>3. Evaluate(seen) \in Results /\ ResultIsSound(g, Evaluate(seen), seen.stashed, sku)
    BY <1>2, EvaluateIsSound DEF FlowIsSound
  <1>4. /\ new \in FlowType
        /\ FlowIsSound(g, new, sku)
        /\ new = [seen EXCEPT !.outcome = new.outcome]
        /\ Settled(seen) => new = seen
        /\ ~Settled(seen) => new.outcome = Evaluate(seen)
    BY <1>2, <1>3, EmitIsSound
  <1>5. Settled(seen) <=> Settled(fl)
    BY <1>2 DEF Settled
  <1> HIDE DEF new
  <1>6. /\ new.stage = seen.stage
        /\ new.observed = seen.observed
        /\ new.failure = seen.failure
    BY <1>2, <1>4 DEF FlowType
  <1> QED
    BY <1>1, <1>2, <1>4, <1>5, <1>6 DEF seen

(* A slot call that resumes tells its flow the verdict.                    *)
LEMMA SlotResumesKeeps ==
  ASSUME IapIInv, NEW c \in SlotCalls, SlotResumes(c), [Next]_vars
  PROVE  IapIInv'
  <1> DEFINE f == FlowOf[c]
             new == GrantSettled(flow[f], call[c])
  <1> USE DEF IapIInv
  <1>1. /\ c \in Callers /\ f \in Flows
        /\ c \notin Recoveries
    BY CallerAssumption
  <1>2. /\ Continue(c)
        /\ call[c].phase = "settled"
        /\ flow' = [flow EXCEPT ![f] = new]
        /\ UNCHANGED <<result, recovery, notified>>
    BY DEF SlotResumes, Continue
  <1>3. /\ call[c] \in CallType
        /\ call[c].order \in Orders
        /\ call[c].sku = SkuOf[f]
        /\ flow[f] \in FlowType
        /\ flow[f].stage \in {"registering", "open", "returned"}
        /\ FlowIsSound(granted, flow[f], SkuOf[f])
    BY <1>1, <1>2
    DEF TypeOK, CoordTypeOK, CoordIInv, Named, SlotCallsAreSeen, Registered,
        FlowsAreSound
  <1>4. call[c].verdict = "ok" =>
          GrantedFor(granted, call[c].order, SkuOf[f], call[c].sub)
    BY <1>1, <1>2, <1>3, OkCallIsGranted
  <1>5. /\ new \in FlowType
        /\ FlowIsSound(granted, new, SkuOf[f])
        /\ new.stage = flow[f].stage
        /\ new.observed = flow[f].observed
        /\ Settled(flow[f]) => new.outcome = flow[f].outcome
        /\ new.failure = Seen(flow[f], call[c]).failure
    BY <1>3, <1>4, GrantSettledIsSound
  <1>6. flow[f].failure # None \/ call[c].verdict # "ok" => new.failure # None
    BY <1>3, <1>4, <1>5, SeenIsSound
  <1>7. /\ call'[c].phase = "done"
        /\ call'[c].verdict = call[c].verdict
        /\ call'[c].sku = call[c].sku
        /\ \A d \in Callers \ {c} : call'[d] = call[d]
        /\ granted' = granted
    BY <1>1, <1>2, ContinueCall DEF TypeOK
  <1> HIDE DEF new
  <1>8. /\ flow'[f] = new
        /\ \A g \in Flows \ {f} : flow'[g] = flow[g]
    BY <1>1, <1>2 DEF TypeOK
  <1>9. CoordIInv'
    BY CoordKept
  <1>10. TypeOK'
    BY <1>1, <1>2, <1>5, <1>9 DEF TypeOK, CoordIInv
  <1>11. FlowsAreSound'
    BY <1>5, <1>7, <1>8 DEF FlowsAreSound
  <1>12. \A g \in Flows :
            /\ flow'[g].stage = flow[g].stage
            /\ flow'[g].observed = flow[g].observed
            /\ flow[g].failure # None => flow'[g].failure # None
            /\ Settled(flow[g]) => flow'[g].outcome = flow[g].outcome
    BY <1>5, <1>6, <1>8
  <1>13. SlotCallsAreSeen'
    <2>1. \A d \in SlotCalls : d \in Callers /\ FlowOf[d] \in Flows
      BY CallerAssumption
    <2>2. call[c].verdict # "ok" => flow'[FlowOf[c]].failure # None
      BY <1>6, <1>8
    <2> QED
      BY <1>2, <1>7, <1>12, <2>1, <2>2 DEF SlotCallsAreSeen, Registered
  <1>14. AnswersAreSound'
    BY <1>2, <1>12 DEF AnswersAreSound, FlowsAreSound, FlowIsSound
  <1>15. RecoveriesAreSound'
    <2>1. \A r \in Recoveries : call'[r] = call[r]
      BY <1>1, <1>7, CallerAssumption
    <2> QED
      BY <1>2, <1>7, <2>1 DEF RecoveriesAreSound, RecoveryIsSound, IsGranted
  <1> QED
    BY <1>9, <1>10, <1>11, <1>13, <1>14, <1>15

(* A step of a recovery: it changes at most its own call, and the orders   *)
(* it notifies are granted.                                                *)
LEMMA RecoveryChanges ==
  ASSUME IapIInv, [Next]_vars, NEW r \in Recoveries, NEW rec \in RecoveryType,
         recovery' = [recovery EXCEPT ![r] = rec],
         UNCHANGED <<flow, result, granted>>,
         \A c \in Callers \ {r} : call'[c] = call[c],
         notified \subseteq notified', notified' \subseteq Orders,
         \A o \in notified' : IsGranted(o),
         RecoveryIsSound(r)'
  PROVE  IapIInv'
  <1> USE DEF IapIInv
  <1>1. /\ recovery'[r] = rec
        /\ \A q \in Recoveries \ {r} : recovery'[q] = recovery[q]
    BY DEF TypeOK
  <1>2. CoordIInv'
    BY CoordKept
  <1>3. TypeOK'
    BY <1>2 DEF TypeOK, CoordIInv
  <1>4. FlowsAreSound'
    BY DEF FlowsAreSound
  <1>5. \A c \in SlotCalls : call'[c] = call[c]
    BY CallerAssumption
  <1>6. SlotCallsAreSeen'
    BY <1>5 DEF SlotCallsAreSeen, Registered
  <1>7. AnswersAreSound'
    BY DEF AnswersAreSound
  <1>8. RecoveriesAreSound'
    <2>1. ASSUME NEW q \in Recoveries, q # r
          PROVE  RecoveryIsSound(q)'
      <3>1. call'[q] = call[q] /\ recovery'[q] = recovery[q]
        BY <1>1, <2>1, CallerAssumption
      <3> QED
        BY <3>1 DEF RecoveriesAreSound, RecoveryIsSound
    <2> QED
      BY <2>1 DEF RecoveriesAreSound, IsGranted
  <1> QED
    BY <1>2, <1>3, <1>4, <1>6, <1>7, <1>8

LEMMA RecoverKeeps ==
  ASSUME IapIInv, [Next]_vars, NEW r \in Recoveries, NEW o \in Orders,
         NEW k \in Skus, Recover(r, o, k)
  PROVE  IapIInv'
  <1> DEFINE rec == [stage |-> "loading", order |-> o, sku |-> k,
                     status |-> "none"]
  <1>1. rec \in RecoveryType
    BY DEF RecoveryType, MaybeOrder
  <1>2. /\ recovery' = [recovery EXCEPT ![r] = rec]
        /\ UNCHANGED <<coordVars, flow, result, notified>>
        /\ recovery[r].stage = "idle"
    BY DEF Recover
  <1>3. RecoveryIsSound(r)'
    <2>1. recovery'[r] = rec
      BY <1>2 DEF IapIInv, TypeOK
    <2> QED
      BY <1>2, <2>1
      DEF coordVars, IapIInv, RecoveriesAreSound, RecoveryIsSound
  <1> QED
    BY <1>1, <1>2, <1>3, RecoveryChanges
    DEF coordVars, IapIInv, TypeOK, RecoveriesAreSound

(* The end of a recovery that is not, or no longer, granting.              *)
LEMMA RecoveryEndKeeps ==
  ASSUME IapIInv, [Next]_vars, NEW r \in Recoveries,
         RecoveryLoadFails(r) \/ \E ok \in BOOLEAN : NotifySettles(r, ok)
  PROVE  IapIInv'
  <1>1. PICK status \in {"completed", "notify_failed", "rejected"} :
          /\ EndRecovery(r, status)
          /\ UNCHANGED <<coordVars, flow, result, notified>>
          /\ recovery[r].stage \in {"loading", "notifying"}
          /\ status # "rejected" => recovery[r].stage = "notifying"
    BY DEF RecoveryLoadFails, NotifySettles
  <1> DEFINE rec == [recovery[r] EXCEPT !.stage = "done", !.status = status]
  <1>2. /\ rec \in RecoveryType
        /\ rec.stage = "done" /\ rec.status = status
        /\ rec.order = recovery[r].order /\ rec.sku = recovery[r].sku
    BY DEF IapIInv, TypeOK, RecoveryType
  <1>3. /\ recovery' = [recovery EXCEPT ![r] = rec]
        /\ recovery'[r] = rec
    BY <1>1 DEF EndRecovery, IapIInv, TypeOK
  <1> HIDE DEF rec
  <1>4. RecoveryIsSound(r)'
    BY <1>1, <1>2, <1>3
    DEF coordVars, IapIInv, RecoveriesAreSound, RecoveryIsSound
  <1> QED
    BY <1>1, <1>2, <1>3, <1>4, RecoveryChanges
    DEF coordVars, IapIInv, TypeOK, RecoveriesAreSound

LEMMA RecoveryRunsKeeps ==
  ASSUME IapIInv, [Next]_vars, NEW r \in Recoveries, RecoveryRuns(r)
  PROVE  IapIInv'
  <1> DEFINE rec == [recovery[r] EXCEPT !.stage = "granting"]
             t == [order |-> recovery[r].order, sku |-> recovery[r].sku,
                   sub |-> None]
  <1> USE DEF IapIInv
  <1>1. /\ r \in Callers
        /\ Run(r, t)
        /\ recovery[r].stage = "loading"
        /\ UNCHANGED <<flow, result, notified>>
    BY CallerAssumption DEF RecoveryRuns
  <1>2. t \in Targets
    BY <1>1 DEF RecoveriesAreSound, RecoveryIsSound, Targets, MaybeSub
  <1>3. /\ call'[r].order = recovery[r].order
        /\ call'[r].sku = recovery[r].sku
        /\ \A d \in Callers \ {r} : call'[d] = call[d]
        /\ granted' = granted
    BY <1>1, <1>2, RunCall DEF TypeOK
  <1>4. /\ rec \in RecoveryType
        /\ rec.stage = "granting" /\ rec.status = recovery[r].status
        /\ rec.order = recovery[r].order /\ rec.sku = recovery[r].sku
    BY DEF TypeOK, RecoveryType
  <1>5. /\ recovery' = [recovery EXCEPT ![r] = rec]
        /\ recovery'[r] = rec
    BY DEF RecoveryRuns, TypeOK
  <1> HIDE DEF rec, t
  <1>6. RecoveryIsSound(r)'
    BY <1>1, <1>3, <1>4, <1>5 DEF RecoveriesAreSound, RecoveryIsSound
  <1> QED
    BY <1>1, <1>3, <1>4, <1>5, <1>6, RecoveryChanges
    DEF TypeOK, RecoveriesAreSound

(* A recovery notifies the platform of the order its call was granted.     *)
LEMMA RecoveryResumesKeeps ==
  ASSUME IapIInv, [Next]_vars, NEW r \in Recoveries, RecoveryResumes(r)
  PROVE  IapIInv'
  <1> DEFINE ok == call[r].verdict = "ok"
             rec == IF ok THEN [recovery[r] EXCEPT !.stage = "notifying"]
                          ELSE [recovery[r] EXCEPT !.stage = "done",
                                                   !.status = "grant_failed"]
  <1> USE DEF IapIInv
  <1>1. /\ r \in Callers
        /\ Continue(r)
        /\ call[r].phase = "settled"
        /\ recovery[r].stage = "granting"
        /\ UNCHANGED <<flow, result>>
        /\ IF ok THEN notified' = notified \cup {recovery[r].order}
                 ELSE UNCHANGED notified
    BY CallerAssumption DEF RecoveryResumes, Continue
  <1>2. /\ \A d \in Callers \ {r} : call'[d] = call[d]
        /\ granted' = granted
    BY <1>1, ContinueCall DEF TypeOK
  <1>3. /\ call[r].order = recovery[r].order
        /\ call[r].sku = recovery[r].sku
        /\ recovery[r].order \in Orders
        /\ recovery[r].sku \in Skus
        /\ recovery[r].status = "none"
    BY <1>1 DEF RecoveriesAreSound, RecoveryIsSound
  <1>4. ok => GrantedFor(granted, recovery[r].order, recovery[r].sku, None)
    BY <1>1, <1>3, OkCallIsGranted DEF GrantedFor
  <1>5. /\ rec \in RecoveryType
        /\ rec.stage = IF ok THEN "notifying" ELSE "done"
        /\ rec.status = IF ok THEN "none" ELSE "grant_failed"
        /\ rec.order = recovery[r].order /\ rec.sku = recovery[r].sku
    BY <1>3 DEF TypeOK, RecoveryType
  <1>6. /\ recovery' = [recovery EXCEPT ![r] = rec]
        /\ recovery'[r] = rec
    BY DEF RecoveryResumes, EndRecovery, TypeOK
  <1> HIDE DEF rec, ok
  <1>7. RecoveryIsSound(r)'
    BY <1>1, <1>2, <1>3, <1>4, <1>5, <1>6 DEF RecoveryIsSound
  <1>8. \A o \in notified' : IsGranted(o)
    BY <1>1, <1>3, <1>4 DEF RecoveriesAreSound, IsGranted, GrantedFor
  <1>9. notified \subseteq notified' /\ notified' \subseteq Orders
    BY <1>1, <1>3 DEF TypeOK
  <1> QED
    BY <1>1, <1>2, <1>5, <1>6, <1>7, <1>8, <1>9, RecoveryChanges

(* The coordinator's own turns: grants are added, never replaced.          *)
LEMMA AttemptKeeps ==
  ASSUME IapIInv, [Next]_vars, NEW o \in Orders,
         ServerAnswers(o) \/ ForgetAttempt(o)
  PROVE  IapIInv'
  <1> USE DEF IapIInv
  <1>1. /\ GrantResolves(o) \/ GrantRejects(o) \/ Release(o)
        /\ UNCHANGED iapVars
    BY DEF ServerAnswers, ForgetAttempt
  <1>2. CoordIInv' /\ Grow(granted, granted')
    BY CoordKept
  <1>3. /\ \A q, k, s : GrantedFor(granted, q, k, s) => GrantedFor(granted', q, k, s)
        /\ \A fl, k : FlowIsSound(granted, fl, k) => FlowIsSound(granted', fl, k)
    BY <1>2, SoundUnderMoreGrants
  <1>4. \A c \in Callers :
            /\ call'[c].order = call[c].order
            /\ call'[c].sku = call[c].sku
            /\ call[c].phase \in {"idle", "done"} => call'[c] = call[c]
            /\ call[c].phase \notin {"idle", "done"} =>
                  call'[c].phase \notin {"idle", "done"}
    BY <1>1, AttemptCalls
  <1>5. TypeOK'
    BY <1>1, <1>2 DEF TypeOK, CoordIInv, iapVars
  <1>6. FlowsAreSound'
    BY <1>1, <1>3 DEF FlowsAreSound, iapVars
  <1>7. SlotCallsAreSeen'
    BY <1>1, <1>4, CallerAssumption DEF SlotCallsAreSeen, Registered, iapVars
  <1>8. AnswersAreSound'
    BY <1>1 DEF AnswersAreSound, iapVars
  <1>9. RecoveriesAreSound'
    <2>1. \A q \in notified : IsGranted(q)'
      BY <1>2 DEF RecoveriesAreSound, IsGranted, Grow, TypeOK
    <2>2. \A r \in Recoveries : RecoveryIsSound(r)'
      BY <1>1, <1>3, <1>4, CallerAssumption
      DEF RecoveriesAreSound, RecoveryIsSound, iapVars
    <2> QED
      BY <1>1, <2>1, <2>2 DEF RecoveriesAreSound, iapVars
  <1> QED
    BY <1>2, <1>5, <1>6, <1>7, <1>8, <1>9

LEMMA IapStep == IapIInv /\ [Next]_vars => IapIInv'
  <1> SUFFICES ASSUME IapIInv, [Next]_vars PROVE IapIInv'
    OBVIOUS
  <1>1. ASSUME NEW f \in Flows, PurchaseStep(f) PROVE IapIInv'
    BY <1>1, PurchaseStepKeeps
  <1>2. ASSUME NEW c \in SlotCalls, SlotStep(c) PROVE IapIInv'
    BY <1>2, SlotCallKeeps, SlotResumesKeeps DEF SlotStep
  <1>3. ASSUME NEW r \in Recoveries, RecoveryStep(r) PROVE IapIInv'
    BY <1>3, RecoverKeeps, RecoveryEndKeeps, RecoveryRunsKeeps,
       RecoveryResumesKeeps
    DEF RecoveryStep
  <1>4. ASSUME NEW o \in Orders, ServerAnswers(o) \/ ForgetAttempt(o)
        PROVE  IapIInv'
    BY <1>4, AttemptKeeps
  <1>5. CASE UNCHANGED vars
    <2>1. CoordIInv'
      BY <1>5, CoordStutterIInv DEF IapIInv, vars
    <2> QED
      BY <1>5, <2>1
      DEF vars, iapVars, coordVars, IapIInv, TypeOK, CoordIInv, FlowsAreSound,
          SlotCallsAreSeen, Registered, AnswersAreSound, RecoveriesAreSound,
          RecoveryIsSound, IsGranted
  <1> QED
    BY <1>1, <1>2, <1>3, <1>4, <1>5 DEF Next

-----------------------------------------------------------------------------

(* Everything above holds in every reachable state of the adapter, for any *)
(* flows, slot calls, recoveries and orders.                               *)
THEOREM IapInvariant == Spec => []IapIInv
  BY IapInit, IapStep, PTL DEF Spec

(* The adapter's Maps, flows and recoveries always have their types.       *)
THEOREM IapTypeCorrect == Spec => []TypeOK
  <1>1. IapIInv => TypeOK
    BY DEF IapIInv
  <1> QED
    BY <1>1, IapInvariant, PTL

(* A completed purchase was paid and granted: the platform reported the    *)
(* payment of its order to this flow, and the grant callback resolved      *)
(* exactly once for that order, this flow's sku and its subscription       *)
(* (evaluate in purchase-flow.ts, run() in grant-coordinator.ts).          *)
THEOREM IapCompletedIsPaidAndGranted == Spec => []CompletedIsPaidAndGranted
  <1>1. IapIInv => CompletedIsPaidAndGranted
    <2> SUFFICES ASSUME IapIInv, NEW f \in Flows, result[f].status = "completed"
                 PROVE  LET o == result[f].order
                        IN  /\ o \in Orders
                            /\ flow[f].stashed = o
                            /\ successes[o] = 1
                            /\ granted[o].sku = SkuOf[f]
                            /\ result[f].sub \in {None, granted[o].sub}
      BY DEF CompletedIsPaidAndGranted
    <2>1. /\ result[f].order = flow[f].stashed
          /\ GrantedFor(granted, result[f].order, SkuOf[f], result[f].sub)
      BY DEF IapIInv, AnswersAreSound, FlowsAreSound, FlowIsSound, ResultIsSound
    <2>2. \A o \in Orders : IsGranted(o) => successes[o] = 1
      BY DEF IapIInv, CoordIInv, GrantedOnce
    <2> QED
      BY <2>1, <2>2 DEF GrantedFor, IsGranted
  <1> QED
    BY <1>1, IapInvariant, PTL

(* The platform is told that an order is complete only after its grant,    *)
(* and a recovery reports completion only of an order it notified (the two *)
(* awaits of recoverPendingOrder in adapter.ts).                           *)
THEOREM IapNotifyOnlyAfterGrant == Spec => []NotifyOnlyAfterGrant
  <1>1. IapIInv => NotifyOnlyAfterGrant
    <2> SUFFICES ASSUME IapIInv PROVE NotifyOnlyAfterGrant
      OBVIOUS
    <2>1. \A o \in notified : successes[o] = 1
      BY DEF IapIInv, TypeOK, CoordIInv, GrantedOnce, RecoveriesAreSound
    <2>2. \A r \in Recoveries :
            recovery[r].status \in {"completed", "notify_failed"} =>
                /\ recovery[r].order \in notified
                /\ granted[recovery[r].order].sku = recovery[r].sku
      BY DEF IapIInv, RecoveriesAreSound, RecoveryIsSound, GrantedFor
    <2> QED
      BY <2>1, <2>2 DEF NotifyOnlyAfterGrant
  <1> QED
    BY <1>1, IapInvariant, PTL

-----------------------------------------------------------------------------
(***************************************************************************)
(* What one step may do to a flow: begin its startOrder only while it is   *)
(* loading in time, settle it as completed only without a failed grant,    *)
(* and keep the order it knows.                                            *)
(***************************************************************************)
BeginsInTime(f) ==
    flow[f].stage # "registering" /\ flow'[f].stage = "registering" =>
        flow[f].stage = "loading" /\ ~flow[f].overdue

SettlesSoundly(f) ==
    ~Settled(flow[f]) =>
        /\ flow'[f].outcome.status = "completed" => flow'[f].failure = None
        /\ KnownOrder(flow[f]) # None =>
              /\ flow'[f].outcome.status \notin {"canceled", "failed"}
              /\ flow'[f].outcome.status = "unknown" =>
                    flow'[f].outcome.order # None

LEMMA UnsettledStep ==
  ASSUME NEW f \in Flows, flow'[f].outcome = flow[f].outcome
  PROVE  SettlesSoundly(f)
  BY DEF SettlesSoundly, Settled, NoResult, Result

(* A registered flow that settles, if it was not settled, with out.        *)
LEMMA SettlingStep ==
  ASSUME IapIInv, NEW f \in Flows, Registered(f), NEW fl \in FlowType,
         FlowIsSound(granted, fl, SkuOf[f]),
         fl.stage = flow[f].stage, fl.outcome = flow[f].outcome,
         NEW out \in Results, ResultIsSound(granted, out, fl.stashed, SkuOf[f]),
         flow' = [flow EXCEPT ![f] = Emit(fl, out)],
         out.status = "completed" => fl.failure = None,
         KnownOrder(flow[f]) # None =>
            /\ out.status \notin {"canceled", "failed"}
            /\ out.status = "unknown" => out.order # None
  PROVE  \A g \in Flows : BeginsInTime(g) /\ SettlesSoundly(g)
  <1> DEFINE new == Emit(fl, out)
  <1>1. fl.stage \in {"registering", "open", "returned"}
    BY DEF Registered
  <1>2. /\ new \in FlowType
        /\ FlowIsSound(granted, new, SkuOf[f])
        /\ new = [fl EXCEPT !.outcome = new.outcome]
        /\ Settled(fl) => new = fl
        /\ ~Settled(fl) => new.outcome = out
    BY <1>1, EmitIsSound
  <1>3. /\ flow'[f] = new
        /\ \A g \in Flows \ {f} : flow'[g] = flow[g]
    BY DEF IapIInv, TypeOK
  <1> HIDE DEF new
  <1>4. new.stage = flow[f].stage /\ new.failure = fl.failure
    BY <1>2 DEF FlowType
  <1>5. BeginsInTime(f) /\ SettlesSoundly(f)
    BY <1>2, <1>3, <1>4 DEF BeginsInTime, SettlesSoundly, Settled
  <1> QED
    BY <1>3, <1>5, UnsettledStep DEF BeginsInTime

LEMMA PlatformSteps ==
  ASSUME IapIInv, NEW f \in Flows,
         \/ \E o \in Orders : PlatformSuccess(f, o)
         \/ \E canceled \in BOOLEAN : PlatformError(f, canceled)
         \/ FlowTimeout(f)
  PROVE  \A g \in Flows : BeginsInTime(g) /\ SettlesSoundly(g)
  <1>1. /\ flow[f] \in FlowType
        /\ FlowIsSound(granted, flow[f], SkuOf[f])
        /\ Registered(f)
    BY DEF IapIInv, TypeOK, FlowsAreSound, PlatformSuccess, PlatformError,
           FlowTimeout, Registered
  <1>2. ASSUME NEW o \in Orders, PlatformSuccess(f, o)
        PROVE  \A g \in Flows : BeginsInTime(g) /\ SettlesSoundly(g)
    <2> DEFINE fl == Stash(flow[f], o)
    <2>1. /\ fl \in FlowType
          /\ FlowIsSound(granted, fl, SkuOf[f])
          /\ fl = [flow[f] EXCEPT !.stashed = fl.stashed]
      BY <1>1, StashIsSound DEF Registered
    <2>2. flow' = [flow EXCEPT ![f] = Emit(fl, Evaluate(fl))]
      BY <1>2 DEF PlatformSuccess
    <2> HIDE DEF fl
    <2>3. fl.stage = flow[f].stage /\ fl.outcome = flow[f].outcome
      BY <1>1, <2>1 DEF FlowType
    <2>4. /\ Evaluate(fl) \in Results
          /\ ResultIsSound(granted, Evaluate(fl), fl.stashed, SkuOf[f])
          /\ Evaluate(fl).status = "completed" => fl.failure = None
          /\ Evaluate(fl).status \notin {"canceled", "failed", "unknown"}
      BY <2>1, EvaluateIsSound DEF FlowIsSound
    <2> QED
      BY <1>1, <2>1, <2>2, <2>3, <2>4, SettlingStep
  <1>3. ASSUME NEW canceled \in BOOLEAN, PlatformError(f, canceled)
        PROVE  \A g \in Flows : BeginsInTime(g) /\ SettlesSoundly(g)
    <2> DEFINE out == ReduceError(flow[f], canceled)
    <2>1. /\ out \in Results
          /\ ResultIsSound(granted, out, flow[f].stashed, SkuOf[f])
          /\ out.status # "completed"
          /\ KnownOrder(flow[f]) # None => out.status \notin {"canceled", "failed"}
          /\ out.status = "unknown" => out.order # None
      BY <1>1, ReduceErrorIsSound DEF FlowIsSound
    <2>2. flow' = [flow EXCEPT ![f] = Emit(flow[f], out)]
      BY <1>3 DEF PlatformError
    <2> HIDE DEF out
    <2> QED
      BY <1>1, <2>1, <2>2, SettlingStep
  <1>4. CASE FlowTimeout(f)
    <2> DEFINE out == UnknownResult(flow[f])
    <2>1. /\ out \in Results
          /\ ResultIsSound(granted, out, flow[f].stashed, SkuOf[f])
          /\ out.status = "unknown"
          /\ out.order = KnownOrder(flow[f])
      BY <1>1, UnknownIsSound
    <2>2. flow' = [flow EXCEPT ![f] = Emit(flow[f], out)]
      BY <1>4 DEF FlowTimeout
    <2> HIDE DEF out
    <2> QED
      BY <1>1, <2>1, <2>2, SettlingStep
  <1> QED
    BY <1>2, <1>3, <1>4

LEMMA PurchaseStepSettles ==
  ASSUME IapIInv, NEW f \in Flows, PurchaseStep(f)
  PROVE  \A g \in Flows : BeginsInTime(g) /\ SettlesSoundly(g)
  <1>1. flow[f] \in FlowType /\ flow \in [Flows -> FlowType]
    BY DEF IapIInv, TypeOK
  <1>2. ASSUME NEW stage, flow' = [flow EXCEPT ![f].stage = stage],
               stage = "registering" =>
                  flow[f].stage = "loading" /\ ~flow[f].overdue
        PROVE  \A g \in Flows : BeginsInTime(g) /\ SettlesSoundly(g)
    <2>1. \A g \in Flows :
            /\ flow'[g].outcome = flow[g].outcome
            /\ g # f => flow'[g] = flow[g]
      BY <1>1, <1>2 DEF FlowType
    <2>2. flow'[f].stage = stage
      BY <1>1, <1>2 DEF FlowType
    <2> QED
      BY <1>2, <2>1, <2>2, UnsettledStep DEF BeginsInTime
  <1>3. CASE \/ Purchase(f) \/ LoadResolves(f) \/ LoadFails(f) \/ LoadTimeout(f)
             \/ StartOrderReturns(f) \/ Return(f)
    <2>1. \E stage : /\ flow' = [flow EXCEPT ![f].stage = stage]
                     /\ stage = "registering" =>
                           flow[f].stage = "loading" /\ ~flow[f].overdue
      BY <1>3 DEF Purchase, LoadResolves, LoadFails, LoadTimeout, Refuse,
                  StartOrderReturns, Return
    <2> QED
      BY <1>2, <2>1
  <1>4. CASE DeadlinePasses(f)
    <2>1. \A g \in Flows :
            /\ flow'[g].outcome = flow[g].outcome
            /\ flow'[g].stage = flow[g].stage
      BY <1>1, <1>4 DEF DeadlinePasses, FlowType
    <2> QED
      BY <2>1, UnsettledStep DEF BeginsInTime
  <1>5. CASE StartOrderThrows(f)
    <2> DEFINE out == Result("rejected", None, None)
               new == [Emit(flow[f], out) EXCEPT !.stage = "open"]
    <2>1. /\ flow'[f] = new
          /\ \A g \in Flows \ {f} : flow'[g] = flow[g]
      BY <1>1, <1>5 DEF StartOrderThrows
    <2>2. /\ new.stage = "open"
          /\ ~Settled(flow[f]) => new.outcome = out
          /\ new.failure = flow[f].failure
      BY <1>1 DEF Emit, FlowType
    <2>3. out.status = "rejected"
      BY DEF Result
    <2> HIDE DEF new, out
    <2>4. BeginsInTime(f) /\ SettlesSoundly(f)
      BY <2>1, <2>2, <2>3 DEF BeginsInTime, SettlesSoundly
    <2> QED
      BY <2>1, <2>4, UnsettledStep DEF BeginsInTime
  <1> QED
    BY <1>3, <1>4, <1>5, PlatformSteps DEF PurchaseStep

LEMMA SlotStepSettles ==
  ASSUME IapIInv, NEW c \in SlotCalls, SlotStep(c)
  PROVE  \A g \in Flows : BeginsInTime(g) /\ SettlesSoundly(g)
  <1> DEFINE f == FlowOf[c]
  <1> USE DEF IapIInv
  <1>1. /\ c \in Callers /\ f \in Flows
        /\ flow[f] \in FlowType /\ flow \in [Flows -> FlowType]
        /\ FlowIsSound(granted, flow[f], SkuOf[f])
    BY CallerAssumption DEF TypeOK, FlowsAreSound
  <1>2. ASSUME NEW o \in Orders, NEW s \in MaybeSub, SlotCall(c, o, s)
        PROVE  \A g \in Flows : BeginsInTime(g) /\ SettlesSoundly(g)
    <2>1. \A g \in Flows :
            /\ flow'[g].outcome = flow[g].outcome
            /\ flow'[g].stage = flow[g].stage
      BY <1>1, <1>2 DEF SlotCall, FlowType
    <2> QED
      BY <2>1, UnsettledStep DEF BeginsInTime
  <1>3. CASE SlotResumes(c)
    <2> DEFINE fl == Seen(flow[f], call[c])
    <2>1. call[c].phase = "settled"
      BY <1>3 DEF SlotResumes, Continue
    <2>2. /\ call[c] \in CallType
          /\ call[c].order \in Orders
          /\ call[c].sku = SkuOf[f]
          /\ Registered(f)
      BY <1>1, <2>1 DEF TypeOK, CoordTypeOK, CoordIInv, Named, SlotCallsAreSeen
    <2>3. call[c].verdict = "ok" =>
            GrantedFor(granted, call[c].order, SkuOf[f], call[c].sub)
      BY <1>1, <2>1, <2>2, OkCallIsGranted
    <2>4. /\ fl \in FlowType
          /\ FlowIsSound(granted, fl, SkuOf[f])
          /\ fl.stage = flow[f].stage
          /\ fl.outcome = flow[f].outcome
      BY <1>1, <2>2, <2>3, SeenIsSound DEF Registered
    <2>5. flow' = [flow EXCEPT ![f] = Emit(fl, Evaluate(fl))]
      BY <1>3 DEF SlotResumes, GrantSettled, Seen
    <2> HIDE DEF fl
    <2>6. /\ Evaluate(fl) \in Results
          /\ ResultIsSound(granted, Evaluate(fl), fl.stashed, SkuOf[f])
          /\ Evaluate(fl).status = "completed" => fl.failure = None
          /\ Evaluate(fl).status \notin {"canceled", "failed", "unknown"}
      BY <2>4, EvaluateIsSound DEF FlowIsSound
    <2> QED
      BY <1>1, <2>2, <2>4, <2>5, <2>6, SettlingStep
  <1> QED
    BY <1>2, <1>3 DEF SlotStep

LEMMA FlowSteps ==
  ASSUME IapIInv, [Next]_vars
  PROVE  \A f \in Flows : BeginsInTime(f) /\ SettlesSoundly(f)
  <1>1. ASSUME UNCHANGED flow
        PROVE  \A f \in Flows : BeginsInTime(f) /\ SettlesSoundly(f)
    BY <1>1, UnsettledStep DEF BeginsInTime
  <1>2. ASSUME NEW r \in Recoveries, RecoveryStep(r)
        PROVE  UNCHANGED flow
    BY <1>2 DEF RecoveryStep, Recover, RecoveryLoadFails, RecoveryRuns,
                RecoveryResumes, NotifySettles
  <1>3. ASSUME NEW o \in Orders, ServerAnswers(o) \/ ForgetAttempt(o)
        PROVE  UNCHANGED flow
    BY <1>3 DEF ServerAnswers, ForgetAttempt, iapVars
  <1>4. CASE UNCHANGED vars
    BY <1>1, <1>4 DEF vars, iapVars
  <1> QED
    BY <1>1, <1>2, <1>3, <1>4, PurchaseStepSettles, SlotStepSettles DEF Next

(* A purchase settles as completed only if no grant the platform asked of  *)
(* its flow has failed before.                                             *)
THEOREM IapNoSuccessOverFailedGrant == Spec => NoSuccessOverFailedGrant
  <1> DEFINE Holds == \A f \in Flows :
                /\ ~Settled(flow[f])
                /\ flow'[f].outcome.status = "completed"
                => \A c \in SlotCalls :
                      /\ FlowOf[c] = f
                      /\ call'[c].phase = "done"
                      => call'[c].verdict = "ok"
  <1>1. IapIInv /\ IapIInv' /\ [Next]_vars => [Holds]_vars
    <2> SUFFICES ASSUME IapIInv, IapIInv', [Next]_vars,
                        NEW f \in Flows, ~Settled(flow[f]),
                        flow'[f].outcome.status = "completed",
                        NEW c \in SlotCalls, FlowOf[c] = f,
                        call'[c].phase = "done"
                 PROVE  call'[c].verdict = "ok"
      OBVIOUS
    <2>1. flow'[f].failure = None
      BY FlowSteps DEF SettlesSoundly
    <2> QED
      BY <2>1 DEF IapIInv, SlotCallsAreSeen
  <1> QED
    BY <1>1, IapInvariant, PTL DEF Spec, NoSuccessOverFailedGrant

(* Once the platform has named an order, an error is not reported as a     *)
(* definite failure, and an unknown result names an order (the identified- *)
(* order branch of reduce() and onTimeout in purchase-flow.ts).            *)
THEOREM IapIdentifiedOrderIsReported == Spec => IdentifiedOrderIsReported
  <1> DEFINE Holds == \A f \in Flows :
                ~Settled(flow[f]) /\ Identified(f) =>
                    /\ flow'[f].outcome.status \notin {"canceled", "failed"}
                    /\ flow'[f].outcome.status = "unknown" =>
                          flow'[f].outcome.order # None
  <1>1. IapIInv /\ [Next]_vars => [Holds]_vars
    <2> SUFFICES ASSUME IapIInv, [Next]_vars,
                        NEW f \in Flows, ~Settled(flow[f]), Identified(f)
                 PROVE  /\ flow'[f].outcome.status \notin {"canceled", "failed"}
                        /\ flow'[f].outcome.status = "unknown" =>
                              flow'[f].outcome.order # None
      OBVIOUS
    <2>1. flow[f].stashed # None \/ flow[f].observed # None
      BY DEF Identified, IapIInv, SlotCallsAreSeen
    <2>2. KnownOrder(flow[f]) # None
      BY <2>1 DEF KnownOrder, FirstOf
    <2> QED
      BY <2>2, FlowSteps DEF SettlesSoundly
  <1> QED
    BY <1>1, IapInvariant, PTL DEF Spec, IdentifiedOrderIsReported

(* A startOrder never begins after its purchase call has returned, nor     *)
(* after its deadline (purchaseWithDeadline in adapter.ts).                *)
THEOREM IapNoPaymentAfterReturn == Spec => NoPaymentAfterReturn
  <1> DEFINE Holds == \A f \in Flows :
                flow[f].stage # "registering" /\ flow'[f].stage = "registering"
                => result[f] = NoResult /\ ~flow[f].overdue
  <1>1. IapIInv /\ [Next]_vars => [Holds]_vars
    <2> SUFFICES ASSUME IapIInv, [Next]_vars, NEW f \in Flows,
                        flow[f].stage # "registering",
                        flow'[f].stage = "registering"
                 PROVE  result[f] = NoResult /\ ~flow[f].overdue
      OBVIOUS
    <2>1. flow[f].stage = "loading" /\ ~flow[f].overdue
      BY FlowSteps DEF BeginsInTime
    <2> QED
      BY <2>1 DEF IapIInv, AnswersAreSound
  <1> QED
    BY <1>1, IapInvariant, PTL DEF Spec, NoPaymentAfterReturn

-----------------------------------------------------------------------------
(***************************************************************************)
(* The refinement: what a consumer sees of the adapter.                    *)
(***************************************************************************)
Entitled == {o \in Orders : IsGranted(o)}

Recovered ==
    [r \in Recoveries |->
        IF recovery[r].stage = "done"
          THEN [status |-> recovery[r].status, order |-> recovery[r].order]
          ELSE [status |-> "none", order |-> None]]

seenVars == <<Entitled, result, Recovered>>

LEMMA UnseenGrants ==
  ASSUME UNCHANGED granted
  PROVE  UNCHANGED Entitled
  BY DEF Entitled, IsGranted

(* A recovery that is not over and goes on does not show.                  *)
LEMMA UnseenRecovery ==
  ASSUME IapIInv, NEW r \in Recoveries, NEW rec \in RecoveryType,
         recovery' = [recovery EXCEPT ![r] = rec],
         recovery[r].stage # "done", rec.stage # "done"
  PROVE  UNCHANGED Recovered
  <1>1. /\ recovery'[r] = rec
        /\ \A q \in Recoveries \ {r} : recovery'[q] = recovery[q]
    BY DEF IapIInv, TypeOK
  <1> QED
    BY <1>1 DEF Recovered

LEMMA SameRecoveries ==
  ASSUME UNCHANGED recovery
  PROVE  UNCHANGED Recovered
  BY DEF Recovered

(* A grant callback that resolves entitles its order.                      *)
LEMMA ResolvingEntitles ==
  ASSUME IapIInv, NEW o \in Orders, GrantResolves(o), UNCHANGED iapVars
  PROVE  Contract!Entitle(o)
  <1> USE DEF IapIInv, CoordIInv
  <1>1. granted \in [Orders -> [sku : Skus \cup {None}, sub : MaybeSub]]
    BY DEF CoordTypeOK
  <1>2. inFlight[o].sku \in Skus
    BY DEF GrantResolves, Entries
  <1>3. granted'[o].sku # None
    BY <1>1, <1>2, NoneAssumption DEF GrantResolves
  <1>4. IsGranted(o)'
    BY <1>3 DEF IsGranted, NotGranted
  <1>5. \A p \in Orders \ {o} : granted'[p] = granted[p]
    BY <1>1 DEF GrantResolves
  <1>6. Entitled' = Entitled \cup {o}
    BY <1>4, <1>5 DEF Entitled, IsGranted
  <1>7. UNCHANGED Recovered
    BY SameRecoveries DEF iapVars
  <1> QED
    BY <1>6, <1>7 DEF Contract!Entitle, Entitled, Recovered, iapVars

(* A purchase call that answers, answers within the contract.              *)
LEMMA AnswerIsContracted ==
  ASSUME IapIInv, NEW f \in Flows, result[f] = NoResult, NEW res \in Results,
         res.status # "none",
         ResultIsSound(granted, res, flow[f].stashed, SkuOf[f]),
         result' = [result EXCEPT ![f] = res],
         UNCHANGED <<coordVars, recovery, notified>>
  PROVE  Contract!AnswerPurchase(f)
  <1>1. result[f].status = "none"
    BY DEF NoResult, Result
  <1>2. res \in Contract!Answers
    BY DEF Results, Contract!Answers, MaybeOrder, MaybeSub
  <1>3. res.status = "completed" => res.order \in Entitled
    BY DEF ResultIsSound, GrantedFor, Entitled, IsGranted
  <1>4. UNCHANGED Entitled /\ UNCHANGED Recovered
    BY UnseenGrants, SameRecoveries DEF coordVars
  <1> QED
    BY <1>1, <1>2, <1>3, <1>4
    DEF Contract!AnswerPurchase, Contract!Pending, ResultIsSound, Entitled,
        Recovered

LEMMA PurchaseStepSimulation ==
  ASSUME IapIInv, NEW f \in Flows, PurchaseStep(f)
  PROVE  Contract!AnswerPurchase(f) \/ UNCHANGED seenVars
  <1>1. ASSUME flow[f].stage = "loading", NEW status \in {"unknown", "rejected"},
               Refuse(f, Result(status, None, None))
        PROVE  Contract!AnswerPurchase(f)
    <2> DEFINE res == Result(status, None, None)
    <2>1. /\ res \in Results
          /\ res.status # "none"
          /\ ResultIsSound(granted, res, flow[f].stashed, SkuOf[f])
      BY DEF Result, Results, MaybeOrder, MaybeSub, ResultIsSound
    <2>2. result[f] = NoResult
      BY <1>1 DEF IapIInv, AnswersAreSound
    <2>3. /\ result' = [result EXCEPT ![f] = res]
          /\ UNCHANGED <<coordVars, recovery, notified>>
      BY <1>1 DEF Refuse
    <2> HIDE DEF res
    <2> QED
      BY <2>1, <2>2, <2>3, AnswerIsContracted
  <1>2. ASSUME Return(f)
        PROVE  Contract!AnswerPurchase(f)
    <2>1. PICK res \in Results :
            /\ result' = [result EXCEPT ![f] = res]
            /\ res.status # "none"
            /\ res = flow[f].outcome \/ res.status = "unknown"
      BY <1>2, ReturnedResult
    <2>2. ResultIsSound(granted, res, flow[f].stashed, SkuOf[f])
      BY <2>1 DEF IapIInv, FlowsAreSound, FlowIsSound, ResultIsSound
    <2>3. result[f] = NoResult /\ UNCHANGED <<coordVars, recovery, notified>>
      BY <1>2 DEF IapIInv, AnswersAreSound, Return
    <2> QED
      BY <2>1, <2>2, <2>3, AnswerIsContracted
  <1>3. CASE UNCHANGED <<coordVars, result, recovery, notified>>
    BY <1>3, UnseenGrants, SameRecoveries DEF coordVars, seenVars
  <1>4. CASE LoadResolves(f) \/ LoadFails(f) \/ LoadTimeout(f)
    BY <1>1, <1>3, <1>4 DEF LoadResolves, LoadFails, LoadTimeout
  <1> QED
    BY <1>2, <1>3, <1>4
    DEF PurchaseStep, Purchase, DeadlinePasses, StartOrderReturns,
        StartOrderThrows, PlatformSuccess, PlatformError, FlowTimeout

(* The end of a recovery is its answer.                                    *)
LEMMA RecoveryEndIsContracted ==
  ASSUME IapIInv, NEW r \in Recoveries, NEW status \in Contract!RecoveryAnswers,
         recovery[r].stage \notin {"idle", "done"},
         status \in {"completed", "notify_failed"} =>
            recovery[r].stage = "notifying",
         EndRecovery(r, status), UNCHANGED <<granted, result>>
  PROVE  Contract!AnswerRecovery(r)
  <1> DEFINE o == recovery[r].order
  <1>1. /\ o \in Orders
        /\ recovery \in [Recoveries -> RecoveryType]
        /\ status \in {"completed", "notify_failed"} => o \in Entitled
    BY DEF IapIInv, TypeOK, RecoveriesAreSound, RecoveryIsSound, GrantedFor,
           Entitled, IsGranted
  <1>2. Recovered[r].status = "none"
    BY DEF Recovered
  <1>3. /\ recovery'[r].stage = "done" /\ recovery'[r].status = status
        /\ recovery'[r].order = o
        /\ \A q \in Recoveries \ {r} : recovery'[q] = recovery[q]
    BY <1>1 DEF EndRecovery, RecoveryType
  <1>4. Recovered' = [Recovered EXCEPT ![r] = [status |-> status, order |-> o]]
    BY <1>3 DEF Recovered
  <1>5. UNCHANGED Entitled
    BY UnseenGrants
  <1> HIDE DEF o
  <1> QED
    BY <1>1, <1>2, <1>4, <1>5
    DEF Contract!AnswerRecovery, Contract!Pending, Entitled, Recovered

LEMMA RecoveryStepSimulation ==
  ASSUME IapIInv, NEW r \in Recoveries, RecoveryStep(r)
  PROVE  Contract!AnswerRecovery(r) \/ UNCHANGED seenVars
  <1>1. recovery[r] \in RecoveryType
    BY DEF IapIInv, TypeOK
  <1>2. ASSUME NEW o \in Orders, NEW k \in Skus, Recover(r, o, k)
        PROVE  UNCHANGED seenVars
    <2> DEFINE rec == [stage |-> "loading", order |-> o, sku |-> k,
                       status |-> "none"]
    <2>1. rec \in RecoveryType /\ rec.stage # "done"
      BY DEF RecoveryType, MaybeOrder
    <2>2. /\ recovery' = [recovery EXCEPT ![r] = rec]
          /\ recovery[r].stage # "done"
          /\ UNCHANGED <<granted, result>>
      BY <1>2 DEF Recover, coordVars
    <2> HIDE DEF rec
    <2> QED
      BY <2>1, <2>2, UnseenRecovery, UnseenGrants DEF seenVars
  <1>3. ASSUME NEW stage \in {"granting", "notifying"},
               recovery[r].stage # "done",
               recovery' = [recovery EXCEPT ![r].stage = stage],
               UNCHANGED <<granted, result>>
        PROVE  UNCHANGED seenVars
    <2> DEFINE rec == [recovery[r] EXCEPT !.stage = stage]
    <2>1. rec \in RecoveryType /\ rec.stage # "done"
      BY <1>1 DEF RecoveryType
    <2>2. recovery' = [recovery EXCEPT ![r] = rec]
      BY <1>3
    <2> HIDE DEF rec
    <2> QED
      BY <1>3, <2>1, <2>2, UnseenRecovery, UnseenGrants DEF seenVars
  <1>4. CASE RecoveryRuns(r)
    <2>1. UNCHANGED granted
      BY <1>4 DEF RecoveryRuns, Run, Join, RefuseConflict, Reuse, Attempt, Dispatch
    <2> QED
      BY <1>3, <1>4, <2>1 DEF RecoveryRuns
  <1>5. CASE RecoveryLoadFails(r) \/ \E ok \in BOOLEAN : NotifySettles(r, ok)
    BY <1>5, RecoveryEndIsContracted
    DEF RecoveryLoadFails, NotifySettles, Contract!RecoveryAnswers, coordVars
  <1>6. CASE RecoveryResumes(r)
    BY <1>3, <1>6, RecoveryEndIsContracted
    DEF RecoveryResumes, Continue, Contract!RecoveryAnswers
  <1> QED
    BY <1>2, <1>4, <1>5, <1>6 DEF RecoveryStep

(* Every step of the adapter is a step of the contract, or does not show.  *)
LEMMA ContractSimulation ==
  IapIInv /\ [Next]_vars => [Contract!Next]_seenVars
  <1> SUFFICES ASSUME IapIInv, [Next]_vars
               PROVE  Contract!Next \/ UNCHANGED seenVars
    OBVIOUS
  <1>1. CASE \E f \in Flows : PurchaseStep(f)
    BY <1>1, PurchaseStepSimulation DEF Contract!Next
  <1>2. ASSUME NEW c \in SlotCalls, SlotStep(c)
        PROVE  UNCHANGED seenVars
    <2>1. UNCHANGED <<result, recovery>>
      BY <1>2 DEF SlotStep, SlotCall, SlotResumes
    <2>2. ASSUME NEW t, Run(c, t)
          PROVE  UNCHANGED granted
      BY <2>2 DEF Run, Join, RefuseConflict, Reuse, Attempt, Dispatch
    <2>3. UNCHANGED granted
      BY <1>2, <2>2 DEF SlotStep, SlotCall, SlotResumes, Continue
    <2> QED
      BY <2>1, <2>3, UnseenGrants, SameRecoveries DEF seenVars
  <1>3. CASE \E r \in Recoveries : RecoveryStep(r)
    BY <1>3, RecoveryStepSimulation DEF Contract!Next
  <1>4. ASSUME NEW o \in Orders, ServerAnswers(o) \/ ForgetAttempt(o)
        PROVE  Contract!Next \/ UNCHANGED seenVars
    <2>1. CASE GrantResolves(o)
      BY <1>4, <2>1, ResolvingEntitles DEF ServerAnswers, ForgetAttempt, Contract!Next
    <2>2. CASE UNCHANGED granted
      BY <1>4, <2>2, UnseenGrants, SameRecoveries
      DEF ServerAnswers, ForgetAttempt, iapVars, seenVars
    <2> QED
      BY <1>4, <2>1, <2>2
      DEF ServerAnswers, ForgetAttempt, GrantRejects, Release
  <1>5. CASE UNCHANGED vars
    BY <1>5, UnseenGrants, SameRecoveries DEF vars, coordVars, iapVars, seenVars
  <1> QED
    BY <1>1, <1>2, <1>3, <1>4, <1>5 DEF Next

(* The adapter keeps its documented contract: what a consumer sees of its  *)
(* purchases, recoveries and grants is a behaviour of PurchaseContract.    *)
THEOREM IapImplementsContract == Spec => ImplementsContract
  <1>1. Init => Contract!Init
    BY DEF Init, CoordInit, Contract!Init, Contract!Pending, IsGranted, NoResult,
           Result, FreshRecovery
  <1>2. IapIInv /\ [Next]_vars => [Contract!Next]_<<Entitled, result, Recovered>>
    BY ContractSimulation DEF seenVars
  <1> QED
    BY <1>1, <1>2, IapInvariant, PTL
    DEF Spec, ImplementsContract, Contract!Spec, Entitled, Recovered
=============================================================================
