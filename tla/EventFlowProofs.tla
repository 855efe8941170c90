--------------------------- MODULE EventFlowProofs ---------------------------
(***************************************************************************)
(* Proofs about EventFlow, for any set of flows and of results.            *)
(*                                                                         *)
(* The argument: settle runs once, because it sets the flag it tests, and  *)
(* what it leaves to the cleanup function is only the listener.  A flow    *)
(* that has settled holds no cleanup function, and whoever is registered   *)
(* at the platform is either held by an unsettled flow or being cleaned up.*)
(***************************************************************************)
EXTENDS EventFlow, TLAPS

(* A flow that has not called register has nothing to give back, and while *)
(* it is inside register the cleanup function does not exist yet.          *)
NothingBeforeRegister ==
    \A f \in Flows :
        /\ stage[f] = "start" => ~settled[f] /\ timer[f] = "none"
        /\ stage[f] # "live" => /\ listener[f] = "none"
                                /\ ~held[f]
                                /\ cleaning[f] = "none"

(* The flags and the decision go together: settling ran the cleanup, took  *)
(* the timer and dropped the function.                                     *)
SettledIsCleanedUp ==
    \A f \in Flows :
        /\ settled[f] <=> decided[f] # Pending
        /\ settled[f] <=> cleanedUp[f]
        /\ settled[f] => ~held[f] /\ timer[f] # "armed"

(* Whoever listens at the platform is held or being released; only a       *)
(* settled flow is being released, and what is held or being released      *)
(* still listens.                                                          *)
ListenerIsAccountedFor ==
    \A f \in Flows :
        /\ held[f] \/ cleaning[f] # "none" => listener[f] = "registered"
        /\ listener[f] = "registered" => held[f] \/ cleaning[f] # "none"
        /\ cleaning[f] # "none" => settled[f]

(* The promise settles with the decision, after the cleanup function.      *)
PromiseFollowsDecision ==
    \A f \in Flows :
        promise[f] = IF cleaning[f] = "settle" THEN Pending ELSE decided[f]

FlowIInv ==
    /\ TypeOK
    /\ NothingBeforeRegister
    /\ SettledIsCleanedUp
    /\ ListenerIsAccountedFor
    /\ PromiseFollowsDecision

-----------------------------------------------------------------------------

(* No flow has started.                                                    *)
LEMMA FlowInitIInv == Init => FlowIInv
  BY FlowAssumption
  DEF Init, FlowIInv, TypeOK, NothingBeforeRegister, SettledIsCleanedUp,
      ListenerIsAccountedFor, PromiseFollowsDecision, Outcomes

(* Pending is not an outcome: an outcome can be told from "not settled".   *)
LEMMA PendingIsNoOutcome == Pending \notin Outcomes
  BY FlowAssumption DEF Outcomes

(* settle and fail, called from inside register or from the event loop.    *)
LEMMA SettleIInv ==
    ASSUME FlowIInv, NEW f \in Flows, NEW v \in Outcomes,
           stage[f] \in {"registering", "live"},
           Settle(f, v), UNCHANGED listener,
           \/ UNCHANGED stage
           \/ stage' = [stage EXCEPT ![f] = "live"]
    PROVE  FlowIInv'
<1> USE DEF FlowIInv
<1>a. stage' \in [Flows -> {"start", "registering", "live"}]
  BY DEF TypeOK
<1>1. CASE settled[f]
  <2>1. UNCHANGED settleVars
    BY <1>1 DEF Settle
  <2> QED
    BY <1>a, <2>1, PendingIsNoOutcome
    DEF settleVars, TypeOK, NothingBeforeRegister, SettledIsCleanedUp,
        ListenerIsAccountedFor, PromiseFollowsDecision
<1>2. CASE ~settled[f]
  <2>1. ~cleanedUp[f] /\ decided[f] = Pending /\ cleaning[f] = "none"
    BY <1>2 DEF SettledIsCleanedUp, ListenerIsAccountedFor
  <2>2. /\ settled' = [settled EXCEPT ![f] = TRUE]
        /\ decided' = [decided EXCEPT ![f] = v]
        /\ cleanedUp' = [cleanedUp EXCEPT ![f] = TRUE]
        /\ timer' = [timer EXCEPT ![f] = IF @ = "armed" THEN "off" ELSE @]
        /\ held' = [held EXCEPT ![f] = FALSE]
        /\ cleaning' = [cleaning EXCEPT
                          ![f] = IF held[f] THEN "settle" ELSE @]
        /\ promise' = [promise EXCEPT ![f] = IF held[f] THEN @ ELSE v]
    BY <1>2, <2>1 DEF Settle, RunCleanup
  <2>3. TypeOK'
    BY <1>a, <2>2 DEF TypeOK
  <2>4. NothingBeforeRegister'
    BY <2>2 DEF NothingBeforeRegister, TypeOK
  <2>5. SettledIsCleanedUp'
    BY <2>2, PendingIsNoOutcome DEF SettledIsCleanedUp, TypeOK
  <2>6. ListenerIsAccountedFor'
    BY <2>1, <2>2 DEF ListenerIsAccountedFor, TypeOK
  <2>7. PromiseFollowsDecision'
    BY <2>1, <2>2 DEF PromiseFollowsDecision, TypeOK
  <2> QED  BY <2>3, <2>4, <2>5, <2>6, <2>7
<1> QED  BY <1>1, <1>2

(* The executor starts.                                                    *)
LEMMA StartIInv ==
    ASSUME FlowIInv, NEW f \in Flows, Start(f)
    PROVE  FlowIInv'
  BY DEF FlowIInv, Start, TypeOK, NothingBeforeRegister, SettledIsCleanedUp,
         ListenerIsAccountedFor, PromiseFollowsDecision

(* register returns: the function is held by a flow that still waits, and  *)
(* entered by one that has settled meanwhile.                              *)
LEMMA RegisterReturnsIInv ==
    ASSUME FlowIInv, NEW f \in Flows, NEW h \in BOOLEAN, RegisterReturns(f, h)
    PROVE  FlowIInv'
  BY DEF FlowIInv, RegisterReturns, TypeOK, NothingBeforeRegister,
         SettledIsCleanedUp, ListenerIsAccountedFor, PromiseFollowsDecision

(* The cleanup function comes back.                                        *)
LEMMA CleanupEndsIInv ==
    ASSUME FlowIInv, NEW f \in Flows, CleanupEnds(f)
    PROVE  FlowIInv'
  BY DEF FlowIInv, CleanupEnds, TypeOK, NothingBeforeRegister,
         SettledIsCleanedUp, ListenerIsAccountedFor, PromiseFollowsDecision

(* Every step keeps the invariant; the timer fires only for a flow that    *)
(* armed it, hence one that has started.                                   *)
LEMMA FlowNextIInv == FlowIInv /\ [Next]_vars => FlowIInv'
<1> SUFFICES ASSUME FlowIInv, [Next]_vars PROVE FlowIInv'
  OBVIOUS
<1>1. ASSUME NEW f \in Flows, FlowStep(f) PROVE FlowIInv'
  <2>1. CASE Start(f)
    BY <2>1, StartIInv
  <2>2. ASSUME NEW v \in Outcomes, Emit(f, v) PROVE FlowIInv'
    BY <2>2, SettleIInv DEF Emit
  <2>3. CASE TimerFires(f)
    <3>1. stage[f] \in {"registering", "live"}
      BY <2>3 DEF TimerFires, FlowIInv, NothingBeforeRegister, TypeOK
    <3>2. TimedOut \in Outcomes
      BY FlowAssumption DEF Outcomes
    <3> QED  BY <2>3, <3>1, <3>2, SettleIInv DEF TimerFires
  <2>4. ASSUME NEW h \in BOOLEAN, RegisterReturns(f, h) PROVE FlowIInv'
    BY <2>4, RegisterReturnsIInv
  <2>5. CASE RegisterThrows(f)
    <3>1. Failure \in Outcomes
      BY DEF Outcomes
    <3> QED  BY <2>5, <3>1, SettleIInv DEF RegisterThrows
  <2>6. CASE CleanupEnds(f)
    BY <2>6, CleanupEndsIInv
  <2> QED  BY <1>1, <2>1, <2>2, <2>3, <2>4, <2>5, <2>6 DEF FlowStep
<1>2. CASE UNCHANGED vars
  BY <1>2
  DEF vars, FlowIInv, TypeOK, NothingBeforeRegister, SettledIsCleanedUp,
      ListenerIsAccountedFor, PromiseFollowsDecision
<1> QED  BY <1>1, <1>2 DEF Next

THEOREM FlowInvariant == Spec => []FlowIInv
  BY FlowInitIInv, FlowNextIInv, PTL DEF Spec

-----------------------------------------------------------------------------

(* The closure variables of runEventFlow always have their types.          *)
THEOREM FlowTypeCorrect == Spec => []TypeOK
<1>1. FlowIInv => TypeOK
  BY DEF FlowIInv
<1> QED  BY <1>1, FlowInvariant, PTL

(* No registration and no timer outlives a settled flow, also when register*)
(* emitted before it returned.                                             *)
THEOREM FlowLeavesNothing == Spec => []NothingOutlivesTheFlow
<1>1. FlowIInv => NothingOutlivesTheFlow
  BY DEF FlowIInv, NothingOutlivesTheFlow, SettledIsCleanedUp,
         ListenerIsAccountedFor, PromiseFollowsDecision
<1> QED  BY <1>1, FlowInvariant, PTL

(* The first terminal event is what the promise settles with.              *)
THEOREM FlowFirstEventDecides == Spec => []FirstEventDecides
<1>1. FlowIInv => FirstEventDecides
  BY DEF FlowIInv, FirstEventDecides, PromiseFollowsDecision
<1> QED  BY <1>1, FlowInvariant, PTL

-----------------------------------------------------------------------------

(* A settling step concludes the one-shot value at once if nothing is held,*)
(* and is invisible if the flow has settled or still has to clean up.      *)
LEMMA SettleConcludes ==
    ASSUME FlowIInv, NEW f \in Flows, NEW v \in Outcomes,
           Settle(f, v), UNCHANGED listener
    PROVE  OneShotFlows!Next \/ UNCHANGED <<promise, listener>>
<1> USE DEF FlowIInv
<1>1. CASE settled[f]
  BY <1>1 DEF Settle, settleVars
<1>2. CASE ~settled[f] /\ held[f]
  <2>1. promise' = [promise EXCEPT ![f] = promise[f]]
    BY <1>2 DEF Settle
  <2> QED  BY <2>1 DEF TypeOK
<1>3. CASE ~settled[f] /\ ~held[f]
  <2>1. promise[f] = Pending
    BY <1>3 DEF PromiseFollowsDecision, SettledIsCleanedUp
  <2>2. promise' = [promise EXCEPT ![f] = v]
    BY <1>3 DEF Settle
  <2>3. listener[f] # "registered"
    BY <1>3 DEF ListenerIsAccountedFor
  <2>4. listener' = [listener EXCEPT
                       ![f] = IF @ = "registered" THEN "released" ELSE @]
    BY <2>3 DEF TypeOK
  <2>5. OneShotFlows!Conclude(f, v)
    BY <2>1, <2>2, <2>4 DEF OneShotFlows!Conclude
  <2> QED  BY <2>5 DEF OneShotFlows!Next
<1> QED  BY <1>1, <1>2, <1>3

(* Every step of the flows is a step of their abstract specification, or   *)
(* does not show.                                                          *)
LEMMA FlowStepSimulation ==
    FlowIInv /\ [Next]_vars => [OneShotFlows!Next]_<<promise, listener>>
<1> SUFFICES ASSUME FlowIInv, [Next]_vars
             PROVE  OneShotFlows!Next \/ UNCHANGED <<promise, listener>>
  OBVIOUS
<1>1. ASSUME NEW f \in Flows, FlowStep(f)
      PROVE  OneShotFlows!Next \/ UNCHANGED <<promise, listener>>
  <2>1. CASE Start(f)
    BY <2>1 DEF Start
  <2>2. ASSUME NEW v \in Outcomes, Emit(f, v)
        PROVE  OneShotFlows!Next \/ UNCHANGED <<promise, listener>>
    BY <2>2, SettleConcludes DEF Emit
  <2>3. CASE TimerFires(f)
    <3>1. TimedOut \in Outcomes
      BY FlowAssumption DEF Outcomes
    <3> QED  BY <2>3, <3>1, SettleConcludes DEF TimerFires
  <2>4. ASSUME NEW h \in BOOLEAN, RegisterReturns(f, h)
        PROVE  OneShotFlows!Next \/ UNCHANGED <<promise, listener>>
    <3>1. CASE h
      <4>1. OneShotFlows!Acquire(f)
        BY <2>4, <3>1
        DEF RegisterReturns, OneShotFlows!Acquire, FlowIInv, TypeOK,
            NothingBeforeRegister
      <4> QED  BY <4>1 DEF OneShotFlows!Next
    <3>2. CASE ~h
      BY <2>4, <3>2 DEF RegisterReturns, FlowIInv, TypeOK
    <3> QED  BY <3>1, <3>2
  <2>5. CASE RegisterThrows(f)
    <3>1. Failure \in Outcomes
      BY DEF Outcomes
    <3> QED  BY <2>5, <3>1, SettleConcludes DEF RegisterThrows
  <2>6. CASE CleanupEnds(f)
    <3>1. listener[f] = "registered" /\ settled[f]
      BY <2>6 DEF CleanupEnds, FlowIInv, ListenerIsAccountedFor
    <3>2. listener' = [listener EXCEPT ![f] = "released"]
      BY <2>6 DEF CleanupEnds
    <3>3. CASE cleaning[f] = "settle"
      <4>1. promise[f] = Pending /\ promise' = [promise EXCEPT ![f] = decided[f]]
        BY <2>6, <3>3 DEF CleanupEnds, FlowIInv, PromiseFollowsDecision
      <4>2. decided[f] \in Outcomes
        BY <3>1 DEF FlowIInv, SettledIsCleanedUp, TypeOK
      <4>3. OneShotFlows!Conclude(f, decided[f])
        BY <3>1, <3>2, <4>1 DEF OneShotFlows!Conclude
      <4> QED  BY <4>2, <4>3 DEF OneShotFlows!Next
    <3>4. CASE cleaning[f] # "settle"
      <4>1. UNCHANGED promise
        BY <2>6, <3>4 DEF CleanupEnds, FlowIInv, TypeOK
      <4>2. OneShotFlows!Release(f)
        BY <3>1, <3>2, <4>1 DEF OneShotFlows!Release
      <4> QED  BY <4>2 DEF OneShotFlows!Next
    <3> QED  BY <3>3, <3>4
  <2> QED  BY <1>1, <2>1, <2>2, <2>3, <2>4, <2>5, <2>6 DEF FlowStep
<1> QED  BY <1>1 DEF Next, vars

(* The flows implement one-shot values whose listener is given back by the *)
(* time the value is out.                                                  *)
THEOREM FlowImplementsOneShot == Spec => ImplementsOneShot
<1>1. Init => OneShotFlows!Init
  BY DEF Init, OneShotFlows!Init
<1> QED
  BY <1>1, FlowInvariant, FlowStepSimulation, PTL
  DEF Spec, ImplementsOneShot, OneShotFlows!Spec
=============================================================================
