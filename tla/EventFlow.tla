------------------------------ MODULE EventFlow ------------------------------
(***************************************************************************)
(* runEventFlow of packages/sdk/src/event-flow.ts: the one-shot flow under *)
(* every purchase, ad, agreement and share operation.                      *)
(*                                                                         *)
(* All flows share one thread.  Two calls leave a flow's code and may come *)
(* back into it: register may emit before it returns, and the platform's   *)
(* cleanup function may emit while it runs.  Both are split into a step    *)
(* that enters them and one that leaves them; while any flow is inside     *)
(* one, the thread is busy and no timer fires.                             *)
(***************************************************************************)
EXTENDS Naturals

CONSTANTS Flows,        \* runEventFlow calls
          Results,      \* what the reducer and onTimeout may resolve with
          TimedOut,     \* the result of onTimeout
          Failure,      \* rejection with an error
          Pending,      \* not settled
          WithDeadline  \* the flows with timeoutMs > 0

ASSUME FlowAssumption ==
    /\ Failure \notin Results
    /\ Pending \notin Results \cup {Failure}
    /\ TimedOut \in Results
    /\ WithDeadline \subseteq Flows

VARIABLES stage,      \* of the executor: "start", "registering" or "live"
          settled,    \* the flag of the same name
          cleanedUp,  \* the flag of the same name
          timer,      \* "none", "armed" or "off" (cleared, or fired)
          held,       \* registeredCleanup holds a function
          listener,   \* at the platform: "none", "registered", "released"
          cleaning,   \* the cleanup function runs for: "none", "settle", "late"
          decided,    \* the value settle or fail was first called with
          promise     \* what the caller sees

vars == <<stage, settled, cleanedUp, timer, held, listener, cleaning, decided,
          promise>>

settleVars == <<settled, cleanedUp, timer, held, cleaning, decided, promise>>

Outcomes == Results \cup {Failure}

Init ==
    /\ stage = [f \in Flows |-> "start"]
    /\ settled = [f \in Flows |-> FALSE]
    /\ cleanedUp = [f \in Flows |-> FALSE]
    /\ timer = [f \in Flows |-> "none"]
    /\ held = [f \in Flows |-> FALSE]
    /\ listener = [f \in Flows |-> "none"]
    /\ cleaning = [f \in Flows |-> "none"]
    /\ decided = [f \in Flows |-> Pending]
    /\ promise = [f \in Flows |-> Pending]

ThreadBusy ==
    \E f \in Flows : stage[f] = "registering" \/ cleaning[f] # "none"

(***************************************************************************)
(* The executor arms the timer, then calls register.                       *)
(***************************************************************************)
Start(f) ==
    /\ stage[f] = "start"
    /\ stage' = [stage EXCEPT ![f] = "registering"]
    /\ timer' = [timer EXCEPT ![f] = IF f \in WithDeadline THEN "armed" ELSE @]
    /\ UNCHANGED <<settled, cleanedUp, held, listener, cleaning, decided, promise>>

(***************************************************************************)
(* runCleanup, first call: clear the timer and enter the cleanup function  *)
(* if register has returned one.  settle and fail call it once; cleanedUp  *)
(* guards it all the same.                                                 *)
(***************************************************************************)
RunCleanup(f) ==
    IF cleanedUp[f]
      THEN UNCHANGED <<cleanedUp, timer, held, cleaning>>
      ELSE /\ cleanedUp' = [cleanedUp EXCEPT ![f] = TRUE]
           /\ timer' = [timer EXCEPT ![f] = IF @ = "armed" THEN "off" ELSE @]
           /\ held' = [held EXCEPT ![f] = FALSE]
           /\ cleaning' = [cleaning EXCEPT ![f] = IF held[f] THEN "settle" ELSE @]

\* Mutant: the promise settles before the cleanup function has run.
SettleEarly(f, v) ==
    IF settled[f]
      THEN UNCHANGED settleVars
      ELSE /\ settled' = [settled EXCEPT ![f] = TRUE]
           /\ decided' = [decided EXCEPT ![f] = v]
           /\ RunCleanup(f)
           /\ promise' = [promise EXCEPT ![f] = v]

(***************************************************************************)
(* settle and fail: the first call decides.  The promise settles right away*)
(* unless the cleanup function has to run first.                           *)
(***************************************************************************)
Settle(f, v) ==
    IF settled[f]
      THEN UNCHANGED settleVars
      ELSE /\ settled' = [settled EXCEPT ![f] = TRUE]
           /\ decided' = [decided EXCEPT ![f] = v]
           /\ RunCleanup(f)
           /\ promise' = [promise EXCEPT ![f] = IF held[f] THEN @ ELSE v]

(***************************************************************************)
(* emit with an event the reducer resolves with v, or throws on.  Events   *)
(* the reducer leaves open change nothing.                                 *)
(***************************************************************************)
Emit(f, v) ==
    /\ stage[f] \in {"registering", "live"}
    /\ Settle(f, v)
    /\ UNCHANGED <<stage, listener>>

TimerFires(f) ==
    /\ ~ThreadBusy
    /\ timer[f] = "armed"
    /\ Settle(f, TimedOut)
    /\ UNCHANGED <<stage, listener>>

\* Mutant: a flow that settled inside register keeps its registration.
RegisterReturnsLeaking(f, hasCleanup) ==
    /\ stage[f] = "registering"
    /\ stage' = [stage EXCEPT ![f] = "live"]
    /\ listener' = [listener EXCEPT ![f] = IF hasCleanup THEN "registered" ELSE @]
    /\ held' = [held EXCEPT ![f] = hasCleanup]
    /\ UNCHANGED <<settled, cleanedUp, timer, cleaning, decided, promise>>

(***************************************************************************)
(* register returns, with a cleanup function or without one.  If the flow  *)
(* settled meanwhile, the function is entered here.                        *)
(***************************************************************************)
RegisterReturns(f, hasCleanup) ==
    /\ stage[f] = "registering"
    /\ stage' = [stage EXCEPT ![f] = "live"]
    /\ listener' = [listener EXCEPT ![f] = IF hasCleanup THEN "registered" ELSE @]
    /\ held' = [held EXCEPT ![f] = hasCleanup /\ ~settled[f]]
    /\ cleaning' = [cleaning EXCEPT
                      ![f] = IF hasCleanup /\ settled[f] THEN "late" ELSE @]
    /\ UNCHANGED <<settled, cleanedUp, timer, decided, promise>>

RegisterThrows(f) ==
    /\ stage[f] = "registering"
    /\ stage' = [stage EXCEPT ![f] = "live"]
    /\ Settle(f, Failure)
    /\ UNCHANGED listener

(***************************************************************************)
(* The cleanup function returns or throws, which is swallowed.  On the way *)
(* out of settle and fail the promise settles.                             *)
(***************************************************************************)
CleanupEnds(f) ==
    /\ cleaning[f] # "none"
    /\ cleaning' = [cleaning EXCEPT ![f] = "none"]
    /\ listener' = [listener EXCEPT ![f] = "released"]
    /\ promise' = [promise EXCEPT
                     ![f] = IF cleaning[f] = "settle" THEN decided[f] ELSE @]
    /\ UNCHANGED <<stage, settled, cleanedUp, timer, held, decided>>

FlowStep(f) ==
    \/ Start(f)
    \/ \E v \in Outcomes : Emit(f, v)
    \/ TimerFires(f)
    \/ \E hasCleanup \in BOOLEAN : RegisterReturns(f, hasCleanup)
    \/ RegisterThrows(f)
    \/ CleanupEnds(f)

Next == \E f \in Flows : FlowStep(f)

Spec == Init /\ [][Next]_vars

(***************************************************************************)
(* Code that has been entered comes back, and timers fire.  The platform   *)
(* owes nothing: no event is assumed to come.                              *)
(***************************************************************************)
Fairness ==
    \A f \in Flows :
        /\ WF_vars(RegisterThrows(f) \/ \E h \in BOOLEAN : RegisterReturns(f, h))
        /\ WF_vars(TimerFires(f))
        /\ WF_vars(CleanupEnds(f))

FairSpec == Spec /\ Fairness

-----------------------------------------------------------------------------

(* Type invariant of the closure variables of runEventFlow.                *)
TypeOK ==
    /\ stage \in [Flows -> {"start", "registering", "live"}]
    /\ settled \in [Flows -> BOOLEAN]
    /\ cleanedUp \in [Flows -> BOOLEAN]
    /\ timer \in [Flows -> {"none", "armed", "off"}]
    /\ held \in [Flows -> BOOLEAN]
    /\ listener \in [Flows -> {"none", "registered", "released"}]
    /\ cleaning \in [Flows -> {"none", "settle", "late"}]
    /\ decided \in [Flows -> Outcomes \cup {Pending}]
    /\ promise \in [Flows -> Outcomes \cup {Pending}]

(* "No orphaned listener outlives the call": once control is back at the   *)
(* event loop, a settled promise means that neither the registration nor   *)
(* the timer is left behind -- also when register emitted before it        *)
(* returned its cleanup function.                                          *)
NothingOutlivesTheFlow ==
    \A f \in Flows :
        promise[f] # Pending /\ stage[f] = "live" /\ cleaning[f] = "none" =>
            /\ listener[f] # "registered"
            /\ ~held[f]
            /\ timer[f] # "armed"

(* The promise settles with the first terminal event, whatever arrives     *)
(* while the cleanup function runs or afterwards, and a cleanup function   *)
(* that throws neither changes nor withholds it.                           *)
FirstEventDecides ==
    \A f \in Flows :
        /\ promise[f] \in {Pending, decided[f]}
        /\ cleaning[f] # "settle" => promise[f] = decided[f]

(* With a deadline the flow settles, even if no event ever arrives.        *)
FlowSettles ==
    \A f \in WithDeadline : stage[f] = "registering" ~> promise[f] # Pending

(* The flows implement their abstract specification: one-shot values, each *)
(* coming out only when the flow's listener has been given back.           *)
OneShotFlows ==
    INSTANCE OneShot WITH
        Values <- Outcomes, value <- promise, resource <- listener

ImplementsOneShot == OneShotFlows!Spec
=============================================================================
