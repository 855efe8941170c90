-------------------------- MODULE GrantCoordinator --------------------------
(***************************************************************************)
(* The client-side dedupe of server grant callbacks: class                 *)
(* IapGrantCoordinator of packages/sdk/src/iap/grant-coordinator.ts, one   *)
(* instance per IAP adapter.                                               *)
(*                                                                         *)
(* JavaScript runs one piece of code at a time, so a call of run() is one  *)
(* step.  What interleaves are the turns that follow it: the settlement of *)
(* the consumer's grant callback, the resumption of each awaiting caller,  *)
(* and the `finally` that deletes the in-flight entry, which is queued     *)
(* behind the callers that were already waiting.  Each is an action.       *)
(***************************************************************************)
EXTENDS Naturals

CONSTANTS Orders,   \* order ids
          Skus,     \* product skus
          Subs,     \* subscription ids
          Callers,  \* identities of single calls of run()
          None      \* the undefined order, sku or subscription id

ASSUME NoneAssumption == None \notin Orders \cup Skus \cup Subs

VARIABLES inFlight,     \* the inFlight Map: one attempt per order
          granted,      \* the granted Map
          call,         \* the awaiting side of every run() call
          outstanding,  \* history: grant callbacks running, per order
          successes     \* history: grant callbacks that resolved, per order

coordVars == <<inFlight, granted, call, outstanding, successes>>

MaybeSub == Subs \cup {None}

Targets == [order : Orders, sku : Skus, sub : MaybeSub]

AttemptStates == {"absent", "pending", "resolved", "rejected"}

NoAttempt == [state |-> "absent", sku |-> None, sub |-> None, waiters |-> {}]

NotGranted == [sku |-> None, sub |-> None]

IdleCall == [phase |-> "idle", order |-> None, sku |-> None, sub |-> None,
             verdict |-> "none"]

IsGranted(o) == granted[o] # NotGranted

\* Mutant: the subscription is not compared.
SameTargetBySku(existing, t) == existing.sku = t.sku

(***************************************************************************)
(* The join rule: the skus agree, and a caller that names a subscription   *)
(* must name the one the existing grant has.                               *)
(***************************************************************************)
SameTarget(existing, t) ==
    /\ existing.sku = t.sku
    /\ t.sub \in {None, existing.sub}

CallFor(t, phase, verdict) ==
    [phase |-> phase, order |-> t.order, sku |-> t.sku, sub |-> t.sub,
     verdict |-> verdict]

(***************************************************************************)
(* What an awaiting caller will observe of an attempt that has settled.    *)
(***************************************************************************)
VerdictOf(state) == IF state = "resolved" THEN "ok" ELSE "failed"

CoordInit ==
    /\ inFlight = [o \in Orders |-> NoAttempt]
    /\ granted = [o \in Orders |-> NotGranted]
    /\ call = [c \in Callers |-> IdleCall]
    /\ outstanding = [o \in Orders |-> 0]
    /\ successes = [o \in Orders |-> 0]

(***************************************************************************)
(* run(target) finds an attempt in flight for the same target and returns  *)
(* its promise.  The entry may already have settled: it stays in the Map   *)
(* until the `finally` callback has run.                                   *)
(***************************************************************************)
Join(c, t) ==
    LET a == inFlight[t.order]
    IN  /\ a.state # "absent"
        /\ SameTarget(a, t)
        /\ \/ /\ a.state = "pending"
              /\ call' = [call EXCEPT ![c] = CallFor(t, "waiting", "none")]
              /\ inFlight' = [inFlight EXCEPT ![t.order].waiters = @ \cup {c}]
           \/ /\ a.state # "pending"
              /\ call' = [call EXCEPT
                            ![c] = CallFor(t, "settled", VerdictOf(a.state))]
              /\ UNCHANGED inFlight
        /\ UNCHANGED <<granted, outstanding, successes>>

(***************************************************************************)
(* run(target) finds an attempt or a cached grant of the order for another *)
(* target and rejects without touching either.                             *)
(***************************************************************************)
RefuseConflict(c, t) ==
    /\ \/ /\ inFlight[t.order].state # "absent"
          /\ ~SameTarget(inFlight[t.order], t)
       \/ /\ inFlight[t.order].state = "absent"
          /\ IsGranted(t.order)
          /\ ~SameTarget(granted[t.order], t)
    /\ call' = [call EXCEPT ![c] = CallFor(t, "settled", "conflict")]
    /\ UNCHANGED <<inFlight, granted, outstanding, successes>>

(***************************************************************************)
(* run(target) finds the order granted for the same target.                *)
(***************************************************************************)
Reuse(c, t) ==
    /\ inFlight[t.order].state = "absent"
    /\ IsGranted(t.order)
    /\ SameTarget(granted[t.order], t)
    /\ call' = [call EXCEPT ![c] = CallFor(t, "settled", "ok")]
    /\ UNCHANGED <<inFlight, granted, outstanding, successes>>

(***************************************************************************)
(* The consumer's grant callback is invoked and the attempt recorded.      *)
(***************************************************************************)
Dispatch(c, t) ==
    /\ inFlight' = [inFlight EXCEPT
                      ![t.order] = [state |-> "pending", sku |-> t.sku,
                                    sub |-> t.sub, waiters |-> {c}]]
    /\ call' = [call EXCEPT ![c] = CallFor(t, "waiting", "none")]
    /\ outstanding' = [outstanding EXCEPT ![t.order] = @ + 1]
    /\ UNCHANGED <<granted, successes>>

\* Mutant: run() does not look at the granted Map.
AttemptIgnoringGranted(c, t) ==
    inFlight[t.order].state = "absent" /\ Dispatch(c, t)

(***************************************************************************)
(* run(target) calls the consumer's grant callback and records the attempt.*)
(***************************************************************************)
Attempt(c, t) ==
    /\ inFlight[t.order].state = "absent"
    /\ ~IsGranted(t.order)
    /\ Dispatch(c, t)

Run(c, t) ==
    /\ call[c].phase = "idle"
    /\ \/ Join(c, t)
       \/ RefuseConflict(c, t)
       \/ Reuse(c, t)
       \/ Attempt(c, t)

(***************************************************************************)
(* Every caller waiting on the attempt of order o is resumed with verdict. *)
(***************************************************************************)
Resume(o, verdict) ==
    [c \in Callers |->
        IF c \in inFlight[o].waiters
          THEN [call[c] EXCEPT !.phase = "settled", !.verdict = verdict]
          ELSE call[c]]

(***************************************************************************)
(* The consumer's callback resolves: the attempt stores the grant, then    *)
(* resolves.                                                               *)
(***************************************************************************)
GrantResolves(o) ==
    /\ inFlight[o].state = "pending"
    /\ granted' = [granted EXCEPT
                     ![o] = [sku |-> inFlight[o].sku, sub |-> inFlight[o].sub]]
    /\ inFlight' = [inFlight EXCEPT ![o].state = "resolved"]
    /\ call' = Resume(o, "ok")
    /\ outstanding' = [outstanding EXCEPT ![o] = @ - 1]
    /\ successes' = [successes EXCEPT ![o] = @ + 1]

\* Mutant: a settled attempt is settled again.
GrantRejectsAgain(o) ==
    /\ inFlight[o].state \in {"pending", "rejected"}
    /\ inFlight' = [inFlight EXCEPT ![o].state = "rejected"]
    /\ call' = Resume(o, "failed")
    /\ outstanding' = [outstanding EXCEPT ![o] = @ - 1]
    /\ UNCHANGED <<granted, successes>>

(***************************************************************************)
(* The consumer's callback rejects or throws: nothing is stored.           *)
(***************************************************************************)
GrantRejects(o) ==
    /\ inFlight[o].state = "pending"
    /\ inFlight' = [inFlight EXCEPT ![o].state = "rejected"]
    /\ call' = Resume(o, "failed")
    /\ outstanding' = [outstanding EXCEPT ![o] = @ - 1]
    /\ UNCHANGED <<granted, successes>>

\* Mutant: the entry is deleted without waiting for the attempt.
ReleaseEarly(o) ==
    /\ inFlight[o].state # "absent"
    /\ inFlight' = [inFlight EXCEPT ![o] = NoAttempt]
    /\ UNCHANGED <<granted, call, outstanding, successes>>

(***************************************************************************)
(* The `finally` callback deletes the entry.  It is queued by the `catch`  *)
(* callback, hence behind the callers that waited for the attempt.         *)
(***************************************************************************)
Release(o) ==
    /\ inFlight[o].state \in {"resolved", "rejected"}
    /\ inFlight[o].waiters = {}
    /\ inFlight' = [inFlight EXCEPT ![o] = NoAttempt]
    /\ UNCHANGED <<granted, call, outstanding, successes>>

(***************************************************************************)
(* The caller's `await coordinator.run(...)` resumes.                      *)
(***************************************************************************)
Continue(c) ==
    /\ call[c].phase = "settled"
    /\ call' = [call EXCEPT ![c].phase = "done"]
    /\ inFlight' = [inFlight EXCEPT ![call[c].order].waiters = @ \ {c}]
    /\ UNCHANGED <<granted, outstanding, successes>>

CoordNext ==
    \/ \E c \in Callers, t \in Targets : Run(c, t)
    \/ \E c \in Callers : Continue(c)
    \/ \E o \in Orders : GrantResolves(o) \/ GrantRejects(o) \/ Release(o)

CoordSpec == CoordInit /\ [][CoordNext]_coordVars

(***************************************************************************)
(* Microtasks always run; the consumer's grant callback is assumed to      *)
(* settle, which is part of its contract.                                  *)
(***************************************************************************)
CoordFairness ==
    /\ \A c \in Callers : WF_coordVars(Continue(c))
    /\ \A o \in Orders : /\ WF_coordVars(GrantResolves(o) \/ GrantRejects(o))
                         /\ WF_coordVars(Release(o))

CoordFairSpec == CoordSpec /\ CoordFairness

-----------------------------------------------------------------------------

AttemptType ==
    [state : AttemptStates, sku : Skus \cup {None}, sub : MaybeSub,
     waiters : SUBSET Callers]

CallType ==
    [phase : {"idle", "waiting", "settled", "done"},
     order : Orders \cup {None}, sku : Skus \cup {None}, sub : MaybeSub,
     verdict : {"none", "ok", "failed", "conflict"}]

(* Type invariant of the coordinator's two Maps and its callers.           *)
CoordTypeOK ==
    /\ inFlight \in [Orders -> AttemptType]
    /\ granted \in [Orders -> [sku : Skus \cup {None}, sub : MaybeSub]]
    /\ call \in [Callers -> CallType]
    /\ outstanding \in [Orders -> Nat]
    /\ successes \in [Orders -> Nat]

(* Concurrent calls for one order share one server request: at no time do  *)
(* two grant callbacks run for the same order, and the one that runs is    *)
(* the one the in-flight entry stands for (the inFlight check of run()).   *)
SingleFlight ==
    \A o \in Orders :
        outstanding[o] = IF inFlight[o].state = "pending" THEN 1 ELSE 0

(* An order the server granted is never granted again in this scope: its   *)
(* callback resolves at most once, whatever the interleaving of duplicate  *)
(* success events, recoveries and retries after failures.                  *)
GrantedOnce ==
    \A o \in Orders : successes[o] = IF IsGranted(o) THEN 1 ELSE 0

(* A caller is told "granted" only for a grant of exactly what it asked:   *)
(* the same order and sku and, if it named one, the same subscription.     *)
OkMeansGranted ==
    \A c \in Callers :
        call[c].verdict = "ok" =>
            /\ IsGranted(call[c].order)
            /\ granted[call[c].order].sku = call[c].sku
            /\ call[c].sub \in {None, granted[call[c].order].sub}

(* A call that can wait is in the waiter set of a pending attempt for its  *)
(* own target: no caller is left behind when an entry is deleted.          *)
NoOrphanedCaller ==
    \A c \in Callers :
        call[c].phase = "waiting" =>
            /\ inFlight[call[c].order].state = "pending"
            /\ c \in inFlight[call[c].order].waiters

(* A stored grant is final: a later conflicting, failing or duplicate call *)
(* neither replaces nor removes it.                                        *)
GrantsAreKept ==
    [][\A o \in Orders : IsGranted(o) => granted'[o] = granted[o]]_coordVars

(* Every run() call returns: no caller waits for ever on an entry.         *)
CallsReturn ==
    \A c \in Callers : call[c].phase = "waiting" ~> call[c].phase = "done"

(* The class comment: "the entry is removed when the attempt rejects, so   *)
(* the next call retries for real", i.e. a call made when no callback runs *)
(* never fails with the failure of an earlier attempt.                     *)
NextCallRetries ==
    [][\A c \in Callers :
          call[c].phase = "idle" => call'[c].verdict # "failed"]_coordVars
=============================================================================
