----------------------- MODULE GrantCoordinatorProofs -----------------------
(***************************************************************************)
(* Proofs about GrantCoordinator, for any sets of orders, skus,            *)
(* subscriptions and callers.                                              *)
(*                                                                         *)
(* SingleFlight and GrantedOnce hold because a pending entry excludes a    *)
(* stored grant; OkMeansGranted because every waiter of an entry asked for *)
(* what the entry stands for.  Entries and Waiters say just that, and are  *)
(* what the invariants lack to be inductive.                               *)
(***************************************************************************)
EXTENDS GrantCoordinator, TLAPS

(* An entry stands for a target that is not granted yet, or for the grant  *)
(* that it has stored.                                                     *)
Entries ==
    \A o \in Orders :
        /\ inFlight[o].state # "absent" => inFlight[o].sku \in Skus
        /\ inFlight[o].state = "pending" => ~IsGranted(o)
        /\ inFlight[o].state = "resolved" =>
              /\ granted[o].sku = inFlight[o].sku
              /\ granted[o].sub = inFlight[o].sub

(* The waiters of an entry asked for its target; they wait while it is     *)
(* pending and are about to continue when it has settled.                  *)
Waiters ==
    \A o \in Orders : \A c \in inFlight[o].waiters :
        /\ inFlight[o].state # "absent"
        /\ call[c].order = o
        /\ SameTarget(inFlight[o], call[c])
        /\ call[c].phase =
              IF inFlight[o].state = "pending" THEN "waiting" ELSE "settled"

(* What is not idle names an order.                                        *)
Named == \A c \in Callers : call[c].phase # "idle" => call[c].order \in Orders

CoordIInv ==
    /\ CoordTypeOK
    /\ SingleFlight
    /\ GrantedOnce
    /\ OkMeansGranted
    /\ NoOrphanedCaller
    /\ Entries
    /\ Waiters
    /\ Named

-----------------------------------------------------------------------------

(* The initial Maps are empty and nobody has called.                       *)
LEMMA CoordInitIInv == CoordInit => CoordIInv
  BY NoneAssumption
  DEF CoordInit, CoordIInv, CoordTypeOK, SingleFlight, GrantedOnce,
      OkMeansGranted, NoOrphanedCaller, Entries, Waiters, Named, NoAttempt,
      NotGranted, IdleCall, IsGranted, AttemptType, AttemptStates, CallType,
      MaybeSub

(* Resuming the waiters of an attempt changes their phase and verdict,     *)
(* and nothing else.                                                       *)
LEMMA ResumeFields ==
    ASSUME CoordTypeOK, NEW o \in Orders, NEW v \in {"ok", "failed"},
           call' = Resume(o, v)
    PROVE  /\ call' \in [Callers -> CallType]
           /\ \A c \in Callers :
                 /\ call'[c].order = call[c].order
                 /\ call'[c].sku = call[c].sku
                 /\ call'[c].sub = call[c].sub
                 /\ c \in inFlight[o].waiters =>
                       call'[c].phase = "settled" /\ call'[c].verdict = v
                 /\ c \notin inFlight[o].waiters => call'[c] = call[c]
<1>1. ASSUME NEW c \in Callers
      PROVE  /\ call'[c] \in CallType
             /\ call'[c].order = call[c].order
             /\ call'[c].sku = call[c].sku
             /\ call'[c].sub = call[c].sub
             /\ c \in inFlight[o].waiters =>
                   call'[c].phase = "settled" /\ call'[c].verdict = v
             /\ c \notin inFlight[o].waiters => call'[c] = call[c]
  <2>1. call[c] \in CallType
    BY DEF CoordTypeOK
  <2>2. call'[c] = IF c \in inFlight[o].waiters
                     THEN [call[c] EXCEPT !.phase = "settled", !.verdict = v]
                     ELSE call[c]
    BY DEF Resume
  <2> QED  BY <2>1, <2>2 DEF CallType
<1>2. call' = [c \in Callers |-> call'[c]]
  BY DEF Resume
<1> QED  BY <1>1, <1>2

(* Settling an attempt changes the state of its own entry only.            *)
LEMMA SettledEntry ==
    ASSUME CoordTypeOK, NEW o \in Orders, NEW st \in AttemptStates,
           inFlight' = [inFlight EXCEPT ![o].state = st]
    PROVE  /\ inFlight' \in [Orders -> AttemptType]
           /\ inFlight'[o].state = st
           /\ inFlight'[o].sku = inFlight[o].sku
           /\ inFlight'[o].sub = inFlight[o].sub
           /\ inFlight'[o].waiters = inFlight[o].waiters
           /\ \A p \in Orders \ {o} : inFlight'[p] = inFlight[p]
  BY DEF CoordTypeOK, AttemptType

(* A call that joins a pending attempt becomes one of its waiters: the     *)
(* join rule is what Waiters asks of it.                                   *)
LEMMA JoinPendingIInv ==
    ASSUME CoordIInv, NEW c \in Callers, NEW t \in Targets,
           call[c].phase = "idle", 
           inFlight[t.order].state = "pending", Join(c, t)
    PROVE  CoordIInv'
<1> USE DEF CoordIInv, Join
<1>a. /\ inFlight' \in [Orders -> AttemptType]
      /\ inFlight'[t.order].state = "pending"
      /\ inFlight'[t.order].sku = inFlight[t.order].sku
      /\ inFlight'[t.order].sub = inFlight[t.order].sub
      /\ inFlight'[t.order].waiters = inFlight[t.order].waiters \cup {c}
      /\ \A p \in Orders \ {t.order} : inFlight'[p] = inFlight[p]
  <2>1. t.order \in Orders
    BY DEF Targets
  <2>2. inFlight' = [inFlight EXCEPT ![t.order].waiters = @ \cup {c}]
    OBVIOUS
  <2>3. inFlight[t.order] \in AttemptType
    BY <2>1 DEF CoordTypeOK
  <2>4. inFlight'[t.order] =
          [inFlight[t.order] EXCEPT !.waiters = @ \cup {c}]
    BY <2>1, <2>2 DEF CoordTypeOK
  <2>5. inFlight'[t.order] \in AttemptType
    BY <2>3, <2>4 DEF AttemptType
  <2> QED  BY <2>1, <2>2, <2>3, <2>4, <2>5 DEF CoordTypeOK, AttemptType
<1>b. /\ call' = [call EXCEPT ![c] = CallFor(t, "waiting", "none")]
      /\ CallFor(t, "waiting", "none") \in CallType
  BY DEF Targets, MaybeSub, CallFor, CallType
<1>1. CoordTypeOK'
  BY <1>a, <1>b
  DEF CoordTypeOK
<1>2. SingleFlight'
  BY DEF SingleFlight, CoordTypeOK, AttemptType, AttemptStates, CallType,
         Targets, MaybeSub
<1>3. GrantedOnce'
  BY DEF GrantedOnce, IsGranted
<1>4. OkMeansGranted'
  BY DEF OkMeansGranted, SameTarget, IsGranted, CallFor, CoordTypeOK,
         AttemptType, AttemptStates, CallType, Targets, MaybeSub
<1>5. NoOrphanedCaller'
  BY <1>a, <1>b
  DEF NoOrphanedCaller, Named, CallFor, CoordTypeOK, Targets
<1>6. Entries'
  BY DEF Entries, IsGranted, CoordTypeOK, AttemptType, AttemptStates,
         CallType, Targets, MaybeSub
<1>7. Waiters'
  BY <1>a, <1>b
  DEF Waiters, SameTarget, CallFor, CoordTypeOK
<1>8. Named'
  BY DEF Named, CallFor, CoordTypeOK, AttemptType, AttemptStates, CallType,
         Targets, MaybeSub
<1> QED
  BY <1>1, <1>2, <1>3, <1>4, <1>5, <1>6, <1>7, <1>8


(* A call that finds an entry which has settled already gets its verdict;  *)
(* a resolved entry has stored the grant it stands for.                    *)
LEMMA JoinSettledIInv ==
    ASSUME CoordIInv, NEW c \in Callers, NEW t \in Targets,
           call[c].phase = "idle", 
           inFlight[t.order].state # "pending", Join(c, t)
    PROVE  CoordIInv'
<1> USE DEF CoordIInv, Join
<1>a. \E v \in {"ok", "failed"} :
         /\ call' = [call EXCEPT ![c] = CallFor(t, "settled", v)]
         /\ v = "ok" => inFlight[t.order].state = "resolved"
         /\ inFlight' = inFlight
  BY DEF VerdictOf
<1>1. CoordTypeOK'
  BY DEF CoordTypeOK, AttemptType, AttemptStates, CallType, Targets,
         MaybeSub, CallFor, VerdictOf
<1>2. SingleFlight'
  BY DEF SingleFlight
<1>3. GrantedOnce'
  BY DEF GrantedOnce, IsGranted
<1>4. OkMeansGranted'
  BY NoneAssumption, <1>a
  DEF OkMeansGranted, Entries, SameTarget, IsGranted, NotGranted, CallFor,
      CoordTypeOK, Targets
<1>5. NoOrphanedCaller'
  BY DEF NoOrphanedCaller, CallFor, CoordTypeOK, AttemptType, AttemptStates,
         CallType, Targets, MaybeSub
<1>6. Entries'
  BY DEF Entries, IsGranted
<1>7. Waiters'
  BY <1>a
  DEF Waiters, SameTarget, CallFor, CoordTypeOK, AttemptType
<1>8. Named'
  BY DEF Named, CallFor, CoordTypeOK, AttemptType, AttemptStates, CallType,
         Targets, MaybeSub
<1> QED
  BY <1>1, <1>2, <1>3, <1>4, <1>5, <1>6, <1>7, <1>8


(* A refused call touches neither Map.                                     *)
LEMMA RefuseConflictIInv ==
    ASSUME CoordIInv, NEW c \in Callers, NEW t \in Targets,
           call[c].phase = "idle", RefuseConflict(c, t)
    PROVE  CoordIInv'
<1> USE DEF CoordIInv, RefuseConflict
<1>1. CoordTypeOK'
  BY DEF CoordTypeOK, AttemptType, AttemptStates, CallType, Targets,
         MaybeSub, CallFor
<1>2. SingleFlight'
  BY DEF SingleFlight
<1>3. GrantedOnce'
  BY DEF GrantedOnce, IsGranted
<1>4. OkMeansGranted'
  BY DEF OkMeansGranted, SameTarget, IsGranted, CallFor, CoordTypeOK,
         AttemptType, AttemptStates, CallType, Targets, MaybeSub
<1>5. NoOrphanedCaller'
  BY DEF NoOrphanedCaller, CallFor, CoordTypeOK, AttemptType, AttemptStates,
         CallType, Targets, MaybeSub
<1>6. Entries'
  BY DEF Entries, IsGranted
<1>7. Waiters'
  BY DEF Waiters, SameTarget, CallFor, CoordTypeOK, AttemptType,
         AttemptStates, CallType, Targets, MaybeSub
<1>8. Named'
  BY DEF Named, CallFor, CoordTypeOK, AttemptType, AttemptStates, CallType,
         Targets, MaybeSub
<1> QED
  BY <1>1, <1>2, <1>3, <1>4, <1>5, <1>6, <1>7, <1>8


(* A call that reuses a grant asked for what was granted.                  *)
LEMMA ReuseIInv ==
    ASSUME CoordIInv, NEW c \in Callers, NEW t \in Targets,
           call[c].phase = "idle", Reuse(c, t)
    PROVE  CoordIInv'
<1> USE DEF CoordIInv, Reuse
<1>1. CoordTypeOK'
  BY DEF CoordTypeOK, AttemptType, AttemptStates, CallType, Targets,
         MaybeSub, CallFor
<1>2. SingleFlight'
  BY DEF SingleFlight
<1>3. GrantedOnce'
  BY DEF GrantedOnce, IsGranted
<1>4. OkMeansGranted'
  BY DEF OkMeansGranted, SameTarget, IsGranted, CallFor, CoordTypeOK,
         AttemptType, AttemptStates, CallType, Targets, MaybeSub
<1>5. NoOrphanedCaller'
  BY DEF NoOrphanedCaller, CallFor, CoordTypeOK, AttemptType, AttemptStates,
         CallType, Targets, MaybeSub
<1>6. Entries'
  BY DEF Entries, IsGranted
<1>7. Waiters'
  BY DEF Waiters, SameTarget, CallFor, CoordTypeOK, AttemptType,
         AttemptStates, CallType, Targets, MaybeSub
<1>8. Named'
  BY DEF Named, CallFor, CoordTypeOK, AttemptType, AttemptStates, CallType,
         Targets, MaybeSub
<1> QED
  BY <1>1, <1>2, <1>3, <1>4, <1>5, <1>6, <1>7, <1>8


(* An attempt begins only where no attempt runs and nothing is granted.    *)
LEMMA AttemptIInv ==
    ASSUME CoordIInv, NEW c \in Callers, NEW t \in Targets,
           call[c].phase = "idle", Attempt(c, t)
    PROVE  CoordIInv'
<1> USE DEF CoordIInv, Attempt, Dispatch
<1>1. CoordTypeOK'
  BY DEF CoordTypeOK, AttemptType, AttemptStates, CallType, Targets,
         MaybeSub, CallFor
<1>2. SingleFlight'
  BY DEF SingleFlight, CoordTypeOK, AttemptType, AttemptStates, CallType,
         Targets, MaybeSub
<1>3. GrantedOnce'
  BY DEF GrantedOnce, IsGranted
<1>4. OkMeansGranted'
  BY DEF OkMeansGranted, SameTarget, IsGranted, CallFor, CoordTypeOK,
         AttemptType, AttemptStates, CallType, Targets, MaybeSub
<1>5. NoOrphanedCaller'
  BY DEF NoOrphanedCaller, CallFor, CoordTypeOK, AttemptType, AttemptStates,
         CallType, Targets, MaybeSub
<1>6. Entries'
  BY DEF Entries, IsGranted, CoordTypeOK, AttemptType, AttemptStates,
         CallType, Targets, MaybeSub
<1>7. Waiters'
  BY DEF Waiters, SameTarget, CallFor, CoordTypeOK, AttemptType,
         AttemptStates, CallType, Targets, MaybeSub
<1>8. Named'
  BY DEF Named, CallFor, CoordTypeOK, AttemptType, AttemptStates, CallType,
         Targets, MaybeSub
<1> QED
  BY <1>1, <1>2, <1>3, <1>4, <1>5, <1>6, <1>7, <1>8


(* A resolved attempt stores its own target, which is what all its waiters *)
(* asked for; nobody else depends on the order, which was not granted.     *)
LEMMA GrantResolvesIInv ==
    ASSUME CoordIInv, NEW o \in Orders, GrantResolves(o)
    PROVE  CoordIInv'
<1> USE DEF CoordIInv, GrantResolves
<1>a. /\ inFlight' \in [Orders -> AttemptType]
      /\ inFlight'[o].state = "resolved"
      /\ inFlight'[o].sku = inFlight[o].sku
      /\ inFlight'[o].sub = inFlight[o].sub
      /\ inFlight'[o].waiters = inFlight[o].waiters
      /\ \A p \in Orders \ {o} : inFlight'[p] = inFlight[p]
  BY SettledEntry DEF AttemptStates
<1>b. /\ call' \in [Callers -> CallType]
      /\ \A c \in Callers :
            /\ call'[c].order = call[c].order
            /\ call'[c].sku = call[c].sku
            /\ call'[c].sub = call[c].sub
            /\ c \in inFlight[o].waiters =>
                  call'[c].phase = "settled" /\ call'[c].verdict = "ok"
            /\ c \notin inFlight[o].waiters => call'[c] = call[c]
  BY ResumeFields
<1>1. CoordTypeOK'
  BY <1>a, <1>b
  DEF CoordTypeOK, AttemptType, AttemptStates, CallType, Targets, MaybeSub,
      SingleFlight
<1>2. SingleFlight'
  BY <1>a
  DEF SingleFlight, CoordTypeOK
<1>3. GrantedOnce'
  BY NoneAssumption
  DEF GrantedOnce, Entries, IsGranted, NotGranted, CoordTypeOK
<1>4. OkMeansGranted'
  BY NoneAssumption, <1>b
  DEF OkMeansGranted, Entries, Waiters, SameTarget, IsGranted, NotGranted,
      CoordTypeOK
<1>5. NoOrphanedCaller'
  BY <1>a, <1>b
  DEF NoOrphanedCaller, Waiters, Named, CoordTypeOK
<1>6. Entries'
  BY <1>a
  DEF Entries, IsGranted, CoordTypeOK
<1>7. Waiters'
  BY <1>a, <1>b
  DEF Waiters, SameTarget, CoordTypeOK, AttemptType
<1>8. Named'
  BY <1>b
  DEF Named, Waiters
<1> QED
  BY <1>1, <1>2, <1>3, <1>4, <1>5, <1>6, <1>7, <1>8


(* A rejected attempt stores nothing, and its waiters are told so.         *)
LEMMA GrantRejectsIInv ==
    ASSUME CoordIInv, NEW o \in Orders, GrantRejects(o)
    PROVE  CoordIInv'
<1> USE DEF CoordIInv, GrantRejects
<1>a. /\ inFlight' \in [Orders -> AttemptType]
      /\ inFlight'[o].state = "rejected"
      /\ inFlight'[o].sku = inFlight[o].sku
      /\ inFlight'[o].sub = inFlight[o].sub
      /\ inFlight'[o].waiters = inFlight[o].waiters
      /\ \A p \in Orders \ {o} : inFlight'[p] = inFlight[p]
  BY SettledEntry DEF AttemptStates
<1>b. /\ call' \in [Callers -> CallType]
      /\ \A c \in Callers :
            /\ call'[c].order = call[c].order
            /\ call'[c].sku = call[c].sku
            /\ call'[c].sub = call[c].sub
            /\ c \in inFlight[o].waiters =>
                  call'[c].phase = "settled" /\ call'[c].verdict = "failed"
            /\ c \notin inFlight[o].waiters => call'[c] = call[c]
  BY ResumeFields
<1>1. CoordTypeOK'
  BY <1>a, <1>b
  DEF CoordTypeOK, AttemptType, AttemptStates, CallType, Targets, MaybeSub,
      SingleFlight
<1>2. SingleFlight'
  BY <1>a
  DEF SingleFlight, CoordTypeOK
<1>3. GrantedOnce'
  BY DEF GrantedOnce, IsGranted
<1>4. OkMeansGranted'
  BY <1>b
  DEF OkMeansGranted, SameTarget, IsGranted, CoordTypeOK
<1>5. NoOrphanedCaller'
  BY <1>a, <1>b
  DEF NoOrphanedCaller, Waiters, Named, CoordTypeOK
<1>6. Entries'
  BY <1>a
  DEF Entries, IsGranted, CoordTypeOK
<1>7. Waiters'
  BY <1>a, <1>b
  DEF Waiters, SameTarget, CoordTypeOK, AttemptType
<1>8. Named'
  BY <1>b
  DEF Named, Waiters
<1> QED
  BY <1>1, <1>2, <1>3, <1>4, <1>5, <1>6, <1>7, <1>8


(* An entry is deleted only when nobody waits for it any more.             *)
LEMMA ReleaseIInv ==
    ASSUME CoordIInv, NEW o \in Orders, Release(o)
    PROVE  CoordIInv'
<1> USE DEF CoordIInv, Release
<1>1. CoordTypeOK'
  BY DEF CoordTypeOK, AttemptType, AttemptStates, CallType, Targets,
         MaybeSub, NoAttempt
<1>2. SingleFlight'
  BY DEF SingleFlight, NoAttempt, CoordTypeOK, AttemptType, AttemptStates,
         CallType, Targets, MaybeSub
<1>3. GrantedOnce'
  BY DEF GrantedOnce, IsGranted
<1>4. OkMeansGranted'
  BY DEF OkMeansGranted, SameTarget, IsGranted
<1>5. NoOrphanedCaller'
  BY DEF NoOrphanedCaller, CoordTypeOK, AttemptType, AttemptStates,
         CallType, Targets, MaybeSub
<1>6. Entries'
  BY DEF Entries, NoAttempt, IsGranted, CoordTypeOK, AttemptType,
         AttemptStates, CallType, Targets, MaybeSub
<1>7. Waiters'
  BY DEF Waiters, NoAttempt, SameTarget, CoordTypeOK, AttemptType,
         AttemptStates, CallType, Targets, MaybeSub
<1>8. Named'
  BY DEF Named
<1> QED
  BY <1>1, <1>2, <1>3, <1>4, <1>5, <1>6, <1>7, <1>8


(* A call that resumes leaves the waiters of its attempt.                  *)
LEMMA ContinueIInv ==
    ASSUME CoordIInv, NEW c \in Callers, Continue(c)
    PROVE  CoordIInv'
<1> USE DEF CoordIInv, Continue
<1>a. inFlight' \in [Orders -> AttemptType]
  <2>1. call[c].order \in Orders
    BY DEF Named
  <2> QED  BY <2>1 DEF CoordTypeOK, AttemptType
<1>b. call' \in [Callers -> CallType]
  BY DEF CoordTypeOK, CallType
<1>1. CoordTypeOK'
  BY <1>a, <1>b
  DEF CoordTypeOK
<1>2. SingleFlight'
  BY DEF SingleFlight, CoordTypeOK, AttemptType, AttemptStates, CallType,
         Targets, MaybeSub
<1>3. GrantedOnce'
  BY DEF GrantedOnce, IsGranted
<1>4. OkMeansGranted'
  BY DEF OkMeansGranted, SameTarget, IsGranted, CoordTypeOK, AttemptType,
         AttemptStates, CallType, Targets, MaybeSub
<1>5. NoOrphanedCaller'
  BY DEF NoOrphanedCaller, CoordTypeOK, AttemptType, AttemptStates,
         CallType, Targets, MaybeSub
<1>6. Entries'
  BY DEF Entries, IsGranted, CoordTypeOK, AttemptType, AttemptStates,
         CallType, Targets, MaybeSub
<1>7. Waiters'
  BY DEF Waiters, Named, SameTarget, CoordTypeOK, AttemptType,
         AttemptStates, CallType, Targets, MaybeSub
<1>8. Named'
  BY DEF Named, CoordTypeOK, AttemptType, AttemptStates, CallType, Targets,
         MaybeSub
<1> QED
  BY <1>1, <1>2, <1>3, <1>4, <1>5, <1>6, <1>7, <1>8


(* A step that changes nothing.                                            *)
LEMMA CoordStutterIInv ==
    ASSUME CoordIInv, UNCHANGED coordVars
    PROVE  CoordIInv'
  BY DEF CoordIInv, coordVars, CoordTypeOK, SingleFlight, GrantedOnce,
         OkMeansGranted, NoOrphanedCaller, Entries, Waiters, Named, IsGranted

(* The inductive step, action by action.                                   *)
LEMMA CoordNextIInv == CoordIInv /\ [CoordNext]_coordVars => CoordIInv'
<1> SUFFICES ASSUME CoordIInv, [CoordNext]_coordVars
             PROVE  CoordIInv'
  OBVIOUS
<1>1. ASSUME NEW c \in Callers, NEW t \in Targets, Run(c, t)
      PROVE  CoordIInv'
  <2>1. CASE Join(c, t)
    BY <1>1, <2>1, JoinPendingIInv, JoinSettledIInv DEF Run
  <2>2. CASE RefuseConflict(c, t)
    BY <1>1, <2>2, RefuseConflictIInv DEF Run
  <2>3. CASE Reuse(c, t)
    BY <1>1, <2>3, ReuseIInv DEF Run
  <2>4. CASE Attempt(c, t)
    BY <1>1, <2>4, AttemptIInv DEF Run
  <2> QED  BY <1>1, <2>1, <2>2, <2>3, <2>4 DEF Run
<1>2. ASSUME NEW c \in Callers, Continue(c)
      PROVE  CoordIInv'
  BY <1>2, ContinueIInv
<1>3. ASSUME NEW o \in Orders, GrantResolves(o)
      PROVE  CoordIInv'
  BY <1>3, GrantResolvesIInv
<1>4. ASSUME NEW o \in Orders, GrantRejects(o)
      PROVE  CoordIInv'
  BY <1>4, GrantRejectsIInv
<1>5. ASSUME NEW o \in Orders, Release(o)
      PROVE  CoordIInv'
  BY <1>5, ReleaseIInv
<1>6. CASE UNCHANGED coordVars
  BY <1>6, CoordStutterIInv
<1> QED  BY <1>1, <1>2, <1>3, <1>4, <1>5, <1>6 DEF CoordNext

(* Every reachable state satisfies the inductive invariant.                *)
THEOREM CoordInvariant == CoordSpec => []CoordIInv
<1>1. CoordInit => CoordIInv
  BY CoordInitIInv
<1>2. CoordIInv /\ [CoordNext]_coordVars => CoordIInv'
  BY CoordNextIInv
<1> QED  BY <1>1, <1>2, PTL DEF CoordSpec

(* The two Maps and the callers always have their types.                   *)
THEOREM CoordTypeCorrect == CoordSpec => []CoordTypeOK
<1>1. CoordIInv => CoordTypeOK
  BY DEF CoordIInv
<1> QED  BY <1>1, CoordInvariant, PTL

(* Concurrent calls for one order share one server request: at no time do  *)
(* two grant callbacks of one order run.                                   *)
THEOREM CoordSingleFlight == CoordSpec => []SingleFlight
<1>1. CoordIInv => SingleFlight
  BY DEF CoordIInv
<1> QED  BY <1>1, CoordInvariant, PTL

(* The grant callback of an order resolves at most once.                   *)
THEOREM CoordGrantedOnce == CoordSpec => []GrantedOnce
<1>1. CoordIInv => GrantedOnce
  BY DEF CoordIInv
<1> QED  BY <1>1, CoordInvariant, PTL

(* A caller is told "granted" only for a grant of exactly what it asked.   *)
THEOREM CoordOkMeansGranted == CoordSpec => []OkMeansGranted
<1>1. CoordIInv => OkMeansGranted
  BY DEF CoordIInv
<1> QED  BY <1>1, CoordInvariant, PTL

(* No caller is left behind when an entry is deleted.                      *)
THEOREM CoordNoOrphanedCaller == CoordSpec => []NoOrphanedCaller
<1>1. CoordIInv => NoOrphanedCaller
  BY DEF CoordIInv
<1> QED  BY <1>1, CoordInvariant, PTL

(* One step keeps the stored grants: only an attempt that resolves writes  *)
(* one, and its order was not granted before.                              *)
LEMMA StepKeepsGrants ==
    ASSUME CoordIInv, [CoordNext]_coordVars, NEW o \in Orders, IsGranted(o)
    PROVE  granted'[o] = granted[o]
<1>1. ASSUME NEW p \in Orders, GrantResolves(p)
      PROVE  granted'[o] = granted[o]
  BY <1>1 DEF CoordIInv, CoordTypeOK, Entries, GrantResolves
<1>2. ASSUME NEW c \in Callers, NEW t \in Targets, Run(c, t)
      PROVE  granted'[o] = granted[o]
  BY <1>2 DEF Run, Join, RefuseConflict, Reuse, Attempt, Dispatch
<1> QED
  BY <1>1, <1>2 DEF CoordNext, Continue, GrantRejects, Release, coordVars

(* A stored grant is final.                                                *)
THEOREM CoordGrantsAreKept == CoordSpec => GrantsAreKept
<1>1. CoordIInv /\ [CoordNext]_coordVars
        => [\A o \in Orders : IsGranted(o) => granted'[o] = granted[o]]_coordVars
  BY StepKeepsGrants
<1> QED  BY <1>1, CoordInvariant, PTL DEF CoordSpec, GrantsAreKept
=============================================================================
