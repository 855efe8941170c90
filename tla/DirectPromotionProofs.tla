------------------------ MODULE DirectPromotionProofs ------------------------
(***************************************************************************)
(* Proofs about DirectPromotion, for any set of calls, with and without a  *)
(* deadline.                                                               *)
(*                                                                         *)
(* LockFollowsWork is inductive with the types.  AnswersAreTrue needs to   *)
(* know what a payment in progress has not done yet: a call that has not   *)
(* heard from the SDK is not paid, its only possible answer is the         *)
(* timeout, and the outcome its work settles with is true already.         *)
(***************************************************************************)
EXTENDS DirectPromotion, TLAPS

(* Only the SDK's answer ends the time in which nothing is paid.           *)
UnpaidUntilAnswered ==
    \A c \in Calls :
        call[c].phase \in {"idle", "queued", "loading", "paying"} => c \notin paid

(* While its work runs a call has no answer but the timer's.               *)
OnlyTheTimerAnswers ==
    \A c \in Calls :
        /\ call[c].phase = "idle" => call[c].answer = "none"
        /\ Working(c) /\ call[c].answer # "none" =>
              call[c].answer = "timeout" /\ call[c].expired

(* What the work settled with is true, whether or not it gets through.     *)
OutcomesAreTrue ==
    \A c \in Calls :
        call[c].phase = "settled" =>
            /\ call[c].outcome = "granted" => c \in paid
            /\ call[c].outcome \in {"rejected", "unsupported", "error"} =>
                  c \notin paid

PromotionIInv ==
    /\ TypeOK
    /\ LockFollowsWork
    /\ AnswersAreTrue
    /\ UnpaidUntilAnswered
    /\ OnlyTheTimerAnswers
    /\ OutcomesAreTrue

-----------------------------------------------------------------------------

(* normalize calls an answer granted only if it means a payment, and       *)
(* rejected or unsupported only if it means none.                          *)
LEMMA NormalizeIsTrue ==
    ASSUME NEW r \in Responses, NEW p \in BOOLEAN, PaidIsPossible(r, p)
    PROVE  /\ Normalize(r) \in {"granted", "rejected", "unsupported", "unknown"}
           /\ Normalize(r) = "granted" => p
           /\ Normalize(r) \in {"rejected", "unsupported"} => ~p
<1>1. /\ r.thrown \in BOOLEAN /\ r.error \in BOOLEAN
      /\ r.key \in {"absent", "blank", "valid"}
  BY DEF Responses, Objects
<1>2. CASE Contradictory(r)
  <2>1. Normalize(r) = "unknown"
    BY <1>2 DEF Normalize
  <2> QED  BY <2>1
<1>3. CASE ~Contradictory(r) /\ r.key = "valid"
  <2>1. Normalize(r) = "granted"
    BY <1>3 DEF Normalize
  <2>2. ~r.thrown /\ ~r.error
    BY <1>3 DEF Contradictory
  <2> QED  BY <1>3, <2>1, <2>2 DEF PaidIsPossible
<1>4. CASE ~Contradictory(r) /\ r.key = "blank"
  <2>1. Normalize(r) = "unknown"
    BY <1>4 DEF Normalize
  <2> QED  BY <2>1
<1>5. CASE ~Contradictory(r) /\ r.key = "absent"
  <2>1. Normalize(r) = CASE r.code = "unsupported" -> "unsupported"
                         [] r.code = "refusal" -> "rejected"
                         [] r.code \notin {"unsupported", "refusal"} -> "unknown"
    BY <1>5 DEF Normalize
  <2>2. r.code \in {"refusal", "unsupported"} => ~p
    BY <1>5 DEF PaidIsPossible
  <2> QED  BY <2>1, <2>2
<1> QED  BY <1>1, <1>2, <1>3, <1>4, <1>5

(* Nobody has called.                                                      *)
LEMMA PromotionInitIInv == Init => PromotionIInv
<1> SUFFICES ASSUME Init PROVE PromotionIInv
  OBVIOUS
<1>1. /\ Idle \in CallType
      /\ Idle.phase = "idle" /\ Idle.answer = "none"
  BY DEF Idle, CallType, Outcomes
<1>2. \A c \in Calls : call[c] = Idle
  BY DEF Init
<1>3. TypeOK
  BY <1>1 DEF Init, TypeOK
<1>4. LockFollowsWork
  BY <1>1, <1>2 DEF Init, LockFollowsWork, Working
<1>5. AnswersAreTrue /\ UnpaidUntilAnswered
  BY <1>1, <1>2 DEF Init, AnswersAreTrue, UnpaidUntilAnswered
<1>6. OnlyTheTimerAnswers /\ OutcomesAreTrue
  BY <1>1, <1>2 DEF OnlyTheTimerAnswers, OutcomesAreTrue, Working
<1> QED  BY <1>3, <1>4, <1>5, <1>6 DEF PromotionIInv

(* A call that is refused at once.                                         *)
LEMMA RefusedIInv ==
    ASSUME PromotionIInv, NEW c \in Calls, Invalid(c) \/ InProgress(c)
    PROVE  PromotionIInv'
<1> USE DEF PromotionIInv
<1>1. /\ call[c].phase = "idle"
      /\ \E a \in {"invalid", "in_progress"} :
            call' = [call EXCEPT ![c].phase = "done", ![c].answer = a]
      /\ UNCHANGED <<inFlight, paid>>
  BY DEF Invalid, InProgress
<1>2. call[c] \in CallType
  BY DEF TypeOK
<1>3. TypeOK'
  <2>1. PICK a \in {"invalid", "in_progress"} :
          call' = [call EXCEPT ![c].phase = "done", ![c].answer = a]
    BY <1>1
  <2>2. [call[c] EXCEPT !.phase = "done", !.answer = a] \in CallType
    BY <1>2 DEF CallType
  <2> QED  BY <1>1, <2>1, <2>2 DEF TypeOK
<1>4. LockFollowsWork'
  BY <1>1, <1>2 DEF LockFollowsWork, Working, TypeOK, CallType
<1>5. AnswersAreTrue' /\ UnpaidUntilAnswered'
  BY <1>1, <1>2 DEF AnswersAreTrue, UnpaidUntilAnswered, TypeOK, CallType
<1>6. OnlyTheTimerAnswers' /\ OutcomesAreTrue'
  BY <1>1, <1>2
  DEF OnlyTheTimerAnswers, OutcomesAreTrue, Working, TypeOK, CallType
<1> QED  BY <1>3, <1>4, <1>5, <1>6

(* A call that takes the lock: nobody else works, since it was free.       *)
LEMMA GrantRewardIInv ==
    ASSUME PromotionIInv, NEW c \in Calls, GrantReward(c)
    PROVE  PromotionIInv'
<1> USE DEF PromotionIInv
<1>1. call[c] \in CallType
  BY DEF TypeOK
<1>2. TypeOK'
  BY <1>1 DEF GrantReward, TypeOK, CallType
<1>3. LockFollowsWork'
  BY <1>1 DEF GrantReward, LockFollowsWork, Working, TypeOK, CallType
<1>4. AnswersAreTrue' /\ UnpaidUntilAnswered'
  BY <1>1 DEF GrantReward, AnswersAreTrue, UnpaidUntilAnswered, TypeOK, CallType
<1>5. OnlyTheTimerAnswers' /\ OutcomesAreTrue'
  BY <1>1
  DEF GrantReward, OnlyTheTimerAnswers, OutcomesAreTrue, Working, TypeOK, CallType
<1> QED  BY <1>2, <1>3, <1>4, <1>5

(* The clock changes nothing the invariant speaks of.                      *)
LEMMA DeadlinePassesIInv ==
    ASSUME PromotionIInv, NEW c \in Calls, DeadlinePasses(c)
    PROVE  PromotionIInv'
<1> USE DEF PromotionIInv
<1>1. call[c] \in CallType
  BY DEF TypeOK
<1>2. TypeOK'
  BY <1>1 DEF DeadlinePasses, TypeOK, CallType
<1>3. LockFollowsWork'
  BY <1>1 DEF DeadlinePasses, LockFollowsWork, Working, TypeOK, CallType
<1>4. AnswersAreTrue' /\ UnpaidUntilAnswered'
  BY <1>1 DEF DeadlinePasses, AnswersAreTrue, UnpaidUntilAnswered, TypeOK, CallType
<1>5. OnlyTheTimerAnswers' /\ OutcomesAreTrue'
  BY <1>1
  DEF DeadlinePasses, OnlyTheTimerAnswers, OutcomesAreTrue, Working, TypeOK,
      CallType
<1> QED  BY <1>2, <1>3, <1>4, <1>5

(* The work moves on, without hearing from the SDK.                        *)
LEMMA ProceedIInv ==
    ASSUME PromotionIInv, NEW c \in Calls, NEW ph \in {"loading", "paying"},
           call[c].phase \in {"queued", "loading"},
           call' = [call EXCEPT ![c].phase = ph],
           UNCHANGED <<inFlight, paid>>
    PROVE  PromotionIInv'
<1> USE DEF PromotionIInv
<1>1. call[c] \in CallType
  BY DEF TypeOK
<1>2. TypeOK'
  BY <1>1 DEF TypeOK, CallType
<1>3. LockFollowsWork'
  BY <1>1 DEF LockFollowsWork, Working, TypeOK, CallType
<1>4. AnswersAreTrue' /\ UnpaidUntilAnswered'
  BY <1>1 DEF AnswersAreTrue, UnpaidUntilAnswered, TypeOK, CallType
<1>5. OnlyTheTimerAnswers' /\ OutcomesAreTrue'
  BY <1>1 DEF OnlyTheTimerAnswers, OutcomesAreTrue, Working, TypeOK, CallType
<1> QED  BY <1>2, <1>3, <1>4, <1>5

(* The work settles with an outcome that is true of the payment.           *)
LEMMA FinishIInv ==
    ASSUME PromotionIInv, NEW c \in Calls, NEW outcome \in Outcomes,
           NEW p \in BOOLEAN,
           call[c].phase \in {"queued", "loading", "paying"},
           outcome = "granted" => p,
           outcome \in {"rejected", "unsupported", "error"} => ~p,
           Finish(c, outcome),
           paid' = IF p THEN paid \cup {c} ELSE paid,
           UNCHANGED inFlight
    PROVE  PromotionIInv'
<1> USE DEF PromotionIInv, Finish
<1>1. call[c] \in CallType /\ c \notin paid
  BY DEF TypeOK, UnpaidUntilAnswered
<1>2. TypeOK'
  BY <1>1 DEF TypeOK, CallType
<1>3. LockFollowsWork'
  BY <1>1 DEF LockFollowsWork, Working, TypeOK, CallType
<1>4. AnswersAreTrue'
  <2>1. call[c].answer \in {"none", "timeout"}
    BY <1>1 DEF OnlyTheTimerAnswers, Working
  <2> QED  BY <1>1, <2>1 DEF AnswersAreTrue, TypeOK, CallType
<1>5. UnpaidUntilAnswered' /\ OutcomesAreTrue'
  BY <1>1 DEF UnpaidUntilAnswered, OutcomesAreTrue, TypeOK, CallType
<1>6. OnlyTheTimerAnswers'
  BY <1>1 DEF OnlyTheTimerAnswers, Working, TypeOK, CallType
<1> QED  BY <1>2, <1>3, <1>4, <1>5, <1>6

(* The `finally`: the lock goes with the only work there is, and the answer*)
(* is the outcome unless the timer was first.                              *)
LEMMA WorkSettlesIInv ==
    ASSUME PromotionIInv, NEW c \in Calls, WorkSettles(c)
    PROVE  PromotionIInv'
<1> USE DEF PromotionIInv
<1>1. /\ call[c] \in CallType
      /\ call[c].phase = "settled"
      /\ Answer(c, call[c].outcome) \in Outcomes
      /\ Answer(c, call[c].outcome) \in {call[c].outcome, "timeout"}
      /\ call' = [call EXCEPT ![c].phase = "done",
                              ![c].answer = Answer(c, call[c].outcome)]
      /\ inFlight' = FALSE
      /\ UNCHANGED paid
  BY DEF WorkSettles, TypeOK, CallType, Answer, Outcomes, OnlyTheTimerAnswers,
         Working
<1>2. TypeOK'
  BY <1>1 DEF TypeOK, CallType
<1>3. LockFollowsWork'
  BY <1>1 DEF LockFollowsWork, Working, TypeOK, CallType
<1>4. AnswersAreTrue'
  BY <1>1 DEF AnswersAreTrue, OutcomesAreTrue, TypeOK, CallType
<1>5. UnpaidUntilAnswered' /\ OutcomesAreTrue'
  BY <1>1 DEF UnpaidUntilAnswered, OutcomesAreTrue, TypeOK, CallType
<1>6. OnlyTheTimerAnswers'
  BY <1>1 DEF OnlyTheTimerAnswers, Working, TypeOK, CallType
<1> QED  BY <1>2, <1>3, <1>4, <1>5, <1>6

(* The timer's answer is always true: it says nothing of the payment.      *)
LEMMA TimerFiresIInv ==
    ASSUME PromotionIInv, NEW c \in Calls, TimerFires(c)
    PROVE  PromotionIInv'
<1> USE DEF PromotionIInv
<1>1. /\ call[c] \in CallType
      /\ call[c].phase \in {"loading", "paying"}
      /\ Answer(c, "timeout") = "timeout"
      /\ call' = [call EXCEPT ![c].expired = TRUE, ![c].answer = "timeout"]
      /\ UNCHANGED <<inFlight, paid>>
  BY DEF TimerFires, TypeOK, CallType, Answer, OnlyTheTimerAnswers, Working
<1>2. TypeOK'
  BY <1>1 DEF TypeOK, CallType, Outcomes
<1>3. LockFollowsWork'
  BY <1>1 DEF LockFollowsWork, Working, TypeOK, CallType
<1>4. AnswersAreTrue' /\ UnpaidUntilAnswered'
  BY <1>1 DEF AnswersAreTrue, UnpaidUntilAnswered, TypeOK, CallType
<1>5. OnlyTheTimerAnswers' /\ OutcomesAreTrue'
  BY <1>1 DEF OnlyTheTimerAnswers, OutcomesAreTrue, Working, TypeOK, CallType
<1> QED  BY <1>2, <1>3, <1>4, <1>5

(* A step of one call keeps the invariant.                                 *)
LEMMA PromotionStepIInv ==
    ASSUME PromotionIInv, NEW c \in Calls
    PROVE  /\ StartWork(c) => PromotionIInv'
           /\ LoadFails(c) => PromotionIInv'
           /\ \A supported \in BOOLEAN :
                 LoadResolves(c, supported) => PromotionIInv'
           /\ \A r \in Responses, p \in BOOLEAN :
                 SdkAnswers(c, r, p) => PromotionIInv'
           /\ \A p \in BOOLEAN : SdkAnswersScalar(c, p) => PromotionIInv'
           /\ SdkAnswersUndefined(c) => PromotionIInv'
<1>1. /\ "timeout" \in Outcomes /\ "error" \in Outcomes
      /\ "unsupported" \in Outcomes /\ "unknown" \in Outcomes
      /\ "granted" \in Outcomes /\ "rejected" \in Outcomes
  BY DEF Outcomes
<1>2. ASSUME NEW outcome \in Outcomes \ {"granted"}, Finish(c, outcome),
             call[c].phase \in {"queued", "loading", "paying"},
             UNCHANGED <<inFlight, paid>>
      PROVE  PromotionIInv'
  <2>1. paid' = IF FALSE THEN paid \cup {c} ELSE paid
    BY <1>2
  <2>2. FALSE \in BOOLEAN /\ outcome \in Outcomes /\ outcome # "granted"
    OBVIOUS
  <2> QED  BY <1>2, <2>1, <2>2, FinishIInv
<1>3. StartWork(c) => PromotionIInv'
  <2> SUFFICES ASSUME StartWork(c) PROVE PromotionIInv'
    OBVIOUS
  <2>1. CASE HasExpired(c)
    BY <1>1, <1>2, <2>1 DEF StartWork
  <2>2. CASE ~HasExpired(c)
    BY <2>2, ProceedIInv DEF StartWork
  <2> QED  BY <2>1, <2>2
<1>4. LoadFails(c) => PromotionIInv'
  <2> SUFFICES ASSUME LoadFails(c) PROVE PromotionIInv'
    OBVIOUS
  <2>1. PICK x \in {"timeout", "error"} : Finish(c, x)
    BY DEF LoadFails
  <2> QED  BY <1>1, <1>2, <2>1 DEF LoadFails
<1>5. ASSUME NEW supported \in BOOLEAN, LoadResolves(c, supported)
      PROVE  PromotionIInv'
  <2>1. CASE HasExpired(c)
    BY <1>1, <1>2, <1>5, <2>1 DEF LoadResolves
  <2>2. CASE ~HasExpired(c) /\ supported
    BY <1>5, <2>2, ProceedIInv DEF LoadResolves
  <2>3. CASE ~HasExpired(c) /\ ~supported
    BY <1>1, <1>2, <1>5, <2>3 DEF LoadResolves
  <2> QED  BY <2>1, <2>2, <2>3
<1>6. ASSUME NEW r \in Responses, NEW p \in BOOLEAN, SdkAnswers(c, r, p)
      PROVE  PromotionIInv'
  <2>1. PICK x \in {"timeout", Normalize(r)} : Finish(c, x)
    BY <1>6 DEF SdkAnswers
  <2>2. /\ x \in Outcomes
        /\ x = "granted" => p
        /\ x \in {"rejected", "unsupported", "error"} => ~p
    BY <1>1, <1>6, <2>1, NormalizeIsTrue DEF SdkAnswers
  <2> QED  BY <1>6, <2>1, <2>2, FinishIInv DEF SdkAnswers
<1>7. ASSUME NEW p \in BOOLEAN, SdkAnswersScalar(c, p)
      PROVE  PromotionIInv'
  <2>1. PICK x \in {"timeout", "unknown"} : Finish(c, x)
    BY <1>7 DEF SdkAnswersScalar
  <2> QED  BY <1>1, <1>7, <2>1, FinishIInv DEF SdkAnswersScalar
<1>8. SdkAnswersUndefined(c) => PromotionIInv'
  <2> SUFFICES ASSUME SdkAnswersUndefined(c) PROVE PromotionIInv'
    OBVIOUS
  <2>1. PICK x \in {"timeout", "unsupported"} : Finish(c, x)
    BY DEF SdkAnswersUndefined
  <2> QED  BY <1>1, <1>2, <2>1 DEF SdkAnswersUndefined
<1> QED  BY <1>3, <1>4, <1>5, <1>6, <1>7, <1>8

LEMMA PromotionNextIInv == PromotionIInv /\ [Next]_vars => PromotionIInv'
<1> SUFFICES ASSUME PromotionIInv, [Next]_vars PROVE PromotionIInv'
  OBVIOUS
<1>1. CASE UNCHANGED vars
  BY <1>1
  DEF vars, PromotionIInv, TypeOK, LockFollowsWork, AnswersAreTrue,
      UnpaidUntilAnswered, OnlyTheTimerAnswers, OutcomesAreTrue, Working
<1>2. CASE Next
  BY <1>2, RefusedIInv, GrantRewardIInv, DeadlinePassesIInv, PromotionStepIInv,
     WorkSettlesIInv, TimerFiresIInv
  DEF Next
<1> QED  BY <1>1, <1>2

THEOREM PromotionInvariant == Spec => []PromotionIInv
  BY PromotionInitIInv, PromotionNextIInv, PTL DEF Spec

-----------------------------------------------------------------------------

(* The lock and the calls always have their types.                         *)
THEOREM PromotionTypeCorrect == Spec => []TypeOK
<1>1. PromotionIInv => TypeOK
  BY DEF PromotionIInv
<1> QED  BY <1>1, PromotionInvariant, PTL

(* One payment at a time: the lock is held exactly while one call works,   *)
(* however many calls there are and whatever their timers do.              *)
THEOREM PromotionLockFollowsWork == Spec => []LockFollowsWork
<1>1. PromotionIInv => LockFollowsWork
  BY DEF PromotionIInv
<1> QED  BY <1>1, PromotionInvariant, PTL

(* "granted" means paid and a definite negative answer means not paid.     *)
THEOREM PromotionAnswersAreTrue == Spec => []AnswersAreTrue
<1>1. PromotionIInv => AnswersAreTrue
  BY DEF PromotionIInv
<1> QED  BY <1>1, PromotionInvariant, PTL

(* A payment begins only in LoadResolves, which has just looked at the     *)
(* clock; an answer would be the timer's, and the call expired.            *)
LEMMA PaymentIsInTime ==
    ASSUME PromotionIInv, Next, NEW c \in Calls,
           call[c].phase # "paying", call'[c].phase = "paying"
    PROVE  ~call[c].overdue /\ call[c].answer = "none"
<1> USE DEF PromotionIInv
<1>1. call \in [Calls -> CallType]
  BY DEF TypeOK
<1>2. PICK d \in Calls :
        \/ Invalid(d) \/ InProgress(d) \/ GrantReward(d) \/ DeadlinePasses(d)
        \/ StartWork(d) \/ LoadFails(d)
        \/ \E supported \in BOOLEAN : LoadResolves(d, supported)
        \/ \E r \in Responses, p \in BOOLEAN : SdkAnswers(d, r, p)
        \/ \E p \in BOOLEAN : SdkAnswersScalar(d, p)
        \/ SdkAnswersUndefined(d) \/ WorkSettles(d) \/ TimerFires(d)
  BY DEF Next
<1>3. CASE \E supported \in BOOLEAN : LoadResolves(d, supported)
  <2>1. PICK supported \in BOOLEAN : LoadResolves(d, supported)
    BY <1>3
  <2>2. d = c /\ ~HasExpired(c) /\ call[c].phase = "loading"
    BY <1>1, <2>1 DEF LoadResolves, Finish, CallType
  <2> QED  BY <2>2 DEF HasExpired, OnlyTheTimerAnswers, Working
<1>4. CASE ~\E supported \in BOOLEAN : LoadResolves(d, supported)
  BY <1>1, <1>2, <1>4
  DEF Invalid, InProgress, GrantReward, DeadlinePasses, StartWork, LoadFails,
      SdkAnswers, SdkAnswersScalar, SdkAnswersUndefined, WorkSettles,
      TimerFires, Finish, CallType
<1> QED  BY <1>3, <1>4

(* A call without time left never starts a payment.                        *)
THEOREM PromotionNoOverduePayment == Spec => NoOverduePayment
<1>1. PromotionIInv /\ [Next]_vars
        => [\A c \in Calls :
              call[c].phase # "paying" /\ call'[c].phase = "paying" =>
                  ~call[c].overdue /\ call[c].answer = "none"]_vars
  BY PaymentIsInTime
<1> QED  BY <1>1, PromotionInvariant, PTL DEF Spec, NoOverduePayment
=============================================================================
