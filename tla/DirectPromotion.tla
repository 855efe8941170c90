--------------------------- MODULE DirectPromotion ---------------------------
(***************************************************************************)
(* The direct promotion adapter, packages/sdk/src/promotion/adapter.ts:    *)
(* grantReward pays a reward through the SDK, without an idempotency key,  *)
(* so one instance lets one request at a time through and reports anything *)
(* it cannot be sure of as unknown.                                        *)
(*                                                                         *)
(* A call is answered by a race of its work and its timer, but the lock    *)
(* belongs to the work.  "overdue" is the clock, which hasExpired reads    *)
(* afresh; the timer callback may run later.                               *)
(***************************************************************************)
EXTENDS Naturals

CONSTANTS Calls,     \* grantReward calls on one adapter instance
          Deadline   \* timeoutMs > 0

ASSUME PromotionAssumption == Deadline \in BOOLEAN

VARIABLES inFlight,  \* the lock
          call,      \* every call's work and answer
          paid       \* external: calls for which the provider paid

vars == <<inFlight, call, paid>>

(***************************************************************************)
(* What the SDK can answer with, by what normalize looks at: whether it    *)
(* was thrown, the key, whether there is any error field, and the class of *)
(* the agreed code ("clash": code and errorCode differ).  "undefined" is   *)
(* RN's answer of an unsupported app, converted into an SdkError; "scalar" *)
(* is any other value that is not an object.                               *)
(***************************************************************************)
Objects == [thrown : BOOLEAN, key : {"absent", "blank", "valid"},
            error : BOOLEAN,
            code : {"none", "refusal", "unsupported", "other", "clash"}]

Responses == {r \in Objects : r.code # "none" => r.error}

(***************************************************************************)
(* An answer that says two things at once.                                 *)
(***************************************************************************)
Contradictory(r) ==
    r.code = "clash" \/ (r.key # "absent" /\ (r.thrown \/ r.error))

\* Mutant: any other code is trusted as a refusal.
NormalizeTrustingCode(r) ==
    CASE r.key = "valid" /\ ~r.thrown -> "granted"
      [] r.key = "absent" /\ r.code \in {"refusal", "other"} -> "rejected"
      [] OTHER -> "unknown"

(***************************************************************************)
(* normalize, in the order of its tests.                                   *)
(***************************************************************************)
Normalize(r) ==
    CASE Contradictory(r) -> "unknown"
      [] ~Contradictory(r) /\ r.key = "valid" -> "granted"
      [] ~Contradictory(r) /\ r.key = "blank" -> "unknown"
      [] ~Contradictory(r) /\ r.key = "absent" ->
            CASE r.code = "unsupported" -> "unsupported"
              [] r.code = "refusal" -> "rejected"
              [] r.code \notin {"unsupported", "refusal"} -> "unknown"

(***************************************************************************)
(* The provider's side, as its documentation has it: an unambiguous key    *)
(* means that it paid, an unambiguous refusal or an unsupported app that   *)
(* it did not, and anything else leaves both open.                         *)
(***************************************************************************)
PaidIsPossible(r, p) ==
    /\ r.key = "valid" /\ ~r.thrown /\ ~r.error => p
    /\ r.key = "absent" /\ r.code \in {"refusal", "unsupported"} => ~p

Idle == [phase |-> "idle", overdue |-> FALSE, expired |-> FALSE,
         outcome |-> "none", answer |-> "none"]

Init ==
    /\ inFlight = FALSE
    /\ call = [c \in Calls |-> Idle]
    /\ paid = {}

HasExpired(c) == call[c].expired \/ call[c].overdue

(***************************************************************************)
(* The work's promise settles with outcome; "settled" lasts until the      *)
(* `finally` runs.                                                         *)
(***************************************************************************)
Finish(c, outcome) ==
    call' = [call EXCEPT ![c].phase = "settled", ![c].outcome = outcome]

(***************************************************************************)
(* grantReward: invalid input and a held lock refuse the call at once.     *)
(***************************************************************************)
Invalid(c) ==
    /\ call[c].phase = "idle"
    /\ call' = [call EXCEPT ![c].phase = "done", ![c].answer = "invalid"]
    /\ UNCHANGED <<inFlight, paid>>

InProgress(c) ==
    /\ call[c].phase = "idle"
    /\ inFlight
    /\ call' = [call EXCEPT ![c].phase = "done", ![c].answer = "in_progress"]
    /\ UNCHANGED <<inFlight, paid>>

GrantReward(c) ==
    /\ call[c].phase = "idle"
    /\ ~inFlight
    /\ inFlight' = TRUE
    /\ call' = [call EXCEPT ![c].phase = "queued"]
    /\ UNCHANGED paid

DeadlinePasses(c) ==
    /\ Deadline
    /\ call[c].phase \notin {"idle", "done"}
    /\ ~call[c].overdue
    /\ call' = [call EXCEPT ![c].overdue = TRUE]
    /\ UNCHANGED <<inFlight, paid>>

(***************************************************************************)
(* The work's first turn: the loader is called unless time is up already.  *)
(***************************************************************************)
StartWork(c) ==
    /\ call[c].phase = "queued"
    /\ IF HasExpired(c)
         THEN Finish(c, "timeout")
         ELSE call' = [call EXCEPT ![c].phase = "loading"]
    /\ UNCHANGED <<inFlight, paid>>

(***************************************************************************)
(* The loader rejects or reports the SDK unavailable, or isSupported       *)
(* throws.                                                                 *)
(***************************************************************************)
LoadFails(c) ==
    /\ call[c].phase = "loading"
    /\ Finish(c, IF HasExpired(c) THEN "timeout" ELSE "error")
    /\ UNCHANGED <<inFlight, paid>>

\* Mutant: the elapsed time is not checked again after loading.
LoadResolvesLate(c, supported) ==
    /\ call[c].phase = "loading"
    /\ IF supported
         THEN call' = [call EXCEPT ![c].phase = "paying"]
         ELSE Finish(c, "unsupported")
    /\ UNCHANGED <<inFlight, paid>>

(***************************************************************************)
(* The loader resolves: the payment starts only if there is time left and  *)
(* the function is not known to be unsupported.                            *)
(***************************************************************************)
LoadResolves(c, supported) ==
    /\ call[c].phase = "loading"
    /\ IF HasExpired(c)
         THEN Finish(c, "timeout")
         ELSE IF supported
                THEN call' = [call EXCEPT ![c].phase = "paying"]
                ELSE Finish(c, "unsupported")
    /\ UNCHANGED <<inFlight, paid>>

(***************************************************************************)
(* The SDK call settles: with an object, with a scalar or with RN's        *)
(* undefined.  After the deadline nothing it says is believed.             *)
(***************************************************************************)
SdkAnswers(c, r, p) ==
    /\ call[c].phase = "paying"
    /\ PaidIsPossible(r, p)
    /\ Finish(c, IF HasExpired(c) THEN "timeout" ELSE Normalize(r))
    /\ paid' = IF p THEN paid \cup {c} ELSE paid
    /\ UNCHANGED inFlight

SdkAnswersScalar(c, p) ==
    /\ call[c].phase = "paying"
    /\ Finish(c, IF HasExpired(c) THEN "timeout" ELSE "unknown")
    /\ paid' = IF p THEN paid \cup {c} ELSE paid
    /\ UNCHANGED inFlight

SdkAnswersUndefined(c) ==
    /\ call[c].phase = "paying"
    /\ Finish(c, IF HasExpired(c) THEN "timeout" ELSE "unsupported")
    /\ UNCHANGED <<inFlight, paid>>

(***************************************************************************)
(* The `finally` of the work: the lock and the timer go, and the race is   *)
(* decided unless the timer was first.                                     *)
(***************************************************************************)
Answer(c, a) == IF call[c].answer = "none" THEN a ELSE call[c].answer

WorkSettles(c) ==
    /\ call[c].phase = "settled"
    /\ inFlight' = FALSE
    /\ call' = [call EXCEPT ![c].phase = "done",
                            ![c].answer = Answer(c, call[c].outcome)]
    /\ UNCHANGED paid

MicrotasksPending ==
    \E c \in Calls : call[c].phase \in {"queued", "settled"}

\* Mutants: the timer releases the lock; the timer does not answer.
TimerUnlocks(c) ==
    /\ ~MicrotasksPending
    /\ call[c].overdue
    /\ ~call[c].expired
    /\ call[c].phase \in {"loading", "paying"}
    /\ inFlight' = FALSE
    /\ call' = [call EXCEPT ![c].expired = TRUE,
                            ![c].answer = Answer(c, "timeout")]
    /\ UNCHANGED paid
TimerOnlyMarks(c) ==
    /\ ~MicrotasksPending
    /\ call[c].overdue
    /\ ~call[c].expired
    /\ call[c].phase \in {"loading", "paying"}
    /\ call' = [call EXCEPT ![c].expired = TRUE]
    /\ UNCHANGED <<inFlight, paid>>

(***************************************************************************)
(* The timer's callback answers the caller; the lock stays with the work.  *)
(***************************************************************************)
TimerFires(c) ==
    /\ ~MicrotasksPending
    /\ call[c].overdue
    /\ ~call[c].expired
    /\ call[c].phase \in {"loading", "paying"}
    /\ call' = [call EXCEPT ![c].expired = TRUE,
                            ![c].answer = Answer(c, "timeout")]
    /\ UNCHANGED <<inFlight, paid>>

Next ==
    \E c \in Calls :
        \/ Invalid(c)
        \/ InProgress(c)
        \/ GrantReward(c)
        \/ DeadlinePasses(c)
        \/ StartWork(c)
        \/ LoadFails(c)
        \/ \E supported \in BOOLEAN : LoadResolves(c, supported)
        \/ \E r \in Responses, p \in BOOLEAN : SdkAnswers(c, r, p)
        \/ \E p \in BOOLEAN : SdkAnswersScalar(c, p)
        \/ SdkAnswersUndefined(c)
        \/ WorkSettles(c)
        \/ TimerFires(c)

Spec == Init /\ [][Next]_vars

(***************************************************************************)
(* Time passes, the timer fires and microtasks run.  Neither the loader    *)
(* nor the SDK is assumed to answer.                                       *)
(***************************************************************************)
Fairness ==
    \A c \in Calls : /\ WF_vars(DeadlinePasses(c))
                     /\ WF_vars(StartWork(c))
                     /\ WF_vars(WorkSettles(c))
                     /\ WF_vars(TimerFires(c))

FairSpec == Spec /\ Fairness

-----------------------------------------------------------------------------

Outcomes ==
    {"none", "granted", "rejected", "unsupported", "error", "unknown",
     "timeout"}

CallType ==
    [phase : {"idle", "queued", "loading", "paying", "settled", "done"},
     overdue : BOOLEAN, expired : BOOLEAN, outcome : Outcomes,
     answer : Outcomes \cup {"invalid", "in_progress"}]

(* Type invariant of the lock and the calls.                               *)
TypeOK ==
    /\ inFlight \in BOOLEAN
    /\ call \in [Calls -> CallType]
    /\ paid \subseteq Calls

Working(c) == call[c].phase \in {"queued", "loading", "paying", "settled"}

(* One payment at a time per adapter instance: the lock is held exactly    *)
(* while some call's work runs, that work is the only one, and a call that *)
(* was answered with a timeout keeps everybody out until it really ends.   *)
LockFollowsWork ==
    /\ inFlight <=> \E c \in Calls : Working(c)
    /\ \A c, d \in Calls : Working(c) /\ Working(d) => c = d

(* The answer can be acted on: "granted" means that the provider paid, and *)
(* after any definite negative answer it has not, so trying again does not *)
(* pay twice; whatever is uncertain is answered with unknown or timeout.   *)
AnswersAreTrue ==
    \A c \in Calls :
        /\ call[c].answer = "granted" => c \in paid
        /\ call[c].answer \in {"rejected", "unsupported", "error", "invalid",
                               "in_progress"} => c \notin paid

(* A call without time left never starts a payment, however late the timer *)
(* callback runs, and one that has been answered does not start one.       *)
NoOverduePayment ==
    [][\A c \in Calls :
          call[c].phase # "paying" /\ call'[c].phase = "paying" =>
              ~call[c].overdue /\ call[c].answer = "none"]_vars

(* With a deadline every accepted call is answered, although the loader    *)
(* and the SDK may stay silent for ever.                                   *)
CallsAreAnswered ==
    \A c \in Calls : Working(c) ~> call[c].answer # "none"
=============================================================================
