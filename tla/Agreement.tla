------------------------------- MODULE Agreement -------------------------------
(***************************************************************************)
(* Notification agreement, requestAgreement of the adapters in             *)
(* packages/sdk/src/rn/notify-share.ts and webview/notify-share.ts (one    *)
(* text) over notification/platform-contract.ts: the platform is loaded    *)
(* and an event flow runs under one deadline.                              *)
(*                                                                         *)
(* The flow itself is EventFlow's; here it is one record, settled by the   *)
(* first terminal event or by its timer, which is armed with what is left  *)
(* of the time.  "overdue" is the clock.                                   *)
(***************************************************************************)
EXTENDS Naturals

CONSTANTS Agreements,      \* requestAgreement calls
          TimedAgreements  \* those with timeoutMs > 0

ASSUME AgreementAssumption == TimedAgreements \subseteq Agreements

VARIABLE agreement  \* every call, its flow and its answer

agreementVars == <<agreement>>

AgreementInit ==
    agreement = [r \in Agreements |->
                   [phase |-> "idle", overdue |-> FALSE, cancelled |-> FALSE,
                    answer |-> "none"]]

(* A registration with the platform is running.                            *)
Registering == \E r \in Agreements : agreement[r].phase = "registering"

-----------------------------------------------------------------------------
(***************************************************************************)
(* requestAgreement refuses a blank template code, otherwise it arms the   *)
(* timer of the loading and calls the loader.                              *)
(***************************************************************************)
AgreementRefused(r) ==
    /\ ~Registering
    /\ agreement[r].phase = "idle"
    /\ agreement' = [agreement EXCEPT ![r].phase = "done", ![r].answer = "error"]

RequestAgreement(r) ==
    /\ ~Registering
    /\ agreement[r].phase = "idle"
    /\ agreement' = [agreement EXCEPT ![r].phase = "loading"]

AgreementDeadlinePasses(r) ==
    /\ r \in TimedAgreements
    /\ agreement[r].phase \notin {"idle", "done"} /\ ~agreement[r].overdue
    /\ agreement' = [agreement EXCEPT ![r].overdue = TRUE]

(***************************************************************************)
(* The race of the loading and its timer.  What the loader brings after    *)
(* the timer is dropped.                                                   *)
(***************************************************************************)
PlatformLoads(r) ==
    /\ ~Registering
    /\ agreement[r].phase = "loading"
    /\ agreement' = [agreement EXCEPT
                       ![r].phase = IF agreement[r].cancelled THEN "late" ELSE "loaded"]

(* The loader rejects, or the platform is unavailable or unsupported.      *)
PlatformFails(r) ==
    /\ ~Registering
    /\ agreement[r].phase = "loading"
    /\ agreement' = [agreement EXCEPT
                       ![r].phase = IF agreement[r].cancelled THEN "late" ELSE "done",
                       ![r].answer = IF agreement[r].cancelled THEN @ ELSE "error"]

LoadTimerFires(r) ==
    /\ ~Registering
    /\ agreement[r].phase = "loading"
    /\ agreement[r].overdue /\ ~agreement[r].cancelled
    /\ agreement' = [agreement EXCEPT ![r].cancelled = TRUE,
                                      ![r].answer = "timeout"]

(***************************************************************************)
(* The race is won with time to spare: runEventFlow registers.             *)
(***************************************************************************)
BeginFlow(r) ==
    /\ ~Registering
    /\ agreement[r].phase = "loaded"
    /\ IF agreement[r].overdue
         THEN agreement' = [agreement EXCEPT ![r].phase = "done",
                                             ![r].answer = "timeout"]
         ELSE agreement' = [agreement EXCEPT ![r].phase = "registering"]

-----------------------------------------------------------------------------
(***************************************************************************)
(* What the reducer makes of an event: other events keep the flow open.    *)
(***************************************************************************)
AgreementEvents ==
    {"newAgreement", "alreadyAgreed", "agreementRejected", "other", "sdkError"}

Reduced(event) ==
    CASE event \in {"newAgreement", "alreadyAgreed"} -> "agreed"
      [] event = "agreementRejected" -> "rejected"
      [] event = "sdkError" -> "failed"
      [] event = "other" -> "none"

(***************************************************************************)
(* The flow settles, possibly before register returns.                     *)
(***************************************************************************)
SettleAgreement(r, answer) ==
    agreement' = [agreement EXCEPT
                    ![r].answer = answer,
                    ![r].phase = IF @ = "registering" THEN @ ELSE "done"]

(***************************************************************************)
(* The platform reports, inside register, while it listens, or later.      *)
(***************************************************************************)
AgreementEvent(r, event) ==
    /\ \/ agreement[r].phase = "registering"
       \/ agreement[r].phase = "open" /\ ~Registering
    /\ agreement[r].answer = "none"
    /\ Reduced(event) # "none"
    /\ SettleAgreement(r, Reduced(event))

RegisterReturns(r) ==
    /\ agreement[r].phase = "registering"
    /\ agreement' = [agreement EXCEPT
                       ![r].phase = IF agreement[r].answer = "none"
                                      THEN "open" ELSE "done"]

RegisterThrows(r) ==
    /\ agreement[r].phase = "registering"
    /\ agreement' = [agreement EXCEPT
                       ![r].phase = "done",
                       ![r].answer = IF @ = "none" THEN "error" ELSE @]

FlowTimerFires(r) ==
    /\ ~Registering
    /\ agreement[r].phase = "open" /\ agreement[r].overdue
    /\ SettleAgreement(r, "timeout")

-----------------------------------------------------------------------------
AgreementNext ==
    \E r \in Agreements :
        \/ AgreementRefused(r)
        \/ RequestAgreement(r)
        \/ AgreementDeadlinePasses(r)
        \/ PlatformLoads(r)
        \/ PlatformFails(r)
        \/ LoadTimerFires(r)
        \/ BeginFlow(r)
        \/ \E event \in AgreementEvents : AgreementEvent(r, event)
        \/ RegisterReturns(r)
        \/ RegisterThrows(r)
        \/ FlowTimerFires(r)

AgreementSpec == AgreementInit /\ [][AgreementNext]_agreementVars

-----------------------------------------------------------------------------
(* Type invariant of the agreement requests.                               *)
AgreementTypeOK ==
    agreement \in [Agreements ->
        [phase : {"idle", "loading", "loaded", "late", "registering", "open", "done"},
         overdue : BOOLEAN, cancelled : BOOLEAN,
         answer : {"none", "error", "timeout", "agreed", "rejected", "failed"}]]

(* A platform that is loaded when the time is up is not asked, even if the *)
(* timer callback has not run: no agreement sheet opens for a caller who   *)
(* has been, or is about to be, told that it timed out.                    *)
NoLateAgreement ==
    [][\A r \in Agreements :
          agreement[r].phase # "registering" /\ agreement'[r].phase = "registering"
             => ~agreement[r].overdue /\ agreement[r].answer = "none"]_agreementVars

(* A request with a deadline is answered, although the loader and the      *)
(* platform may stay silent.                                               *)
AgreementsEnd ==
    \A r \in TimedAgreements :
        agreement[r].phase = "loading" ~> agreement[r].answer # "none"
=============================================================================
