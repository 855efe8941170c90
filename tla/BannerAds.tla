------------------------------- MODULE BannerAds -------------------------------
(***************************************************************************)
(* The WebView banner adapter, packages/sdk/src/webview/banner.ts: one     *)
(* initialization per adapter, shared by all who ask while it runs, and    *)
(* attachments that each own a target element.                             *)
(*                                                                         *)
(* init.call may call back before it returns, so it is split into a step   *)
(* that enters it and one that leaves it; meanwhile no other code runs but *)
(* the provider's.  "overdue" is the clock, which expired() reads; the     *)
(* timer callback may come later.                                          *)
(***************************************************************************)
EXTENDS Naturals

CONSTANTS BannerAdapters,  \* createWebViewBannerAds instances
          Elements,        \* target elements
          Inits,           \* bound: initializations that are started
          Attachments,     \* attachBanner calls
          NoInit           \* no initialization

ASSUME BannerAssumption == NoInit \notin Inits

VARIABLES initialized,    \* adapters that keep an initialized module
          pendingInit,    \* the operation each adapter shares
          init,           \* every initialization
          claimedTargets, \* the elements claimed, of all adapters
          attachment      \* every attachBanner call and its handle

bannerVars == <<initialized, pendingInit, init, claimedTargets, attachment>>

BannerInit ==
    /\ initialized = {}
    /\ pendingInit = [b \in BannerAdapters |-> NoInit]
    /\ init = [i \in Inits |->
                 [phase |-> "idle", adapter |-> NoInit, overdue |-> FALSE,
                  outcome |-> "none", promise |-> "pending"]]
    /\ claimedTargets = {}
    /\ attachment = [t \in Attachments |->
                       [phase |-> "idle", element |-> NoInit,
                        waits |-> NoInit, aborted |-> FALSE, given |-> FALSE,
                        disposals |-> 0, queued |-> FALSE, heard |-> FALSE]]

(* A synchronous call into the provider is running.                        *)
InProvider == \E i \in Inits : init[i].phase \in {"checking", "registering"}

-----------------------------------------------------------------------------
(***************************************************************************)
(* initialize: who finds neither a module nor an operation starts one.     *)
(***************************************************************************)
StartInit(b, i) ==
    /\ b \notin initialized /\ pendingInit[b] = NoInit
    /\ init[i].phase = "idle"
    /\ init' = [init EXCEPT ![i].phase = "loading", ![i].adapter = b]
    /\ pendingInit' = [pendingInit EXCEPT ![b] = i]

Initialize(b, i) ==
    /\ ~InProvider
    /\ StartInit(b, i)
    /\ UNCHANGED <<initialized, claimedTargets, attachment>>

InitDeadlinePasses(i) ==
    /\ init[i].phase # "idle"
    /\ init[i].promise = "pending" /\ ~init[i].overdue
    /\ init' = [init EXCEPT ![i].overdue = TRUE]
    /\ UNCHANGED <<initialized, pendingInit, claimedTargets, attachment>>

(***************************************************************************)
(* finish: the first result settles the promise.                           *)
(***************************************************************************)
FinishInit(i, phase, outcome, result) ==
    /\ init' = [init EXCEPT ![i].phase = phase, ![i].outcome = outcome,
                            ![i].promise = IF @ = "pending" THEN result ELSE @]
    /\ initialized' = IF result = "ok" /\ init[i].promise = "pending"
                        THEN initialized \cup {init[i].adapter}
                        ELSE initialized
    /\ UNCHANGED <<pendingInit, claimedTargets, attachment>>

InitTimerFires(i) ==
    /\ ~InProvider
    /\ init[i].overdue /\ init[i].promise = "pending"
    /\ FinishInit(i, init[i].phase, init[i].outcome, "failed")

(***************************************************************************)
(* The loader resolves.  A settled operation is left alone; otherwise time *)
(* is checked before the provider is asked and again before it is called.  *)
(***************************************************************************)
LoaderAnswers(i, available) ==
    /\ ~InProvider
    /\ init[i].phase = "loading"
    /\ IF init[i].promise # "pending" \/ init[i].overdue \/ ~available
         THEN FinishInit(i, "over", "none", "failed")
         ELSE FinishInit(i, "checking", "none", "pending")

LoaderRejects(i) ==
    /\ ~InProvider
    /\ init[i].phase = "loading"
    /\ FinishInit(i, "over", "none", "failed")

\* Mutant: the elapsed time is not checked again before the call.
SupportKnownUnchecked(i, supported) ==
    /\ init[i].phase = "checking"
    /\ IF ~supported
         THEN FinishInit(i, "over", "none", "failed")
         ELSE FinishInit(i, "registering", "none", "pending")

SupportKnown(i, supported) ==
    /\ init[i].phase = "checking"
    /\ IF ~supported \/ init[i].overdue
         THEN FinishInit(i, "over", "none", "failed")
         ELSE FinishInit(i, "registering", "none", "pending")

(***************************************************************************)
(* settleOutcome: what the provider reported counts if there is time left. *)
(***************************************************************************)
SettleOutcome(i, outcome) ==
    FinishInit(i, "waiting", outcome,
               IF init[i].overdue THEN "failed" ELSE outcome)

(***************************************************************************)
(* complete: the first callback counts.  Inside init.call it is kept until *)
(* the call returns.                                                       *)
(***************************************************************************)
InitCallback(i, outcome) ==
    /\ \/ init[i].phase = "registering"
       \/ init[i].phase = "waiting" /\ ~InProvider
    /\ init[i].outcome = "none"
    /\ IF init[i].phase = "registering"
         THEN FinishInit(i, "registering", outcome, "pending")
         ELSE SettleOutcome(i, outcome)

InitReturns(i) ==
    /\ init[i].phase = "registering"
    /\ IF init[i].outcome = "none"
         THEN FinishInit(i, "waiting", "none", "pending")
         ELSE SettleOutcome(i, init[i].outcome)

(* init.call, or isSupported, throws.                                      *)
InitThrows(i) ==
    /\ init[i].phase \in {"checking", "registering"}
    /\ FinishInit(i, "over", init[i].outcome, "failed")

(***************************************************************************)
(* The reaction to the settled promise forgets the operation; it comes     *)
(* before that of everybody who awaits it.                                 *)
(***************************************************************************)
ClearPending(i) ==
    /\ ~InProvider
    /\ init[i].promise # "pending"
    /\ pendingInit[init[i].adapter] = i
    /\ pendingInit' = [pendingInit EXCEPT ![init[i].adapter] = NoInit]
    /\ UNCHANGED <<initialized, init, claimedTargets, attachment>>

-----------------------------------------------------------------------------
(***************************************************************************)
(* attachBanner.  A claimed target or an aborted signal refuses the call   *)
(* before anything is claimed.                                             *)
(***************************************************************************)
AttachRefused(t, e) ==
    /\ ~InProvider
    /\ attachment[t].phase = "idle"
    /\ e \in claimedTargets \/ attachment[t].aborted
    /\ attachment' = [attachment EXCEPT ![t].phase = "refused"]
    /\ UNCHANGED <<initialized, pendingInit, init, claimedTargets>>

ClaimTarget(t, e, i) ==
    /\ ~InProvider
    /\ attachment[t].phase = "idle" /\ ~attachment[t].aborted
    /\ e \notin claimedTargets
    /\ claimedTargets' = claimedTargets \cup {e}
    /\ attachment' = [attachment EXCEPT ![t].phase = "awaiting",
                                        ![t].element = e, ![t].waits = i]
    /\ UNCHANGED initialized

AttachBanner(t, b, e) ==
    \/ /\ b \in initialized \/ pendingInit[b] # NoInit
       /\ ClaimTarget(t, e, IF b \in initialized THEN NoInit ELSE pendingInit[b])
       /\ UNCHANGED <<pendingInit, init>>
    \/ \E i \in Inits : StartInit(b, i) /\ ClaimTarget(t, e, i)

InitDone(i) ==
    i \in Inits => /\ init[i].promise # "pending"
                   /\ pendingInit[init[i].adapter] # i

InitSucceeded(i) == i \in Inits => init[i].promise = "ok"

Resumable(t) ==
    ~InProvider /\ attachment[t].phase = "awaiting" /\ InitDone(attachment[t].waits)

(***************************************************************************)
(* handle.destroy, first call: the provider's handle is destroyed, if      *)
(* there is one, and the target is given back although that may throw.     *)
(***************************************************************************)
Destroyed(a, phase) ==
    [a EXCEPT !.phase = phase, !.disposals = IF a.given THEN @ + 1 ELSE @]

Release(t, a, phase) ==
    /\ attachment' = [attachment EXCEPT ![t] = Destroyed(a, phase)]
    /\ claimedTargets' = claimedTargets \ {a.element}
    /\ UNCHANGED <<initialized, pendingInit, init>>

(***************************************************************************)
(* The initialization failed, the signal was aborted meanwhile, or the     *)
(* provider does not support attaching.                                    *)
(***************************************************************************)
AttachAbandoned(t) ==
    /\ Resumable(t)
    /\ Release(t, attachment[t], "failed")

\* Mutant: a handle that comes with a refusal is not kept for disposal.
ProviderAttachesLeaking(t, refuses, aborts, calls) ==
    LET a == [attachment[t] EXCEPT !.given = TRUE, !.queued = calls,
                                   !.aborted = aborts]
    IN  /\ Resumable(t) /\ ~attachment[t].aborted
        /\ InitSucceeded(attachment[t].waits)
        /\ IF refuses \/ aborts
             THEN /\ attachment' = [attachment EXCEPT ![t] =
                                      [a EXCEPT !.phase = "failed"]]
                  /\ claimedTargets' = claimedTargets \ {a.element}
             ELSE /\ attachment' = [attachment EXCEPT ![t] =
                                      [a EXCEPT !.phase = "live"]]
                  /\ UNCHANGED claimedTargets
        /\ UNCHANGED <<initialized, pendingInit, init>>

(***************************************************************************)
(* attach.call returns a handle.  The provider may have refused through    *)
(* onAdFailedToRender, callbacks may be queued, and the signal may have    *)
(* been aborted during the call.                                           *)
(***************************************************************************)
ProviderAttaches(t, refuses, aborts, calls) ==
    LET a == [attachment[t] EXCEPT !.given = TRUE, !.queued = calls,
                                   !.aborted = aborts]
    IN  /\ Resumable(t) /\ ~attachment[t].aborted
        /\ InitSucceeded(attachment[t].waits)
        /\ IF refuses \/ aborts
             THEN Release(t, a, "failed")
             ELSE /\ attachment' = [attachment EXCEPT ![t] =
                                      [a EXCEPT !.phase = "live"]]
                  /\ UNCHANGED <<initialized, pendingInit, init, claimedTargets>>

(* attach.call throws or returns no handle, after it may have called back. *)
ProviderThrows(t, calls) ==
    /\ Resumable(t) /\ ~attachment[t].aborted
    /\ InitSucceeded(attachment[t].waits)
    /\ Release(t, [attachment[t] EXCEPT !.queued = calls], "failed")

-----------------------------------------------------------------------------
(***************************************************************************)
(* The consumer destroys the banner, perhaps again, or aborts its signal.  *)
(***************************************************************************)
DestroyBanner(t) ==
    /\ ~InProvider
    /\ attachment[t].phase \in {"live", "destroyed"}
    /\ IF attachment[t].phase = "destroyed"
         THEN UNCHANGED bannerVars
         ELSE Release(t, attachment[t], "destroyed")

Abort(t) ==
    LET a == [attachment[t] EXCEPT !.aborted = TRUE]
    IN  /\ ~InProvider
        /\ ~attachment[t].aborted
        /\ a.phase \in {"idle", "awaiting", "live"}
        /\ IF a.phase = "live"
             THEN Release(t, a, "destroyed")
             ELSE /\ attachment' = [attachment EXCEPT ![t] = a]
                  /\ UNCHANGED <<initialized, pendingInit, init, claimedTargets>>

(***************************************************************************)
(* A provider callback, also after the banner is gone, runs the consumer's *)
(* callback in a microtask, unless the handle is destroyed by then.  One   *)
(* that the consumer has heard is enough.                                  *)
(***************************************************************************)
BannerCallback(t) ==
    /\ ~InProvider
    /\ attachment[t].given
    /\ ~attachment[t].queued /\ ~attachment[t].heard
    /\ attachment' = [attachment EXCEPT ![t].queued = TRUE]
    /\ UNCHANGED <<initialized, pendingInit, init, claimedTargets>>

ForwardCallback(t) ==
    /\ ~InProvider
    /\ attachment[t].queued
    /\ attachment' = [attachment EXCEPT
                        ![t].queued = FALSE,
                        ![t].heard = @ \/ attachment[t].phase = "live"]
    /\ UNCHANGED <<initialized, pendingInit, init, claimedTargets>>

-----------------------------------------------------------------------------
BannerNext ==
    \/ \E b \in BannerAdapters, i \in Inits : Initialize(b, i)
    \/ \E i \in Inits :
          \/ InitDeadlinePasses(i)
          \/ InitTimerFires(i)
          \/ \E available \in BOOLEAN : LoaderAnswers(i, available)
          \/ LoaderRejects(i)
          \/ \E supported \in BOOLEAN : SupportKnown(i, supported)
          \/ \E outcome \in {"ok", "failed"} : InitCallback(i, outcome)
          \/ InitReturns(i)
          \/ InitThrows(i)
          \/ ClearPending(i)
    \/ \E t \in Attachments :
          \/ \E e \in Elements :
                AttachRefused(t, e) \/ \E b \in BannerAdapters : AttachBanner(t, b, e)
          \/ AttachAbandoned(t)
          \/ \E refuses, aborts, calls \in BOOLEAN :
                ProviderAttaches(t, refuses, aborts, calls)
          \/ \E calls \in BOOLEAN : ProviderThrows(t, calls)
          \/ DestroyBanner(t)
          \/ Abort(t)
          \/ BannerCallback(t)
          \/ ForwardCallback(t)

BannerSpec == BannerInit /\ [][BannerNext]_bannerVars

-----------------------------------------------------------------------------
(* Type invariant of the initializations, the claims and the attachments.  *)
BannerTypeOK ==
    /\ initialized \subseteq BannerAdapters
    /\ pendingInit \in [BannerAdapters -> Inits \cup {NoInit}]
    /\ init \in [Inits ->
         [phase : {"idle", "loading", "checking", "registering", "waiting", "over"},
          adapter : BannerAdapters \cup {NoInit}, overdue : BOOLEAN,
          outcome : {"none", "ok", "failed"},
          promise : {"pending", "ok", "failed"}]]
    /\ claimedTargets \subseteq Elements
    /\ attachment \in [Attachments ->
         [phase : {"idle", "refused", "awaiting", "live", "failed", "destroyed"},
          element : Elements \cup {NoInit}, waits : Inits \cup {NoInit},
          aborted : BOOLEAN, given : BOOLEAN, disposals : Nat,
          queued : BOOLEAN, heard : BOOLEAN]]

OwnsTarget(t) == attachment[t].phase \in {"awaiting", "live"}

(* A target is claimed exactly while one attachment, of whichever adapter, *)
(* is under way or lives on it.  A handle of the provider is destroyed     *)
(* once when its banner ends, however it ends, and an attachment that was  *)
(* rejected never calls its consumer back.                                 *)
BannersAreOwned ==
    /\ \A e \in Elements :
          e \in claimedTargets
            <=> \E t \in Attachments : OwnsTarget(t) /\ attachment[t].element = e
    /\ \A t, u \in Attachments :
          /\ OwnsTarget(t) /\ OwnsTarget(u)
          /\ attachment[t].element = attachment[u].element
          => t = u
    /\ \A t \in Attachments :
          /\ attachment[t].disposals =
               IF attachment[t].given /\ attachment[t].phase # "live" THEN 1 ELSE 0
          /\ attachment[t].heard => attachment[t].phase \in {"live", "destroyed"}

(* No provider initialization starts, and none is accepted, when the time  *)
(* is up, however late the timer callback and however early the provider   *)
(* call back.                                                              *)
NoLateInitialization ==
    [][\A i \in Inits :
          /\ init[i].phase # "registering" /\ init'[i].phase = "registering" =>
                ~init[i].overdue /\ init[i].promise = "pending"
          /\ init[i].promise = "pending" /\ init'[i].promise = "ok" =>
                ~init[i].overdue]_bannerVars

(* An attachment does not wait for ever, although loader and provider may  *)
(* stay silent.                                                            *)
AttachmentsEnd ==
    \A t \in Attachments :
        attachment[t].phase = "awaiting" ~> attachment[t].phase # "awaiting"
=============================================================================
