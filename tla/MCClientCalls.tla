---------------------------- MODULE MCClientCalls ----------------------------
(***************************************************************************)
(* The small adapters of the SDK on one instance: direct promotion, WebView*)
(* banners, notification agreements, shared attempts and diagnostics.      *)
(* They share no state, so a behaviour is one of a single adapter.         *)
(***************************************************************************)
EXTENDS DirectPromotion, BannerAds, Agreement, SharedFlight, Diagnostics

adapterVars == <<vars, bannerVars, agreementVars, flightVars, diagnosticsVars>>

NoPromotion == \A c \in Calls : call[c].phase = "idle"
NoBanner ==
    /\ \A i \in Inits : init[i].phase = "idle"
    /\ \A t \in Attachments : attachment[t].phase = "idle" /\ ~attachment[t].aborted
NoAgreement == \A r \in Agreements : agreement[r].phase = "idle"
NoFlight == \A u \in Askers : asker[u].phase = "idle"
NoDiagnostics ==
    sequence = 0 /\ clears = 0 /\ \A r \in Runs : wrapped[r].phase = "idle"

MCInit ==
    Init /\ BannerInit /\ AgreementInit /\ FlightInit /\ DiagnosticsInit

MCNext ==
    \/ /\ NoBanner /\ NoAgreement /\ NoFlight /\ NoDiagnostics
       /\ Next
       /\ UNCHANGED <<bannerVars, agreementVars, flightVars, diagnosticsVars>>
    \/ /\ NoPromotion /\ NoAgreement /\ NoFlight /\ NoDiagnostics
       /\ BannerNext
       /\ UNCHANGED <<vars, agreementVars, flightVars, diagnosticsVars>>
    \/ /\ NoPromotion /\ NoBanner /\ NoFlight /\ NoDiagnostics
       /\ AgreementNext
       /\ UNCHANGED <<vars, bannerVars, flightVars, diagnosticsVars>>
    \/ /\ NoPromotion /\ NoBanner /\ NoAgreement /\ NoDiagnostics
       /\ FlightNext
       /\ UNCHANGED <<vars, bannerVars, agreementVars, diagnosticsVars>>
    \/ /\ NoPromotion /\ NoBanner /\ NoAgreement /\ NoFlight
       /\ DiagnosticsNext
       /\ UNCHANGED <<vars, bannerVars, agreementVars, flightVars>>

-----------------------------------------------------------------------------
(***************************************************************************)
(* Fairness.  Time passes, due timers fire, microtasks run and synchronous *)
(* provider calls return; loaders and providers may stay silent.           *)
(***************************************************************************)
OnlyPromotion == UNCHANGED <<bannerVars, agreementVars, flightVars, diagnosticsVars>>
OnlyBanner == UNCHANGED <<vars, agreementVars, flightVars, diagnosticsVars>>
OnlyAgreement == UNCHANGED <<vars, bannerVars, flightVars, diagnosticsVars>>

LeaveProvider(i) ==
    \/ InitReturns(i) \/ InitThrows(i)
    \/ \E supported \in BOOLEAN : SupportKnown(i, supported)

AttachResumes(t) ==
    \/ AttachAbandoned(t)
    \/ \E refuses, aborts, calls \in BOOLEAN :
          ProviderAttaches(t, refuses, aborts, calls)
    \/ \E calls \in BOOLEAN : ProviderThrows(t, calls)

LeaveRegister(r) == RegisterReturns(r) \/ RegisterThrows(r)

PromotionFairness ==
    \A c \in Calls :
        /\ WF_adapterVars(DeadlinePasses(c) /\ OnlyPromotion)
        /\ WF_adapterVars(StartWork(c) /\ OnlyPromotion)
        /\ WF_adapterVars(WorkSettles(c) /\ OnlyPromotion)
        /\ WF_adapterVars(TimerFires(c) /\ OnlyPromotion)

BannerFairness ==
    /\ \A i \in Inits :
          /\ WF_adapterVars(InitDeadlinePasses(i) /\ OnlyBanner)
          /\ WF_adapterVars(InitTimerFires(i) /\ OnlyBanner)
          /\ WF_adapterVars(LeaveProvider(i) /\ OnlyBanner)
          /\ WF_adapterVars(ClearPending(i) /\ OnlyBanner)
    /\ \A t \in Attachments : WF_adapterVars(AttachResumes(t) /\ OnlyBanner)

AgreementFairness ==
    \A r \in Agreements :
        /\ WF_adapterVars(AgreementDeadlinePasses(r) /\ OnlyAgreement)
        /\ WF_adapterVars(LoadTimerFires(r) /\ OnlyAgreement)
        /\ WF_adapterVars(BeginFlow(r) /\ OnlyAgreement)
        /\ WF_adapterVars(LeaveRegister(r) /\ OnlyAgreement)
        /\ WF_adapterVars(FlowTimerFires(r) /\ OnlyAgreement)

MCSpec ==
    /\ MCInit /\ [][MCNext]_adapterVars
    /\ PromotionFairness /\ BannerFairness /\ AgreementFairness

-----------------------------------------------------------------------------
(* Once the deadline of a call has passed or its answer is out, nothing of *)
(* it starts at the provider: no payment, no initialization, no agreement  *)
(* request.                                                                *)
NothingStartsLate ==
    NoOverduePayment /\ NoLateInitialization /\ NoLateAgreement

(* The deadlines of the three timed adapters hold whatever stays silent: a *)
(* promotion call, a banner attachment and an agreement request all end.   *)
TimedCallsEnd == CallsAreAnswered /\ AttachmentsEnd /\ AgreementsEnd
=============================================================================
