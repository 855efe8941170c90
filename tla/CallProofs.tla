------------------------------- MODULE CallProofs -------------------------------
(***************************************************************************)
(* Proofs about the smaller components: banners, agreements, shared        *)
(* attempts, identity calls and remote calls.  They share no state; each   *)
(* has a section of its own.                                               *)
(***************************************************************************)
EXTENDS MCClientCalls, DirectPromotionProofs, Login, RemoteCall,
        SequenceTheorems, TLAPS

-----------------------------------------------------------------------------
(***************************************************************************)
(* Banners.  An initialization under way knows its adapter and, while the  *)
(* provider is asked for support, has not been answered; an attachment     *)
(* that has not reached the provider has no handle.                        *)
(***************************************************************************)
InitRecords ==
    [phase : {"idle", "loading", "checking", "registering", "waiting", "over"},
     adapter : BannerAdapters \cup {NoInit}, overdue : BOOLEAN,
     outcome : {"none", "ok", "failed"}, promise : {"pending", "ok", "failed"}]

InitOwned ==
    \A i \in Inits :
        /\ init[i].phase # "idle" => init[i].adapter \in BannerAdapters
        /\ init[i].phase = "checking" => init[i].promise = "pending"

HandleGiven ==
    \A t \in Attachments :
        attachment[t].phase \in {"idle", "refused", "awaiting"} => ~attachment[t].given

BannerInv == BannerTypeOK /\ InitOwned /\ HandleGiven /\ BannersAreOwned

(* finish touches one initialization and leaves the attachments alone.     *)
LEMMA FinishKeeps ==
    ASSUME BannerInv, NEW i \in Inits,
           NEW phase \in {"idle", "loading", "checking", "registering", "waiting", "over"},
           NEW outcome \in {"none", "ok", "failed"},
           NEW result \in {"pending", "ok", "failed"},
           init[i].phase # "idle",
           phase = "checking" => init[i].promise = "pending" /\ result = "pending",
           FinishInit(i, phase, outcome, result)
    PROVE  BannerInv'
<1>0. /\ init[i] \in InitRecords
      /\ init[i].adapter \in BannerAdapters
  BY DEF BannerInv, BannerTypeOK, InitOwned, InitRecords
<1>1. BannerTypeOK'
  <2>. DEFINE settled == IF init[i].promise = "pending" THEN result ELSE init[i].promise
  <2>1. settled \in {"pending", "ok", "failed"}
    BY <1>0 DEF InitRecords
  <2>2. init' = [init EXCEPT ![i].phase = phase, ![i].outcome = outcome,
                             ![i].promise = settled]
    BY DEF FinishInit, BannerInv, BannerTypeOK
  <2>. HIDE DEF settled
  <2>3. init' \in [Inits -> InitRecords]
    BY <1>0, <2>1, <2>2 DEF BannerInv, BannerTypeOK, InitRecords
  <2>4. initialized' \subseteq BannerAdapters
    BY <1>0 DEF FinishInit, BannerInv, BannerTypeOK
  <2>. QED
    BY <2>3, <2>4 DEF FinishInit, BannerInv, BannerTypeOK, InitRecords
<1>2. InitOwned'
  BY DEF BannerInv, BannerTypeOK, InitOwned, FinishInit
<1>3. (HandleGiven /\ BannersAreOwned)'
  BY DEF BannerInv, HandleGiven, BannersAreOwned, OwnsTarget, FinishInit
<1>. QED
  BY <1>1, <1>2, <1>3 DEF BannerInv

(* A step of an initialization is one of finish, of its clock or of the    *)
(* reaction to its end.                                                    *)
LEMMA InitStepKeeps ==
    ASSUME BannerInv, NEW i \in Inits,
           \/ InitDeadlinePasses(i)
           \/ InitTimerFires(i)
           \/ \E available \in BOOLEAN : LoaderAnswers(i, available)
           \/ LoaderRejects(i)
           \/ \E supported \in BOOLEAN : SupportKnown(i, supported)
           \/ \E outcome \in {"ok", "failed"} : InitCallback(i, outcome)
           \/ InitReturns(i)
           \/ InitThrows(i)
           \/ ClearPending(i)
    PROVE  BannerInv'
<1>0. /\ init[i].phase \in {"idle", "loading", "checking", "registering", "waiting", "over"}
      /\ init[i].outcome \in {"none", "ok", "failed"}
      /\ init[i].promise \in {"pending", "ok", "failed"}
  BY DEF BannerInv, BannerTypeOK
<1>1. CASE InitDeadlinePasses(i)
  <2>0. init' \in [Inits -> InitRecords]
    <3>1. [init[i] EXCEPT !.overdue = TRUE] \in InitRecords
      BY ZenonT(60) DEF BannerInv, BannerTypeOK, InitRecords
    <3>2. init' = [init EXCEPT ![i] = [init[i] EXCEPT !.overdue = TRUE]]
      BY <1>1 DEF InitDeadlinePasses, BannerInv, BannerTypeOK
    <3>. QED
      BY <3>1, <3>2 DEF BannerInv, BannerTypeOK, InitRecords
  <2>1. BannerTypeOK' /\ InitOwned'
    BY <1>1, <2>0 DEF InitDeadlinePasses, BannerInv, BannerTypeOK, InitOwned, InitRecords
  <2>2. (HandleGiven /\ BannersAreOwned)'
    BY <1>1 DEF InitDeadlinePasses, BannerInv, HandleGiven, BannersAreOwned, OwnsTarget
  <2>. QED
    BY <2>1, <2>2 DEF BannerInv
<1>2. CASE InitTimerFires(i)
  <2>1. init[i].phase \notin {"idle", "checking"} => BannerInv'
    BY <1>0, <1>2, FinishKeeps DEF InitTimerFires
  <2>2. init[i].phase # "checking"
    BY <1>2 DEF InitTimerFires, InProvider
  <2>3. CASE init[i].phase = "idle"
    <3>1. BannerTypeOK' /\ InitOwned'
      BY <1>2, <2>3 DEF InitTimerFires, FinishInit, BannerInv, BannerTypeOK, InitOwned
    <3>2. (HandleGiven /\ BannersAreOwned)'
      BY <1>2 DEF InitTimerFires, FinishInit, BannerInv, HandleGiven,
                  BannersAreOwned, OwnsTarget
    <3>. QED
      BY <3>1, <3>2 DEF BannerInv
  <2>. QED
    BY <2>1, <2>2, <2>3
<1>3. CASE \E available \in BOOLEAN : LoaderAnswers(i, available)
  <2>. PICK available \in BOOLEAN : LoaderAnswers(i, available)
    BY <1>3
  <2>. QED
    BY FinishKeeps DEF LoaderAnswers
<1>4. CASE LoaderRejects(i)
  BY <1>4, FinishKeeps DEF LoaderRejects
<1>5. CASE \E supported \in BOOLEAN : SupportKnown(i, supported)
  <2>. PICK supported \in BOOLEAN : SupportKnown(i, supported)
    BY <1>5
  <2>. QED
    BY FinishKeeps DEF SupportKnown
<1>6. CASE \E outcome \in {"ok", "failed"} : InitCallback(i, outcome)
  <2>. PICK outcome \in {"ok", "failed"} : InitCallback(i, outcome)
    BY <1>6
  <2>. QED
    BY FinishKeeps DEF InitCallback, SettleOutcome
<1>7. CASE InitReturns(i)
  <2>1. CASE init[i].outcome = "none"
    BY <1>7, <2>1, FinishKeeps DEF InitReturns
  <2>2. CASE init[i].outcome # "none"
    BY <1>0, <1>7, <2>2, FinishKeeps DEF InitReturns, SettleOutcome
  <2>. QED
    BY <2>1, <2>2
<1>8. CASE InitThrows(i)
  BY <1>0, <1>8, FinishKeeps DEF InitThrows
<1>9. CASE ClearPending(i)
  <2>1. BannerTypeOK' /\ InitOwned'
    BY <1>9 DEF ClearPending, BannerInv, BannerTypeOK, InitOwned
  <2>2. (HandleGiven /\ BannersAreOwned)'
    BY <1>9 DEF ClearPending, BannerInv, HandleGiven, BannersAreOwned, OwnsTarget
  <2>. QED
    BY <2>1, <2>2 DEF BannerInv
<1>. QED
  BY <1>1, <1>2, <1>3, <1>4, <1>5, <1>6, <1>7, <1>8, <1>9

(***************************************************************************)
(* Attachments.                                                            *)
(***************************************************************************)
AttachmentRecords ==
    [phase : {"idle", "refused", "awaiting", "live", "failed", "destroyed"},
     element : Elements \cup {NoInit}, waits : Inits \cup {NoInit},
     aborted : BOOLEAN, given : BOOLEAN, disposals : Nat,
     queued : BOOLEAN, heard : BOOLEAN]

LEMMA AttachmentIsTyped ==
    ASSUME BannerInv, NEW t \in Attachments
    PROVE  attachment[t] \in AttachmentRecords
  BY DEF BannerInv, BannerTypeOK, AttachmentRecords

(* What a call notes of itself without claiming or giving back a target.   *)
LEMMA NoteKeeps ==
    ASSUME BannerInv, NEW t \in Attachments, NEW a \in AttachmentRecords,
           attachment' = [attachment EXCEPT ![t] = a],
           UNCHANGED <<initialized, pendingInit, init, claimedTargets>>,
           a.element = attachment[t].element, a.given = attachment[t].given,
           a.disposals = attachment[t].disposals,
           \/ a.phase = attachment[t].phase
           \/ attachment[t].phase = "idle" /\ a.phase = "refused",
           a.heard => attachment[t].heard \/ attachment[t].phase = "live"
    PROVE  BannerInv'
<1>1. BannerTypeOK' /\ InitOwned'
  BY DEF BannerInv, BannerTypeOK, InitOwned, AttachmentRecords
<1>2. \A u \in Attachments : attachment'[u] = IF u = t THEN a ELSE attachment[u]
  BY DEF BannerInv, BannerTypeOK
<1>3. HandleGiven'
  BY <1>2 DEF BannerInv, HandleGiven
<1>4. \A u \in Attachments :
         OwnsTarget(u)' = OwnsTarget(u) /\ attachment'[u].element = attachment[u].element
  BY <1>2 DEF OwnsTarget
<1>5. (\A u \in Attachments :
          /\ attachment[u].disposals =
               IF attachment[u].given /\ attachment[u].phase # "live" THEN 1 ELSE 0
          /\ attachment[u].heard => attachment[u].phase \in {"live", "destroyed"})'
  BY <1>2 DEF BannerInv, BannersAreOwned
<1>6. (\A e \in Elements :
          e \in claimedTargets
            <=> \E u \in Attachments : OwnsTarget(u) /\ attachment[u].element = e)'
  BY <1>4 DEF BannerInv, BannersAreOwned
<1>7. (\A u, v \in Attachments :
          /\ OwnsTarget(u) /\ OwnsTarget(v)
          /\ attachment[u].element = attachment[v].element
          => u = v)'
  BY <1>4 DEF BannerInv, BannersAreOwned
<1>. QED
  BY <1>1, <1>3, <1>5, <1>6, <1>7 DEF BannerInv, BannersAreOwned

(* A target is claimed by one attachment that had none.                    *)
LEMMA ClaimKeeps ==
    ASSUME BannerInv, InitOwned', initialized' \subseteq BannerAdapters,
           NEW t \in Attachments, NEW e \in Elements,
           NEW i \in Inits \cup {NoInit},
           pendingInit' \in [BannerAdapters -> Inits \cup {NoInit}],
           init' \in [Inits -> InitRecords],
           ClaimTarget(t, e, i)
    PROVE  BannerInv'
<1>. DEFINE a == [attachment[t] EXCEPT !.phase = "awaiting", !.element = e, !.waits = i]
<1>1. /\ attachment' = [attachment EXCEPT ![t] = a]
      /\ a \in AttachmentRecords
      /\ a.phase = "awaiting" /\ a.element = e /\ a.given = attachment[t].given
      /\ a.disposals = attachment[t].disposals /\ a.heard = attachment[t].heard
      /\ attachment[t].phase = "idle"
  BY AttachmentIsTyped DEF ClaimTarget, AttachmentRecords, BannerInv, BannerTypeOK
<1>. HIDE DEF a
<1>2. \A u \in Attachments : attachment'[u] = IF u = t THEN a ELSE attachment[u]
  BY <1>1 DEF BannerInv, BannerTypeOK
<1>3. BannerTypeOK'
  <2>1. attachment' \in [Attachments -> AttachmentRecords]
    BY <1>1 DEF BannerInv, BannerTypeOK, AttachmentRecords
  <2>2. claimedTargets' \subseteq Elements
    BY DEF BannerInv, BannerTypeOK, ClaimTarget
  <2>. QED
    BY <2>1, <2>2 DEF BannerTypeOK, AttachmentRecords, InitRecords
<1>4. HandleGiven'
  BY <1>1, <1>2 DEF BannerInv, HandleGiven
<1>5. (\A u \in Attachments :
          /\ attachment[u].disposals =
               IF attachment[u].given /\ attachment[u].phase # "live" THEN 1 ELSE 0
          /\ attachment[u].heard => attachment[u].phase \in {"live", "destroyed"})'
  BY <1>1, <1>2 DEF BannerInv, BannersAreOwned
<1>6. e \notin claimedTargets /\ claimedTargets' = claimedTargets \cup {e}
  BY DEF ClaimTarget
<1>7. \A u \in Attachments :
         /\ OwnsTarget(u)' <=> u = t \/ OwnsTarget(u)
         /\ u # t => attachment'[u].element = attachment[u].element
  BY <1>1, <1>2 DEF OwnsTarget
<1>8. attachment'[t].element = e /\ ~OwnsTarget(t)
  BY <1>1, <1>2 DEF OwnsTarget
<1>9. (\A d \in Elements :
          d \in claimedTargets
            <=> \E u \in Attachments : OwnsTarget(u) /\ attachment[u].element = d)'
  BY <1>6, <1>7, <1>8 DEF BannerInv, BannersAreOwned
<1>10. (\A u, v \in Attachments :
          /\ OwnsTarget(u) /\ OwnsTarget(v)
          /\ attachment[u].element = attachment[v].element
          => u = v)'
  BY <1>6, <1>7, <1>8 DEF BannerInv, BannersAreOwned
<1>. QED
  BY <1>3, <1>4, <1>5, <1>9, <1>10 DEF BannerInv, BannersAreOwned

(* The owner of a target gives it back and destroys the handle it has.     *)
LEMMA ReleaseKeeps ==
    ASSUME BannerInv, NEW t \in Attachments, NEW a \in AttachmentRecords,
           NEW phase \in {"failed", "destroyed"},
           OwnsTarget(t), attachment[t].phase = "live" => phase = "destroyed",
           a.element = attachment[t].element,
           a.disposals = attachment[t].disposals, a.heard = attachment[t].heard,
           Release(t, a, phase)
    PROVE  BannerInv'
<1>. DEFINE b == Destroyed(a, phase)
<1>1. /\ attachment' = [attachment EXCEPT ![t] = b]
      /\ b \in AttachmentRecords
      /\ b.phase = phase /\ b.element = a.element /\ b.given = a.given
      /\ b.disposals = (IF a.given THEN a.disposals + 1 ELSE a.disposals)
      /\ b.heard = a.heard
  <2>1. CASE a.given
    <3>1. b = [a EXCEPT !.phase = phase, !.disposals = a.disposals + 1]
      BY <2>1 DEF Destroyed, AttachmentRecords
    <3>2. a.disposals \in Nat /\ a.disposals + 1 \in Nat
      BY DEF AttachmentRecords
    <3>3. b \in AttachmentRecords
      BY <3>1, <3>2 DEF AttachmentRecords
    <3>4. /\ b.phase = phase /\ b.element = a.element /\ b.given = a.given
          /\ b.disposals = a.disposals + 1 /\ b.heard = a.heard
      BY <3>1 DEF AttachmentRecords
    <3>5. attachment' = [attachment EXCEPT ![t] = b]
      BY DEF Release
    <3>. HIDE DEF b
    <3>. QED
      BY <2>1, <3>3, <3>4, <3>5
  <2>2. CASE ~a.given
    <3>1. b = [a EXCEPT !.phase = phase, !.disposals = a.disposals]
      BY <2>2 DEF Destroyed, AttachmentRecords
    <3>. QED
      BY <2>2, <3>1 DEF Release, AttachmentRecords
  <2>. QED
    BY <2>1, <2>2
<1>. HIDE DEF b
<1>2. \A u \in Attachments : attachment'[u] = IF u = t THEN b ELSE attachment[u]
  BY <1>1 DEF BannerInv, BannerTypeOK
<1>3. BannerTypeOK' /\ InitOwned'
  BY <1>1 DEF BannerInv, BannerTypeOK, InitOwned, Release, AttachmentRecords
<1>4. HandleGiven'
  BY <1>1, <1>2 DEF BannerInv, HandleGiven
<1>5. attachment[t].disposals = 0 /\ (attachment[t].heard => phase = "destroyed")
  BY DEF BannerInv, BannersAreOwned, HandleGiven, OwnsTarget
<1>6. (\A u \in Attachments :
          /\ attachment[u].disposals =
               IF attachment[u].given /\ attachment[u].phase # "live" THEN 1 ELSE 0
          /\ attachment[u].heard => attachment[u].phase \in {"live", "destroyed"})'
  BY <1>1, <1>2, <1>5 DEF BannerInv, BannersAreOwned
<1>7. \A u \in Attachments :
         /\ OwnsTarget(u)' <=> u # t /\ OwnsTarget(u)
         /\ u # t => attachment'[u].element = attachment[u].element
  BY <1>1, <1>2 DEF OwnsTarget
<1>8. claimedTargets' = claimedTargets \ {attachment[t].element}
  BY DEF Release
<1>9. (\A d \in Elements :
          d \in claimedTargets
            <=> \E u \in Attachments : OwnsTarget(u) /\ attachment[u].element = d)'
  BY <1>7, <1>8 DEF BannerInv, BannersAreOwned
<1>10. (\A u, v \in Attachments :
          /\ OwnsTarget(u) /\ OwnsTarget(v)
          /\ attachment[u].element = attachment[v].element
          => u = v)'
  BY <1>7 DEF BannerInv, BannersAreOwned
<1>. QED
  BY <1>3, <1>4, <1>6, <1>9, <1>10 DEF BannerInv, BannersAreOwned

(* A banner that is attached goes on owning its target.                    *)
LEMMA SettleKeeps ==
    ASSUME BannerInv, NEW t \in Attachments, NEW a \in AttachmentRecords,
           attachment' = [attachment EXCEPT ![t] = [a EXCEPT !.phase = "live"]],
           UNCHANGED <<initialized, pendingInit, init, claimedTargets>>,
           attachment[t].phase = "awaiting",
           a.element = attachment[t].element,
           a.disposals = attachment[t].disposals, a.heard = attachment[t].heard
    PROVE  BannerInv'
<1>. DEFINE b == [a EXCEPT !.phase = "live"]
<1>1. /\ b \in AttachmentRecords /\ b.phase = "live"
      /\ b.element = attachment[t].element
      /\ b.disposals = attachment[t].disposals /\ b.heard = attachment[t].heard
  BY DEF AttachmentRecords
<1>2. attachment' = [attachment EXCEPT ![t] = b]
  OBVIOUS
<1>. HIDE DEF b
<1>3. \A u \in Attachments : attachment'[u] = IF u = t THEN b ELSE attachment[u]
  BY <1>2 DEF BannerInv, BannerTypeOK
<1>4. BannerTypeOK' /\ InitOwned'
  BY <1>1, <1>2 DEF BannerInv, BannerTypeOK, InitOwned, AttachmentRecords
<1>5. HandleGiven'
  BY <1>1, <1>3 DEF BannerInv, HandleGiven
<1>6. \A u \in Attachments :
         OwnsTarget(u)' = OwnsTarget(u) /\ attachment'[u].element = attachment[u].element
  BY <1>1, <1>3 DEF OwnsTarget
<1>7. attachment[t].disposals = 0
  BY DEF BannerInv, BannersAreOwned, HandleGiven
<1>8. (\A u \in Attachments :
          /\ attachment[u].disposals =
               IF attachment[u].given /\ attachment[u].phase # "live" THEN 1 ELSE 0
          /\ attachment[u].heard => attachment[u].phase \in {"live", "destroyed"})'
  BY <1>1, <1>3, <1>7 DEF BannerInv, BannersAreOwned
<1>9. (\A e \in Elements :
          e \in claimedTargets
            <=> \E u \in Attachments : OwnsTarget(u) /\ attachment[u].element = e)'
  BY <1>6 DEF BannerInv, BannersAreOwned
<1>10. (\A u, v \in Attachments :
          /\ OwnsTarget(u) /\ OwnsTarget(v)
          /\ attachment[u].element = attachment[v].element
          => u = v)'
  BY <1>6 DEF BannerInv, BannersAreOwned
<1>. QED
  BY <1>4, <1>5, <1>8, <1>9, <1>10 DEF BannerInv, BannersAreOwned

LEMMA StartInitKeeps ==
    ASSUME BannerInv, NEW b \in BannerAdapters, NEW i \in Inits,
           StartInit(b, i), UNCHANGED initialized
    PROVE  /\ InitOwned' /\ initialized' \subseteq BannerAdapters
           /\ pendingInit' \in [BannerAdapters -> Inits \cup {NoInit}]
           /\ init' \in [Inits -> InitRecords]
<1>1. init' \in [Inits -> InitRecords]
  <2>. DEFINE r == [init[i] EXCEPT !.phase = "loading", !.adapter = b]
  <2>1. r \in InitRecords
    BY ZenonT(60) DEF BannerInv, BannerTypeOK, InitRecords
  <2>2. init' = [init EXCEPT ![i] = r]
    BY DEF StartInit, BannerInv, BannerTypeOK
  <2>. HIDE DEF r
  <2>. QED
    BY <2>1, <2>2 DEF BannerInv, BannerTypeOK, InitRecords
<1>2. InitOwned'
  BY DEF StartInit, BannerInv, BannerTypeOK, InitOwned
<1>. QED
  BY <1>1, <1>2 DEF StartInit, BannerInv, BannerTypeOK

LEMMA BannerStutters == BannerInv /\ UNCHANGED bannerVars => BannerInv'
  BY DEF bannerVars, BannerInv, BannerTypeOK, InitOwned, HandleGiven,
         BannersAreOwned, OwnsTarget

(* Every step of an attachment claims, settles, notes or releases.         *)
LEMMA AttachmentStepKeeps ==
    ASSUME BannerInv, NEW t \in Attachments,
           \/ \E e \in Elements :
                 AttachRefused(t, e) \/ \E b \in BannerAdapters : AttachBanner(t, b, e)
           \/ AttachAbandoned(t)
           \/ \E refuses, aborts, calls \in BOOLEAN :
                 ProviderAttaches(t, refuses, aborts, calls)
           \/ \E calls \in BOOLEAN : ProviderThrows(t, calls)
           \/ DestroyBanner(t)
           \/ Abort(t)
           \/ BannerCallback(t)
           \/ ForwardCallback(t)
    PROVE  BannerInv'
<1>0. attachment[t] \in AttachmentRecords
  BY AttachmentIsTyped
<1>1. ASSUME NEW e \in Elements, AttachRefused(t, e)
      PROVE  BannerInv'
  <2>. DEFINE a == [attachment[t] EXCEPT !.phase = "refused"]
  <2>1. /\ a \in AttachmentRecords /\ attachment' = [attachment EXCEPT ![t] = a]
        /\ a.phase = "refused" /\ a.element = attachment[t].element
        /\ a.given = attachment[t].given /\ a.disposals = attachment[t].disposals
        /\ a.heard = attachment[t].heard
    BY <1>0, <1>1 DEF AttachRefused, AttachmentRecords, BannerInv, BannerTypeOK
  <2>. HIDE DEF a
  <2>. QED
    BY <1>1, <2>1, NoteKeeps, ZenonT(60) DEF AttachRefused
<1>2. ASSUME NEW e \in Elements, NEW b \in BannerAdapters, AttachBanner(t, b, e)
      PROVE  BannerInv'
  <2>1. CASE /\ ClaimTarget(t, e, IF b \in initialized THEN NoInit ELSE pendingInit[b])
             /\ UNCHANGED <<pendingInit, init>>
    <3>1. (IF b \in initialized THEN NoInit ELSE pendingInit[b]) \in Inits \cup {NoInit}
      BY DEF BannerInv, BannerTypeOK
    <3>2. /\ InitOwned' /\ initialized' \subseteq BannerAdapters
          /\ pendingInit' \in [BannerAdapters -> Inits \cup {NoInit}]
          /\ init' \in [Inits -> InitRecords]
      BY <2>1 DEF BannerInv, BannerTypeOK, InitOwned, InitRecords, ClaimTarget
    <3>. QED
      BY <2>1, <3>1, <3>2, ClaimKeeps
  <2>2. ASSUME NEW i \in Inits, StartInit(b, i), ClaimTarget(t, e, i)
        PROVE  BannerInv'
    <3>1. /\ InitOwned' /\ initialized' \subseteq BannerAdapters
          /\ pendingInit' \in [BannerAdapters -> Inits \cup {NoInit}]
          /\ init' \in [Inits -> InitRecords]
      BY <2>2, StartInitKeeps DEF ClaimTarget
    <3>. QED
      BY <2>2, <3>1, ClaimKeeps
  <2>. QED
    BY <1>2, <2>1, <2>2 DEF AttachBanner
<1>3. CASE AttachAbandoned(t)
  BY <1>0, <1>3, ReleaseKeeps DEF AttachAbandoned, Resumable, OwnsTarget
<1>4. ASSUME NEW refuses \in BOOLEAN, NEW aborts \in BOOLEAN, NEW calls \in BOOLEAN,
             ProviderAttaches(t, refuses, aborts, calls)
      PROVE  BannerInv'
  <2>. DEFINE a == [attachment[t] EXCEPT !.given = TRUE, !.queued = calls,
                                         !.aborted = aborts]
  <2>1. /\ a \in AttachmentRecords
        /\ a.element = attachment[t].element /\ a.phase = attachment[t].phase
        /\ a.given = TRUE /\ a.disposals = attachment[t].disposals
        /\ a.heard = attachment[t].heard
    BY <1>0 DEF AttachmentRecords
  <2>2. attachment[t].phase = "awaiting" /\ OwnsTarget(t)
    BY <1>4 DEF ProviderAttaches, Resumable, OwnsTarget
  <2>3. CASE refuses \/ aborts
    <3>1. Release(t, a, "failed")
      BY <1>4, <2>3 DEF ProviderAttaches
    <3>. HIDE DEF a
    <3>. QED
      BY <2>1, <2>2, <3>1, ReleaseKeeps
  <2>4. CASE ~(refuses \/ aborts)
    <3>1. /\ attachment' = [attachment EXCEPT ![t] = [a EXCEPT !.phase = "live"]]
          /\ UNCHANGED <<initialized, pendingInit, init, claimedTargets>>
      BY <1>4, <2>4 DEF ProviderAttaches
    <3>. HIDE DEF a
    <3>. QED
      BY <2>1, <2>2, <3>1, SettleKeeps
  <2>. QED
    BY <2>3, <2>4
<1>5. ASSUME NEW calls \in BOOLEAN, ProviderThrows(t, calls)
      PROVE  BannerInv'
  <2>. DEFINE a == [attachment[t] EXCEPT !.queued = calls]
  <2>1. /\ a \in AttachmentRecords
        /\ a.element = attachment[t].element
        /\ a.disposals = attachment[t].disposals /\ a.heard = attachment[t].heard
    BY <1>0 DEF AttachmentRecords
  <2>2. OwnsTarget(t) /\ attachment[t].phase = "awaiting" /\ Release(t, a, "failed")
    BY <1>5 DEF ProviderThrows, Resumable, OwnsTarget
  <2>. HIDE DEF a
  <2>. QED
    BY <2>1, <2>2, ReleaseKeeps
<1>6. CASE DestroyBanner(t)
  <2>1. CASE attachment[t].phase = "destroyed"
    BY <1>6, <2>1, BannerStutters DEF DestroyBanner
  <2>2. CASE attachment[t].phase # "destroyed"
    BY <1>0, <1>6, <2>2, ReleaseKeeps DEF DestroyBanner, OwnsTarget
  <2>. QED
    BY <2>1, <2>2
<1>7. CASE Abort(t)
  <2>. DEFINE a == [attachment[t] EXCEPT !.aborted = TRUE]
  <2>1. /\ a \in AttachmentRecords /\ a.phase = attachment[t].phase
        /\ a.element = attachment[t].element /\ a.given = attachment[t].given
        /\ a.disposals = attachment[t].disposals /\ a.heard = attachment[t].heard
    BY <1>0 DEF AttachmentRecords
  <2>2. IF a.phase = "live"
          THEN Release(t, a, "destroyed")
          ELSE /\ attachment' = [attachment EXCEPT ![t] = a]
               /\ UNCHANGED <<initialized, pendingInit, init, claimedTargets>>
    BY <1>7 DEF Abort
  <2>. HIDE DEF a
  <2>3. CASE a.phase = "live"
    BY <2>1, <2>2, <2>3, ReleaseKeeps DEF OwnsTarget
  <2>4. CASE a.phase # "live"
    BY <2>1, <2>2, <2>4, NoteKeeps
  <2>. QED
    BY <2>3, <2>4
<1>8. CASE BannerCallback(t)
  <2>. DEFINE a == [attachment[t] EXCEPT !.queued = TRUE]
  <2>1. /\ a \in AttachmentRecords /\ attachment' = [attachment EXCEPT ![t] = a]
        /\ a.phase = attachment[t].phase /\ a.element = attachment[t].element
        /\ a.given = attachment[t].given /\ a.disposals = attachment[t].disposals
        /\ a.heard = attachment[t].heard
    BY <1>0, <1>8 DEF BannerCallback, AttachmentRecords, BannerInv, BannerTypeOK
  <2>. HIDE DEF a
  <2>. QED
    BY <1>8, <2>1, NoteKeeps DEF BannerCallback
<1>9. CASE ForwardCallback(t)
  <2>. DEFINE heard == attachment[t].heard \/ attachment[t].phase = "live"
  <2>. DEFINE a == [attachment[t] EXCEPT !.queued = FALSE, !.heard = heard]
  <2>1. heard \in BOOLEAN
    OBVIOUS
  <2>2. attachment' = [attachment EXCEPT ![t] = a]
    BY <1>9 DEF ForwardCallback, BannerInv, BannerTypeOK
  <2>3. heard => attachment[t].heard \/ attachment[t].phase = "live"
    OBVIOUS
  <2>. HIDE DEF heard
  <2>4. /\ a \in AttachmentRecords
        /\ a.phase = attachment[t].phase /\ a.element = attachment[t].element
        /\ a.given = attachment[t].given /\ a.disposals = attachment[t].disposals
        /\ a.heard = heard
    BY <1>0, <2>1 DEF AttachmentRecords
  <2>. HIDE DEF a
  <2>. QED
    BY <1>9, <2>2, <2>3, <2>4, NoteKeeps DEF ForwardCallback
<1>. QED
  BY <1>1, <1>2, <1>3, <1>4, <1>5, <1>6, <1>7, <1>8, <1>9

LEMMA BannersKeptByNext == BannerInv /\ [BannerNext]_bannerVars => BannerInv'
<1>. SUFFICES ASSUME BannerInv, [BannerNext]_bannerVars
              PROVE  BannerInv'
  OBVIOUS
<1>1. CASE UNCHANGED bannerVars
  BY <1>1, BannerStutters
<1>2. ASSUME NEW b \in BannerAdapters, NEW i \in Inits, Initialize(b, i)
      PROVE  BannerInv'
  <2>1. /\ InitOwned' /\ initialized' \subseteq BannerAdapters
        /\ pendingInit' \in [BannerAdapters -> Inits \cup {NoInit}]
        /\ init' \in [Inits -> InitRecords]
    BY <1>2, StartInitKeeps DEF Initialize
  <2>2. (HandleGiven /\ BannersAreOwned)'
    BY <1>2 DEF Initialize, BannerInv, HandleGiven, BannersAreOwned, OwnsTarget
  <2>. QED
    BY <1>2, <2>1, <2>2 DEF Initialize, BannerInv, BannerTypeOK, InitRecords
<1>. QED
  BY <1>1, <1>2, InitStepKeeps, AttachmentStepKeeps DEF BannerNext

LEMMA BannerInvHolds == BannerSpec => []BannerInv
<1>1. BannerInit => BannerInv
  BY DEF BannerInit, BannerInv, BannerTypeOK, InitOwned, HandleGiven,
         BannersAreOwned, OwnsTarget
<1>. QED
  BY <1>1, BannersKeptByNext, PTL DEF BannerSpec

(* The state of the banner adapters has its type.                          *)
THEOREM BannersAreTyped == BannerSpec => []BannerTypeOK
<1>1. BannerInv => BannerTypeOK
  BY DEF BannerInv
<1>. QED
  BY <1>1, BannerInvHolds, PTL

(* For any number of adapters, elements and calls, a target has one owner  *)
(* as long as it is claimed and is free afterwards, the provider's handle  *)
(* is destroyed once, and a rejected attachment stays silent.              *)
THEOREM BannersOwnTheirTargets == BannerSpec => []BannersAreOwned
<1>1. BannerInv => BannersAreOwned
  BY DEF BannerInv
<1>. QED
  BY <1>1, BannerInvHolds, PTL

(* init.call is entered, and its success accepted, only in time.           *)
THEOREM InitializationsAreInTime == BannerSpec => NoLateInitialization
<1>. DEFINE InTime(i) ==
       /\ init[i].phase # "registering" /\ init'[i].phase = "registering" =>
             ~init[i].overdue /\ init[i].promise = "pending"
       /\ init[i].promise = "pending" /\ init'[i].promise = "ok" =>
             ~init[i].overdue
<1>1. BannerInv /\ [BannerNext]_bannerVars => [\A i \in Inits : InTime(i)]_bannerVars
  <2>. SUFFICES ASSUME BannerInv, BannerNext, NEW i \in Inits
                PROVE  InTime(i)
    OBVIOUS
  <2>0. init \in [Inits -> InitRecords] /\ init[i] \in InitRecords
    BY DEF BannerInv, BannerTypeOK, InitRecords
  <2>1. ASSUME NEW j \in Inits, NEW phase, NEW outcome, NEW result,
               FinishInit(j, phase, outcome, result),
               phase = "registering" /\ init[j].phase # "registering" =>
                  ~init[j].overdue /\ init[j].promise = "pending",
               result = "ok" => ~init[j].overdue
        PROVE  InTime(i)
    BY <2>0, <2>1 DEF FinishInit
  <2>2. ASSUME init' = init \/ \E j \in Inits : \E b : StartInit(b, j)
        PROVE  InTime(i)
    <3>1. CASE init' = init
      BY <3>1
    <3>2. ASSUME NEW j \in Inits, NEW b, StartInit(b, j)
          PROVE  InTime(i)
      <4>1. /\ init'[i].phase \in {init[i].phase, "loading"}
            /\ init'[i].promise = init[i].promise
        BY <2>0, <3>2 DEF StartInit, InitRecords
      <4>. QED
        BY <4>1
    <3>. QED
      BY <2>2, <3>1, <3>2
  <2>3. ASSUME NEW t \in Attachments,
               \/ \E e \in Elements :
                     AttachRefused(t, e) \/ \E b \in BannerAdapters : AttachBanner(t, b, e)
               \/ AttachAbandoned(t)
               \/ \E refuses, aborts, calls \in BOOLEAN :
                     ProviderAttaches(t, refuses, aborts, calls)
               \/ \E calls \in BOOLEAN : ProviderThrows(t, calls)
               \/ DestroyBanner(t) \/ Abort(t)
               \/ BannerCallback(t) \/ ForwardCallback(t)
        PROVE  InTime(i)
    BY <2>2, <2>3 DEF AttachRefused, AttachBanner, AttachAbandoned, Release,
                      ProviderAttaches, ProviderThrows, DestroyBanner, Abort,
                      BannerCallback, ForwardCallback, bannerVars
  <2>4. ASSUME NEW b \in BannerAdapters, NEW j \in Inits, Initialize(b, j)
        PROVE  InTime(i)
    BY <2>2, <2>4 DEF Initialize
  <2>5. ASSUME NEW j \in Inits,
               InitDeadlinePasses(j) \/ ClearPending(j)
        PROVE  InTime(i)
    BY <2>0, <2>5 DEF InitDeadlinePasses, ClearPending
  <2>6. ASSUME NEW j \in Inits,
               \/ InitTimerFires(j) \/ LoaderRejects(j) \/ InitThrows(j)
               \/ \E available \in BOOLEAN : LoaderAnswers(j, available)
        PROVE  InTime(i)
    BY <2>1, <2>6 DEF InitTimerFires, LoaderRejects, InitThrows, LoaderAnswers
  <2>7. ASSUME NEW j \in Inits, NEW supported \in BOOLEAN, SupportKnown(j, supported)
        PROVE  InTime(i)
    BY <2>1, <2>7 DEF SupportKnown, BannerInv, InitOwned
  <2>8. ASSUME NEW j \in Inits,
               \/ \E outcome \in {"ok", "failed"} : InitCallback(j, outcome)
               \/ InitReturns(j)
        PROVE  InTime(i)
    BY <2>1, <2>8 DEF InitCallback, InitReturns, SettleOutcome
  <2>. QED
    BY <2>3, <2>4, <2>5, <2>6, <2>7, <2>8 DEF BannerNext
<1>. QED
  BY <1>1, BannerInvHolds, PTL DEF BannerSpec, NoLateInitialization

-----------------------------------------------------------------------------
(***************************************************************************)
(* Agreements.  While the platform loads, and when it has been loaded in   *)
(* time, nobody has been answered.                                         *)
(***************************************************************************)
AgreementRecords ==
    [phase : {"idle", "loading", "loaded", "late", "registering", "open", "done"},
     overdue : BOOLEAN, cancelled : BOOLEAN,
     answer : {"none", "error", "timeout", "agreed", "rejected", "failed"}]

Unanswered ==
    \A r \in Agreements :
        /\ agreement[r].phase \in {"idle", "loaded"} =>
              agreement[r].answer = "none" /\ ~agreement[r].cancelled
        /\ agreement[r].phase = "loading" /\ ~agreement[r].cancelled =>
              agreement[r].answer = "none"

AgreementInv == AgreementTypeOK /\ Unanswered

(* A step replaces one record by another of the type.                      *)
LEMMA AgreementMoves ==
    ASSUME AgreementInv, NEW r \in Agreements, NEW a \in AgreementRecords,
           agreement' = [agreement EXCEPT ![r] = a],
           a.phase = "loaded" => a.answer = "none" /\ ~a.cancelled,
           a.phase = "idle" => a.answer = "none" /\ ~a.cancelled,
           a.phase = "loading" /\ ~a.cancelled => a.answer = "none"
    PROVE  AgreementInv'
<1>1. \A q \in Agreements : agreement'[q] = IF q = r THEN a ELSE agreement[q]
  BY DEF AgreementInv, AgreementTypeOK
<1>2. AgreementTypeOK'
  BY DEF AgreementInv, AgreementTypeOK, AgreementRecords
<1>3. Unanswered'
  BY <1>1 DEF AgreementInv, Unanswered
<1>. QED
  BY <1>2, <1>3 DEF AgreementInv

LEMMA SettleMoves ==
    ASSUME AgreementInv, NEW r \in Agreements, NEW answer, SettleAgreement(r, answer)
    PROVE  \E phase \in {"registering", "done"} :
             agreement' = [agreement EXCEPT ![r].phase = phase, ![r].answer = answer]
<1>1. CASE agreement[r].phase = "registering"
  <2>1. agreement' = [agreement EXCEPT ![r].phase = "registering", ![r].answer = answer]
    BY <1>1 DEF SettleAgreement, AgreementInv, AgreementTypeOK
  <2>. QED
    BY <2>1
<1>2. CASE agreement[r].phase # "registering"
  <2>1. agreement' = [agreement EXCEPT ![r].phase = "done", ![r].answer = answer]
    BY <1>2 DEF SettleAgreement, AgreementInv, AgreementTypeOK
  <2>. QED
    BY <2>1
<1>. QED
  BY <1>1, <1>2

LEMMA AgreementKeptByNext ==
    AgreementInv /\ [AgreementNext]_agreementVars => AgreementInv'
<1>. SUFFICES ASSUME AgreementInv, [AgreementNext]_agreementVars
              PROVE  AgreementInv'
  OBVIOUS
<1>1. CASE UNCHANGED agreementVars
  BY <1>1 DEF agreementVars, AgreementInv, AgreementTypeOK, Unanswered
<1>3. ASSUME NEW r \in Agreements
      PROVE  /\ agreement[r] \in AgreementRecords
             /\ agreement[r] = [phase |-> agreement[r].phase,
                                overdue |-> agreement[r].overdue,
                                cancelled |-> agreement[r].cancelled,
                                answer |-> agreement[r].answer]
  BY <1>3 DEF AgreementInv, AgreementTypeOK, AgreementRecords
<1>4. ASSUME NEW r \in Agreements, NEW a \in AgreementRecords,
             agreement' = [agreement EXCEPT ![r] = a],
             a.phase \in {"idle", "loaded"} => a.answer = "none" /\ ~a.cancelled,
             a.phase = "loading" /\ ~a.cancelled => a.answer = "none"
      PROVE  AgreementInv'
  BY <1>4, AgreementMoves
<1>5. ASSUME NEW r \in Agreements,
             AgreementRefused(r) \/ RequestAgreement(r) \/ LoadTimerFires(r)
      PROVE  AgreementInv'
  <2>1. CASE AgreementRefused(r)
    <3>. DEFINE a == [agreement[r] EXCEPT !.phase = "done", !.answer = "error"]
    <3>1. /\ a \in AgreementRecords /\ agreement' = [agreement EXCEPT ![r] = a]
          /\ a.phase = "done"
      BY <1>3, <2>1 DEF AgreementRefused, AgreementInv, AgreementTypeOK, AgreementRecords
    <3>. HIDE DEF a
    <3>. QED
      BY <1>4, <3>1
  <2>2. CASE RequestAgreement(r)
    <3>. DEFINE a == [agreement[r] EXCEPT !.phase = "loading"]
    <3>1. /\ a \in AgreementRecords /\ agreement' = [agreement EXCEPT ![r] = a]
          /\ a.phase = "loading" /\ a.answer = "none"
      BY <1>3, <2>2 DEF RequestAgreement, AgreementInv, AgreementTypeOK,
                        AgreementRecords, Unanswered
    <3>. HIDE DEF a
    <3>. QED
      BY <1>4, <3>1
  <2>3. CASE LoadTimerFires(r)
    <3>. DEFINE a == [agreement[r] EXCEPT !.cancelled = TRUE, !.answer = "timeout"]
    <3>1. /\ a \in AgreementRecords /\ agreement' = [agreement EXCEPT ![r] = a]
          /\ a.phase = "loading" /\ a.cancelled
      BY <1>3, <2>3 DEF LoadTimerFires, AgreementInv, AgreementTypeOK, AgreementRecords
    <3>. HIDE DEF a
    <3>. QED
      BY <1>4, <3>1
  <2>. QED
    BY <1>5, <2>1, <2>2, <2>3
<1>6. ASSUME NEW r \in Agreements, AgreementDeadlinePasses(r)
      PROVE  AgreementInv'
  <2>. DEFINE a == [agreement[r] EXCEPT !.overdue = TRUE]
  <2>1. /\ a \in AgreementRecords /\ agreement' = [agreement EXCEPT ![r] = a]
        /\ a.phase = agreement[r].phase /\ a.answer = agreement[r].answer
        /\ a.cancelled = agreement[r].cancelled
    BY <1>3, <1>6 DEF AgreementDeadlinePasses, AgreementInv, AgreementTypeOK,
                      AgreementRecords
  <2>. HIDE DEF a
  <2>. QED
    BY <1>4, <2>1 DEF AgreementInv, Unanswered
<1>7. ASSUME NEW r \in Agreements,
             \/ PlatformLoads(r) \/ PlatformFails(r) \/ BeginFlow(r)
             \/ \E event \in AgreementEvents : AgreementEvent(r, event)
             \/ RegisterReturns(r) \/ RegisterThrows(r) \/ FlowTimerFires(r)
      PROVE  AgreementInv'
  <2>1. PICK phase \in {"loaded", "late", "done", "registering", "open"},
             answer \in {"none", "error", "timeout", "agreed", "rejected", "failed"} :
             /\ agreement' = [agreement EXCEPT ![r].phase = phase, ![r].answer = answer]
             /\ phase = "loaded" => answer = "none" /\ ~agreement[r].cancelled
    <3>0. /\ agreement[r].answer \in {"none", "error", "timeout", "agreed", "rejected", "failed"}
          /\ \A phase : [agreement EXCEPT ![r].phase = phase] =
                [agreement EXCEPT ![r].phase = phase, ![r].answer = agreement[r].answer]
      BY <1>3 DEF AgreementInv, AgreementTypeOK, AgreementRecords
    <3>1. CASE PlatformLoads(r)
      BY <1>3, <3>0, <3>1 DEF PlatformLoads, AgreementInv, Unanswered
    <3>2. CASE PlatformFails(r)
      BY <1>3, <3>0, <3>2 DEF PlatformFails
    <3>3. CASE BeginFlow(r)
      BY <1>3, <3>0, <3>3 DEF BeginFlow
    <3>4. CASE \E event \in AgreementEvents : AgreementEvent(r, event)
      <4>1. PICK event \in AgreementEvents : AgreementEvent(r, event)
        BY <3>4
      <4>2. Reduced(event) \in {"agreed", "rejected", "failed"}
        BY <4>1 DEF AgreementEvent, AgreementEvents, Reduced
      <4>3. SettleAgreement(r, Reduced(event))
        BY <4>1 DEF AgreementEvent
      <4>4. PICK phase \in {"registering", "done"} :
               agreement' = [agreement EXCEPT ![r].phase = phase,
                                              ![r].answer = Reduced(event)]
        BY <4>3, SettleMoves
      <4>. QED
        BY <4>2, <4>4
    <3>5. CASE RegisterReturns(r)
      BY <1>3, <3>0, <3>5 DEF RegisterReturns
    <3>6. CASE RegisterThrows(r)
      BY <1>3, <3>0, <3>6 DEF RegisterThrows
    <3>7. CASE FlowTimerFires(r)
      <4>1. PICK phase \in {"registering", "done"} :
               agreement' = [agreement EXCEPT ![r].phase = phase, ![r].answer = "timeout"]
        BY <3>7, SettleMoves DEF FlowTimerFires
      <4>. QED
        BY <4>1
    <3>. QED
      BY <1>7, <3>1, <3>2, <3>3, <3>4, <3>5, <3>6, <3>7
  <2>. DEFINE a == [agreement[r] EXCEPT !.phase = phase, !.answer = answer]
  <2>2. /\ a \in AgreementRecords /\ agreement' = [agreement EXCEPT ![r] = a]
        /\ a.phase = phase /\ a.answer = answer /\ a.cancelled = agreement[r].cancelled
    BY <1>3, <2>1 DEF AgreementInv, AgreementTypeOK, AgreementRecords
  <2>. HIDE DEF a
  <2>. QED
    BY <1>4, <2>1, <2>2
<1>. QED
  BY <1>1, <1>5, <1>6, <1>7 DEF AgreementNext

LEMMA AgreementInvHolds == AgreementSpec => []AgreementInv
<1>1. AgreementInit => AgreementInv
  BY DEF AgreementInit, AgreementInv, AgreementTypeOK, Unanswered
<1>. QED
  BY <1>1, AgreementKeptByNext, PTL DEF AgreementSpec

(* The agreement requests have their type.                                 *)
THEOREM AgreementsAreTyped == AgreementSpec => []AgreementTypeOK
<1>1. AgreementInv => AgreementTypeOK
  BY DEF AgreementInv
<1>. QED
  BY <1>1, AgreementInvHolds, PTL

(* The platform is asked for an agreement only in time, and never for a    *)
(* caller who has been answered.                                           *)
THEOREM AgreementsAreInTime == AgreementSpec => NoLateAgreement
<1>. DEFINE InTime(r) ==
       agreement[r].phase # "registering" /\ agreement'[r].phase = "registering"
          => ~agreement[r].overdue /\ agreement[r].answer = "none"
<1>1. AgreementInv /\ [AgreementNext]_agreementVars
         => [\A r \in Agreements : InTime(r)]_agreementVars
  <2>. SUFFICES ASSUME AgreementInv, AgreementNext, NEW r \in Agreements,
                       agreement[r].phase # "registering",
                       agreement'[r].phase = "registering"
                PROVE  ~agreement[r].overdue /\ agreement[r].answer = "none"
    OBVIOUS
  <2>1. PICK q \in Agreements :
           \/ AgreementRefused(q) \/ RequestAgreement(q) \/ AgreementDeadlinePasses(q)
           \/ PlatformLoads(q) \/ PlatformFails(q) \/ LoadTimerFires(q)
           \/ BeginFlow(q) \/ \E event \in AgreementEvents : AgreementEvent(q, event)
           \/ RegisterReturns(q) \/ RegisterThrows(q) \/ FlowTimerFires(q)
    BY DEF AgreementNext
  <2>2. agreement \in [Agreements -> AgreementRecords]
    BY DEF AgreementInv, AgreementTypeOK, AgreementRecords
  <2>3. CASE BeginFlow(q)
    <3>1. r = q
      BY <2>2, <2>3 DEF BeginFlow
    <3>2. ~agreement[r].overdue
      <4>1. agreement[r].overdue => agreement'[r].phase = "done"
        BY <2>2, <2>3, <3>1 DEF BeginFlow, AgreementRecords
      <4>. QED
        BY <4>1
    <3>. QED
      BY <2>3, <3>1, <3>2 DEF BeginFlow, AgreementInv, Unanswered
  <2>4. ASSUME NEW phase, agreement' = [agreement EXCEPT ![q].phase = phase]
        PROVE  phase = "registering"
    BY <2>2, <2>4 DEF AgreementRecords
  <2>5. ASSUME NEW phase, NEW answer,
               agreement' = [agreement EXCEPT ![q].phase = phase, ![q].answer = answer]
        PROVE  phase = "registering" /\ r = q
    BY <2>2, <2>5 DEF AgreementRecords
  <2>6. CASE AgreementRefused(q) \/ RequestAgreement(q)
    BY <2>4, <2>5, <2>6 DEF AgreementRefused, RequestAgreement
  <2>7. CASE AgreementDeadlinePasses(q) \/ LoadTimerFires(q)
    BY <2>2, <2>7 DEF AgreementDeadlinePasses, LoadTimerFires, AgreementRecords
  <2>8. CASE PlatformLoads(q)
    BY <2>4, <2>8 DEF PlatformLoads
  <2>9. CASE PlatformFails(q)
    <3>1. CASE agreement[q].cancelled
      <4>1. agreement' = [agreement EXCEPT ![q].phase = "late",
                                           ![q].answer = agreement[q].answer]
        BY <2>2, <2>9, <3>1 DEF PlatformFails
      <4>. QED
        BY <2>2, <4>1 DEF AgreementRecords
    <3>2. CASE ~agreement[q].cancelled
      <4>1. agreement' = [agreement EXCEPT ![q].phase = "done", ![q].answer = "error"]
        BY <2>2, <2>9, <3>2 DEF PlatformFails
      <4>. QED
        BY <2>2, <4>1 DEF AgreementRecords
    <3>. QED
      BY <3>1, <3>2
  <2>10. CASE \E event \in AgreementEvents : AgreementEvent(q, event)
    <3>1. PICK event \in AgreementEvents : AgreementEvent(q, event)
      BY <2>10
    <3>2. PICK phase \in {"registering", "done"} :
             agreement' = [agreement EXCEPT ![q].phase = phase,
                                            ![q].answer = Reduced(event)]
      BY <3>1, SettleMoves DEF AgreementEvent
    <3>3. r = q /\ agreement[q].phase = "open"
      BY <2>5, <3>1, <3>2 DEF AgreementEvent
    <3>4. agreement'[q].phase = "done"
      BY <2>2, <3>1, <3>3 DEF AgreementEvent, SettleAgreement, AgreementRecords
    <3>. QED
      BY <3>3, <3>4
  <2>11. CASE RegisterReturns(q)
    BY <2>4, <2>11 DEF RegisterReturns
  <2>12. CASE RegisterThrows(q)
    BY <2>5, <2>12 DEF RegisterThrows
  <2>13. CASE FlowTimerFires(q)
    <3>1. agreement'[q].phase = "done"
      BY <2>2, <2>13 DEF FlowTimerFires, SettleAgreement, AgreementRecords
    <3>. QED
      BY <2>2, <2>13, <3>1 DEF FlowTimerFires, SettleAgreement
  <2>. QED
    BY <2>1, <2>3, <2>6, <2>7, <2>8, <2>9, <2>10, <2>11, <2>12, <2>13
<1>. QED
  BY <1>1, AgreementInvHolds, PTL DEF AgreementSpec, NoLateAgreement

-----------------------------------------------------------------------------
(***************************************************************************)
(* Remote calls.  Nothing goes to the provider before the operation runs;  *)
(* a status that speaks of refusal, or of configuration, is given before   *)
(* that, and health has two statuses.                                      *)
(***************************************************************************)
RemoteRecords ==
    [kind : {"health", "api", "raw"}, client : {"idle", "waiting", "done"},
     server : {"none", "wire", "lost", "operation", "answered"},
     sent : BOOLEAN,
     status : {"none", "200", "400", "401", "403", "404", "500", "503", "config"},
     outcome : {"none", "resolved", "rejected", "timeout", "network"}]

Sound(r) ==
    /\ r.client = "idle" <=> r.server = "none"
    /\ r.client # "done" => r.outcome = "none"
    /\ r.server \in {"none", "wire", "lost"} => ~r.sent
    /\ r.server = "answered" <=> r.status # "none"
    /\ r.status \in {"400", "401", "403", "404", "config"} => ~r.sent
    /\ r.status = "config" => ~service.binding
    /\ r.kind = "api" /\ r.status = "config" => service.forward
    /\ r.kind = "health" /\ r.server # "none" =>
          /\ r.server # "operation"
          /\ r.status \in {"none", "200", "503"}
          /\ r.status = "200" => Healthy
          /\ r.outcome # "rejected"

RemoteInv == RemoteTypeOK /\ \A c \in Remotes : Sound(remote[c])

LEMMA RemoteMoves ==
    ASSUME RemoteInv, UNCHANGED service, NEW c \in Remotes, NEW r \in RemoteRecords,
           remote' = [remote EXCEPT ![c] = r], Sound(r)
    PROVE  RemoteInv'
<1>1. \A d \in Remotes : remote'[d] = IF d = c THEN r ELSE remote[d]
  BY DEF RemoteInv, RemoteTypeOK
<1>2. RemoteTypeOK'
  BY DEF RemoteInv, RemoteTypeOK, RemoteRecords
<1>3. \A d \in Remotes : Sound(remote'[d])
  BY <1>1 DEF RemoteInv
<1>4. (\A d \in Remotes : Sound(remote[d]))'
  BY <1>3 DEF Sound, Healthy
<1>. QED
  BY <1>2, <1>4 DEF RemoteInv

LEMMA RemoteKeptByNext == RemoteInv /\ [RemoteNext]_remoteVars => RemoteInv'
<1>. SUFFICES ASSUME RemoteInv, [RemoteNext]_remoteVars
              PROVE  RemoteInv'
  OBVIOUS
<1>1. CASE UNCHANGED remoteVars
  BY <1>1 DEF remoteVars, RemoteInv, RemoteTypeOK, Sound, Healthy
<1>2. CASE RemoteNext
  <2>1. PICK c \in Remotes :
          \/ \E kind \in {"health", "api", "raw"} : ClientSends(c, kind)
          \/ ClientTimerFires(c)
          \/ ConnectionFails(c)
          \/ Handle(c)
          \/ \E status \in {"404", "500"} : HandleRefuses(c, status)
          \/ \E refusal \in {"none", "200", "400"} : Operate(c, refusal)
          \/ \E status \in {"200", "500"} : OperationEnds(c, status)
          \/ ClientReceives(c)
    BY <1>2 DEF RemoteNext
  <2>. DEFINE r == remote[c]
  <2>2. /\ r \in RemoteRecords /\ Sound(r)
        /\ remote = [remote EXCEPT ![c] = r]
    BY DEF RemoteInv, RemoteTypeOK, RemoteRecords
  <2>4. ASSUME NEW status \in {"200", "400", "401", "403", "404", "500", "503", "config"},
               Respond(c, status), UNCHANGED service,
               r.server \in {"wire", "operation"},
               status \notin {"200", "500", "503"} => ~r.sent,
               status = "config" => ~service.binding /\ (r.kind = "api" => service.forward),
               r.kind = "health" => status \in {"200", "503"} /\ (status = "200" => Healthy)
        PROVE  RemoteInv'
    <3>. DEFINE a == [r EXCEPT !.server = "answered", !.status = status]
    <3>1. a \in RemoteRecords /\ remote' = [remote EXCEPT ![c] = a]
      BY <2>2, <2>4, ZenonT(60) DEF Respond, RemoteInv, RemoteTypeOK, RemoteRecords
    <3>2. /\ a.kind = r.kind /\ a.client = r.client /\ a.sent = r.sent
          /\ a.outcome = r.outcome /\ a.server = "answered" /\ a.status = status
      BY <2>2 DEF RemoteRecords
    <3>. HIDE DEF a
    <3>3. Sound(a)
      BY <2>2, <2>4, <3>2 DEF Sound
    <3>. QED
      BY <2>4, <3>1, <3>3, RemoteMoves
  <2>5. ASSUME NEW outcome \in {"resolved", "rejected", "timeout", "network"},
               ClientSettles(c, outcome), UNCHANGED service, r.client = "waiting",
               r.kind = "health" => outcome # "rejected"
        PROVE  RemoteInv'
    <3>. DEFINE a == [r EXCEPT !.client = "done", !.outcome = outcome]
    <3>1. a \in RemoteRecords /\ remote' = [remote EXCEPT ![c] = a]
      BY <2>2, <2>5 DEF ClientSettles, RemoteInv, RemoteTypeOK, RemoteRecords
    <3>2. /\ a.kind = r.kind /\ a.client = "done" /\ a.sent = r.sent
          /\ a.outcome = outcome /\ a.server = r.server /\ a.status = r.status
      BY <2>2 DEF RemoteRecords
    <3>. HIDE DEF a
    <3>3. Sound(a)
      BY <2>2, <2>5, <3>2 DEF Sound
    <3>. QED
      BY <2>5, <3>1, <3>3, RemoteMoves
  <2>6. ASSUME NEW kind \in {"health", "api", "raw"}, ClientSends(c, kind)
        PROVE  RemoteInv'
    <3>. DEFINE a == [r EXCEPT !.client = "waiting", !.server = "wire", !.kind = kind]
    <3>1. a \in RemoteRecords /\ remote' = [remote EXCEPT ![c] = a]
      BY <2>2, <2>6, ZenonT(60) DEF ClientSends, RemoteInv, RemoteTypeOK, RemoteRecords
    <3>2. Sound(a)
      BY <2>2, <2>6 DEF ClientSends, Sound, RemoteRecords
    <3>. HIDE DEF a
    <3>. QED
      BY <2>6, <3>1, <3>2, RemoteMoves DEF ClientSends
  <2>7. CASE ClientTimerFires(c)
    BY <2>5, <2>7 DEF ClientTimerFires
  <2>8. CASE ConnectionFails(c)
    <3>1. CASE remote' = [remote EXCEPT ![c].client = "done", ![c].outcome = "network"]
      BY <2>5, <2>8, <3>1 DEF ConnectionFails, ClientSettles
    <3>2. CASE /\ r.server = "wire"
               /\ remote' = [remote EXCEPT ![c].client = "done",
                                           ![c].outcome = "network",
                                           ![c].server = "lost"]
      <4>. DEFINE a == [r EXCEPT !.client = "done", !.outcome = "network", !.server = "lost"]
      <4>1. a \in RemoteRecords /\ remote' = [remote EXCEPT ![c] = a]
        BY <2>2, <3>2 DEF RemoteInv, RemoteTypeOK, RemoteRecords
      <4>2. /\ a.kind = r.kind /\ a.client = "done" /\ a.sent = r.sent
            /\ a.outcome = "network" /\ a.server = "lost" /\ a.status = r.status
        BY <2>2 DEF RemoteRecords
      <4>. HIDE DEF a
      <4>3. Sound(a)
        BY <2>2, <3>2, <4>2 DEF Sound
      <4>. QED
        BY <2>8, <4>1, <4>3, RemoteMoves DEF ConnectionFails
    <3>. QED
      BY <2>8, <3>1, <3>2 DEF ConnectionFails
  <2>11. r.server = "wire" => ~r.sent
    BY <2>2 DEF Sound
  <2>12. r.server = "operation" => r.kind # "health"
    BY <2>2 DEF Sound
  <2>. HIDE DEF r
  <2>13. ASSUME remote' = [remote EXCEPT ![c].server = "operation"],
                UNCHANGED service, r.server = "wire", r.kind # "health"
         PROVE  RemoteInv'
    <3>. DEFINE a == [r EXCEPT !.server = "operation"]
    <3>1. a \in RemoteRecords /\ remote' = [remote EXCEPT ![c] = a]
      BY <2>2, <2>13 DEF r, RemoteInv, RemoteTypeOK, RemoteRecords
    <3>2. Sound(a)
      BY <2>2, <2>13 DEF Sound, RemoteRecords
    <3>. HIDE DEF a
    <3>. QED
      BY <2>13, <3>1, <3>2, RemoteMoves
  <2>14. ASSUME remote' = [remote EXCEPT ![c].sent = TRUE],
                UNCHANGED service, r.server = "operation"
         PROVE  RemoteInv'
    <3>. DEFINE a == [r EXCEPT !.sent = TRUE]
    <3>1. a \in RemoteRecords /\ remote' = [remote EXCEPT ![c] = a]
      BY <2>2, <2>14 DEF r, RemoteInv, RemoteTypeOK, RemoteRecords
    <3>2. Sound(a)
      BY <2>2, <2>14 DEF Sound, RemoteRecords
    <3>. HIDE DEF a
    <3>. QED
      BY <2>14, <3>1, <3>2, RemoteMoves
  <2>15. CASE Handle(c)
    <3>1. /\ r.server = "wire" /\ UNCHANGED service
          /\ \/ /\ r.kind = "health"
                /\ Respond(c, IF Healthy THEN "200" ELSE "503")
             \/ r.kind # "health" /\ (Respond(c, "404") \/ Respond(c, "401"))
             \/ /\ r.kind # "health"
                /\ remote' = [remote EXCEPT ![c].server = "operation"]
      BY <2>15 DEF Handle, r
    <3>2. CASE r.kind = "health" /\ Healthy
      BY <2>4, <2>11, <3>1, <3>2
    <3>3. CASE r.kind = "health" /\ ~Healthy
      BY <2>4, <2>11, <3>1, <3>3
    <3>4. CASE r.kind # "health"
      BY <2>4, <2>11, <2>13, <3>1, <3>4
    <3>. QED
      BY <3>2, <3>3, <3>4
  <2>16. ASSUME NEW status \in {"404", "500"}, HandleRefuses(c, status)
         PROVE  RemoteInv'
    <3>1. /\ r.server = "wire" /\ UNCHANGED service /\ r.kind # "health"
          /\ Respond(c, status)
      BY <2>16 DEF HandleRefuses, r
    <3>. QED
      BY <2>4, <2>11, <2>16, <3>1
  <2>17. ASSUME NEW refusal \in {"none", "200", "400"}, Operate(c, refusal)
         PROVE  RemoteInv'
    <3>1. /\ r.server = "operation" /\ UNCHANGED service /\ ~r.sent
          /\ \/ Respond(c, "403")
             \/ refusal # "none" /\ Respond(c, refusal)
             \/ Respond(c, "200")
             \/ /\ ~service.binding /\ (r.kind = "api" => service.forward)
                /\ Respond(c, "config")
             \/ remote' = [remote EXCEPT ![c].sent = TRUE]
      BY <2>17 DEF Operate, r
    <3>. QED
      BY <2>4, <2>12, <2>14, <2>17, <3>1
  <2>18. ASSUME NEW status \in {"200", "500"}, OperationEnds(c, status)
         PROVE  RemoteInv'
    <3>1. r.server = "operation" /\ UNCHANGED service /\ Respond(c, status)
      BY <2>18 DEF OperationEnds, r
    <3>. QED
      BY <2>4, <2>12, <2>18, <3>1
  <2>19. CASE ClientReceives(c)
    <3>1. r.kind = "health" /\ r.server = "answered" => r.status \in {"200", "503"}
      BY <2>2 DEF Sound
    <3>. QED
      BY <2>5, <2>19, <3>1 DEF ClientReceives, r
  <2>. QED
    BY <2>1, <2>6, <2>7, <2>8, <2>15, <2>16, <2>17, <2>18, <2>19
<1>. QED
  BY <1>1, <1>2

LEMMA RemoteInvHolds == RemoteSpec => []RemoteInv
<1>1. RemoteInit => RemoteInv
  BY DEF RemoteInit, RemoteInv, RemoteTypeOK, Sound, Healthy
<1>. QED
  BY <1>1, RemoteKeptByNext, PTL DEF RemoteSpec

(* The deployment and the calls have their type.                           *)
THEOREM RemotesAreTyped == RemoteSpec => []RemoteTypeOK
<1>1. RemoteInv => RemoteTypeOK
  BY DEF RemoteInv
<1>. QED
  BY <1>1, RemoteInvHolds, PTL

(* For any deployment and any number of calls, what a client is told is    *)
(* true of the service: see RemoteOutcomesAreTrue.                         *)
THEOREM RemoteOutcomesHold == RemoteSpec => []RemoteOutcomesAreTrue
<1>1. RemoteInv => RemoteOutcomesAreTrue
  <2>. SUFFICES ASSUME RemoteInv, NEW c \in Remotes
                PROVE  /\ remote[c].outcome = "rejected"
                             /\ remote[c].status \in {"400", "401", "403", "404", "config"}
                             => ~remote[c].sent
                       /\ remote[c].kind = "health" =>
                             /\ remote[c].outcome # "rejected"
                             /\ remote[c].status = "200" /\ service.forward =>
                                  \A d \in Remotes :
                                     remote[d].kind = "api" => remote[d].status # "config"
    BY DEF RemoteOutcomesAreTrue
  <2>1. Sound(remote[c]) /\ remote[c] \in RemoteRecords
    BY DEF RemoteInv, RemoteTypeOK, RemoteRecords
  <2>2. remote[c].kind = "health" =>
          /\ remote[c].outcome # "rejected"
          /\ remote[c].status = "200" => Healthy
    BY <2>1 DEF Sound
  <2>3. \A d \in Remotes : remote[d].status = "config" => ~service.binding
    BY DEF RemoteInv, Sound
  <2>. QED
    BY <2>1, <2>2, <2>3 DEF Sound, Healthy
<1>. QED
  BY <1>1, RemoteInvHolds, PTL

-----------------------------------------------------------------------------
(***************************************************************************)
(* Identity calls.  A request that has not arrived has not been carried    *)
(* out; one whose user is looked up has been.                              *)
(***************************************************************************)
LoginRecords ==
    [kind : LoginKinds, phase : {"idle", "asking", "arrived", "lookup", "done"},
     aborted : BOOLEAN, answer : LoginResults]

Arrivals ==
    \A c \in Logins :
        /\ login[c].phase # "done" => login[c].answer = "none"
        /\ login[c].phase \in {"idle", "asking"} => c \notin performed
        /\ login[c].phase = "lookup" => c \in performed

LoginInv == LoginTypeOK /\ Arrivals /\ LoginVerdictsAreTrue

LEMMA LoginMoves ==
    ASSUME LoginInv, NEW c \in Logins, NEW r \in LoginRecords,
           login' = [login EXCEPT ![c] = r],
           performed' \in {performed, performed \cup {c}},
           r.phase # "done" => r.answer = "none",
           r.phase \in {"idle", "asking"} => c \notin performed',
           r.phase = "lookup" => c \in performed',
           r.answer \in {"ok", "REMOVED", "valid", "LOGIN_ME_FAILED",
                         "LOGIN_ME_MISSING_USER_KEY"} => c \in performed',
           r.answer \in {"EXCHANGE_REJECTED", "invalid", "refused"}
              => c \notin performed'
    PROVE  LoginInv'
<1>1. \A d \in Logins : login'[d] = IF d = c THEN r ELSE login[d]
  BY DEF LoginInv, LoginTypeOK
<1>2. \A d \in Logins : d # c => (d \in performed' <=> d \in performed)
  OBVIOUS
<1>3. LoginTypeOK'
  BY DEF LoginInv, LoginTypeOK, LoginRecords
<1>4. Arrivals'
  BY <1>1, <1>2 DEF LoginInv, Arrivals
<1>5. LoginVerdictsAreTrue'
  BY <1>1, <1>2 DEF LoginInv, LoginVerdictsAreTrue
<1>. QED
  BY <1>3, <1>4, <1>5 DEF LoginInv

(* A call ends with an answer.                                             *)
LEMMA LoginEnds ==
    ASSUME LoginInv, NEW c \in Logins, NEW answer \in LoginResults,
           LoginAnswered(c, answer),
           answer \in {"ok", "REMOVED", "valid", "LOGIN_ME_FAILED",
                       "LOGIN_ME_MISSING_USER_KEY"} => c \in performed,
           answer \in {"EXCHANGE_REJECTED", "invalid", "refused"}
              => c \notin performed
    PROVE  LoginInv'
<1>. DEFINE r == [login[c] EXCEPT !.phase = "done", !.answer = answer]
<1>1. /\ r \in LoginRecords /\ login' = [login EXCEPT ![c] = r]
      /\ r.phase = "done" /\ r.answer = answer
  BY DEF LoginAnswered, LoginInv, LoginTypeOK, LoginRecords
<1>2. performed' = performed
  BY DEF LoginAnswered
<1>. HIDE DEF r
<1>. QED
  BY <1>1, <1>2, LoginMoves

LEMMA LoginKeptByNext == LoginInv /\ [LoginNext]_loginVars => LoginInv'
<1>. SUFFICES ASSUME LoginInv, [LoginNext]_loginVars
              PROVE  LoginInv'
  OBVIOUS
<1>1. CASE UNCHANGED loginVars
  BY <1>1 DEF loginVars, LoginInv, LoginTypeOK, Arrivals, LoginVerdictsAreTrue
<1>2. ASSUME NEW c \in Logins
      PROVE  /\ login[c] \in LoginRecords
             /\ login[c].phase # "done" => login[c].answer = "none"
             /\ login[c].phase \in {"idle", "asking"} => c \notin performed
             /\ login[c].phase = "lookup" => c \in performed
  BY <1>2 DEF LoginInv, LoginTypeOK, LoginRecords, Arrivals
<1>3. ASSUME NEW c \in Logins, NEW kind \in LoginKinds, NEW refuses \in BOOLEAN,
             NEW isAborted \in BOOLEAN, LoginCalled(c, kind, refuses, isAborted)
      PROVE  LoginInv'
  <2>1. PICK phase \in {"done", "asking"}, answer \in {"refused", "ABORTED", "none"} :
          /\ login' = [login EXCEPT ![c] = [kind |-> kind, aborted |-> isAborted,
                                            phase |-> phase, answer |-> answer]]
          /\ phase = "asking" => answer = "none"
    BY <1>3 DEF LoginCalled
  <2>. DEFINE r == [kind |-> kind, aborted |-> isAborted, phase |-> phase,
                    answer |-> answer]
  <2>2. /\ r \in LoginRecords /\ r.phase = phase /\ r.answer = answer
        /\ login' = [login EXCEPT ![c] = r]
    BY <2>1 DEF LoginRecords, LoginResults
  <2>. HIDE DEF r
  <2>3. performed' = performed /\ c \notin performed
    BY <1>2, <1>3 DEF LoginCalled
  <2>. QED
    BY <2>1, <2>2, <2>3, LoginMoves
<1>4. ASSUME NEW c \in Logins, LoginAbort(c)
      PROVE  LoginInv'
  <2>. DEFINE r == [login[c] EXCEPT !.aborted = TRUE]
  <2>1. /\ r \in LoginRecords /\ login' = [login EXCEPT ![c] = r]
        /\ r.phase = login[c].phase /\ r.answer = login[c].answer
    BY <1>2, <1>4 DEF LoginAbort, LoginInv, LoginTypeOK, LoginRecords
  <2>. HIDE DEF r
  <2>2. performed' = performed /\ r.answer = "none"
    BY <1>2, <1>4, <2>1 DEF LoginAbort
  <2>. QED
    BY <1>2, <2>1, <2>2, LoginMoves
<1>5. ASSUME NEW c \in Logins, NEW accepts \in BOOLEAN, LoginArrives(c, accepts)
      PROVE  LoginInv'
  <2>. DEFINE r == [login[c] EXCEPT !.phase = "arrived"]
  <2>1. /\ r \in LoginRecords /\ login' = [login EXCEPT ![c] = r]
        /\ r.phase = "arrived" /\ r.answer = login[c].answer
    BY <1>2, <1>5 DEF LoginArrives, LoginInv, LoginTypeOK, LoginRecords
  <2>. HIDE DEF r
  <2>2. /\ performed' \in {performed, performed \cup {c}}
        /\ r.answer = "none"
    BY <1>2, <1>5, <2>1 DEF LoginArrives
  <2>. QED
    BY <2>1, <2>2, LoginMoves
<1>6. ASSUME NEW c \in Logins, LoginRejects(c)
      PROVE  LoginInv'
  <2>1. PICK answer \in {"thrown", "no_verdict", "ABORTED", "UPSTREAM_UNAVAILABLE"} :
          LoginAnswered(c, answer)
    BY <1>2, <1>6 DEF LoginRejects, LoginRecords, LoginKinds
  <2>. QED
    BY <2>1, LoginEnds DEF LoginResults
<1>7. ASSUME NEW c \in Logins, NEW a \in LoginAnswers, TokenAnswered(c, a)
      PROVE  LoginInv'
  <2>1. CASE TokenVerdict(a) = "none"
    <3>. DEFINE r == [login[c] EXCEPT !.phase = "lookup"]
    <3>1. /\ r \in LoginRecords /\ login' = [login EXCEPT ![c] = r]
          /\ r.phase = "lookup" /\ r.answer = login[c].answer
      BY <1>2, <1>7, <2>1 DEF TokenAnswered, LoginInv, LoginTypeOK, LoginRecords
    <3>. HIDE DEF r
    <3>2. performed' = performed /\ r.answer = "none"
      BY <1>2, <1>7, <2>1, <3>1 DEF TokenAnswered
    <3>3. a.payload /\ login[c].kind = "complete"
      BY <1>7, <2>1 DEF TokenVerdict, TokenAnswered
    <3>4. c \in performed
      BY <1>7, <3>3 DEF TokenAnswered, LoginAnswerIsPossible
    <3>. QED
      BY <3>1, <3>2, <3>4, LoginMoves
  <2>2. CASE TokenVerdict(a) # "none"
    <3>1. TokenVerdict(a) \in {"TOKEN_EXCHANGE_FAILED",
                               "TOKEN_RESPONSE_MISSING_ACCESS_TOKEN", "none"}
      BY <1>7 DEF TokenVerdict, LoginAnswers
    <3>. QED
      BY <1>7, <2>2, <3>1, LoginEnds DEF TokenAnswered, LoginResults
  <2>. QED
    BY <2>1, <2>2
<1>8. ASSUME NEW c \in Logins, NEW a \in LoginAnswers, LookupAnswered(c, a)
      PROVE  LoginInv'
  <2>1. LookupVerdict(a) \in {"LOGIN_ME_FAILED", "LOGIN_ME_MISSING_USER_KEY", "ok"}
    BY <1>8 DEF LookupVerdict, LoginAnswers
  <2>. QED
    BY <1>2, <1>8, <2>1, LoginEnds DEF LookupAnswered, LoginResults
<1>9. ASSUME NEW c \in Logins, NEW a \in LoginAnswers, RemoveAnswered(c, a)
      PROVE  LoginInv'
  <2>1. RemoveVerdict(a) \in {"FAILED", "REMOVED"}
    BY DEF RemoveVerdict
  <2>2. RemoveVerdict(a) = "REMOVED" => c \in performed
    BY <1>9 DEF RemoveVerdict, RemoveAnswered, LoginAnswerIsPossible, LoginAnswers,
                IsUpstreamFailure
  <2>. QED
    BY <1>9, <2>1, <2>2, LoginEnds DEF RemoveAnswered, LoginResults
<1>10. ASSUME NEW c \in Logins, NEW a \in LoginAnswers, VerifyAnswered(c, a)
       PROVE  LoginInv'
  <2>1. /\ VerifyVerdict(c, a) \in {"no_verdict", "valid", "invalid"}
        /\ VerifyVerdict(c, a) = "valid" => c \in performed
        /\ VerifyVerdict(c, a) = "invalid" => c \notin performed
    BY <1>10 DEF VerifyVerdict, LoginAnswers
  <2>. QED
    BY <1>10, <2>1, LoginEnds DEF VerifyAnswered, LoginResults
<1>11. ASSUME NEW c \in Logins, NEW a \in LoginAnswers, ExchangeAnswered(c, a)
       PROVE  LoginInv'
  <2>1. ExchangeVerdict(a) \in {"UPSTREAM_UNAVAILABLE", "EXCHANGE_REJECTED",
                                "INVALID_RESPONSE", "ok"}
    BY <1>11 DEF ExchangeVerdict, LoginAnswers
  <2>2. ExchangeVerdict(a) = "ok" => c \in performed
    BY <1>11 DEF ExchangeVerdict, ExchangeAnswered, LoginAnswerIsPossible, LoginAnswers
  <2>3. ExchangeVerdict(a) = "EXCHANGE_REJECTED" => c \notin performed
    BY <1>11 DEF ExchangeVerdict, ExchangeAnswered, LoginAnswerIsPossible, LoginAnswers
  <2>4. LoginAnswered(c, IF login[c].aborted THEN "ABORTED" ELSE ExchangeVerdict(a))
    BY <1>11 DEF ExchangeAnswered
  <2>. QED
    BY <2>1, <2>2, <2>3, <2>4, LoginEnds DEF LoginResults
<1>. QED
  BY <1>1, <1>3, <1>4, <1>5, <1>6, <1>7, <1>8, <1>9, <1>10, <1>11 DEF LoginNext

LEMMA LoginInvHolds == LoginSpec => []LoginInv
<1>1. LoginInit => LoginInv
  BY DEF LoginInit, LoginInv, LoginTypeOK, Arrivals, LoginVerdictsAreTrue,
         LoginKinds, LoginResults
<1>. QED
  BY <1>1, LoginKeptByNext, PTL DEF LoginSpec

(* The identity calls have their type.                                     *)
THEOREM LoginsAreTyped == LoginSpec => []LoginTypeOK
<1>1. LoginInv => LoginTypeOK
  BY DEF LoginInv
<1>. QED
  BY <1>1, LoginInvHolds, PTL

(* For any number of calls, a verdict is true of the provider: see         *)
(* LoginVerdictsAreTrue.                                                   *)
THEOREM LoginVerdictsHold == LoginSpec => []LoginVerdictsAreTrue
<1>1. LoginInv => LoginVerdictsAreTrue
  BY DEF LoginInv
<1>. QED
  BY <1>1, LoginInvHolds, PTL

-----------------------------------------------------------------------------
(***************************************************************************)
(* Shared attempts.  An attempt that runs, or whose end has not been seen, *)
(* is the one its owner shares; a store that is kept is that of a          *)
(* successful attempt; a caller is told how its attempt ended, and, where  *)
(* the end is forgotten, only after it has been.                           *)
(***************************************************************************)
AttemptRecords ==
    [phase : {"new", "queued", "loading", "dialog", "settled", "over"},
     owner : FlightOwners \cup {NoAttempt},
     outcome : {"none", "ok", "failed"}]

AskerRecords ==
    [phase : {"idle", "waiting", "answered"},
     waits : Attempts \cup {NoAttempt},
     answer : {"none", "ok", "failed"}]

AttemptSound(a) ==
    LET r == attempt[a]
    IN  /\ r.phase # "new" => r.owner \in FlightOwners
        /\ r.phase \in {"settled", "over"} <=> r.outcome # "none"
        /\ r.phase = "dialog" => r.owner \in Reviews
        /\ r.phase \notin {"new", "over"} => flight[r.owner] = a
        /\ r.phase = "over" => Forgets(a)
        /\ r.phase = "settled" /\ ~Forgets(a) => store[r.owner] = a

FlightSound ==
    /\ \A s \in FlightOwners :
          flight[s] # NoAttempt =>
             /\ attempt[flight[s]].owner = s
             /\ attempt[flight[s]].phase \notin {"new", "over"}
    /\ \A s \in Storages :
          store[s] # NoAttempt =>
             /\ attempt[store[s]].owner = s
             /\ attempt[store[s]].phase = "settled"
             /\ attempt[store[s]].outcome = "ok"

AskerSound(u) ==
    LET a == asker[u].waits
    IN  /\ asker[u].phase # "answered" => asker[u].answer = "none"
        /\ asker[u].phase # "idle" =>
              /\ a \in Attempts
              /\ attempt[a].phase # "new"
        /\ asker[u].phase = "answered" =>
              /\ asker[u].answer = attempt[a].outcome
              /\ attempt[a].phase = IF Forgets(a) THEN "over" ELSE "settled"

FlightInv ==
    /\ FlightTypeOK
    /\ \A a \in Attempts : AttemptSound(a)
    /\ FlightSound
    /\ \A u \in Askers : AskerSound(u)

LEMMA FlightInvIsExact == FlightInv => SharingIsExact
<1>. SUFFICES ASSUME FlightInv
              PROVE  AttemptsAreShared /\ FailuresAreForgotten
  BY DEF SharingIsExact
<1>1. ASSUME NEW a \in Attempts, NEW b \in Attempts, Running(a), Running(b),
             attempt[a].owner = attempt[b].owner
      PROVE  a = b
  BY <1>1 DEF FlightInv, AttemptSound, Running
<1>2. ASSUME NEW u \in Askers, NEW v \in Askers,
             asker[u].answer = "ok", asker[v].answer = "ok",
             attempt[asker[u].waits].owner = attempt[asker[v].waits].owner,
             attempt[asker[u].waits].owner \in Storages
      PROVE  asker[u].waits = asker[v].waits
  <2>1. ASSUME NEW w \in Askers, asker[w].answer = "ok",
               attempt[asker[w].waits].owner \in Storages
        PROVE  store[attempt[asker[w].waits].owner] = asker[w].waits
    <3>1. /\ asker[w].phase = "answered"
          /\ asker[w].waits \in Attempts
          /\ attempt[asker[w].waits].outcome = "ok"
      BY <2>1 DEF FlightInv, FlightTypeOK, AskerSound
    <3>2. ~Forgets(asker[w].waits)
      BY <2>1, <3>1, FlightAssumption DEF Forgets
    <3>3. attempt[asker[w].waits].phase = "settled"
      BY <3>1, <3>2 DEF FlightInv, AskerSound
    <3>. QED
      BY <3>1, <3>2, <3>3 DEF FlightInv, AttemptSound
  <2>. QED
    BY <1>2, <2>1
<1>3. ASSUME NEW u \in Askers, asker[u].phase = "answered", Forgets(asker[u].waits)
      PROVE  /\ flight[attempt[asker[u].waits].owner] # asker[u].waits
             /\ Kept(attempt[asker[u].waits].owner) # asker[u].waits
  <2>. DEFINE a == asker[u].waits
  <2>1. a \in Attempts /\ attempt[a].phase = "over"
    BY <1>3 DEF FlightInv, AskerSound
  <2>2. a # NoAttempt /\ attempt[a].owner \in FlightOwners
    BY <2>1, FlightAssumption DEF FlightInv, AttemptSound
  <2>. HIDE DEF a
  <2>3. flight[attempt[a].owner] # a
    BY <2>1, <2>2 DEF FlightInv, FlightSound
  <2>4. Kept(attempt[a].owner) # a
    BY <2>1, <2>2 DEF FlightInv, FlightSound, Kept
  <2>. QED
    BY <2>3, <2>4 DEF a
<1>. QED
  BY <1>1, <1>2, <1>3 DEF AttemptsAreShared, FailuresAreForgotten

(* A call that comes to wait for an attempt, or is answered.               *)
LEMMA AskerMoves ==
    ASSUME FlightInv, NEW u \in Askers, NEW r \in AskerRecords,
           asker' = [asker EXCEPT ![u] = r], UNCHANGED <<flight, store, attempt>>,
           r.phase # "answered" => r.answer = "none",
           r.phase # "idle" => r.waits \in Attempts /\ attempt[r.waits].phase # "new",
           r.phase = "answered" =>
              /\ r.answer = attempt[r.waits].outcome
              /\ attempt[r.waits].phase = IF Forgets(r.waits) THEN "over" ELSE "settled"
    PROVE  FlightInv'
<1>1. \A v \in Askers : asker'[v] = IF v = u THEN r ELSE asker[v]
  BY DEF FlightInv, FlightTypeOK
<1>2. FlightTypeOK'
  BY DEF FlightInv, FlightTypeOK, AskerRecords
<1>3. (FlightSound /\ \A a \in Attempts : AttemptSound(a))'
  BY DEF FlightInv, FlightSound, AttemptSound, Forgets
<1>4. ASSUME NEW v \in Askers PROVE AskerSound(v)'
  <2>1. CASE v = u
    BY <1>1, <2>1 DEF AskerSound, Forgets
  <2>2. CASE v # u
    BY <1>1, <2>2 DEF FlightInv, AskerSound, Forgets
  <2>. QED
    BY <2>1, <2>2
<1>. QED
  BY <1>2, <1>3, <1>4 DEF FlightInv

(* An attempt goes from one phase to a later one.                          *)
LEMMA AttemptMoves ==
    ASSUME FlightInv, NEW a \in Attempts,
           NEW phase \in {"loading", "dialog", "settled", "over"},
           NEW outcome \in {"none", "ok", "failed"},
           Enter(a, phase, outcome), UNCHANGED asker,
           attempt[a].phase \in {"queued", "loading", "dialog"} \/ phase = "over",
           attempt[a].phase \in {"queued", "loading", "dialog", "settled"},
           phase \in {"settled", "over"} <=> outcome # "none",
           phase = "dialog" => attempt[a].owner \in Reviews,
           phase = "over" => /\ Forgets(a) /\ outcome = attempt[a].outcome
                             /\ flight' = [flight EXCEPT ![attempt[a].owner] = NoAttempt]
                             /\ store' = store,
           phase # "over" => flight' = flight,
           phase = "settled" /\ outcome = "ok" /\ attempt[a].owner \in Storages =>
              store' = [store EXCEPT ![attempt[a].owner] = a],
           ~(phase = "settled" /\ outcome = "ok" /\ attempt[a].owner \in Storages) =>
              store' = store
    PROVE  FlightInv'
<1>. DEFINE s == attempt[a].owner
<1>0. /\ s \in FlightOwners /\ flight[s] = a /\ a # NoAttempt
      /\ s \in Reviews \/ s \in Storages
  BY FlightAssumption DEF FlightInv, AttemptSound, FlightOwners
<1>1. \A b \in Attempts :
         /\ b # a => attempt'[b] = attempt[b]
         /\ attempt'[a].phase = phase /\ attempt'[a].outcome = outcome
         /\ attempt'[a].owner = s
  BY DEF Enter, FlightInv, FlightTypeOK
<1>2. \A q \in FlightOwners :
         flight'[q] = IF phase = "over" /\ q = s THEN NoAttempt ELSE flight[q]
  BY DEF FlightInv, FlightTypeOK
<1>3. \A q \in Storages :
         store'[q] = IF phase = "settled" /\ outcome = "ok" /\ q = s THEN a ELSE store[q]
  BY DEF FlightInv, FlightTypeOK
<1>4. FlightTypeOK'
  <2>1. attempt' \in [Attempts -> AttemptRecords]
    <3>. DEFINE r == [attempt[a] EXCEPT !.phase = phase, !.outcome = outcome]
    <3>1. r \in AttemptRecords
      BY DEF FlightInv, FlightTypeOK, AttemptRecords
    <3>2. attempt' = [attempt EXCEPT ![a] = r]
      BY DEF Enter, FlightInv, FlightTypeOK
    <3>. HIDE DEF r
    <3>. QED
      BY <3>1, <3>2 DEF FlightInv, FlightTypeOK, AttemptRecords
  <2>2. flight' \in [FlightOwners -> Attempts \cup {NoAttempt}]
    BY DEF FlightInv, FlightTypeOK
  <2>3. store' \in [Storages -> Attempts \cup {NoAttempt}]
    BY DEF FlightInv, FlightTypeOK
  <2>. QED
    BY <2>1, <2>2, <2>3 DEF FlightInv, FlightTypeOK, AttemptRecords
<1>5. \A b \in Attempts : b # a => (Forgets(b)' <=> Forgets(b))
  BY <1>1 DEF Forgets
<1>6. Forgets(a)' <=> s \in Reviews \/ outcome = "failed"
  BY <1>1 DEF Forgets
<1>. HIDE DEF s
<1>7. ASSUME NEW b \in Attempts PROVE AttemptSound(b)'
  <2>1. CASE b = a
    <3>1. /\ attempt'[a].phase # "new"
          /\ phase = "over" => (Forgets(a)' /\ Forgets(a))
      BY <1>1, <1>6 DEF Forgets, s
    <3>2. phase # "over" => flight'[s] = a
      BY <1>0, <1>2
    <3>3. phase = "settled" /\ ~(Forgets(a)') => store'[s] = a
      BY <1>0, <1>3, <1>6
    <3>. QED
      BY <1>0, <1>1, <2>1, <3>1, <3>2, <3>3 DEF AttemptSound, s
  <2>2. CASE b # a
    <3>1. AttemptSound(b) /\ attempt'[b] = attempt[b]
      BY <1>1, <2>2 DEF FlightInv
    <3>2. attempt[b].phase \notin {"new", "over"} => attempt[b].owner # s
      BY <1>0, <2>2, <3>1 DEF AttemptSound
    <3>3. attempt[b].phase \notin {"new", "over"} => flight'[attempt[b].owner] = b
      BY <1>2, <3>1, <3>2 DEF AttemptSound
    <3>4. attempt[b].phase = "settled" /\ ~Forgets(b) => store'[attempt[b].owner] = b
      <4>1. SUFFICES ASSUME attempt[b].phase = "settled", ~Forgets(b)
                     PROVE  store'[attempt[b].owner] = b
        OBVIOUS
      <4>2. attempt[b].owner \in Storages /\ store[attempt[b].owner] = b
        BY <3>1, <4>1 DEF AttemptSound, Forgets, FlightOwners
      <4>. QED
        BY <1>3, <3>2, <4>1, <4>2
    <3>. QED
      BY <1>5, <2>2, <3>1, <3>3, <3>4 DEF AttemptSound
  <2>. QED
    BY <2>1, <2>2
<1>8. FlightSound'
  <2>1. ASSUME NEW q \in FlightOwners, flight'[q] # NoAttempt
        PROVE  /\ attempt'[flight'[q]].owner = q
               /\ attempt'[flight'[q]].phase \notin {"new", "over"}
    <3>1. flight'[q] = flight[q] /\ flight[q] \in Attempts
      BY <1>2, <2>1 DEF FlightInv, FlightTypeOK
    <3>2. attempt[flight[q]].owner = q /\ attempt[flight[q]].phase \notin {"new", "over"}
      BY <2>1, <3>1 DEF FlightInv, FlightSound
    <3>3. flight[q] = a => phase # "over"
      BY <1>2, <2>1, <3>1, <3>2 DEF s
    <3>. QED
      BY <1>1, <3>1, <3>2, <3>3 DEF s
  <2>2. ASSUME NEW q \in Storages, store'[q] # NoAttempt
        PROVE  /\ attempt'[store'[q]].owner = q
               /\ attempt'[store'[q]].phase = "settled"
               /\ attempt'[store'[q]].outcome = "ok"
    <3>1. CASE store'[q] = a /\ phase = "settled" /\ outcome = "ok" /\ q = s
      BY <1>1, <3>1
    <3>2. CASE ~(phase = "settled" /\ outcome = "ok" /\ q = s)
      <4>1. store'[q] = store[q] /\ store[q] \in Attempts
        BY <1>3, <2>2, <3>2 DEF FlightInv, FlightTypeOK
      <4>2. /\ attempt[store[q]].owner = q /\ attempt[store[q]].phase = "settled"
            /\ attempt[store[q]].outcome = "ok"
        BY <2>2, <4>1 DEF FlightInv, FlightSound
      <4>3. store[q] # a
        <5>1. SUFFICES ASSUME store[q] = a PROVE FALSE
          OBVIOUS
        <5>2. attempt[a].outcome = "ok" /\ phase = "over" /\ s \in Storages
          BY <4>2, <5>1 DEF s
        <5>. QED
          BY <5>2, FlightAssumption DEF Forgets, s
      <4>. QED
        BY <1>1, <4>1, <4>2, <4>3
    <3>. QED
      BY <1>3, <3>1, <3>2
  <2>. QED
    BY <2>1, <2>2 DEF FlightSound
<1>9. ASSUME NEW u \in Askers PROVE AskerSound(u)'
  <2>. DEFINE w == asker[u].waits
  <2>1. AskerSound(u) /\ asker'[u] = asker[u]
    BY DEF FlightInv
  <2>2. CASE asker[u].phase = "idle"
    BY <2>1, <2>2 DEF AskerSound
  <2>3. CASE asker[u].phase # "idle" /\ w # a
    BY <1>1, <1>5, <2>1, <2>3 DEF AskerSound
  <2>4. CASE asker[u].phase # "idle" /\ w = a
    <3>1. asker[u].phase # "answered"
      BY <2>1, <2>4 DEF AskerSound
    <3>. QED
      BY <1>1, <2>1, <2>4, <3>1 DEF AskerSound
  <2>. QED
    BY <2>2, <2>3, <2>4
<1>. QED
  BY <1>4, <1>7, <1>8, <1>9 DEF FlightInv

(* Who finds nothing to share starts an attempt and waits for it.          *)
LEMMA StartKeeps ==
    ASSUME FlightInv, NEW u \in Askers, NEW s \in FlightOwners, NEW a \in Attempts,
           flight[s] = NoAttempt, Kept(s) = NoAttempt, asker[u].phase = "idle",
           StartAttempt(u, s, a)
    PROVE  FlightInv'
<1>. DEFINE r == [attempt[a] EXCEPT !.phase = IF s \in Reviews THEN "queued" ELSE "loading",
                                    !.owner = s]
<1>. DEFINE k == [asker[u] EXCEPT !.phase = "waiting", !.waits = a]
<1>1. /\ r \in AttemptRecords /\ attempt' = [attempt EXCEPT ![a] = r]
      /\ r.owner = s /\ r.outcome = attempt[a].outcome
      /\ r.phase = IF s \in Reviews THEN "queued" ELSE "loading"
  BY DEF StartAttempt, FlightInv, FlightTypeOK, AttemptRecords
<1>2. /\ k \in AskerRecords /\ asker' = [asker EXCEPT ![u] = k]
      /\ k.phase = "waiting" /\ k.waits = a /\ k.answer = asker[u].answer
  BY DEF StartAttempt, AwaitAttempt, FlightInv, FlightTypeOK, AskerRecords
<1>. HIDE DEF r, k
<1>3. /\ attempt[a].phase = "new" /\ attempt[a].outcome = "none"
      /\ asker[u].answer = "none" /\ a # NoAttempt
  BY FlightAssumption DEF StartAttempt, FlightInv, FlightTypeOK, AttemptSound, AskerSound
<1>4. /\ \A b \in Attempts : attempt'[b] = IF b = a THEN r ELSE attempt[b]
      /\ \A q \in FlightOwners : flight'[q] = IF q = s THEN a ELSE flight[q]
      /\ \A v \in Askers : asker'[v] = IF v = u THEN k ELSE asker[v]
      /\ store' = store
  BY <1>1, <1>2 DEF StartAttempt, FlightInv, FlightTypeOK
<1>5. FlightTypeOK'
  <2>1. attempt' \in [Attempts -> AttemptRecords]
    BY <1>1 DEF FlightInv, FlightTypeOK, AttemptRecords
  <2>2. asker' \in [Askers -> AskerRecords]
    BY <1>2 DEF FlightInv, FlightTypeOK, AskerRecords
  <2>3. /\ flight' \in [FlightOwners -> Attempts \cup {NoAttempt}]
        /\ store' \in [Storages -> Attempts \cup {NoAttempt}]
    BY DEF StartAttempt, FlightInv, FlightTypeOK
  <2>. QED
    BY <2>1, <2>2, <2>3 DEF FlightTypeOK, AttemptRecords, AskerRecords
<1>6. \A b \in Attempts : b # a => (Forgets(b)' <=> Forgets(b))
  BY <1>4 DEF Forgets
<1>7. ASSUME NEW b \in Attempts PROVE AttemptSound(b)'
  <2>1. CASE b = a
    BY <1>1, <1>3, <1>4, <2>1 DEF AttemptSound
  <2>2. CASE b # a
    <3>1. AttemptSound(b) /\ attempt'[b] = attempt[b]
      BY <1>4, <2>2 DEF FlightInv
    <3>2. attempt[b].phase \notin {"new", "over"} =>
            /\ attempt[b].owner \in FlightOwners /\ attempt[b].owner # s
      BY <3>1, FlightAssumption DEF AttemptSound
    <3>. QED
      BY <1>4, <1>6, <2>2, <3>1, <3>2 DEF AttemptSound
  <2>. QED
    BY <2>1, <2>2
<1>8. FlightSound'
  <2>1. ASSUME NEW q \in FlightOwners, flight'[q] # NoAttempt
        PROVE  /\ attempt'[flight'[q]].owner = q
               /\ attempt'[flight'[q]].phase \notin {"new", "over"}
    <3>1. CASE q = s
      BY <1>1, <1>4, <3>1
    <3>2. CASE q # s
      <4>1. /\ flight'[q] = flight[q] /\ flight[q] \in Attempts
            /\ attempt[flight[q]].owner = q
            /\ attempt[flight[q]].phase \notin {"new", "over"}
        BY <1>4, <2>1, <3>2 DEF FlightInv, FlightTypeOK, FlightSound
      <4>. QED
        BY <1>3, <1>4, <4>1
    <3>. QED
      BY <3>1, <3>2
  <2>2. ASSUME NEW q \in Storages, store'[q] # NoAttempt
        PROVE  /\ attempt'[store'[q]].owner = q
               /\ attempt'[store'[q]].phase = "settled"
               /\ attempt'[store'[q]].outcome = "ok"
    <3>1. /\ store[q] \in Attempts /\ attempt[store[q]].owner = q
          /\ attempt[store[q]].phase = "settled" /\ attempt[store[q]].outcome = "ok"
      BY <1>4, <2>2 DEF FlightInv, FlightTypeOK, FlightSound
    <3>. QED
      BY <1>3, <1>4, <3>1
  <2>. QED
    BY <2>1, <2>2 DEF FlightSound
<1>9. ASSUME NEW v \in Askers PROVE AskerSound(v)'
  <2>1. CASE v = u
    BY <1>1, <1>2, <1>3, <1>4, <2>1 DEF AskerSound
  <2>2. CASE v # u
    BY <1>3, <1>4, <1>6, <2>2 DEF FlightInv, AskerSound
  <2>. QED
    BY <2>1, <2>2
<1>. QED
  BY <1>5, <1>7, <1>8, <1>9 DEF FlightInv

LEMMA FlightKeptByNext == FlightInv /\ [FlightNext]_flightVars => FlightInv'
<1>. SUFFICES ASSUME FlightInv, [FlightNext]_flightVars
              PROVE  FlightInv'
  OBVIOUS
<1>1. CASE UNCHANGED flightVars
  BY <1>1 DEF flightVars, FlightInv, FlightTypeOK, AttemptSound, FlightSound,
              AskerSound, Forgets
<1>2. ASSUME NEW u \in Askers, AnswerAsker(u)
      PROVE  FlightInv'
  <2>. DEFINE a == asker[u].waits
  <2>. DEFINE r == [asker[u] EXCEPT !.phase = "answered", !.answer = attempt[a].outcome]
  <2>1. a \in Attempts
    BY <1>2 DEF AnswerAsker, FlightInv, AskerSound
  <2>2. /\ r \in AskerRecords /\ asker' = [asker EXCEPT ![u] = r]
        /\ r.phase = "answered" /\ r.waits = a /\ r.answer = attempt[a].outcome
    BY <1>2, <2>1, ZenonT(60) DEF AnswerAsker, FlightInv, FlightTypeOK, AskerRecords
  <2>3. /\ attempt[a].phase = IF Forgets(a) THEN "over" ELSE "settled"
        /\ UNCHANGED <<flight, store, attempt>>
    BY <1>2 DEF AnswerAsker
  <2>. HIDE DEF a, r
  <2>. QED
    BY <2>1, <2>2, <2>3, AskerMoves
<1>3. ASSUME NEW u \in Askers, NEW s \in FlightOwners, Ask(u, s)
      PROVE  FlightInv'
  <2>1. ASSUME NEW a \in Attempts, JoinAttempt(u, a), attempt[a].phase # "new"
        PROVE  FlightInv'
    <3>. DEFINE r == [asker[u] EXCEPT !.phase = "waiting", !.waits = a]
    <3>1. /\ r \in AskerRecords /\ asker' = [asker EXCEPT ![u] = r]
          /\ r.phase = "waiting" /\ r.waits = a /\ r.answer = asker[u].answer
      BY <2>1 DEF JoinAttempt, AwaitAttempt, FlightInv, FlightTypeOK, AskerRecords
    <3>2. asker[u].answer = "none"
      BY <1>3 DEF Ask, FlightInv, AskerSound
    <3>3. UNCHANGED <<flight, store, attempt>>
      BY <2>1 DEF JoinAttempt
    <3>. HIDE DEF r
    <3>. QED
      BY <2>1, <3>1, <3>2, <3>3, AskerMoves
  <2>2. CASE Kept(s) # NoAttempt /\ JoinAttempt(u, Kept(s))
    <3>1. Kept(s) \in Attempts /\ attempt[Kept(s)].phase # "new"
      BY <2>2 DEF Kept, FlightInv, FlightTypeOK, FlightSound
    <3>. QED
      BY <2>1, <2>2, <3>1
  <2>3. CASE flight[s] # NoAttempt /\ JoinAttempt(u, flight[s])
    <3>1. flight[s] \in Attempts /\ attempt[flight[s]].phase # "new"
      BY <2>3 DEF FlightInv, FlightTypeOK, FlightSound
    <3>. QED
      BY <2>1, <2>3, <3>1
  <2>4. ASSUME NEW a \in Attempts, Kept(s) = NoAttempt, flight[s] = NoAttempt,
               StartAttempt(u, s, a)
        PROVE  FlightInv'
    BY <1>3, <2>4, StartKeeps DEF Ask
  <2>. QED
    BY <1>3, <2>2, <2>3, <2>4 DEF Ask
<1>4. ASSUME NEW a \in Attempts, ReviewTurn(a)
      PROVE  FlightInv'
  BY <1>4, AttemptMoves DEF ReviewTurn
<1>5. ASSUME NEW a \in Attempts, FlightLoads(a)
      PROVE  FlightInv'
  <2>1. attempt[a].owner \in FlightOwners
    BY <1>5 DEF FlightLoads, FlightInv, AttemptSound
  <2>2. CASE attempt[a].owner \in Reviews
    BY <1>5, <2>2, AttemptMoves DEF FlightLoads
  <2>3. CASE attempt[a].owner \notin Reviews
    BY <1>5, <2>1, <2>3, AttemptMoves DEF FlightLoads, FlightOwners
  <2>. QED
    BY <2>2, <2>3
<1>6. ASSUME NEW a \in Attempts, FlightFails(a)
      PROVE  FlightInv'
  BY <1>6, AttemptMoves DEF FlightFails
<1>7. ASSUME NEW a \in Attempts, DialogEnds(a)
      PROVE  FlightInv'
  <2>1. attempt[a].owner \in Reviews /\ attempt[a].owner \notin Storages
    BY <1>7, FlightAssumption DEF DialogEnds, FlightInv, AttemptSound
  <2>. QED
    BY <1>7, <2>1, AttemptMoves DEF DialogEnds
<1>8. ASSUME NEW a \in Attempts, Forget(a)
      PROVE  FlightInv'
  <2>1. Enter(a, "over", attempt[a].outcome)
    BY <1>8 DEF Forget, Enter, FlightInv, FlightTypeOK
  <2>2. attempt[a].outcome \in {"none", "ok", "failed"} /\ attempt[a].outcome # "none"
    BY <1>8 DEF Forget, FlightInv, FlightTypeOK, AttemptSound
  <2>. QED
    BY <1>8, <2>1, <2>2, AttemptMoves DEF Forget
<1>. QED
  BY <1>1, <1>2, <1>3, <1>4, <1>5, <1>6, <1>7, <1>8 DEF FlightNext

LEMMA FlightInvHolds == FlightSpec => []FlightInv
<1>1. FlightInit => FlightInv
  BY DEF FlightInit, FlightInv, FlightTypeOK, AttemptSound, FlightSound, AskerSound
<1>. QED
  BY <1>1, FlightKeptByNext, PTL DEF FlightSpec

(* The adapters, the attempts and the callers have their type.             *)
THEOREM FlightsAreTyped == FlightSpec => []FlightTypeOK
<1>1. FlightInv => FlightTypeOK
  BY DEF FlightInv
<1>. QED
  BY <1>1, FlightInvHolds, PTL

(* For any number of adapters, attempts and callers, one attempt runs at a *)
(* time, one store is handed out and no failure is kept.                   *)
THEOREM SharingHolds == FlightSpec => []SharingIsExact
  BY FlightInvHolds, FlightInvIsExact, PTL

-----------------------------------------------------------------------------
(***************************************************************************)
(* Diagnostics.  The ring is the end of the history, as long as there is   *)
(* room for and as has not been cleared; the numbers of runs are their own *)
(* and no event carries one that has not been given.                       *)
(***************************************************************************)
DiagnosticEvents ==
    [phase : {"start"}, sequence : Nat]
    \cup [phase : {"finish"}, sequence : Nat,
          outcome : {Outcome(result) : result \in DiagnosedResults}]

RunRecords ==
    [phase : {"idle", "running", "done"}, number : Nat,
     result : DiagnosedResults \cup {"none"}]

DiagnosticsTyped ==
    /\ events \in Seq(DiagnosticEvents) /\ emitted \in Seq(DiagnosticEvents)
    /\ sequence \in Nat /\ cleared \in 0..Len(emitted)
    /\ wrapped \in [Runs -> RunRecords]

RingIsEnd ==
    /\ Len(events) = IF Len(emitted) - cleared > Capacity THEN Capacity
                     ELSE Len(emitted) - cleared
    /\ \A i \in 1..Len(events) :
          events[i] = emitted[Len(emitted) - Len(events) + i]

NumbersAreOwn ==
    /\ \A r \in Runs : /\ wrapped[r].number <= sequence
                       /\ wrapped[r].phase = "idle" => wrapped[r].number = 0
                       /\ wrapped[r].phase = "running" => wrapped[r].number # 0
    /\ \A r, q \in Runs :
          r # q /\ wrapped[r].number = wrapped[q].number => wrapped[r].number = 0
    /\ \A i \in 1..Len(emitted) : emitted[i].sequence <= sequence

(* What RingIsRecent says of one run's events.                             *)
RunIsObserved(b) ==
    b.number # 0 =>
       \E i \in 1..Len(emitted) :
          /\ Observed("start", b.number) = {i}
          /\ IF b.phase = "running"
               THEN Observed("finish", b.number) = {}
               ELSE \E k \in (i + 1)..Len(emitted) :
                       /\ Observed("finish", b.number) = {k}
                       /\ emitted[k].outcome = Outcome(b.result)

DiagnosticsInv ==
    /\ DiagnosticsTyped
    /\ RingIsEnd
    /\ NumbersAreOwn
    /\ \A r \in Runs : RunIsObserved(wrapped[r])

(* An event is emitted: the ring goes on, with the same room.              *)
LEMMA EmittingKeepsRing ==
    ASSUME DiagnosticsTyped, RingIsEnd, UNCHANGED cleared,
           NEW event \in DiagnosticEvents, Emitting(event)
    PROVE  /\ events' \in Seq(DiagnosticEvents)
           /\ emitted' \in Seq(DiagnosticEvents)
           /\ cleared' \in 0..Len(emitted')
           /\ Len(emitted') = Len(emitted) + 1
           /\ emitted'[Len(emitted) + 1] = event
           /\ \A i \in 1..Len(emitted) : emitted'[i] = emitted[i]
           /\ RingIsEnd'
<1>. DEFINE m == Len(emitted)
            n == Len(events)
<1>1. /\ m \in Nat /\ n \in Nat /\ Capacity \in Nat /\ cleared \in 0..m
      /\ events \in Seq(DiagnosticEvents) /\ emitted \in Seq(DiagnosticEvents)
  BY DiagnosticsAssumption DEF DiagnosticsTyped
<1>2. /\ emitted' \in Seq(DiagnosticEvents)
      /\ Len(emitted') = m + 1 /\ emitted'[m + 1] = event
      /\ \A i \in 1..m : emitted'[i] = emitted[i]
  BY <1>1, AppendProperties DEF Emitting
<1>3. /\ n = IF m - cleared > Capacity THEN Capacity ELSE m - cleared
      /\ \A i \in 1..n : events[i] = emitted[m - n + i]
  BY DEF RingIsEnd
<1>4. cleared' = cleared /\ cleared' \in 0..Len(emitted')
  <2>. HIDE DEF m, n
  <2>. QED
    BY <1>1, <1>2
<1>5. CASE Capacity = 0
  <2>1. events' = events /\ n = 0
    BY <1>1, <1>3, <1>5 DEF Emitting
  <2>2. RingIsEnd'
    BY <1>1, <1>2, <1>4, <1>5, <2>1 DEF RingIsEnd
  <2>. QED
    BY <1>1, <1>2, <1>4, <2>1, <2>2
<1>6. CASE Capacity # 0 /\ n = Capacity
  <2>. DEFINE tail == Tail(events)
  <2>1. events # <<>> /\ events' = Append(tail, event)
    BY <1>1, <1>6 DEF Emitting
  <2>2. /\ tail \in Seq(DiagnosticEvents) /\ Len(tail) = n - 1
        /\ \A i \in 1..Len(tail) : tail[i] = events[i + 1]
    BY <1>1, <2>1, HeadTailProperties
  <2>. HIDE DEF tail
  <2>3. /\ events' \in Seq(DiagnosticEvents)
        /\ Len(events') = Len(tail) + 1 /\ events'[Len(tail) + 1] = event
        /\ \A i \in 1..Len(tail) : events'[i] = tail[i]
    BY <2>1, <2>2, AppendProperties
  <2>. HIDE DEF m, n
  <2>4. Len(events') = n /\ m + 1 - cleared > Capacity
    BY <1>1, <1>3, <1>6, <2>2, <2>3
  <2>5. ASSUME NEW i \in 1..n
        PROVE  events'[i] = emitted'[(m + 1) - n + i]
    <3>1. CASE i = n
      BY <1>1, <1>2, <2>2, <2>3, <3>1
    <3>2. CASE i # n
      <4>1. i \in 1..Len(tail) /\ i + 1 \in 1..n
        BY <1>1, <2>2, <3>2
      <4>2. events'[i] = emitted[m - n + (i + 1)]
        BY <1>3, <2>2, <2>3, <4>1
      <4>3. m - n + (i + 1) \in 1..m /\ m - n + (i + 1) = (m + 1) - n + i
        BY <1>1, <1>3, <1>6, <4>1
      <4>. QED
        BY <1>2, <4>2, <4>3
    <3>. QED
      BY <3>1, <3>2
  <2>6. RingIsEnd'
    <3>1. Len(events') = IF Len(emitted') - cleared' > Capacity THEN Capacity
                         ELSE Len(emitted') - cleared'
      BY <1>1, <1>2, <1>4, <1>6, <2>4
    <3>2. \A i \in 1..Len(events') :
             events'[i] = emitted'[Len(emitted') - Len(events') + i]
      BY <1>2, <2>4, <2>5
    <3>. QED
      BY <3>1, <3>2 DEF RingIsEnd
  <2>. QED
    BY <1>2, <1>4, <2>3, <2>6 DEF m
<1>7. CASE Capacity # 0 /\ n # Capacity
  <2>1. events' = Append(events, event)
    BY <1>7 DEF Emitting
  <2>2. /\ events' \in Seq(DiagnosticEvents)
        /\ Len(events') = n + 1 /\ events'[n + 1] = event
        /\ \A i \in 1..n : events'[i] = events[i]
    BY <1>1, <2>1, AppendProperties
  <2>. HIDE DEF m, n
  <2>3. n = m - cleared /\ n + 1 = (m + 1) - cleared /\ n + 1 <= Capacity
    BY <1>1, <1>3, <1>7
  <2>4. ASSUME NEW i \in 1..(n + 1)
        PROVE  events'[i] = emitted'[(m + 1) - (n + 1) + i]
    <3>1. CASE i = n + 1
      BY <1>1, <1>2, <2>2, <3>1
    <3>2. CASE i # n + 1
      <4>1. i \in 1..n
        BY <1>1, <3>2
      <4>2. events'[i] = emitted[m - n + i]
        BY <1>3, <2>2, <4>1
      <4>3. m - n + i \in 1..m /\ m - n + i = (m + 1) - (n + 1) + i
        BY <1>1, <2>3, <4>1
      <4>. QED
        BY <1>2, <4>2, <4>3
    <3>. QED
      BY <3>1, <3>2
  <2>5. RingIsEnd'
    BY <1>1, <1>2, <1>4, <2>2, <2>3, <2>4 DEF RingIsEnd
  <2>. QED
    BY <1>2, <1>4, <2>2, <2>5 DEF m
<1>. QED
  BY <1>5, <1>6, <1>7

(* The event is the only new one of its phase and number.                  *)
LEMMA EmittedIsObserved ==
    ASSUME NEW event \in DiagnosticEvents, Len(emitted) \in Nat,
           Len(emitted') = Len(emitted) + 1,
           emitted'[Len(emitted) + 1] = event,
           \A i \in 1..Len(emitted) : emitted'[i] = emitted[i],
           NEW phase, NEW n
    PROVE  Observed(phase, n)' =
               IF event.phase = phase /\ event.sequence = n
                 THEN Observed(phase, n) \cup {Len(emitted) + 1}
                 ELSE Observed(phase, n)
<1>. DEFINE m == Len(emitted)
<1>1. Observed(phase, n)' =
         {i \in 1..(m + 1) : emitted'[i].phase = phase /\ emitted'[i].sequence = n}
  BY DEF Observed
<1>2. Observed(phase, n) =
         {i \in 1..m : emitted[i].phase = phase /\ emitted[i].sequence = n}
  BY DEF Observed
<1>. HIDE DEF m
<1>3. \A i \in 1..(m + 1) : i = m + 1 \/ i \in 1..m
  BY DEF m
<1>4. m \in Nat /\ m + 1 \in 1..(m + 1) /\ \A i \in 1..m : i \in 1..(m + 1)
  BY DEF m
<1>5. emitted'[m + 1] = event /\ \A i \in 1..m : emitted'[i] = emitted[i]
  BY DEF m
<1>6. CASE event.phase = phase /\ event.sequence = n
  <2>1. Observed(phase, n)' = Observed(phase, n) \cup {m + 1}
    BY <1>1, <1>2, <1>3, <1>4, <1>5, <1>6
  <2>. QED
    BY <1>6, <2>1 DEF m
<1>7. CASE ~(event.phase = phase /\ event.sequence = n)
  <2>1. Observed(phase, n)' = Observed(phase, n)
    BY <1>1, <1>2, <1>3, <1>4, <1>5, <1>7
  <2>. QED
    BY <1>7, <2>1
<1>. QED
  BY <1>6, <1>7

(* A run whose number the event does not carry is observed as before.      *)
LEMMA OthersStayObserved ==
    ASSUME NEW event \in DiagnosticEvents, Len(emitted) \in Nat,
           Len(emitted') = Len(emitted) + 1,
           emitted'[Len(emitted) + 1] = event,
           \A i \in 1..Len(emitted) : emitted'[i] = emitted[i],
           NEW b, RunIsObserved(b), event.sequence # b.number
    PROVE  RunIsObserved(b)'
<1>. SUFFICES ASSUME b.number # 0
              PROVE  RunIsObserved(b)'
  BY DEF RunIsObserved
<1>1. /\ Observed("start", b.number)' = Observed("start", b.number)
      /\ Observed("finish", b.number)' = Observed("finish", b.number)
  BY EmittedIsObserved
<1>2. PICK i \in 1..Len(emitted) :
        /\ Observed("start", b.number) = {i}
        /\ IF b.phase = "running"
             THEN Observed("finish", b.number) = {}
             ELSE \E k \in (i + 1)..Len(emitted) :
                     /\ Observed("finish", b.number) = {k}
                     /\ emitted[k].outcome = Outcome(b.result)
  BY DEF RunIsObserved
<1>3. i \in 1..Len(emitted')
  BY <1>2
<1>4. CASE b.phase = "running"
  BY <1>1, <1>2, <1>3, <1>4 DEF RunIsObserved
<1>5. CASE b.phase # "running"
  <2>1. PICK k \in (i + 1)..Len(emitted) :
          /\ Observed("finish", b.number) = {k}
          /\ emitted[k].outcome = Outcome(b.result)
    BY <1>2, <1>5
  <2>2. k \in (i + 1)..Len(emitted') /\ emitted'[k] = emitted[k]
    BY <1>2, <2>1
  <2>. QED
    BY <1>1, <1>2, <1>3, <1>5, <2>1, <2>2 DEF RunIsObserved
<1>. QED
  BY <1>4, <1>5

LEMMA RunStartsKeeps ==
    ASSUME DiagnosticsInv, NEW r \in Runs, RunStarts(r)
    PROVE  DiagnosticsInv'
<1>0. PICK n : n = sequence + 1
  OBVIOUS
<1>. DEFINE event == [phase |-> "start", sequence |-> n]
            m == Len(emitted)
<1>1. /\ DiagnosticsTyped /\ RingIsEnd /\ NumbersAreOwn
      /\ wrapped[r].phase = "idle" /\ sequence' = n /\ cleared' = cleared
      /\ wrapped' = [wrapped EXCEPT ![r].phase = "running", ![r].number = n]
      /\ Emitting(event)
  BY <1>0 DEF DiagnosticsInv, RunStarts
<1>2. sequence \in Nat /\ n \in Nat /\ m \in Nat /\ n # 0 /\ n > sequence
  BY <1>0, <1>1, LenProperties DEF DiagnosticsTyped
<1>3. event \in DiagnosticEvents /\ event.phase = "start" /\ event.sequence = n
  BY <1>2 DEF DiagnosticEvents
<1>. HIDE DEF event
<1>4. /\ events' \in Seq(DiagnosticEvents) /\ emitted' \in Seq(DiagnosticEvents)
      /\ cleared' \in 0..Len(emitted') /\ Len(emitted') = m + 1
      /\ emitted'[m + 1] = event
      /\ \A i \in 1..m : emitted'[i] = emitted[i]
      /\ RingIsEnd'
  BY <1>1, <1>3, EmittingKeepsRing
<1>. HIDE DEF m
<1>5. /\ wrapped' \in [Runs -> RunRecords]
      /\ wrapped'[r].phase = "running" /\ wrapped'[r].number = n
      /\ \A q \in Runs : q # r => wrapped'[q] = wrapped[q]
  BY <1>1, <1>2 DEF DiagnosticsTyped, RunRecords
<1>6. DiagnosticsTyped'
  BY <1>1, <1>2, <1>4, <1>5 DEF DiagnosticsTyped
<1>7. \A q \in Runs : wrapped[q].number \in Nat /\ wrapped[q].number <= sequence
  BY <1>1 DEF DiagnosticsTyped, NumbersAreOwn, RunRecords
<1>8. NumbersAreOwn'
  <2>1. ASSUME NEW i \in 1..(m + 1)
        PROVE  emitted'[i].sequence <= n
    <3>1. CASE i = m + 1
      BY <1>2, <1>3, <1>4, <3>1
    <3>2. CASE i # m + 1
      <4>1. i \in 1..m
        BY <1>2, <3>2
      <4>2. emitted[i].sequence <= sequence
        BY <1>1, <4>1 DEF NumbersAreOwn, m
      <4>3. emitted[i].sequence \in Nat
        <5>1. emitted[i] \in DiagnosticEvents
          BY <1>1, <4>1, ElementOfSeq DEF DiagnosticsTyped, m
        <5>. QED
          BY <5>1 DEF DiagnosticEvents
      <4>. QED
        BY <1>2, <1>4, <4>1, <4>2, <4>3
    <3>. QED
      BY <3>1, <3>2
  <2>2. ASSUME NEW q \in Runs
        PROVE  /\ wrapped'[q].number <= n
               /\ wrapped'[q].phase = "idle" => wrapped'[q].number = 0
               /\ wrapped'[q].phase = "running" => wrapped'[q].number # 0
    BY <1>1, <1>2, <1>5, <1>7 DEF NumbersAreOwn
  <2>3. ASSUME NEW q \in Runs, NEW p \in Runs,
               q # p, wrapped'[q].number = wrapped'[p].number
        PROVE  wrapped'[q].number = 0
    BY <1>1, <1>2, <1>5, <1>7, <2>3 DEF NumbersAreOwn
  <2>. QED
    BY <1>1, <1>4, <2>1, <2>2, <2>3 DEF NumbersAreOwn
<1>9. ASSUME NEW q \in Runs
      PROVE  RunIsObserved(wrapped[q])'
  <2>1. CASE q = r
    <3>1. Observed("start", n) = {} /\ Observed("finish", n) = {}
      <4>1. \A i \in 1..m : emitted[i].sequence <= sequence
        BY <1>1 DEF NumbersAreOwn, m
      <4>2. \A i \in 1..m : emitted[i].sequence # n
        BY <1>2, <4>1
      <4>. QED
        BY <4>2 DEF Observed, m
    <3>2. Observed("start", n)' = {m + 1} /\ Observed("finish", n)' = {}
      BY <1>2, <1>3, <1>4, <3>1, EmittedIsObserved DEF m
    <3>3. m + 1 \in 1..Len(emitted')
      BY <1>2, <1>4
    <3>. QED
      BY <1>5, <2>1, <3>2, <3>3 DEF RunIsObserved
  <2>2. CASE q # r
    <3>1. PICK b : b = wrapped[q]
      OBVIOUS
    <3>2. RunIsObserved(b) /\ wrapped'[q] = b /\ event.sequence # b.number
      BY <1>2, <1>3, <1>5, <1>7, <2>2, <3>1 DEF DiagnosticsInv
    <3>3. RunIsObserved(b)'
      BY <1>2, <1>3, <1>4, <3>2, OthersStayObserved DEF m
    <3>. QED
      BY <3>2, <3>3 DEF RunIsObserved
  <2>. QED
    BY <2>1, <2>2
<1>. QED
  BY <1>4, <1>6, <1>8, <1>9 DEF DiagnosticsInv

LEMMA RunFinishesKeeps ==
    ASSUME DiagnosticsInv, NEW r \in Runs, NEW result \in DiagnosedResults,
           RunFinishes(r, result)
    PROVE  DiagnosticsInv'
<1>0. PICK n : n = wrapped[r].number
  OBVIOUS
<1>. DEFINE event == [phase |-> "finish", sequence |-> n, outcome |-> Outcome(result)]
            m == Len(emitted)
<1>1. /\ DiagnosticsTyped /\ RingIsEnd /\ NumbersAreOwn
      /\ wrapped[r].phase = "running" /\ sequence' = sequence /\ cleared' = cleared
      /\ wrapped' = [wrapped EXCEPT ![r].phase = "done", ![r].result = result]
      /\ Emitting(event)
  BY <1>0 DEF DiagnosticsInv, RunFinishes
<1>2. /\ sequence \in Nat /\ n \in Nat /\ m \in Nat /\ n # 0 /\ n <= sequence
  BY <1>0, <1>1, LenProperties DEF DiagnosticsTyped, RunRecords, NumbersAreOwn
<1>3. /\ event \in DiagnosticEvents /\ event.phase = "finish" /\ event.sequence = n
      /\ event.outcome = Outcome(result)
  BY <1>2 DEF DiagnosticEvents
<1>. HIDE DEF event
<1>4. /\ events' \in Seq(DiagnosticEvents) /\ emitted' \in Seq(DiagnosticEvents)
      /\ cleared' \in 0..Len(emitted') /\ Len(emitted') = m + 1
      /\ emitted'[m + 1] = event
      /\ \A i \in 1..m : emitted'[i] = emitted[i]
      /\ RingIsEnd'
  BY <1>1, <1>3, EmittingKeepsRing
<1>. HIDE DEF m
<1>5. /\ wrapped' \in [Runs -> RunRecords]
      /\ wrapped'[r].phase = "done" /\ wrapped'[r].number = n
      /\ wrapped'[r].result = result
      /\ \A q \in Runs : q # r => wrapped'[q] = wrapped[q]
  BY <1>0, <1>1 DEF DiagnosticsTyped, RunRecords
<1>6. DiagnosticsTyped'
  BY <1>1, <1>2, <1>4, <1>5 DEF DiagnosticsTyped
<1>7. \A q \in Runs : wrapped'[q].number = wrapped[q].number
  BY <1>0, <1>5
<1>8. NumbersAreOwn'
  <2>1. ASSUME NEW i \in 1..(m + 1)
        PROVE  emitted'[i].sequence <= sequence
    <3>1. CASE i = m + 1
      BY <1>2, <1>3, <1>4, <3>1
    <3>2. CASE i # m + 1
      <4>1. i \in 1..m
        BY <1>2, <3>2
      <4>. QED
        BY <1>1, <1>4, <4>1 DEF NumbersAreOwn, m
    <3>. QED
      BY <3>1, <3>2
  <2>2. ASSUME NEW q \in Runs
        PROVE  /\ wrapped'[q].number <= sequence
               /\ wrapped'[q].phase = "idle" => wrapped'[q].number = 0
               /\ wrapped'[q].phase = "running" => wrapped'[q].number # 0
    BY <1>1, <1>2, <1>5, <1>7 DEF NumbersAreOwn
  <2>3. ASSUME NEW q \in Runs, NEW p \in Runs,
               q # p, wrapped'[q].number = wrapped'[p].number
        PROVE  wrapped'[q].number = 0
    BY <1>1, <1>7, <2>3 DEF NumbersAreOwn
  <2>. QED
    BY <1>1, <1>4, <2>1, <2>2, <2>3 DEF NumbersAreOwn
<1>9. ASSUME NEW q \in Runs
      PROVE  RunIsObserved(wrapped[q])'
  <2>1. CASE q = r
    <3>1. PICK i \in 1..m : Observed("start", n) = {i} /\ Observed("finish", n) = {}
      BY <1>0, <1>1, <1>2 DEF DiagnosticsInv, RunIsObserved, m
    <3>2. Observed("start", n)' = {i} /\ Observed("finish", n)' = {m + 1}
      BY <1>2, <1>3, <1>4, <3>1, EmittedIsObserved DEF m
    <3>3. i \in 1..Len(emitted') /\ m + 1 \in (i + 1)..Len(emitted')
      BY <1>2, <1>4, <3>1
    <3>4. emitted'[m + 1].outcome = Outcome(result)
      BY <1>3, <1>4
    <3>. QED
      BY <1>5, <2>1, <3>2, <3>3, <3>4 DEF RunIsObserved
  <2>2. CASE q # r
    <3>1. PICK b : b = wrapped[q]
      OBVIOUS
    <3>2. RunIsObserved(b) /\ wrapped'[q] = b
      BY <1>5, <2>2, <3>1 DEF DiagnosticsInv
    <3>3. CASE b.number = 0
      BY <3>2, <3>3 DEF RunIsObserved
    <3>4. CASE b.number # 0
      <4>1. event.sequence # b.number
        BY <1>0, <1>1, <1>3, <2>2, <3>1, <3>4 DEF NumbersAreOwn
      <4>2. RunIsObserved(b)'
        BY <1>2, <1>3, <1>4, <3>2, <4>1, OthersStayObserved DEF m
      <4>. QED
        BY <3>2, <4>2 DEF RunIsObserved
    <3>. QED
      BY <3>3, <3>4
  <2>. QED
    BY <2>1, <2>2
<1>. QED
  BY <1>4, <1>6, <1>8, <1>9 DEF DiagnosticsInv

LEMMA DiagnosticsKeptByNext ==
    DiagnosticsInv /\ [DiagnosticsNext]_diagnosticsVars => DiagnosticsInv'
<1>. SUFFICES ASSUME DiagnosticsInv, [DiagnosticsNext]_diagnosticsVars
              PROVE  DiagnosticsInv'
  OBVIOUS
<1>0. DiagnosticsTyped /\ RingIsEnd /\ NumbersAreOwn
  BY DEF DiagnosticsInv
<1>1. CASE UNCHANGED diagnosticsVars
  <2>1. UNCHANGED diagnosticsVars
    BY <1>1
  <2>2. /\ DiagnosticsTyped'
        /\ RingIsEnd'
        /\ NumbersAreOwn'
    BY <1>0, <2>1 DEF diagnosticsVars, DiagnosticsTyped, RingIsEnd, NumbersAreOwn
  <2>3. ASSUME NEW q \in Runs
        PROVE  RunIsObserved(wrapped[q])'
    <3>1. RunIsObserved(wrapped[q])
      BY DEF DiagnosticsInv
    <3>. QED
      BY <2>1, <3>1 DEF diagnosticsVars, RunIsObserved, Observed
  <2>. QED
    BY <2>2, <2>3 DEF DiagnosticsInv
<1>2. ASSUME NEW r \in Runs, RunStarts(r)
      PROVE  DiagnosticsInv'
  BY <1>2, RunStartsKeeps
<1>3. ASSUME NEW r \in Runs, NEW result \in DiagnosedResults, RunFinishes(r, result)
      PROVE  DiagnosticsInv'
  BY <1>3, RunFinishesKeeps
<1>4. ASSUME NEW r \in Runs, NEW result \in DiagnosedResults, RunUnobserved(r, result)
      PROVE  DiagnosticsInv'
  <2>1. /\ UNCHANGED <<events, sequence, emitted, cleared>>
        /\ wrapped[r].phase = "idle"
        /\ wrapped' = [wrapped EXCEPT ![r].phase = "done", ![r].result = result]
    BY <1>4 DEF RunUnobserved
  <2>2. wrapped[r].number = 0
    BY <1>0, <2>1 DEF NumbersAreOwn
  <2>3. /\ wrapped' \in [Runs -> RunRecords]
        /\ wrapped'[r].phase = "done" /\ wrapped'[r].number = 0
        /\ \A q \in Runs : q # r => wrapped'[q] = wrapped[q]
    BY <1>0, <2>1, <2>2 DEF DiagnosticsTyped, RunRecords
  <2>4. DiagnosticsTyped' /\ RingIsEnd'
    BY <1>0, <2>1, <2>3 DEF DiagnosticsTyped, RingIsEnd
  <2>5. NumbersAreOwn'
    <3>1. \A q \in Runs : wrapped'[q].number = wrapped[q].number
      BY <2>2, <2>3
    <3>2. \A q \in Runs : wrapped'[q].phase \in {wrapped[q].phase, "done"}
      BY <2>3
    <3>. QED
      BY <1>0, <2>1, <2>3, <3>1, <3>2 DEF NumbersAreOwn
  <2>6. \A q \in Runs : RunIsObserved(wrapped[q])'
    <3>1. ASSUME NEW q \in Runs PROVE RunIsObserved(wrapped[q])'
      <4>1. CASE q = r
        BY <2>3, <4>1 DEF RunIsObserved
      <4>2. CASE q # r
        <5>1. PICK b : b = wrapped[q]
          OBVIOUS
        <5>2. wrapped'[q] = b /\ RunIsObserved(b)
          BY <2>3, <4>2, <5>1 DEF DiagnosticsInv
        <5>3. \A phase, n : Observed(phase, n)' = Observed(phase, n)
          BY <2>1 DEF Observed
        <5>4. RunIsObserved(b)'
          BY <2>1, <5>2, <5>3 DEF RunIsObserved
        <5>. QED
          BY <5>2, <5>4 DEF RunIsObserved
      <4>. QED
        BY <4>1, <4>2
    <3>. QED
      BY <3>1
  <2>. QED
    BY <2>4, <2>5, <2>6 DEF DiagnosticsInv
<1>5. CASE Clear
  <2>1. /\ UNCHANGED <<sequence, wrapped, emitted>>
        /\ events' = <<>> /\ cleared' = Len(emitted)
    BY <1>5 DEF Clear
  <2>2. Len(emitted) \in Nat /\ Capacity \in Nat
    BY <1>0, LenProperties, DiagnosticsAssumption DEF DiagnosticsTyped
  <2>3. DiagnosticsTyped'
    BY <1>0, <2>1, <2>2 DEF DiagnosticsTyped
  <2>4. RingIsEnd'
    BY <2>1, <2>2 DEF RingIsEnd
  <2>. QED
    BY <1>0, <2>1, <2>3, <2>4 DEF DiagnosticsInv, NumbersAreOwn, RunIsObserved, Observed
<1>. QED
  BY <1>1, <1>2, <1>3, <1>4, <1>5 DEF DiagnosticsNext

LEMMA DiagnosticsInvHolds == DiagnosticsSpec => []DiagnosticsInv
<1>1. DiagnosticsInit => DiagnosticsInv
  BY DiagnosticsAssumption
     DEF DiagnosticsInit, DiagnosticsInv, DiagnosticsTyped, RunRecords, RingIsEnd,
         NumbersAreOwn, RunIsObserved
<1>. QED
  BY <1>1, DiagnosticsKeptByNext, PTL DEF DiagnosticsSpec

(* The end of the history, cut twice, is the ring.                         *)
LEMMA RingIsCutFromHistory ==
    ASSUME DiagnosticsInv
    PROVE  LET recent == SubSeq(emitted, cleared + 1, Len(emitted))
               excess == IF Len(recent) > Capacity THEN Len(recent) - Capacity ELSE 0
           IN  events = SubSeq(recent, excess + 1, Len(recent))
<1>. DEFINE m == Len(emitted)
            recent == SubSeq(emitted, cleared + 1, m)
            length == Len(recent)
            excess == IF length > Capacity THEN length - Capacity ELSE 0
            ring == SubSeq(recent, excess + 1, length)
<1>1. /\ m \in Nat /\ cleared \in 0..m /\ Capacity \in Nat
      /\ events \in Seq(DiagnosticEvents) /\ Len(events) \in Nat
      /\ \A i \in 1..m : emitted[i] \in DiagnosticEvents
      /\ Len(events) = IF m - cleared > Capacity THEN Capacity ELSE m - cleared
      /\ \A i \in 1..Len(events) : events[i] = emitted[m - Len(events) + i]
  <2>1. /\ events \in Seq(DiagnosticEvents) /\ emitted \in Seq(DiagnosticEvents)
        /\ cleared \in 0..m /\ Capacity \in Nat
    BY DiagnosticsAssumption DEF DiagnosticsInv, DiagnosticsTyped
  <2>2. m \in Nat /\ Len(events) \in Nat
    BY <2>1, LenProperties
  <2>3. \A i \in 1..m : emitted[i] \in DiagnosticEvents
    BY <2>1, ElementOfSeq
  <2>. QED
    BY <2>1, <2>2, <2>3 DEF DiagnosticsInv, RingIsEnd
<1>. HIDE DEF m
<1>2. \A i \in (cleared + 1)..m : emitted[i] \in DiagnosticEvents
  BY <1>1
<1>3. /\ recent \in Seq(DiagnosticEvents) /\ length = m - cleared
      /\ \A i \in 1..length : recent[i] = emitted[cleared + i]
  <2>1. /\ recent \in Seq(DiagnosticEvents)
        /\ length = IF cleared + 1 <= m THEN m - (cleared + 1) + 1 ELSE 0
        /\ \A i \in 1..(m - (cleared + 1) + 1) : recent[i] = emitted[cleared + 1 + i - 1]
    BY <1>1, <1>2, SubSeqProperties
  <2>2. cleared + 1 \in Int /\ m - (cleared + 1) + 1 = m - cleared
    BY <1>1
  <2>3. length = m - cleared
    BY <1>1, <2>1
  <2>. HIDE DEF recent, length
  <2>4. \A i \in 1..length : cleared + 1 + i - 1 = cleared + i
    BY <1>1, <2>3
  <2>. QED
    BY <2>1, <2>2, <2>3, <2>4
<1>. HIDE DEF recent, length
<1>4. excess \in Nat /\ length \in Nat /\ length - excess = Len(events)
  BY <1>1, <1>3
<1>5. \A i \in (excess + 1)..length : recent[i] \in DiagnosticEvents
  BY <1>3, <1>4, ElementOfSeq DEF length
<1>6. /\ ring \in Seq(DiagnosticEvents)
      /\ Len(ring) = IF excess + 1 <= length THEN length - (excess + 1) + 1 ELSE 0
      /\ \A i \in 1..(length - (excess + 1) + 1) : ring[i] = recent[excess + 1 + i - 1]
  <2>. HIDE DEF excess
  <2>. QED
    BY <1>4, <1>5, SubSeqProperties
<1>. HIDE DEF excess, ring
<1>7. Len(ring) = Len(events)
  BY <1>1, <1>4, <1>6
<1>8. ASSUME NEW i \in 1..Len(events)
      PROVE  ring[i] = events[i]
  <2>1. /\ i \in 1..(length - (excess + 1) + 1)
        /\ excess + 1 + i - 1 = excess + i /\ excess + i \in 1..length
        /\ cleared + (excess + i) = m - Len(events) + i
    BY <1>1, <1>3, <1>4
  <2>2. ring[i] = recent[excess + i]
    BY <1>6, <2>1
  <2>3. recent[excess + i] = emitted[cleared + (excess + i)]
    BY <1>3, <2>1
  <2>. QED
    BY <1>1, <2>1, <2>2, <2>3
<1>9. ring = events
  BY <1>1, <1>6, <1>7, <1>8, SeqEqual
<1>. QED
  BY <1>9 DEF ring, excess, length, recent, m

(* For any capacity and any number of runs and clears, the ring is the end *)
(* of the history and the history is true of the runs: see RingIsRecent.   *)
THEOREM RingHolds == DiagnosticsSpec => []RingIsRecent
<1>1. DiagnosticsInv => RingIsRecent
  <2>. SUFFICES ASSUME DiagnosticsInv PROVE RingIsRecent
    OBVIOUS
  <2>1. \A r \in Runs : RunIsObserved(wrapped[r])
    BY DEF DiagnosticsInv
  <2>. QED
    BY <2>1, RingIsCutFromHistory DEF RingIsRecent, RunIsObserved
<1>. QED
  BY <1>1, DiagnosticsInvHolds, PTL

-----------------------------------------------------------------------------
(***************************************************************************)
(* The run checks one adapter at a time, so each is as it is alone.        *)
(***************************************************************************)
LEMMA AdaptersRunAlone == MCSpec => Spec /\ BannerSpec /\ AgreementSpec
<1>1. MCInit => Init /\ BannerInit /\ AgreementInit
  BY DEF MCInit
<1>2. [MCNext]_adapterVars =>
         [Next]_vars /\ [BannerNext]_bannerVars /\ [AgreementNext]_agreementVars
  BY DEF MCNext, adapterVars
<1>. QED
  BY <1>1, <1>2, PTL DEF MCSpec, Spec, BannerSpec, AgreementSpec

(* No provider is asked for anything once the call's deadline has passed   *)
(* or its answer is out: see NothingStartsLate.                            *)
THEOREM NothingIsLate == MCSpec => NothingStartsLate
  BY AdaptersRunAlone, PromotionNoOverduePayment, InitializationsAreInTime,
     AgreementsAreInTime, PTL DEF NothingStartsLate
=============================================================================
