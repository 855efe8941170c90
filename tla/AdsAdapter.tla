----------------------------- MODULE AdsAdapter -----------------------------
(***************************************************************************)
(* The full-screen ad adapter, packages/sdk/src/ads/adapter.ts: the load   *)
(* slot and the `showing` mark of every ad group, load calls that start or *)
(* join a load task, and show calls that consume a loaded slot.            *)
(*                                                                         *)
(* A task and a show go through the same phases: the SDK loader, then a    *)
(* one-shot event flow (EventFlow) around the provider's registration,     *)
(* then the continuation that updates the adapter's state.  Both have one  *)
(* deadline over loader and flow.  "registering" is the time inside the    *)
(* provider's function, which may emit before it returns.                  *)
(***************************************************************************)
EXTENDS Naturals

CONSTANTS AdGroups,  \* ad group ids
          Loads,     \* loadFullScreenAd calls
          Shows,     \* showFullScreenAd calls
          None,      \* no ad group, no task
          Deadline   \* loadTimeoutMs and showTimeoutMs are positive

ASSUME AdsAssumption ==
    /\ None \notin AdGroups \cup Loads
    /\ Loads \cap Shows = {}
    /\ Deadline \in BOOLEAN

VARIABLES slots,      \* the slots Map: kind, and the task of a loading slot
          showing,    \* the showing Set
          op,         \* every load task and every show, by the call it began
          awaits,     \* the task whose promise a load call returned
          completed,  \* history: loads that filled the slot, per ad group
          claimed     \* history: shows that consumed it, per ad group

vars == <<slots, showing, op, awaits, completed, claimed>>

Ops == Loads \cup Shows

EmptySlot == [kind |-> "empty", task |-> None]
LoadedSlot == [kind |-> "loaded", task |-> None]
LoadingSlot(t) == [kind |-> "loading", task |-> t]

IdleOp == [phase |-> "idle", ad |-> None, overdue |-> FALSE,
           listening |-> FALSE, earned |-> FALSE, outcome |-> "none",
           result |-> "none"]

StartedOp(a) == [IdleOp EXCEPT !.phase = "loader", !.ad = a]
EndedOp(a, res) == [IdleOp EXCEPT !.phase = "done", !.ad = a, !.result = res]

Settled(x) == op[x].outcome # "none"

Busy == \E x \in Ops : op[x].phase = "registering"

(***************************************************************************)
(* A settled flow whose continuation is still queued, and a loader race    *)
(* that is lost but whose loser has not unwound yet.                       *)
(***************************************************************************)
MicrotasksPending ==
    \E x \in Ops : Settled(x) /\ op[x].phase \in {"open", "loader"}

Init ==
    /\ slots = [a \in AdGroups |-> EmptySlot]
    /\ showing = {}
    /\ op = [x \in Ops |-> IdleOp]
    /\ awaits = [l \in Loads |-> None]
    /\ completed = [a \in AdGroups |-> 0]
    /\ claimed = [a \in AdGroups |-> 0]

(***************************************************************************)
(* loadFullScreenAd: a loaded slot satisfies the call, a loading slot is   *)
(* joined, an empty one starts a task.                                     *)
(***************************************************************************)
Load(l, a) ==
    /\ ~Busy
    /\ op[l].phase = "idle"
    /\ awaits[l] = None
    /\ \/ /\ slots[a].kind = "loaded"
          /\ op' = [op EXCEPT ![l] = EndedOp(a, "ok")]
          /\ UNCHANGED <<slots, awaits>>
       \/ /\ slots[a].kind = "loading"
          /\ awaits' = [awaits EXCEPT ![l] = slots[a].task]
          /\ UNCHANGED <<slots, op>>
       \/ /\ slots[a].kind = "empty"
          /\ op' = [op EXCEPT ![l] = StartedOp(a)]
          /\ awaits' = [awaits EXCEPT ![l] = l]
          /\ slots' = [slots EXCEPT ![a] = LoadingSlot(l)]
    /\ UNCHANGED <<showing, completed, claimed>>

\* Mutant: the loaded slot is not consumed.
ShowKeepingSlot(s, a) ==
    /\ ~Busy
    /\ op[s].phase = "idle"
    /\ a \notin showing
    /\ slots[a].kind = "loaded"
    /\ op' = [op EXCEPT ![s] = StartedOp(a)]
    /\ showing' = showing \cup {a}
    /\ claimed' = [claimed EXCEPT ![a] = @ + 1]
    /\ UNCHANGED <<slots, awaits, completed>>

(***************************************************************************)
(* showFullScreenAd: the loaded slot is consumed before anything is        *)
(* awaited.                                                                *)
(***************************************************************************)
Show(s, a) ==
    /\ ~Busy
    /\ op[s].phase = "idle"
    /\ \/ /\ a \in showing
          /\ op' = [op EXCEPT ![s] = EndedOp(a, "already_showing")]
          /\ UNCHANGED <<slots, showing, claimed>>
       \/ /\ a \notin showing
          /\ slots[a].kind # "loaded"
          /\ op' = [op EXCEPT ![s] = EndedOp(a, "not_loaded")]
          /\ UNCHANGED <<slots, showing, claimed>>
       \/ /\ a \notin showing
          /\ slots[a].kind = "loaded"
          /\ op' = [op EXCEPT ![s] = StartedOp(a)]
          /\ slots' = [slots EXCEPT ![a] = EmptySlot]
          /\ showing' = showing \cup {a}
          /\ claimed' = [claimed EXCEPT ![a] = @ + 1]
    /\ UNCHANGED <<awaits, completed>>

adapterVars == <<slots, showing, awaits, completed, claimed>>

DeadlinePasses(x) ==
    /\ Deadline
    /\ op[x].phase \in {"loader", "registering", "open"}
    /\ ~op[x].overdue
    /\ op' = [op EXCEPT ![x].overdue = TRUE]
    /\ UNCHANGED adapterVars

(***************************************************************************)
(* The race is over: nobody waits for the loader any more.                 *)
(***************************************************************************)
Decide(x, outcome) == op' = [op EXCEPT ![x].outcome = outcome]

\* Mutant: what the loader has left of the budget is not looked at.
LoaderResolvesLate(x) ==
    /\ ~Busy
    /\ op[x].phase = "loader"
    /\ ~Settled(x)
    /\ op' = [op EXCEPT ![x].phase = "registering"]
    /\ UNCHANGED adapterVars

(***************************************************************************)
(* The loader answers.  A spent budget is a timeout even if the timer has  *)
(* not run; else the provider's function is entered.                       *)
(***************************************************************************)
LoaderResolves(x) ==
    /\ ~Busy
    /\ op[x].phase = "loader"
    /\ ~Settled(x)
    /\ \/ op[x].overdue /\ Decide(x, "timeout")
       \/ /\ ~op[x].overdue
          /\ op' = [op EXCEPT ![x].phase = "registering"]
    /\ UNCHANGED adapterVars

(***************************************************************************)
(* The SDK is unavailable, or the app version does not support the ad.     *)
(***************************************************************************)
LoaderFails(x) ==
    /\ ~Busy
    /\ op[x].phase = "loader"
    /\ ~Settled(x)
    /\ Decide(x, "error")
    /\ UNCHANGED adapterVars

\* Mutant: the loading phase has no deadline.
LoaderTimeoutMissing(x) ==
    FALSE /\ Decide(x, "timeout") /\ UNCHANGED adapterVars

LoaderTimeout(x) ==
    /\ ~Busy /\ ~MicrotasksPending
    /\ op[x].phase = "loader"
    /\ op[x].overdue
    /\ ~Settled(x)
    /\ Decide(x, "timeout")
    /\ UNCHANGED adapterVars

\* Mutant: a flow that settled inside the registration keeps listening.
RegisterReturnsLeaking(x) ==
    /\ op[x].phase = "registering"
    /\ op' = [op EXCEPT ![x].phase = "open", ![x].listening = TRUE]
    /\ UNCHANGED adapterVars

(***************************************************************************)
(* The event flow around the provider's registration.  A flow that settles *)
(* gives its listener back before the promise is out, also when it settled *)
(* before the registration returned.                                       *)
(***************************************************************************)
RegisterReturns(x) ==
    /\ op[x].phase = "registering"
    /\ op' = [op EXCEPT ![x].phase = "open", ![x].listening = ~Settled(x)]
    /\ UNCHANGED adapterVars

SettleFlow(x, outcome) ==
    op' = [op EXCEPT ![x].outcome = IF Settled(x) THEN @ ELSE outcome,
                     ![x].listening = FALSE]

RegisterThrows(x) ==
    /\ op[x].phase = "registering"
    /\ op' = [op EXCEPT ![x].phase = "open",
                        ![x].outcome = IF Settled(x) THEN @ ELSE "error"]
    /\ UNCHANGED adapterVars

InFlow(x) == op[x].phase \in {"registering", "open"}

FlowTimeout(x) ==
    /\ ~Busy /\ ~MicrotasksPending
    /\ op[x].phase = "open"
    /\ op[x].overdue
    /\ ~Settled(x)
    /\ SettleFlow(x, "timeout")
    /\ UNCHANGED adapterVars

(***************************************************************************)
(* Provider events.  An error ends either kind of flow; a load flow ends   *)
(* with "loaded"; a show flow ends with "dismissed" or "failedToShow", and *)
(* is rewarded only if userEarnedReward came first.                        *)
(***************************************************************************)
ProviderError(x) ==
    /\ InFlow(x)
    /\ SettleFlow(x, "error")
    /\ UNCHANGED adapterVars

ProviderLoaded(l) ==
    /\ InFlow(l)
    /\ SettleFlow(l, "ok")
    /\ UNCHANGED adapterVars

UserEarnedReward(s) ==
    /\ InFlow(s)
    /\ ~Settled(s)
    /\ op' = [op EXCEPT ![s].earned = TRUE]
    /\ UNCHANGED adapterVars

Dismissed(s) ==
    /\ InFlow(s)
    /\ SettleFlow(s, IF op[s].earned THEN "rewarded" ELSE "dismissed")
    /\ UNCHANGED adapterVars

FailedToShow(s) ==
    /\ InFlow(s)
    /\ SettleFlow(s, "failed")
    /\ UNCHANGED adapterVars

End(x) ==
    op' = [op EXCEPT ![x].phase = "done", ![x].result = op[x].outcome]

Continues(x) ==
    /\ ~Busy
    /\ op[x].phase \in {"loader", "open"}
    /\ Settled(x)

\* Mutant: a failed load leaves its slot for a later turn to clear.
LoadContinuesKeepingSlot(l) ==
    /\ Continues(l)
    /\ End(l)
    /\ IF op[l].outcome = "ok" /\ slots[op[l].ad] = LoadingSlot(l)
         THEN /\ slots' = [slots EXCEPT ![op[l].ad] = LoadedSlot]
              /\ completed' = [completed EXCEPT ![op[l].ad] = @ + 1]
         ELSE UNCHANGED <<slots, completed>>
    /\ UNCHANGED <<showing, awaits, claimed>>

(***************************************************************************)
(* The load task's continuation: if the slot is still this task's, it is   *)
(* promoted or cleared, and only then do the callers resume.               *)
(***************************************************************************)
LoadContinues(l) ==
    /\ Continues(l)
    /\ End(l)
    /\ IF slots[op[l].ad] # LoadingSlot(l)
         THEN UNCHANGED <<slots, completed>>
         ELSE IF op[l].outcome = "ok"
                THEN /\ slots' = [slots EXCEPT ![op[l].ad] = LoadedSlot]
                     /\ completed' = [completed EXCEPT ![op[l].ad] = @ + 1]
                ELSE /\ slots' = [slots EXCEPT ![op[l].ad] = EmptySlot]
                     /\ UNCHANGED completed
    /\ UNCHANGED <<showing, awaits, claimed>>

(***************************************************************************)
(* The show's `finally`: the mark is released with the result.             *)
(***************************************************************************)
ShowContinues(s) ==
    /\ Continues(s)
    /\ End(s)
    /\ showing' = showing \ {op[s].ad}
    /\ UNCHANGED <<slots, awaits, completed, claimed>>

-----------------------------------------------------------------------------

OpStep(x) ==
    \/ DeadlinePasses(x)
    \/ LoaderResolves(x)
    \/ LoaderFails(x)
    \/ LoaderTimeout(x)
    \/ RegisterReturns(x)
    \/ RegisterThrows(x)
    \/ FlowTimeout(x)
    \/ ProviderError(x)

LoadStep(l) ==
    \/ \E a \in AdGroups : Load(l, a)
    \/ ProviderLoaded(l)
    \/ LoadContinues(l)

ShowStep(s) ==
    \/ \E a \in AdGroups : Show(s, a)
    \/ UserEarnedReward(s)
    \/ Dismissed(s)
    \/ FailedToShow(s)
    \/ ShowContinues(s)

Next ==
    \/ \E x \in Ops : OpStep(x)
    \/ \E l \in Loads : LoadStep(l)
    \/ \E s \in Shows : ShowStep(s)

Spec == Init /\ [][Next]_vars

(***************************************************************************)
(* Time passes, timers fire, microtasks run and the provider's functions   *)
(* return; no loader and no provider event is assumed to come.             *)
(***************************************************************************)
Fairness ==
    /\ \A x \in Ops :
          /\ WF_vars(DeadlinePasses(x))
          /\ WF_vars(LoaderTimeout(x))
          /\ WF_vars(RegisterReturns(x) \/ RegisterThrows(x))
          /\ WF_vars(FlowTimeout(x))
    /\ \A l \in Loads : WF_vars(LoadContinues(l))
    /\ \A s \in Shows : WF_vars(ShowContinues(s))

FairSpec == Spec /\ Fairness

-----------------------------------------------------------------------------

OpType ==
    [phase : {"idle", "loader", "registering", "open", "done"},
     ad : AdGroups \cup {None}, overdue : BOOLEAN, listening : BOOLEAN,
     earned : BOOLEAN,
     outcome : {"none", "ok", "error", "timeout", "rewarded", "dismissed",
                "failed"},
     result : {"none", "ok", "error", "timeout", "rewarded", "dismissed",
               "failed", "already_showing", "not_loaded"}]

(* Type invariant of the adapter's Map and Set and of its operations.      *)
TypeOK ==
    /\ slots \in [AdGroups -> [kind : {"empty", "loading", "loaded"},
                               task : Loads \cup {None}]]
    /\ showing \subseteq AdGroups
    /\ op \in [Ops -> OpType]
    /\ awaits \in [Loads -> Loads \cup {None}]
    /\ completed \in [AdGroups -> Nat]
    /\ claimed \in [AdGroups -> Nat]

Running(x) == op[x].phase \in {"loader", "registering", "open"}

(* What the adapter holds follows the operations that run.  A slot is      *)
(* loading exactly while its task runs: duplicate loads start no second    *)
(* registration, a finished task does not block an immediate retry, and a  *)
(* stale one does not touch a newer task's slot.  At most one show of an ad*)
(* group runs, and the group is marked exactly while it does: the mark is  *)
(* neither lost while an ad is on screen nor left behind, which would      *)
(* refuse every later show.                                                *)
SlotsTrackWork ==
    /\ \A l \in Loads, a \in AdGroups :
          slots[a] = LoadingSlot(l) <=> Running(l) /\ op[l].ad = a
    /\ \A a \in AdGroups :
          a \in showing <=> \E s \in Shows : Running(s) /\ op[s].ad = a
    /\ \A s1, s2 \in Shows :
          Running(s1) /\ Running(s2) /\ op[s1].ad = op[s2].ad => s1 = s2

(* A loaded ad is shown at most once: every show that got past the checks  *)
(* consumed a load of its own.                                             *)
SingleUse ==
    \A a \in AdGroups :
        completed[a] = claimed[a] + (IF slots[a] = LoadedSlot THEN 1 ELSE 0)

(* No listener outlives its operation: what listens at the provider is an  *)
(* unsettled flow whose slot or mark the adapter still holds, and once a   *)
(* call has returned nothing of it listens.                                *)
NoOrphanedListener ==
    \A x \in Ops :
        op[x].listening =>
            /\ ~Settled(x)
            /\ x \in Shows => op[x].ad \in showing
            /\ x \in Loads => slots[op[x].ad] = LoadingSlot(x)

(* The contract's view: a call's task is its own or the one it joined, the *)
(* provider is asked while the flow of a task or a show is under way.      *)
Ready == {a \in AdGroups : slots[a] = LoadedSlot}

Waiting ==
    [a \in AdGroups |->
       {l \in Loads : awaits[l] # None /\ slots[a] = LoadingSlot(awaits[l])}]

Request ==
    [a \in AdGroups |->
       LET t == slots[a].task
       IN  IF slots[a].kind = "loading"
             THEN [asked |-> InFlow(t), late |-> op[t].overdue]
             ELSE [asked |-> FALSE, late |-> FALSE]]

Screen ==
    [s \in Shows |->
       IF Running(s)
         THEN [ad |-> op[s].ad, asked |-> InFlow(s), late |-> op[s].overdue,
               earned |-> op[s].earned]
         ELSE [ad |-> None, asked |-> FALSE, late |-> FALSE, earned |-> FALSE]]

TaskOf(c) == IF c \in Loads /\ awaits[c] # None THEN awaits[c] ELSE c

Told == [c \in Ops |-> op[TaskOf(c)].result]

Contract ==
    INSTANCE AdContract WITH ready <- Ready, waiting <- Waiting,
                             request <- Request, screen <- Screen, told <- Told

(* The adapter keeps the contract of AdContract whatever loader, provider, *)
(* clock and other calls do: callers who joined are told what the one      *)
(* request came to, an ad is taken by one show and refused to the others,  *)
(* a loader that resolves when the time is up asks the provider for        *)
(* nothing, and a show that tells of its ad tells of a reward if and only  *)
(* if it was earned in that show.                                          *)
ImplementsAdContract == Contract!ContractSpec

(* Whoever called load, also by joining, gets an answer, and every mark is *)
(* released in the end, although loader and provider may stay silent.      *)
OperationsEnd ==
    /\ \A l, t \in Loads : awaits[l] = t ~> op[t].phase = "done"
    /\ \A a \in AdGroups : a \in showing ~> a \notin showing
=============================================================================
