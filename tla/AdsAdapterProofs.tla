--------------------------- MODULE AdsAdapterProofs ---------------------------
(***************************************************************************)
(* Theorems about the full-screen ad adapter, for any sets of ad groups,   *)
(* loads and shows.  What has to be added to the properties is the shape of*)
(* a slot, that whoever runs has an ad group, and that only an open flow   *)
(* listens.  That the adapter keeps its contract needs two more parts: how *)
(* an operation decided is true of its loader and flow, and who waits for  *)
(* a task waits for one that has begun.                                    *)
(***************************************************************************)
EXTENDS AdsAdapter, TLAPS

SlotShapes ==
    \A a \in AdGroups :
        slots[a] \in {EmptySlot, LoadedSlot} \cup {LoadingSlot(l) : l \in Loads}

WhoRunsHasAGroup == \A x \in Ops : Running(x) => op[x].ad \in AdGroups

OnlyOpenFlowsListen == \A x \in Ops : op[x].listening => op[x].phase = "open"

AdsInv ==
    /\ TypeOK
    /\ SlotShapes
    /\ WhoRunsHasAGroup
    /\ OnlyOpenFlowsListen
    /\ SlotsTrackWork
    /\ SingleUse
    /\ NoOrphanedListener

RunningPhases == {"loader", "registering", "open"}

LEMMA SlotsAreApart ==
    /\ EmptySlot # LoadedSlot
    /\ EmptySlot.kind = "empty"
    /\ LoadedSlot.kind = "loaded"
    /\ \A l \in Loads :
          /\ EmptySlot # LoadingSlot(l)
          /\ LoadedSlot # LoadingSlot(l)
          /\ LoadingSlot(l).kind = "loading"
          /\ \A t \in Loads : LoadingSlot(t) = LoadingSlot(l) => t = l
  BY DEF EmptySlot, LoadedSlot, LoadingSlot

(* An operation that moves on within its flow disturbs nothing else.       *)
LEMMA OpMoves ==
    ASSUME AdsInv, NEW x \in Ops, NEW r \in OpType,
           Running(x), r.phase \in RunningPhases, r.ad = op[x].ad,
           r.listening => r.phase = "open" /\ r.outcome = "none",
           op' = [op EXCEPT ![x] = r], UNCHANGED adapterVars
    PROVE  AdsInv'
<1>1. /\ slots' = slots /\ showing' = showing /\ awaits' = awaits
      /\ completed' = completed /\ claimed' = claimed
  BY DEF adapterVars
<1>2. /\ op \in [Ops -> OpType]
      /\ op'[x] = r
      /\ \A y \in Ops : y # x => op'[y] = op[y]
  BY DEF AdsInv, TypeOK
<1>3. \A y \in Ops : Running(y)' <=> Running(y)
  BY <1>2 DEF Running, RunningPhases
<1>4. \A y \in Ops : op'[y].ad = op[y].ad
  BY <1>2
<1>5. TypeOK'
  BY <1>1, <1>2 DEF AdsInv, TypeOK
<1>6. SlotShapes' /\ SingleUse'
  BY <1>1 DEF AdsInv, SlotShapes, SingleUse, EmptySlot, LoadedSlot, LoadingSlot
<1>7. WhoRunsHasAGroup'
  BY <1>3, <1>4 DEF AdsInv, WhoRunsHasAGroup
<1>8. OnlyOpenFlowsListen'
  BY <1>2 DEF AdsInv, OnlyOpenFlowsListen
<1>9. SlotsTrackWork'
  <2>1. \A l \in Loads, a \in AdGroups :
           slots'[a] = LoadingSlot(l) <=> Running(l)' /\ op'[l].ad = a
    BY <1>1, <1>3, <1>4 DEF AdsInv, SlotsTrackWork, Ops
  <2>2. \A a \in AdGroups :
           a \in showing' <=> \E s \in Shows : Running(s)' /\ op'[s].ad = a
    BY <1>1, <1>3, <1>4 DEF AdsInv, SlotsTrackWork, Ops
  <2>3. \A s1, s2 \in Shows :
           Running(s1)' /\ Running(s2)' /\ op'[s1].ad = op'[s2].ad => s1 = s2
    BY <1>3, <1>4 DEF AdsInv, SlotsTrackWork, Ops
  <2>. QED
    BY <2>1, <2>2, <2>3 DEF SlotsTrackWork, LoadingSlot
<1>10. NoOrphanedListener'
  <2>. SUFFICES ASSUME NEW y \in Ops, op'[y].listening
                PROVE  /\ op'[y].outcome = "none"
                       /\ y \in Shows => op'[y].ad \in showing'
                       /\ y \in Loads => slots'[op'[y].ad] = LoadingSlot(y)
    BY DEF NoOrphanedListener, Settled, LoadingSlot
  <2>1. op'[y].outcome = "none"
    BY <1>2 DEF AdsInv, NoOrphanedListener, Settled
  <2>2. Running(y)
    BY <1>2 DEF AdsInv, OnlyOpenFlowsListen, Running
  <2>3. op[y].ad \in AdGroups
    BY <2>2 DEF AdsInv, WhoRunsHasAGroup
  <2>. QED
    BY <1>1, <1>4, <2>1, <2>2, <2>3 DEF AdsInv, SlotsTrackWork
<1>. QED
  BY <1>5, <1>6, <1>7, <1>8, <1>9, <1>10 DEF AdsInv

-----------------------------------------------------------------------------
(* An event or the timer ends a flow, or comes when it has ended.          *)
LEMMA SettlingMoves ==
    ASSUME AdsInv, NEW x \in Ops,
           NEW outcome \in {"ok", "error", "timeout", "rewarded", "dismissed",
                            "failed"},
           InFlow(x), SettleFlow(x, outcome), UNCHANGED adapterVars
    PROVE  AdsInv'
<1>. DEFINE r == [op[x] EXCEPT !.outcome = IF Settled(x) THEN @ ELSE outcome,
                               !.listening = FALSE]
<1>1. op \in [Ops -> OpType] /\ op[x] \in OpType
  BY DEF AdsInv, TypeOK
<1>2. /\ r \in OpType /\ r.phase = op[x].phase /\ r.ad = op[x].ad
      /\ ~r.listening
  BY <1>1 DEF OpType
<1>3. op' = [op EXCEPT ![x] = r]
  BY <1>1 DEF SettleFlow
<1>. QED
  BY <1>2, <1>3, OpMoves DEF InFlow, Running, RunningPhases

(* Every step of an operation within its loader and its flow.              *)
LEMMA OpSteps ==
    ASSUME AdsInv, NEW x \in Ops, OpStep(x)
    PROVE  AdsInv'
<1>1. /\ op \in [Ops -> OpType]
      /\ op[x] \in OpType
      /\ op[x].listening => op[x].phase = "open" /\ op[x].outcome = "none"
  BY DEF AdsInv, TypeOK, OnlyOpenFlowsListen, NoOrphanedListener, Settled
<1>2. CASE DeadlinePasses(x)
  BY <1>1, <1>2, OpMoves, [op[x] EXCEPT !.overdue = TRUE] \in OpType
    DEF DeadlinePasses, Running, RunningPhases, OpType
<1>3. CASE LoaderResolves(x)
  <2>1. CASE op[x].overdue
    BY <1>1, <1>3, <2>1, OpMoves, [op[x] EXCEPT !.outcome = "timeout"] \in OpType
      DEF LoaderResolves, Decide, Running, RunningPhases, OpType
  <2>2. CASE ~op[x].overdue
    BY <1>1, <1>3, <2>2, OpMoves, [op[x] EXCEPT !.phase = "registering"] \in OpType
      DEF LoaderResolves, Running, RunningPhases, OpType
  <2>. QED
    BY <2>1, <2>2
<1>4. CASE LoaderFails(x)
  BY <1>1, <1>4, OpMoves, [op[x] EXCEPT !.outcome = "error"] \in OpType
    DEF LoaderFails, Decide, Running, RunningPhases, OpType
<1>5. CASE LoaderTimeout(x)
  BY <1>1, <1>5, OpMoves, [op[x] EXCEPT !.outcome = "timeout"] \in OpType
    DEF LoaderTimeout, Decide, Running, RunningPhases, OpType
<1>6. CASE RegisterReturns(x)
  <2>. DEFINE r == [op[x] EXCEPT !.phase = "open", !.listening = ~Settled(x)]
  <2>1. /\ r \in OpType /\ r.phase = "open" /\ r.ad = op[x].ad
        /\ r.listening => r.outcome = "none"
    BY <1>1 DEF OpType, Settled
  <2>2. op' = [op EXCEPT ![x] = r]
    BY <1>1, <1>6 DEF RegisterReturns
  <2>. QED
    BY <1>6, <2>1, <2>2, OpMoves DEF RegisterReturns, Running, RunningPhases
<1>7. CASE RegisterThrows(x)
  <2>. DEFINE r == [op[x] EXCEPT !.phase = "open",
                                 !.outcome = IF Settled(x) THEN @ ELSE "error"]
  <2>1. /\ r \in OpType /\ r.phase = "open" /\ r.ad = op[x].ad
        /\ ~r.listening
    BY <1>1, <1>7 DEF OpType, RegisterThrows
  <2>2. op' = [op EXCEPT ![x] = r]
    BY <1>1, <1>7 DEF RegisterThrows
  <2>. QED
    BY <1>7, <2>1, <2>2, OpMoves DEF RegisterThrows, Running, RunningPhases
<1>8. CASE FlowTimeout(x)
  BY <1>8, SettlingMoves DEF FlowTimeout, InFlow
<1>9. CASE ProviderError(x)
  BY <1>9, SettlingMoves DEF ProviderError
<1>. QED
  BY <1>2, <1>3, <1>4, <1>5, <1>6, <1>7, <1>8, <1>9 DEF OpStep
-----------------------------------------------------------------------------
(* A call that is answered at once holds nothing.                          *)
LEMMA EndedKeeps ==
    ASSUME AdsInv, NEW x \in Ops, ~Running(x),
           op' \in [Ops -> OpType],
           \A y \in Ops : y # x => op'[y] = op[y],
           op'[x].phase = "done", ~op'[x].listening,
           UNCHANGED adapterVars
    PROVE  AdsInv'
<1>1. /\ slots' = slots /\ showing' = showing /\ awaits' = awaits
      /\ completed' = completed /\ claimed' = claimed
  BY DEF adapterVars
<1>2. \A y \in Ops : /\ Running(y)' <=> Running(y)
                     /\ Running(y) => op'[y] = op[y]
  BY DEF Running
<1>3. TypeOK'
  BY <1>1 DEF AdsInv, TypeOK
<1>4. SlotShapes' /\ SingleUse'
  BY <1>1 DEF AdsInv, SlotShapes, SingleUse, EmptySlot, LoadedSlot, LoadingSlot
<1>5. WhoRunsHasAGroup' /\ OnlyOpenFlowsListen'
  BY <1>2 DEF AdsInv, WhoRunsHasAGroup, OnlyOpenFlowsListen
<1>6. SlotsTrackWork'
  <2>1. \A l \in Loads, a \in AdGroups :
           slots'[a] = LoadingSlot(l) <=> Running(l)' /\ op'[l].ad = a
    BY <1>1, <1>2 DEF AdsInv, SlotsTrackWork, Ops
  <2>2. \A a \in AdGroups :
           a \in showing' <=> \E s \in Shows : Running(s)' /\ op'[s].ad = a
    BY <1>1, <1>2 DEF AdsInv, SlotsTrackWork, Ops
  <2>3. \A s1, s2 \in Shows :
           Running(s1)' /\ Running(s2)' /\ op'[s1].ad = op'[s2].ad => s1 = s2
    BY <1>2 DEF AdsInv, SlotsTrackWork, Ops
  <2>. QED
    BY <2>1, <2>2, <2>3 DEF SlotsTrackWork, LoadingSlot
<1>7. NoOrphanedListener'
  BY <1>1 DEF AdsInv, NoOrphanedListener, Settled, LoadingSlot
<1>. QED
  BY <1>3, <1>4, <1>5, <1>6, <1>7 DEF AdsInv

-----------------------------------------------------------------------------
(* A call that starts a task or a show, or is answered at once: the record *)
(* of an operation that was idle is replaced.                              *)
LEMMA LoadKeeps ==
    ASSUME AdsInv, NEW l \in Loads, NEW a \in AdGroups, Load(l, a)
    PROVE  AdsInv'
<1>1. /\ op \in [Ops -> OpType] /\ l \in Ops /\ op[l].phase = "idle"
      /\ slots \in [AdGroups -> [kind : {"empty", "loading", "loaded"},
                                 task : Loads \cup {None}]]
      /\ awaits \in [Loads -> Loads \cup {None}]
      /\ ~Running(l)
      /\ showing' = showing /\ completed' = completed /\ claimed' = claimed
  BY DEF AdsInv, TypeOK, Load, Ops, Running
<1>2. CASE /\ op' = [op EXCEPT ![l] = EndedOp(a, "ok")]
           /\ UNCHANGED <<slots, awaits>>
  <2>1. /\ EndedOp(a, "ok") \in OpType
        /\ EndedOp(a, "ok").phase = "done"
        /\ ~EndedOp(a, "ok").listening
    BY DEF EndedOp, IdleOp, OpType
  <2>2. /\ op' \in [Ops -> OpType]
        /\ \A y \in Ops : y # l => op'[y] = op[y]
        /\ op'[l].phase = "done" /\ ~op'[l].listening
    BY <1>1, <1>2, <2>1
  <2>. QED
    BY <1>1, <1>2, <2>2, EndedKeeps DEF adapterVars
<1>3. CASE /\ slots[a].kind = "loading"
           /\ awaits' = [awaits EXCEPT ![l] = slots[a].task]
           /\ UNCHANGED <<slots, op>>
  <2>1. awaits' \in [Loads -> Loads \cup {None}]
    BY <1>1, <1>3
  <2>. QED
    BY <1>1, <1>3, <2>1
      DEF AdsInv, TypeOK, SlotShapes, WhoRunsHasAGroup, OnlyOpenFlowsListen,
          SlotsTrackWork, SingleUse, NoOrphanedListener, Running, Settled,
          LoadingSlot, LoadedSlot, EmptySlot
<1>4. CASE /\ slots[a].kind = "empty"
           /\ op' = [op EXCEPT ![l] = StartedOp(a)]
           /\ awaits' = [awaits EXCEPT ![l] = l]
           /\ slots' = [slots EXCEPT ![a] = LoadingSlot(l)]
  <2>1. /\ StartedOp(a) \in OpType
        /\ StartedOp(a).phase = "loader" /\ StartedOp(a).ad = a
        /\ ~StartedOp(a).listening
    BY DEF StartedOp, IdleOp, OpType
  <2>2. /\ op' \in [Ops -> OpType]
        /\ \A y \in Ops : y # l => op'[y] = op[y] /\ (Running(y)' <=> Running(y))
        /\ op'[l].ad = a /\ ~op'[l].listening /\ Running(l)'
    BY <1>1, <1>4, <2>1 DEF Running
  <2>3. /\ slots[a] = EmptySlot
        /\ slots'[a] = LoadingSlot(l)
        /\ \A b \in AdGroups : b # a => slots'[b] = slots[b]
    BY <1>1, <1>4, SlotsAreApart DEF AdsInv, SlotShapes
  <2>4. TypeOK'
    BY <1>1, <1>4, <2>2 DEF AdsInv, TypeOK, LoadingSlot
  <2>5. SlotShapes'
    BY <2>3 DEF AdsInv, SlotShapes, LoadingSlot, LoadedSlot, EmptySlot
  <2>6. WhoRunsHasAGroup'
    BY <2>2 DEF AdsInv, WhoRunsHasAGroup
  <2>7. OnlyOpenFlowsListen'
    BY <2>2 DEF AdsInv, OnlyOpenFlowsListen
  <2>8. SlotsTrackWork'
    <3>1. ASSUME NEW m \in Loads, NEW b \in AdGroups
          PROVE  slots'[b] = LoadingSlot(m) <=> Running(m)' /\ op'[m].ad = b
      <4>1. slots[b] = LoadingSlot(m) <=> Running(m) /\ op[m].ad = b
        BY DEF AdsInv, SlotsTrackWork
      <4>2. slots[b] # LoadingSlot(l)
        BY <1>1 DEF AdsInv, SlotsTrackWork
      <4>3. CASE m = l
        BY <2>2, <2>3, <4>2, <4>3
      <4>4. CASE m # l
        BY <2>2, <2>3, <4>1, <4>4, SlotsAreApart DEF Ops
      <4>. QED
        BY <4>3, <4>4
    <3>2. \A s \in Shows : s \in Ops /\ s # l
      BY AdsAssumption DEF Ops
    <3>3. \A b \in AdGroups :
             b \in showing' <=> \E s \in Shows : Running(s)' /\ op'[s].ad = b
      BY <1>1, <2>2, <3>2 DEF AdsInv, SlotsTrackWork
    <3>4. \A s1, s2 \in Shows :
             Running(s1)' /\ Running(s2)' /\ op'[s1].ad = op'[s2].ad => s1 = s2
      BY <2>2, <3>2 DEF AdsInv, SlotsTrackWork
    <3>. QED
      BY <3>1, <3>3, <3>4 DEF SlotsTrackWork, LoadingSlot
  <2>9. SingleUse'
    BY <1>1, <2>3, SlotsAreApart DEF AdsInv, SingleUse, LoadedSlot
  <2>10. NoOrphanedListener'
    <3>. SUFFICES ASSUME NEW y \in Ops, op'[y].listening
                  PROVE  /\ op'[y].outcome = "none"
                         /\ y \in Shows => op'[y].ad \in showing'
                         /\ y \in Loads => slots'[op'[y].ad] = LoadingSlot(y)
      BY DEF NoOrphanedListener, Settled, LoadingSlot
    <3>1. y # l /\ op'[y] = op[y]
      BY <2>2
    <3>2. /\ op[y].outcome = "none"
          /\ y \in Shows => op[y].ad \in showing
          /\ y \in Loads => slots[op[y].ad] = LoadingSlot(y)
      BY <3>1 DEF AdsInv, NoOrphanedListener, Settled
    <3>3. op[y].ad \in AdGroups
      BY <3>1 DEF AdsInv, WhoRunsHasAGroup, OnlyOpenFlowsListen, Running
    <3>. QED
      BY <1>1, <2>3, <3>1, <3>2, <3>3, SlotsAreApart
  <2>. QED
    BY <2>4, <2>5, <2>6, <2>7, <2>8, <2>9, <2>10 DEF AdsInv
<1>. QED
  BY <1>2, <1>3, <1>4 DEF Load
LEMMA ShowKeeps ==
    ASSUME AdsInv, NEW s \in Shows, NEW a \in AdGroups, Show(s, a)
    PROVE  AdsInv'
<1>1. /\ op \in [Ops -> OpType] /\ s \in Ops /\ op[s].phase = "idle"
      /\ ~Running(s)
      /\ awaits' = awaits /\ completed' = completed
  BY DEF AdsInv, TypeOK, Show, Ops, Running
<1>2. ASSUME NEW result \in {"already_showing", "not_loaded"},
             op' = [op EXCEPT ![s] = EndedOp(a, result)],
             UNCHANGED <<slots, showing, claimed>>
      PROVE  AdsInv'
  <2>1. /\ EndedOp(a, result) \in OpType
        /\ EndedOp(a, result).phase = "done"
        /\ ~EndedOp(a, result).listening
    BY <1>2 DEF EndedOp, IdleOp, OpType
  <2>2. /\ op' \in [Ops -> OpType]
        /\ \A y \in Ops : y # s => op'[y] = op[y]
        /\ op'[s].phase = "done" /\ ~op'[s].listening
    BY <1>1, <1>2, <2>1
  <2>. QED
    BY <1>1, <1>2, <2>2, EndedKeeps DEF adapterVars
<1>3. CASE /\ a \notin showing
           /\ slots[a].kind = "loaded"
           /\ op' = [op EXCEPT ![s] = StartedOp(a)]
           /\ slots' = [slots EXCEPT ![a] = EmptySlot]
           /\ showing' = showing \cup {a}
           /\ claimed' = [claimed EXCEPT ![a] = @ + 1]
  <2>1. /\ StartedOp(a) \in OpType
        /\ StartedOp(a).phase = "loader" /\ StartedOp(a).ad = a
        /\ ~StartedOp(a).listening
    BY DEF StartedOp, IdleOp, OpType
  <2>2. /\ op' \in [Ops -> OpType]
        /\ \A y \in Ops : y # s => op'[y] = op[y] /\ (Running(y)' <=> Running(y))
        /\ op'[s].ad = a /\ ~op'[s].listening /\ Running(s)'
    BY <1>1, <1>3, <2>1 DEF Running
  <2>3. /\ slots[a] = LoadedSlot
        /\ slots'[a] = EmptySlot
        /\ \A b \in AdGroups : b # a => slots'[b] = slots[b]
    BY <1>3, SlotsAreApart DEF AdsInv, TypeOK, SlotShapes
  <2>4. TypeOK'
    <3>1. slots' \in [AdGroups -> [kind : {"empty", "loading", "loaded"},
                                   task : Loads \cup {None}]]
      BY <1>3 DEF AdsInv, TypeOK, EmptySlot
    <3>2. claimed' \in [AdGroups -> Nat]
      BY <1>3 DEF AdsInv, TypeOK
    <3>. QED
      BY <1>1, <1>3, <2>2, <3>1, <3>2 DEF AdsInv, TypeOK
  <2>5. SlotShapes'
    BY <2>3 DEF AdsInv, SlotShapes, LoadingSlot, LoadedSlot, EmptySlot
  <2>6. WhoRunsHasAGroup' /\ OnlyOpenFlowsListen'
    BY <2>2 DEF AdsInv, WhoRunsHasAGroup, OnlyOpenFlowsListen
  <2>7. \A l \in Loads : l \in Ops /\ l # s
    BY AdsAssumption DEF Ops
  <2>8. SlotsTrackWork'
    <3>1. ASSUME NEW l \in Loads, NEW b \in AdGroups
          PROVE  slots'[b] = LoadingSlot(l) <=> Running(l)' /\ op'[l].ad = b
      <4>1. slots[b] = LoadingSlot(l) <=> Running(l) /\ op[l].ad = b
        BY DEF AdsInv, SlotsTrackWork
      <4>2. slots'[b] = LoadingSlot(l) <=> slots[b] = LoadingSlot(l)
        BY <2>3, SlotsAreApart
      <4>. QED
        BY <2>2, <2>7, <4>1, <4>2
    <3>2. \A t \in Shows : ~(Running(t) /\ op[t].ad = a)
      BY <1>3 DEF AdsInv, SlotsTrackWork
    <3>3. \A b \in AdGroups :
             b \in showing' <=> \E t \in Shows : Running(t)' /\ op'[t].ad = b
      <4>1. \A b \in AdGroups :
               b \in showing <=> \E t \in Shows : Running(t) /\ op[t].ad = b
        BY DEF AdsInv, SlotsTrackWork
      <4>2. \A t \in Shows : t # s =>
               /\ Running(t)' <=> Running(t)
               /\ op'[t].ad = op[t].ad
        BY <2>2 DEF Ops
      <4>. QED
        BY <1>1, <1>3, <2>2, <4>1, <4>2
    <3>4. \A s1, s2 \in Shows :
             Running(s1)' /\ Running(s2)' /\ op'[s1].ad = op'[s2].ad => s1 = s2
      BY <2>2, <3>2 DEF AdsInv, SlotsTrackWork, Ops
    <3>. QED
      BY <3>1, <3>3, <3>4 DEF SlotsTrackWork, LoadingSlot
  <2>9. SingleUse'
    <3>1. \A b \in AdGroups :
             completed[b] = claimed[b] + (IF slots[b] = LoadedSlot THEN 1 ELSE 0)
      BY DEF AdsInv, SingleUse
    <3>2. /\ claimed'[a] = claimed[a] + 1 /\ claimed[a] \in Nat
          /\ \A b \in AdGroups : b # a => claimed'[b] = claimed[b]
      BY <1>3 DEF AdsInv, TypeOK
    <3>3. EmptySlot # LoadedSlot
      BY DEF EmptySlot, LoadedSlot
    <3>4. \A b \in AdGroups :
             completed'[b] = claimed'[b] + (IF slots'[b] = LoadedSlot THEN 1 ELSE 0)
      <4>. TAKE b \in AdGroups
      <4>1. CASE b = a
        BY <1>1, <2>3, <3>1, <3>2, <3>3, <4>1
      <4>2. CASE b # a
        BY <1>1, <2>3, <3>1, <3>2, <4>2
      <4>. QED
        BY <4>1, <4>2
    <3>. QED
      BY <3>4 DEF SingleUse, LoadedSlot
  <2>10. NoOrphanedListener'
    <3>. SUFFICES ASSUME NEW y \in Ops, op'[y].listening
                  PROVE  /\ op'[y].outcome = "none"
                         /\ y \in Shows => op'[y].ad \in showing'
                         /\ y \in Loads => slots'[op'[y].ad] = LoadingSlot(y)
      BY DEF NoOrphanedListener, Settled, LoadingSlot
    <3>1. y # s /\ op'[y] = op[y]
      BY <2>2
    <3>2. /\ op[y].outcome = "none"
          /\ y \in Shows => op[y].ad \in showing
          /\ y \in Loads => slots[op[y].ad] = LoadingSlot(y)
      BY <3>1 DEF AdsInv, NoOrphanedListener, Settled
    <3>3. op[y].ad \in AdGroups
      BY <3>1 DEF AdsInv, WhoRunsHasAGroup, OnlyOpenFlowsListen, Running
    <3>. QED
      BY <1>3, <2>3, <3>1, <3>2, <3>3, SlotsAreApart
  <2>. QED
    BY <2>4, <2>5, <2>6, <2>8, <2>9, <2>10 DEF AdsInv
<1>. QED
  BY <1>2, <1>3 DEF Show

-----------------------------------------------------------------------------
(* A continuation ends the operation and gives back what it held.          *)
LEMMA Ending ==
    ASSUME AdsInv, NEW x \in Ops, Continues(x), End(x)
    PROVE  /\ op' \in [Ops -> OpType]
           /\ \A y \in Ops : y # x => op'[y] = op[y] /\ (Running(y)' <=> Running(y))
           /\ ~Running(x)' /\ ~op'[x].listening
           /\ Running(x) /\ op[x].ad \in AdGroups
           /\ WhoRunsHasAGroup' /\ OnlyOpenFlowsListen'
<1>. DEFINE r == [op[x] EXCEPT !.phase = "done", !.result = op[x].outcome]
<1>1. op \in [Ops -> OpType] /\ op[x] \in OpType
  BY DEF AdsInv, TypeOK
<1>2. r \in OpType /\ r.phase = "done" /\ r.listening = op[x].listening
  BY <1>1 DEF OpType
<1>3. op' = [op EXCEPT ![x] = r]
  BY <1>1 DEF End
<1>4. Running(x) /\ ~op[x].listening
  BY DEF Continues, Running, AdsInv, NoOrphanedListener
<1>5. /\ op' \in [Ops -> OpType]
      /\ \A y \in Ops : y # x => op'[y] = op[y] /\ (Running(y)' <=> Running(y))
      /\ ~Running(x)' /\ ~op'[x].listening
  BY <1>1, <1>2, <1>3, <1>4 DEF Running
<1>. QED
  BY <1>4, <1>5 DEF AdsInv, WhoRunsHasAGroup, OnlyOpenFlowsListen

LEMMA LoadContinuesKeeps ==
    ASSUME AdsInv, NEW l \in Loads, LoadContinues(l)
    PROVE  AdsInv'
<1>. DEFINE a == op[l].ad
<1>1. /\ l \in Ops /\ Continues(l) /\ End(l)
      /\ showing' = showing /\ awaits' = awaits /\ claimed' = claimed
  BY DEF LoadContinues, Ops
<1>2. /\ op' \in [Ops -> OpType]
      /\ \A y \in Ops : y # l => op'[y] = op[y] /\ (Running(y)' <=> Running(y))
      /\ ~Running(l)' /\ ~op'[l].listening
      /\ Running(l) /\ a \in AdGroups
      /\ WhoRunsHasAGroup' /\ OnlyOpenFlowsListen'
  BY <1>1, Ending
<1>3. slots[a] = LoadingSlot(l)
  BY <1>2 DEF AdsInv, SlotsTrackWork
<1>4. PICK slot \in {EmptySlot, LoadedSlot} :
         /\ slots' = [slots EXCEPT ![a] = slot]
         /\ completed' = IF slot = LoadedSlot
                         THEN [completed EXCEPT ![a] = @ + 1] ELSE completed
  BY <1>3, SlotsAreApart DEF LoadContinues
<1>5. /\ slots'[a] = slot
      /\ \A b \in AdGroups : b # a => slots'[b] = slots[b]
  BY <1>2, <1>4 DEF AdsInv, TypeOK
<1>6. TypeOK'
  <2>1. slots' \in [AdGroups -> [kind : {"empty", "loading", "loaded"},
                                 task : Loads \cup {None}]]
    <3>1. slot \in [kind : {"empty", "loading", "loaded"}, task : Loads \cup {None}]
      BY DEF EmptySlot, LoadedSlot
    <3>2. slots \in [AdGroups -> [kind : {"empty", "loading", "loaded"},
                                  task : Loads \cup {None}]]
      BY DEF AdsInv, TypeOK
    <3>. HIDE DEF a
    <3>. QED
      BY <1>4, <3>1, <3>2
  <2>2. completed' \in [AdGroups -> Nat]
    <3>1. completed \in [AdGroups -> Nat] /\ completed[a] + 1 \in Nat
      BY <1>2 DEF AdsInv, TypeOK
    <3>. HIDE DEF a
    <3>. QED
      BY <1>4, <3>1
  <2>. QED
    BY <1>1, <1>2, <2>1, <2>2 DEF AdsInv, TypeOK
<1>7. SlotShapes'
  BY <1>5 DEF AdsInv, SlotShapes, LoadingSlot, LoadedSlot, EmptySlot
<1>8. SlotsTrackWork'
  <2>1. ASSUME NEW m \in Loads, NEW b \in AdGroups
        PROVE  slots'[b] = LoadingSlot(m) <=> Running(m)' /\ op'[m].ad = b
    <3>1. slots[b] = LoadingSlot(m) <=> Running(m) /\ op[m].ad = b
      BY DEF AdsInv, SlotsTrackWork
    <3>2. slot # LoadingSlot(m)
      BY SlotsAreApart
    <3>3. CASE m = l
      BY <1>2, <1>5, <3>1, <3>2, <3>3
    <3>4. CASE m # l
      BY <1>2, <1>3, <1>5, <3>1, <3>2, <3>4, SlotsAreApart DEF Ops
    <3>. QED
      BY <3>3, <3>4
  <2>2. \A s \in Shows : s \in Ops /\ s # l
    BY AdsAssumption DEF Ops
  <2>3. \A b \in AdGroups :
           b \in showing' <=> \E s \in Shows : Running(s)' /\ op'[s].ad = b
    BY <1>1, <1>2, <2>2 DEF AdsInv, SlotsTrackWork
  <2>4. \A s1, s2 \in Shows :
           Running(s1)' /\ Running(s2)' /\ op'[s1].ad = op'[s2].ad => s1 = s2
    BY <1>2, <2>2 DEF AdsInv, SlotsTrackWork
  <2>. QED
    BY <2>1, <2>3, <2>4 DEF SlotsTrackWork, LoadingSlot
<1>9. SingleUse'
  <2>1. /\ completed \in [AdGroups -> Nat] /\ claimed \in [AdGroups -> Nat]
        /\ \A b \in AdGroups :
             completed[b] = claimed[b] + (IF slots[b] = LoadedSlot THEN 1 ELSE 0)
    BY DEF AdsInv, TypeOK, SingleUse
  <2>2. completed[a] = claimed[a]
    BY <1>2, <1>3, <2>1, SlotsAreApart
  <2>3. /\ completed'[a] = completed[a] + (IF slot = LoadedSlot THEN 1 ELSE 0)
        /\ \A b \in AdGroups : b # a => completed'[b] = completed[b]
    BY <1>2, <1>4, <2>1
  <2>4. \A b \in AdGroups :
           completed'[b] = claimed'[b] + (IF slots'[b] = LoadedSlot THEN 1 ELSE 0)
    BY <1>1, <1>5, <2>1, <2>2, <2>3
  <2>. QED
    BY <2>4 DEF SingleUse, LoadedSlot
<1>10. NoOrphanedListener'
  <2>. SUFFICES ASSUME NEW y \in Ops, op'[y].listening
                PROVE  /\ op'[y].outcome = "none"
                       /\ y \in Shows => op'[y].ad \in showing'
                       /\ y \in Loads => slots'[op'[y].ad] = LoadingSlot(y)
    BY DEF NoOrphanedListener, Settled, LoadingSlot
  <2>1. y # l /\ op'[y] = op[y]
    BY <1>2
  <2>2. /\ op[y].outcome = "none"
        /\ y \in Shows => op[y].ad \in showing
        /\ y \in Loads => slots[op[y].ad] = LoadingSlot(y)
    BY <2>1 DEF AdsInv, NoOrphanedListener, Settled
  <2>3. op[y].ad \in AdGroups
    BY <2>1 DEF AdsInv, WhoRunsHasAGroup, OnlyOpenFlowsListen, Running
  <2>. QED
    BY <1>1, <1>3, <1>5, <2>1, <2>2, <2>3, SlotsAreApart
<1>. QED
  BY <1>2, <1>6, <1>7, <1>8, <1>9, <1>10 DEF AdsInv

LEMMA ShowContinuesKeeps ==
    ASSUME AdsInv, NEW s \in Shows, ShowContinues(s)
    PROVE  AdsInv'
<1>. DEFINE a == op[s].ad
<1>1. /\ s \in Ops /\ Continues(s) /\ End(s)
      /\ showing' = showing \ {a}
      /\ slots' = slots /\ awaits' = awaits
      /\ completed' = completed /\ claimed' = claimed
  BY DEF ShowContinues, Ops
<1>2. /\ op' \in [Ops -> OpType]
      /\ \A y \in Ops : y # s => op'[y] = op[y] /\ (Running(y)' <=> Running(y))
      /\ ~Running(s)' /\ ~op'[s].listening
      /\ Running(s) /\ a \in AdGroups
      /\ WhoRunsHasAGroup' /\ OnlyOpenFlowsListen'
  BY <1>1, Ending
<1>3. \A t \in Shows : t # s /\ Running(t) => op[t].ad # a
  BY <1>2 DEF AdsInv, SlotsTrackWork
<1>4. TypeOK' /\ SlotShapes' /\ SingleUse'
  BY <1>1, <1>2 DEF AdsInv, TypeOK, SlotShapes, SingleUse, LoadingSlot,
                    LoadedSlot, EmptySlot
<1>5. SlotsTrackWork'
  <2>1. \A l \in Loads : l \in Ops /\ l # s
    BY AdsAssumption DEF Ops
  <2>2. \A l \in Loads, b \in AdGroups :
           slots'[b] = LoadingSlot(l) <=> Running(l)' /\ op'[l].ad = b
    BY <1>1, <1>2, <2>1 DEF AdsInv, SlotsTrackWork
  <2>3. \A t \in Shows : /\ Running(t)' <=> Running(t) /\ t # s
                         /\ Running(t)' => op'[t].ad = op[t].ad
    BY <1>2 DEF Ops
  <2>4. \A b \in AdGroups :
           b \in showing' <=> \E t \in Shows : Running(t)' /\ op'[t].ad = b
    <3>1. \A b \in AdGroups :
             b \in showing <=> \E t \in Shows : Running(t) /\ op[t].ad = b
      BY DEF AdsInv, SlotsTrackWork
    <3>. QED
      BY <1>1, <1>3, <2>3, <3>1
  <2>5. \A s1, s2 \in Shows :
           Running(s1)' /\ Running(s2)' /\ op'[s1].ad = op'[s2].ad => s1 = s2
    BY <2>3 DEF AdsInv, SlotsTrackWork
  <2>. QED
    BY <2>2, <2>4, <2>5 DEF SlotsTrackWork, LoadingSlot
<1>6. NoOrphanedListener'
  <2>. SUFFICES ASSUME NEW y \in Ops, op'[y].listening
                PROVE  /\ op'[y].outcome = "none"
                       /\ y \in Shows => op'[y].ad \in showing'
                       /\ y \in Loads => slots'[op'[y].ad] = LoadingSlot(y)
    BY DEF NoOrphanedListener, Settled, LoadingSlot
  <2>1. y # s /\ op'[y] = op[y]
    BY <1>2
  <2>2. /\ op[y].outcome = "none"
        /\ y \in Shows => op[y].ad \in showing
        /\ y \in Loads => slots[op[y].ad] = LoadingSlot(y)
    BY <2>1 DEF AdsInv, NoOrphanedListener, Settled
  <2>3. Running(y)
    BY <2>1 DEF AdsInv, OnlyOpenFlowsListen, Running
  <2>. QED
    BY <1>1, <1>3, <2>1, <2>2, <2>3
<1>. QED
  BY <1>2, <1>4, <1>5, <1>6 DEF AdsInv

-----------------------------------------------------------------------------
(* What the provider tells a load or a show within its flow.               *)
LEMMA RewardKeeps ==
    ASSUME AdsInv, NEW s \in Shows, UserEarnedReward(s)
    PROVE  AdsInv'
<1>. DEFINE r == [op[s] EXCEPT !.earned = TRUE]
<1>1. /\ s \in Ops /\ op \in [Ops -> OpType] /\ op[s] \in OpType
      /\ op[s].listening => op[s].phase = "open" /\ op[s].outcome = "none"
  BY DEF AdsInv, TypeOK, OnlyOpenFlowsListen, NoOrphanedListener, Settled, Ops
<1>2. /\ r \in OpType /\ r.phase = op[s].phase /\ r.ad = op[s].ad
      /\ r.listening => r.phase = "open" /\ r.outcome = "none"
  BY <1>1 DEF OpType
<1>3. op' = [op EXCEPT ![s] = r] /\ InFlow(s) /\ UNCHANGED adapterVars
  BY DEF UserEarnedReward
<1>. QED
  BY <1>1, <1>2, <1>3, OpMoves DEF InFlow, Running, RunningPhases

LEMMA AdsInit == Init => AdsInv
<1>. SUFFICES ASSUME Init PROVE AdsInv
  OBVIOUS
<1>1. TypeOK
  BY DEF Init, TypeOK, IdleOp, OpType, EmptySlot
<1>2. \A x \in Ops : op[x].phase = "idle" /\ ~op[x].listening
  BY DEF Init, IdleOp
<1>3. SlotShapes /\ SingleUse
  BY SlotsAreApart DEF Init, SlotShapes, SingleUse, EmptySlot, LoadedSlot
<1>4. WhoRunsHasAGroup /\ OnlyOpenFlowsListen /\ NoOrphanedListener
  BY <1>2 DEF WhoRunsHasAGroup, OnlyOpenFlowsListen, NoOrphanedListener, Running
<1>5. SlotsTrackWork
  BY <1>2, SlotsAreApart DEF Init, SlotsTrackWork, Running, Ops
<1>. QED
  BY <1>1, <1>3, <1>4, <1>5 DEF AdsInv

LEMMA AdsStep == AdsInv /\ [Next]_vars => AdsInv'
<1>. SUFFICES ASSUME AdsInv, [Next]_vars PROVE AdsInv'
  OBVIOUS
<1>1. CASE UNCHANGED vars
  BY <1>1 DEF vars, AdsInv, TypeOK, SlotShapes, WhoRunsHasAGroup,
              OnlyOpenFlowsListen, SlotsTrackWork, SingleUse,
              NoOrphanedListener, Running, Settled, LoadingSlot, LoadedSlot,
              EmptySlot
<1>2. ASSUME NEW x \in Ops, OpStep(x) PROVE AdsInv'
  BY <1>2, OpSteps
<1>3. ASSUME NEW l \in Loads, LoadStep(l) PROVE AdsInv'
  <2>1. l \in Ops
    BY DEF Ops
  <2>2. CASE \E a \in AdGroups : Load(l, a)
    BY <2>2, LoadKeeps
  <2>3. CASE ProviderLoaded(l)
    BY <2>1, <2>3, SettlingMoves DEF ProviderLoaded
  <2>4. CASE LoadContinues(l)
    BY <2>4, LoadContinuesKeeps
  <2>. QED
    BY <1>3, <2>2, <2>3, <2>4 DEF LoadStep
<1>4. ASSUME NEW s \in Shows, ShowStep(s) PROVE AdsInv'
  <2>1. s \in Ops
    BY DEF Ops
  <2>2. CASE \E a \in AdGroups : Show(s, a)
    BY <2>2, ShowKeeps
  <2>3. CASE UserEarnedReward(s)
    BY <2>3, RewardKeeps
  <2>4. CASE Dismissed(s)
    BY <2>1, <2>4, SettlingMoves DEF Dismissed
  <2>5. CASE FailedToShow(s)
    BY <2>1, <2>5, SettlingMoves DEF FailedToShow
  <2>6. CASE ShowContinues(s)
    BY <2>6, ShowContinuesKeeps
  <2>. QED
    BY <1>4, <2>2, <2>3, <2>4, <2>5, <2>6 DEF ShowStep
<1>. QED
  BY <1>1, <1>2, <1>3, <1>4 DEF Next

LEMMA AdsInvariance == Spec => []AdsInv
  BY AdsInit, AdsStep, PTL DEF Spec

-----------------------------------------------------------------------------
(* The Map, the Set, the tasks and the shows always have their types.      *)
THEOREM AdsAreTyped == Spec => []TypeOK
<1>1. AdsInv => TypeOK
  BY DEF AdsInv
<1>. QED
  BY <1>1, AdsInvariance, PTL

(* Slot and mark follow the operations that own them: see SlotsTrackWork.  *)
THEOREM AdsTrackTheirWork == Spec => []SlotsTrackWork
<1>1. AdsInv => SlotsTrackWork
  BY DEF AdsInv
<1>. QED
  BY <1>1, AdsInvariance, PTL

(* A loaded ad is shown once at most.                                      *)
THEOREM AdsAreShownOnce == Spec => []SingleUse
<1>1. AdsInv => SingleUse
  BY DEF AdsInv
<1>. QED
  BY <1>1, AdsInvariance, PTL

(* Nothing listens at the provider but an unsettled flow whose slot or mark*)
(* is held.                                                                *)
THEOREM AdsListenForSomebody == Spec => []NoOrphanedListener
<1>1. AdsInv => NoOrphanedListener
  BY DEF AdsInv
<1>. QED
  BY <1>1, AdsInvariance, PTL

-----------------------------------------------------------------------------
(***************************************************************************)
(* The contract.  Added to the invariant: how an operation decided is true *)
(* of its loader and its flow, and whoever waits, waits for a task that has*)
(* begun, the task's own call among them.                                  *)
(***************************************************************************)
RecordIsTrue(r) ==
    /\ r.phase \in RunningPhases \cup {"idle"} => r.result = "none"
    /\ r.phase = "loader" => r.outcome \in {"none", "error", "timeout"}
    /\ r.outcome = "timeout" => r.overdue
    /\ r.outcome = "rewarded" => r.earned
    /\ r.outcome = "dismissed" => ~r.earned

DecisionsAreTrue ==
    /\ \A x \in Ops : RecordIsTrue(op[x])
    /\ \A l \in Loads : op[l].outcome \in {"none", "ok", "error", "timeout"}
    /\ \A s \in Shows : op[s].outcome # "ok"

TasksAreAwaited ==
    \A l \in Loads :
        /\ Running(l) => awaits[l] = l
        /\ awaits[l] # None => /\ op[awaits[l]].phase # "idle"
                              /\ awaits[awaits[l]] = awaits[l]

AdsIInv == AdsInv /\ DecisionsAreTrue /\ TasksAreAwaited

seenVars == <<Ready, Waiting, Request, Screen, Told>>

(* A step of an operation within its loader and its flow: its record       *)
(* becomes r, and what the contract sees of it is the record's.            *)
WithinFlow(x, r) ==
    /\ Running(x)
    /\ r \in OpType
    /\ r.phase \in RunningPhases
    /\ r.ad = op[x].ad
    /\ r.result = op[x].result
    /\ op' = [op EXCEPT ![x] = r]
    /\ UNCHANGED adapterVars

Asked(r) == r.phase \in {"registering", "open"}

(* What may show of such a step, and only one thing at a time.             *)
Unseen(o, r) ==
    Asked(r) = Asked(o) /\ r.overdue = o.overdue /\ r.earned = o.earned

TurnsLate(o, r) ==
    Asked(r) = Asked(o) /\ r.overdue = TRUE /\ r.earned = o.earned

TurnsAsked(o, r) ==
    /\ ~Asked(o) /\ Asked(r)
    /\ o.overdue = FALSE /\ r.overdue = FALSE /\ r.earned = o.earned

TurnsEarned(o, r) ==
    /\ Asked(o) /\ Asked(r)
    /\ r.overdue = o.overdue /\ r.earned = TRUE

Moves(o, r) ==
    Unseen(o, r) \/ TurnsLate(o, r) \/ TurnsAsked(o, r) \/ TurnsEarned(o, r)

FlowStep(x) ==
    \/ OpStep(x)
    \/ x \in Loads /\ ProviderLoaded(x)
    \/ x \in Shows /\ (UserEarnedReward(x) \/ Dismissed(x) \/ FailedToShow(x))

(* The record r is one an operation x may have.                            *)
FitsOp(x, r) ==
    /\ RecordIsTrue(r)
    /\ x \in Loads => r.outcome \in {"none", "ok", "error", "timeout"}
    /\ x \in Shows => r.outcome # "ok"
    /\ x \in Loads => ~TurnsEarned(op[x], r) \/ Unseen(op[x], r)

LEMMA SettlingIsWithinFlow ==
    ASSUME AdsIInv, NEW x \in Ops,
           NEW outcome \in {"ok", "error", "timeout", "rewarded", "dismissed",
                            "failed"},
           InFlow(x), SettleFlow(x, outcome), UNCHANGED adapterVars,
           outcome = "timeout" => op[x].overdue,
           outcome = "rewarded" => op[x].earned,
           outcome = "dismissed" => ~op[x].earned,
           x \in Loads => outcome \in {"ok", "error", "timeout"},
           x \in Shows => outcome # "ok"
    PROVE  \E r : WithinFlow(x, r) /\ FitsOp(x, r) /\ Moves(op[x], r)
<1>. DEFINE r == [op[x] EXCEPT !.outcome = IF Settled(x) THEN @ ELSE outcome,
                               !.listening = FALSE]
<1>1. op \in [Ops -> OpType] /\ op[x] \in OpType
  BY DEF AdsIInv, AdsInv, TypeOK
<1>2. /\ r \in OpType /\ r.phase = op[x].phase /\ r.ad = op[x].ad
      /\ r.result = op[x].result /\ r.overdue = op[x].overdue
      /\ r.earned = op[x].earned
      /\ r.outcome = IF Settled(x) THEN op[x].outcome ELSE outcome
  BY <1>1 DEF OpType
<1>3. op' = [op EXCEPT ![x] = r]
  BY <1>1 DEF SettleFlow
<1>4. RecordIsTrue(op[x])
  BY DEF AdsIInv, DecisionsAreTrue
<1>5. Running(x) /\ op[x].phase \in {"registering", "open"}
  BY DEF InFlow, Running
<1>. HIDE DEF r
<1>6. WithinFlow(x, r)
  BY <1>2, <1>3, <1>5 DEF WithinFlow, RunningPhases
<1>7. RecordIsTrue(r)
  BY <1>2, <1>4, <1>5 DEF RecordIsTrue
<1>8. Unseen(op[x], r)
  BY <1>2 DEF Unseen, Asked
<1>9. FitsOp(x, r)
  BY <1>2, <1>7, <1>8 DEF FitsOp, AdsIInv, DecisionsAreTrue
<1>. QED
  BY <1>6, <1>8, <1>9 DEF Moves

LEMMA StepsAreWithinFlow ==
    ASSUME AdsIInv, NEW x \in Ops, FlowStep(x)
    PROVE  \E r : WithinFlow(x, r) /\ FitsOp(x, r) /\ Moves(op[x], r)
<1>0. Loads \cap Shows = {}
  BY AdsAssumption
<1>1. op \in [Ops -> OpType] /\ op[x] \in OpType
  BY DEF AdsIInv, AdsInv, TypeOK
<1>2. /\ RecordIsTrue(op[x])
      /\ x \in Loads => op[x].outcome \in {"none", "ok", "error", "timeout"}
      /\ x \in Shows => op[x].outcome # "ok"
  BY DEF AdsIInv, DecisionsAreTrue
<1>3. CASE DeadlinePasses(x)
  <2>. DEFINE r == [op[x] EXCEPT !.overdue = TRUE]
  <2>1. /\ r \in OpType /\ r.phase = op[x].phase /\ r.ad = op[x].ad
        /\ r.result = op[x].result /\ r.overdue = TRUE
        /\ r.earned = op[x].earned /\ r.outcome = op[x].outcome
    BY <1>1 DEF OpType
  <2>2. WithinFlow(x, r)
    BY <1>3, <2>1 DEF WithinFlow, DeadlinePasses, Running, RunningPhases
  <2>. HIDE DEF r
  <2>3. RecordIsTrue(r) /\ TurnsLate(op[x], r)
    BY <1>2, <2>1 DEF RecordIsTrue, TurnsLate, Asked
  <2>4. FitsOp(x, r)
    BY <1>1, <1>2, <1>3, <2>1, <2>3 DEF FitsOp, TurnsEarned, DeadlinePasses, OpType
  <2>. QED
    BY <2>2, <2>3, <2>4 DEF Moves
<1>4. ASSUME NEW outcome \in {"error", "timeout"},
             op[x].phase = "loader", ~Settled(x), Decide(x, outcome),
             outcome = "timeout" => op[x].overdue, UNCHANGED adapterVars
      PROVE  \E r : WithinFlow(x, r) /\ FitsOp(x, r) /\ Moves(op[x], r)
  <2>. DEFINE r == [op[x] EXCEPT !.outcome = outcome]
  <2>1. /\ r \in OpType /\ r.phase = op[x].phase /\ r.ad = op[x].ad
        /\ r.result = op[x].result /\ r.overdue = op[x].overdue
        /\ r.earned = op[x].earned /\ r.outcome = outcome
    BY <1>1, <1>4 DEF OpType
  <2>2. WithinFlow(x, r)
    BY <1>4, <2>1 DEF WithinFlow, Decide, Running, RunningPhases
  <2>. HIDE DEF r
  <2>3. RecordIsTrue(r) /\ Unseen(op[x], r)
    BY <1>2, <1>4, <2>1 DEF RecordIsTrue, Unseen, Asked
  <2>4. FitsOp(x, r)
    BY <1>4, <2>1, <2>3 DEF FitsOp
  <2>. QED
    BY <2>2, <2>3, <2>4 DEF Moves
<1>5. CASE LoaderFails(x) \/ LoaderTimeout(x)
  BY <1>4, <1>5 DEF LoaderFails, LoaderTimeout
<1>6. CASE LoaderResolves(x)
  <2>1. CASE op[x].overdue /\ Decide(x, "timeout")
    BY <1>4, <1>6, <2>1 DEF LoaderResolves
  <2>2. CASE ~op[x].overdue /\ op' = [op EXCEPT ![x].phase = "registering"]
    <3>. DEFINE r == [op[x] EXCEPT !.phase = "registering"]
    <3>1. /\ r \in OpType /\ r.phase = "registering" /\ r.ad = op[x].ad
          /\ r.result = op[x].result /\ r.overdue = op[x].overdue
          /\ r.earned = op[x].earned /\ r.outcome = op[x].outcome
      BY <1>1 DEF OpType
    <3>2. WithinFlow(x, r)
      BY <1>6, <2>2, <3>1 DEF WithinFlow, LoaderResolves, Running, RunningPhases
    <3>. HIDE DEF r
    <3>3. op[x].overdue = FALSE
      BY <1>1, <2>2 DEF OpType
    <3>4. RecordIsTrue(r) /\ TurnsAsked(op[x], r)
      BY <1>2, <1>6, <3>1, <3>3
        DEF RecordIsTrue, TurnsAsked, Asked, LoaderResolves, Settled, RunningPhases
    <3>5. FitsOp(x, r)
      BY <1>2, <3>1, <3>4 DEF FitsOp, TurnsEarned, TurnsAsked
    <3>. QED
      BY <3>2, <3>4, <3>5 DEF Moves
  <2>. QED
    BY <1>6, <2>1, <2>2 DEF LoaderResolves
<1>7. CASE RegisterReturns(x)
  <2>. DEFINE r == [op[x] EXCEPT !.phase = "open", !.listening = ~Settled(x)]
  <2>1. /\ r \in OpType /\ r.phase = "open" /\ r.ad = op[x].ad
        /\ r.result = op[x].result /\ r.overdue = op[x].overdue
        /\ r.earned = op[x].earned /\ r.outcome = op[x].outcome
    BY <1>1 DEF OpType, Settled
  <2>2. WithinFlow(x, r)
    BY <1>1, <1>7, <2>1 DEF WithinFlow, RegisterReturns, Running, RunningPhases
  <2>. HIDE DEF r
  <2>3. RecordIsTrue(r) /\ Unseen(op[x], r)
    BY <1>2, <1>7, <2>1 DEF RecordIsTrue, Unseen, Asked, RegisterReturns, RunningPhases
  <2>4. FitsOp(x, r)
    BY <1>2, <2>1, <2>3 DEF FitsOp
  <2>. QED
    BY <2>2, <2>3, <2>4 DEF Moves
<1>8. CASE RegisterThrows(x)
  <2>. DEFINE r == [op[x] EXCEPT !.phase = "open",
                                 !.outcome = IF Settled(x) THEN @ ELSE "error"]
  <2>1. /\ r \in OpType /\ r.phase = "open" /\ r.ad = op[x].ad
        /\ r.result = op[x].result /\ r.overdue = op[x].overdue
        /\ r.earned = op[x].earned
        /\ r.outcome = IF Settled(x) THEN op[x].outcome ELSE "error"
    BY <1>1 DEF OpType
  <2>2. WithinFlow(x, r)
    BY <1>1, <1>8, <2>1 DEF WithinFlow, RegisterThrows, Running, RunningPhases
  <2>. HIDE DEF r
  <2>3. RecordIsTrue(r) /\ Unseen(op[x], r)
    BY <1>2, <1>8, <2>1 DEF RecordIsTrue, Unseen, Asked, RegisterThrows, RunningPhases
  <2>4. FitsOp(x, r)
    BY <1>2, <2>1, <2>3 DEF FitsOp
  <2>. QED
    BY <2>2, <2>3, <2>4 DEF Moves
<1>9. CASE FlowTimeout(x) \/ ProviderError(x)
  BY <1>9, SettlingIsWithinFlow DEF FlowTimeout, ProviderError, InFlow
<1>10. CASE x \in Loads /\ ProviderLoaded(x)
  BY <1>0, <1>10, SettlingIsWithinFlow DEF ProviderLoaded
<1>11. CASE x \in Shows /\ (Dismissed(x) \/ FailedToShow(x))
  BY <1>0, <1>11, SettlingIsWithinFlow DEF Dismissed, FailedToShow
<1>12. CASE x \in Shows /\ UserEarnedReward(x)
  <2>. DEFINE r == [op[x] EXCEPT !.earned = TRUE]
  <2>1. /\ r \in OpType /\ r.phase = op[x].phase /\ r.ad = op[x].ad
        /\ r.result = op[x].result /\ r.overdue = op[x].overdue
        /\ r.earned = TRUE /\ r.outcome = op[x].outcome
    BY <1>1 DEF OpType
  <2>2. WithinFlow(x, r)
    BY <1>12, <2>1
      DEF WithinFlow, UserEarnedReward, InFlow, Running, RunningPhases
  <2>. HIDE DEF r
  <2>3. RecordIsTrue(r) /\ TurnsEarned(op[x], r)
    BY <1>2, <1>12, <2>1
      DEF RecordIsTrue, TurnsEarned, Asked, UserEarnedReward, InFlow, Settled
  <2>4. FitsOp(x, r)
    BY <1>0, <1>2, <1>12, <2>1, <2>3 DEF FitsOp
  <2>. QED
    BY <2>2, <2>3, <2>4 DEF Moves
<1>. QED
  BY <1>3, <1>5, <1>6, <1>7, <1>8, <1>9, <1>10, <1>11, <1>12 DEF FlowStep, OpStep

LEMMA WithinFlowKeeps ==
    ASSUME AdsIInv, NEW x \in Ops, NEW r, WithinFlow(x, r), FitsOp(x, r)
    PROVE  DecisionsAreTrue' /\ TasksAreAwaited'
<1>1. /\ op \in [Ops -> OpType]
      /\ op'[x] = r
      /\ \A y \in Ops : y # x => op'[y] = op[y]
  BY DEF AdsIInv, AdsInv, TypeOK, WithinFlow
<1>2. DecisionsAreTrue'
  BY <1>1 DEF AdsIInv, DecisionsAreTrue, FitsOp, Ops, RecordIsTrue
<1>3. \A y \in Ops : /\ Running(y)' <=> Running(y)
                     /\ op'[y].phase = "idle" <=> op[y].phase = "idle"
  BY <1>1 DEF WithinFlow, Running, RunningPhases
<1>4. \A l \in Loads : l \in Ops /\ awaits[l] \in Loads \cup {None}
  BY DEF AdsIInv, AdsInv, TypeOK, Ops
<1>5. TasksAreAwaited'
  BY <1>3, <1>4 DEF AdsIInv, TasksAreAwaited, WithinFlow, adapterVars, Ops
<1>. QED
  BY <1>2, <1>5

(* What a call is told depends on the result of one operation only.        *)
LEMMA TasksAreOps ==
    ASSUME AdsIInv, NEW c \in Ops
    PROVE  TaskOf(c) \in Ops
BY DEF AdsIInv, AdsInv, TypeOK, TaskOf, Ops

LEMMA SlotsHaveShape ==
    ASSUME AdsIInv, NEW a \in AdGroups
    PROVE  /\ slots[a].kind = "loading" =>
                slots[a].task \in Loads /\ slots[a] = LoadingSlot(slots[a].task)
           /\ slots[a].kind = "loaded" <=> slots[a] = LoadedSlot
           /\ slots[a].kind = "empty" <=> slots[a] = EmptySlot
           /\ slots[a].kind \in {"empty", "loading", "loaded"}
BY DEF AdsIInv, AdsInv, SlotShapes, EmptySlot, LoadedSlot, LoadingSlot

LEMMA WithinFlowSeen ==
    ASSUME AdsIInv, NEW x \in Ops, NEW r, WithinFlow(x, r)
    PROVE  /\ UNCHANGED <<Ready, Waiting, Told>>
           /\ x \in Shows =>
                /\ UNCHANGED Request
                /\ Screen[x] = [ad |-> op[x].ad, asked |-> Asked(op[x]),
                                late |-> op[x].overdue, earned |-> op[x].earned]
                /\ Screen' = [Screen EXCEPT ![x] =
                      [ad |-> op[x].ad, asked |-> Asked(r),
                       late |-> r.overdue, earned |-> r.earned]]
           /\ x \in Loads =>
                /\ UNCHANGED Screen
                /\ Request[op[x].ad] = [asked |-> Asked(op[x]), late |-> op[x].overdue]
                /\ Request' = [Request EXCEPT ![op[x].ad] =
                      [asked |-> Asked(r), late |-> r.overdue]]
<1>0. Loads \cap Shows = {} /\ Loads \subseteq Ops /\ Shows \subseteq Ops
  BY AdsAssumption DEF Ops
<1>1. /\ op \in [Ops -> OpType]
      /\ op'[x] = r
      /\ \A y \in Ops : y # x => op'[y] = op[y]
      /\ slots' = slots /\ awaits' = awaits
  BY DEF AdsIInv, AdsInv, TypeOK, WithinFlow, adapterVars
<1>2. UNCHANGED Ready /\ UNCHANGED Waiting
  BY <1>1 DEF Ready, Waiting, LoadedSlot, LoadingSlot
<1>3. UNCHANGED Told
  <2>1. \A y \in Ops : op'[y].result = op[y].result
    BY <1>1 DEF WithinFlow
  <2>2. \A c \in Ops : TaskOf(c)' = TaskOf(c) /\ TaskOf(c) \in Ops
    BY <1>1, TasksAreOps DEF TaskOf
  <2>. QED
    BY <2>1, <2>2 DEF Told
<1>4. Running(x) /\ Running(x)' /\ op'[x].ad = op[x].ad
  BY <1>1 DEF WithinFlow, Running, RunningPhases
<1>5. ASSUME NEW a \in AdGroups, slots[a].kind = "loading" => slots[a].task # x
      PROVE  Request'[a] = Request[a]
  <2>1. slots[a].kind = "loading" => op'[slots[a].task] = op[slots[a].task]
    BY <1>0, <1>1, <1>5, SlotsHaveShape
  <2>. QED
    BY <1>1, <2>1 DEF Request, InFlow
<1>6. ASSUME NEW s \in Shows, s # x
      PROVE  Screen'[s] = Screen[s]
  BY <1>0, <1>1, <1>6 DEF Screen, InFlow, Running
<1>7. CASE x \in Shows
  <2>1. UNCHANGED Request
    <3>1. \A a \in AdGroups : slots[a].kind = "loading" => slots[a].task # x
      BY <1>0, <1>7, SlotsHaveShape
    <3>2. \A a \in AdGroups : Request'[a] = Request[a]
      BY <1>5, <3>1
    <3>. QED
      BY <3>2 DEF Request
  <2>2. Screen[x] = [ad |-> op[x].ad, asked |-> Asked(op[x]),
                     late |-> op[x].overdue, earned |-> op[x].earned]
    BY <1>4, <1>7 DEF Screen, InFlow, Asked
  <2>3. Screen'[x] = [ad |-> op[x].ad, asked |-> Asked(r),
                      late |-> r.overdue, earned |-> r.earned]
    BY <1>1, <1>4, <1>7 DEF Screen, InFlow, Asked
  <2>. DEFINE v == [ad |-> op[x].ad, asked |-> Asked(r),
                    late |-> r.overdue, earned |-> r.earned]
  <2>. HIDE DEF v
  <2>4. Screen'[x] = v /\ \A s \in Shows : s # x => Screen'[s] = Screen[s]
    BY <1>6, <2>3 DEF v
  <2>5. DOMAIN Screen = Shows /\ DOMAIN Screen' = Shows
    BY DEF Screen
  <2>6. Screen = [s \in Shows |-> Screen[s]] /\ Screen' = [s \in Shows |-> Screen'[s]]
    BY DEF Screen
  <2>7. Screen' = [Screen EXCEPT ![x] = v]
    BY <1>7, <2>4, <2>5, <2>6
  <2>. QED
    BY <1>0, <1>2, <1>3, <1>7, <2>1, <2>2, <2>7 DEF v
<1>8. CASE x \in Loads
  <2>. DEFINE a == op[x].ad
              v == [asked |-> Asked(r), late |-> r.overdue]
  <2>1. a \in AdGroups /\ slots[a] = LoadingSlot(x)
    BY <1>4, <1>8 DEF AdsIInv, AdsInv, WhoRunsHasAGroup, SlotsTrackWork
  <2>2. slots[a].kind = "loading" /\ slots[a].task = x
    BY <2>1 DEF LoadingSlot
  <2>3. Request[a] = [asked |-> Asked(op[x]), late |-> op[x].overdue]
    BY <2>1, <2>2 DEF Request, InFlow, Asked
  <2>4. Request'[a] = v
    BY <1>1, <2>1, <2>2 DEF Request, InFlow, Asked
  <2>5. \A b \in AdGroups : b # a => Request'[b] = Request[b]
    <3>1. \A b \in AdGroups : b # a /\ slots[b].kind = "loading" => slots[b].task # x
      BY <1>4, <1>8, SlotsHaveShape DEF AdsIInv, AdsInv, SlotsTrackWork
    <3>. QED
      BY <1>5, <3>1
  <2>6. UNCHANGED Screen
    <3>1. \A s \in Shows : Screen'[s] = Screen[s]
      BY <1>0, <1>6, <1>8
    <3>. QED
      BY <3>1 DEF Screen
  <2>7. Request = [b \in AdGroups |-> Request[b]] /\ Request' = [b \in AdGroups |-> Request'[b]]
    BY DEF Request
  <2>. HIDE DEF a, v
  <2>8. Request' = [Request EXCEPT ![a] = v]
    BY <2>1, <2>4, <2>5, <2>7
  <2>. QED
    BY <1>0, <1>2, <1>3, <1>8, <2>3, <2>6, <2>8 DEF a, v
<1>. QED
  BY <1>7, <1>8 DEF Ops

(* One field of what the contract sees changes.                            *)
ScreenType == [ad : AdGroups \cup {None}, asked : BOOLEAN, late : BOOLEAN,
               earned : BOOLEAN]

RequestType == [asked : BOOLEAN, late : BOOLEAN]

LEMMA ScreenFields ==
    ASSUME NEW v \in ScreenType, NEW w \in ScreenType, v.ad = w.ad
    PROVE  /\ v.asked = w.asked /\ v.late /\ v.earned = w.earned =>
                v = [w EXCEPT !.late = TRUE]
           /\ v.asked /\ v.late = w.late /\ v.earned = w.earned =>
                v = [w EXCEPT !.asked = TRUE]
           /\ v.asked = w.asked /\ v.late = w.late /\ v.earned =>
                v = [w EXCEPT !.earned = TRUE]
BY DEF ScreenType

LEMMA RequestFields ==
    ASSUME NEW v \in RequestType, NEW w \in RequestType
    PROVE  /\ v.asked = w.asked /\ v.late => v = [w EXCEPT !.late = TRUE]
           /\ v.asked /\ v.late = w.late => v = [w EXCEPT !.asked = TRUE]
BY DEF RequestType

LEMMA OffTakesAnAd ==
    ASSUME NEW a \in AdGroups
    PROVE  [Contract!Off EXCEPT !.ad = a] =
              [ad |-> a, asked |-> FALSE, late |-> FALSE, earned |-> FALSE]
<1>1. Contract!Off \in ScreenType
  BY DEF Contract!Off, ScreenType
<1>2. /\ Contract!Off.asked = FALSE /\ Contract!Off.late = FALSE
      /\ Contract!Off.earned = FALSE
  BY DEF Contract!Off
<1>. HIDE DEF Contract!Off
<1>. DEFINE v == [ad |-> a, asked |-> FALSE, late |-> FALSE, earned |-> FALSE]
<1>3. v \in ScreenType /\ v.ad = a /\ v.asked = FALSE /\ v.late = FALSE /\ v.earned = FALSE
  BY DEF ScreenType
<1>. HIDE DEF v
<1>4. v = [Contract!Off EXCEPT !.ad = a]
  BY <1>1, <1>2, <1>3 DEF ScreenType
<1>. QED
  BY <1>4 DEF v

(* Such a step is one of the contract's, or does not show.                 *)
LEMMA WithinFlowIsContracted ==
    ASSUME AdsIInv, NEW x \in Ops, NEW r,
           WithinFlow(x, r), FitsOp(x, r), Moves(op[x], r)
    PROVE  Contract!ContractNext \/ UNCHANGED seenVars
<1>1. /\ r \in OpType /\ op[x] \in OpType
      /\ op[x].ad \in AdGroups /\ op[x].ad # None
  BY AdsAssumption
    DEF AdsIInv, AdsInv, TypeOK, WithinFlow, WhoRunsHasAGroup
<1>2. /\ r.overdue \in BOOLEAN /\ r.earned \in BOOLEAN /\ Asked(r) \in BOOLEAN
      /\ op[x].overdue \in BOOLEAN /\ op[x].earned \in BOOLEAN
      /\ Asked(op[x]) \in BOOLEAN
  BY <1>1 DEF OpType, Asked
<1>3. CASE x \in Shows
  <2>. DEFINE v == [ad |-> op[x].ad, asked |-> Asked(r),
                    late |-> r.overdue, earned |-> r.earned]
              w == [ad |-> op[x].ad, asked |-> Asked(op[x]),
                    late |-> op[x].overdue, earned |-> op[x].earned]
  <2>1. /\ UNCHANGED <<Ready, Waiting, Told, Request>>
        /\ Screen[x] = w
        /\ Screen' = [Screen EXCEPT ![x] = v]
    BY <1>3, WithinFlowSeen
  <2>2. Screen = [s \in Shows |-> Screen[s]]
    BY DEF Screen
  <2>3. /\ v \in ScreenType /\ w \in ScreenType
        /\ v.ad = op[x].ad /\ w.ad = op[x].ad
        /\ v.asked = Asked(r) /\ w.asked = Asked(op[x])
        /\ v.late = r.overdue /\ w.late = op[x].overdue
        /\ v.earned = r.earned /\ w.earned = op[x].earned
    BY <1>1, <1>2 DEF ScreenType
  <2>4. Unseen(op[x], r) => v = w
    BY DEF Unseen
  <2>. HIDE DEF v, w
  <2>5. CASE Unseen(op[x], r)
    BY <1>3, <2>1, <2>2, <2>4, <2>5 DEF seenVars
  <2>6. CASE TurnsLate(op[x], r)
    <3>1. v = [w EXCEPT !.late = TRUE]
      BY <2>3, <2>6, ScreenFields DEF TurnsLate
    <3>2. Contract!ShowLate(x)
      BY <1>1, <2>1, <2>3, <3>1 DEF Contract!ShowLate
    <3>. QED
      BY <1>3, <3>2 DEF Contract!ContractNext
  <2>7. CASE TurnsAsked(op[x], r)
    <3>1. v = [w EXCEPT !.asked = TRUE]
      <4>1. v.ad = w.ad /\ v.asked /\ v.late = w.late /\ v.earned = w.earned
        BY <2>3, <2>7 DEF TurnsAsked
      <4>. QED
        BY <2>3, <4>1, ScreenFields
    <3>2. ~w.asked /\ ~w.late /\ w.ad # None
      BY <1>1, <2>3, <2>7 DEF TurnsAsked
    <3>3. Contract!ShowAsked(x)
      BY <2>1, <3>1, <3>2 DEF Contract!ShowAsked
    <3>. QED
      BY <1>3, <3>3 DEF Contract!ContractNext
  <2>8. CASE TurnsEarned(op[x], r)
    <3>1. v = [w EXCEPT !.earned = TRUE]
      BY <1>2, <2>3, <2>8, ScreenFields DEF TurnsEarned, Asked
    <3>2. w.asked
      BY <2>3, <2>8 DEF TurnsEarned
    <3>3. Contract!RewardEarned(x)
      BY <2>1, <3>1, <3>2 DEF Contract!RewardEarned
    <3>. QED
      BY <1>3, <3>3 DEF Contract!ContractNext
  <2>. QED
    BY <2>5, <2>6, <2>7, <2>8 DEF Moves
<1>4. CASE x \in Loads
  <2>. DEFINE a == op[x].ad
              v == [asked |-> Asked(r), late |-> r.overdue]
              w == [asked |-> Asked(op[x]), late |-> op[x].overdue]
  <2>1. /\ UNCHANGED <<Ready, Waiting, Told, Screen>>
        /\ Request[a] = w
        /\ Request' = [Request EXCEPT ![a] = v]
    BY <1>4, WithinFlowSeen
  <2>2. Waiting[a] # {}
    <3>1. slots[a] = LoadingSlot(x) /\ awaits[x] = x /\ x # None
      BY <1>1, <1>4, AdsAssumption
        DEF AdsIInv, AdsInv, SlotsTrackWork, TasksAreAwaited, WithinFlow
    <3>. QED
      BY <1>1, <1>4, <3>1 DEF Waiting
  <2>3. Request = [b \in AdGroups |-> Request[b]]
    BY DEF Request
  <2>4. a \in AdGroups
    BY <1>1
  <2>5. /\ v \in RequestType /\ w \in RequestType
        /\ v.asked = Asked(r) /\ w.asked = Asked(op[x])
        /\ v.late = r.overdue /\ w.late = op[x].overdue
    BY <1>2 DEF RequestType
  <2>6. Unseen(op[x], r) => v = w
    BY DEF Unseen
  <2>7. TurnsAsked(op[x], r) => w = Contract!NotAsked
    <3>1. Asked(op[x]) = FALSE /\ op[x].overdue = FALSE => w = Contract!NotAsked
      BY DEF Contract!NotAsked
    <3>. QED
      BY <1>2, <3>1 DEF TurnsAsked, Asked
  <2>. HIDE DEF a, v, w
  <2>8. CASE Unseen(op[x], r)
    BY <2>1, <2>3, <2>4, <2>6, <2>8 DEF seenVars
  <2>9. CASE TurnsLate(op[x], r)
    <3>1. v = [w EXCEPT !.late = TRUE]
      BY <2>5, <2>9, RequestFields DEF TurnsLate
    <3>2. Contract!LoadLate(a)
      BY <2>1, <2>2, <3>1 DEF Contract!LoadLate
    <3>. QED
      BY <2>4, <3>2 DEF Contract!ContractNext
  <2>10. CASE TurnsAsked(op[x], r)
    <3>1. v = [w EXCEPT !.asked = TRUE]
      <4>1. v.asked /\ v.late = w.late
        BY <2>5, <2>10 DEF TurnsAsked
      <4>. QED
        BY <2>5, <4>1, RequestFields
    <3>2. Request[a] = Contract!NotAsked
      BY <2>1, <2>7, <2>10
    <3>3. Request' = [Request EXCEPT ![a].asked = TRUE]
      BY <2>1, <3>1
    <3>4. Contract!LoadAsked(a)
      BY <2>1, <2>2, <3>2, <3>3 DEF Contract!LoadAsked
    <3>. QED
      BY <2>4, <3>4 DEF Contract!ContractNext
  <2>. QED
    BY <1>4, <2>8, <2>9, <2>10 DEF Moves, FitsOp
<1>. QED
  BY <1>3, <1>4 DEF Ops

-----------------------------------------------------------------------------
(* What the contract does not see.                                         *)
LEMMA SameScreens ==
    ASSUME \A s \in Shows : op'[s] = op[s]
    PROVE  UNCHANGED Screen
BY DEF Screen, Running, InFlow

LEMMA SameRequest ==
    ASSUME AdsIInv, NEW a \in AdGroups, slots'[a] = slots[a],
           \A t \in Loads : Running(t) => op'[t] = op[t]
    PROVE  Request'[a] = Request[a]
<1>1. CASE slots[a].kind = "loading"
  <2>1. slots[a].task \in Loads /\ Running(slots[a].task)
    BY <1>1, SlotsHaveShape DEF AdsIInv, AdsInv, SlotsTrackWork
  <2>2. op'[slots[a].task] = op[slots[a].task]
    BY <2>1
  <2>. QED
    BY <2>2 DEF Request, InFlow
<1>2. CASE slots[a].kind # "loading"
  BY <1>2 DEF Request
<1>. QED
  BY <1>1, <1>2

LEMMA SameRequests ==
    ASSUME AdsIInv, UNCHANGED slots,
           \A t \in Loads : Running(t) => op'[t] = op[t]
    PROVE  UNCHANGED Request
<1>1. \A a \in AdGroups : Request'[a] = Request[a]
  BY SameRequest
<1>. QED
  BY <1>1 DEF Request

(* Nobody waits for a task that has not begun.                             *)
LEMMA FreshIsNoTask ==
    ASSUME AdsIInv, NEW l \in Loads, op[l].phase = "idle", awaits[l] = None
    PROVE  /\ \A m \in Loads : awaits[m] # l
           /\ \A c \in Ops : TaskOf(c) = l => c = l
           /\ TaskOf(l) = l
           /\ Told[l] = "none"
           /\ \A a \in AdGroups : l \notin Waiting[a]
           /\ \A a \in AdGroups : slots[a] # LoadingSlot(l)
<1>1. l \in Ops /\ l # None
  BY AdsAssumption DEF Ops
<1>2. \A m \in Loads : awaits[m] # l
  BY <1>1 DEF AdsIInv, TasksAreAwaited
<1>3. /\ \A c \in Ops : TaskOf(c) = l => c = l
      /\ TaskOf(l) = l
  BY <1>2 DEF TaskOf
<1>4. op[l].result = "none"
  BY <1>1 DEF AdsIInv, DecisionsAreTrue, RecordIsTrue
<1>5. \A a \in AdGroups : slots[a] # LoadingSlot(l)
  BY DEF AdsIInv, AdsInv, SlotsTrackWork, Running
<1>. QED
  BY <1>1, <1>2, <1>3, <1>4, <1>5 DEF Told, Waiting

LEMMA LoadKeepsTruth ==
    ASSUME AdsIInv, NEW l \in Loads, NEW a \in AdGroups, Load(l, a)
    PROVE  DecisionsAreTrue' /\ TasksAreAwaited'
<1>0. Loads \cap Shows = {} /\ l \in Ops /\ l # None
  BY AdsAssumption DEF Ops
<1>1. /\ op \in [Ops -> OpType] /\ awaits \in [Loads -> Loads \cup {None}]
      /\ op[l].phase = "idle" /\ awaits[l] = None
      /\ \A m \in Loads : awaits[m] # l
  BY <1>0, FreshIsNoTask DEF AdsIInv, AdsInv, TypeOK, Load
<1>2. ASSUME NEW r \in {EndedOp(a, "ok"), StartedOp(a)},
             op' = [op EXCEPT ![l] = r]
      PROVE  DecisionsAreTrue'
  <2>1. RecordIsTrue(r) /\ r.outcome = "none"
    BY DEF EndedOp, StartedOp, IdleOp, RecordIsTrue, RunningPhases
  <2>2. \A y \in Ops : op'[y] = IF y = l THEN r ELSE op[y]
    BY <1>0, <1>1, <1>2
  <2>. QED
    BY <1>0, <2>1, <2>2 DEF AdsIInv, DecisionsAreTrue, Ops, RecordIsTrue
<1>3. CASE /\ op' = [op EXCEPT ![l] = EndedOp(a, "ok")]
           /\ UNCHANGED <<slots, awaits>>
  <2>1. \A y \in Ops : op'[y] = IF y = l THEN EndedOp(a, "ok") ELSE op[y]
    BY <1>0, <1>1, <1>3
  <2>2. EndedOp(a, "ok").phase = "done"
    BY DEF EndedOp, IdleOp
  <2>3. TasksAreAwaited'
    BY <1>1, <1>3, <2>1, <2>2
      DEF AdsIInv, TasksAreAwaited, Running, Ops
  <2>. QED
    BY <1>2, <1>3, <2>3
<1>4. CASE /\ slots[a].kind = "loading"
           /\ awaits' = [awaits EXCEPT ![l] = slots[a].task]
           /\ UNCHANGED <<slots, op>>
  <2>. DEFINE t == slots[a].task
  <2>1. t \in Loads /\ Running(t) /\ awaits[t] = t /\ t # l
    BY <1>1, <1>4, SlotsHaveShape
      DEF AdsIInv, AdsInv, SlotsTrackWork, TasksAreAwaited, Running
  <2>2. \A m \in Loads : awaits'[m] = IF m = l THEN t ELSE awaits[m]
    BY <1>1, <1>4
  <2>. HIDE DEF t
  <2>3. TasksAreAwaited'
    BY <1>1, <1>4, <2>1, <2>2 DEF AdsIInv, TasksAreAwaited, Running
  <2>4. DecisionsAreTrue'
    BY <1>4 DEF AdsIInv, DecisionsAreTrue
  <2>. QED
    BY <2>3, <2>4
<1>5. CASE /\ slots[a].kind = "empty"
           /\ op' = [op EXCEPT ![l] = StartedOp(a)]
           /\ awaits' = [awaits EXCEPT ![l] = l]
           /\ slots' = [slots EXCEPT ![a] = LoadingSlot(l)]
  <2>1. \A y \in Ops : op'[y] = IF y = l THEN StartedOp(a) ELSE op[y]
    BY <1>0, <1>1, <1>5
  <2>2. StartedOp(a).phase = "loader"
    BY DEF StartedOp, IdleOp
  <2>3. \A m \in Loads : awaits'[m] = IF m = l THEN l ELSE awaits[m]
    BY <1>1, <1>5
  <2>4. TasksAreAwaited'
    BY <1>0, <1>1, <2>1, <2>2, <2>3 DEF AdsIInv, TasksAreAwaited, Running, Ops
  <2>. QED
    BY <1>2, <1>5, <2>4
<1>. QED
  BY <1>3, <1>4, <1>5 DEF Load

LEMMA LoadIsContracted ==
    ASSUME AdsIInv, NEW l \in Loads, NEW a \in AdGroups, Load(l, a)
    PROVE  Contract!LoadCalled(l, a)
<1>0. Loads \cap Shows = {} /\ l \in Ops /\ l # None
  BY AdsAssumption DEF Ops
<1>1. /\ op \in [Ops -> OpType] /\ awaits \in [Loads -> Loads \cup {None}]
      /\ slots \in [AdGroups -> [kind : {"empty", "loading", "loaded"},
                                 task : Loads \cup {None}]]
      /\ op[l].phase = "idle" /\ awaits[l] = None
  BY DEF AdsIInv, AdsInv, TypeOK, Load
<1>2. /\ \A m \in Loads : awaits[m] # l
      /\ \A c \in Ops : TaskOf(c) = l => c = l
      /\ TaskOf(l) = l
      /\ Told[l] = "none"
      /\ \A b \in AdGroups : l \notin Waiting[b]
      /\ \A b \in AdGroups : slots[b] # LoadingSlot(l)
  BY <1>1, FreshIsNoTask
<1>3. Told = [c \in Ops |-> Told[c]] /\ Waiting = [b \in AdGroups |-> Waiting[b]]
  BY DEF Told, Waiting
<1>4. CASE /\ slots[a].kind = "loaded"
           /\ op' = [op EXCEPT ![l] = EndedOp(a, "ok")]
           /\ UNCHANGED <<slots, awaits>>
  <2>1. \A y \in Ops : op'[y] = IF y = l THEN EndedOp(a, "ok") ELSE op[y]
    BY <1>0, <1>1, <1>4
  <2>2. EndedOp(a, "ok").result = "ok"
    BY DEF EndedOp, IdleOp
  <2>3. Told' = [Told EXCEPT ![l] = "ok"]
    <3>1. \A c \in Ops : TaskOf(c)' = TaskOf(c) /\ TaskOf(c) \in Ops
      BY <1>4, TasksAreOps DEF TaskOf
    <3>2. \A c \in Ops : Told'[c] = IF c = l THEN "ok" ELSE Told[c]
      BY <1>2, <2>1, <2>2, <3>1 DEF Told
    <3>3. Told' = [c \in Ops |-> Told'[c]]
      BY DEF Told
    <3>. QED
      BY <1>3, <3>2, <3>3
  <2>4. UNCHANGED <<Ready, Waiting>>
    BY <1>4 DEF Ready, Waiting, LoadedSlot, LoadingSlot
  <2>5. UNCHANGED Screen
    BY <1>0, <2>1, SameScreens DEF Ops
  <2>6. UNCHANGED Request
    BY <1>1, <1>4, <2>1, SameRequests DEF Running, Ops
  <2>7. a \in Ready
    BY <1>4, SlotsHaveShape DEF Ready
  <2>. QED
    BY <1>2, <2>3, <2>4, <2>5, <2>6, <2>7 DEF Contract!LoadCalled, Contract!Untold
<1>5. CASE /\ slots[a].kind = "loading"
           /\ awaits' = [awaits EXCEPT ![l] = slots[a].task]
           /\ UNCHANGED <<slots, op>>
  <2>. DEFINE t == slots[a].task
  <2>1. t \in Loads /\ slots[a] = LoadingSlot(t) /\ t # None
    BY <1>5, SlotsHaveShape, AdsAssumption
  <2>2. Running(t) /\ op[t].ad = a /\ op[t].result = "none" /\ t \in Ops
    BY <2>1 DEF AdsIInv, AdsInv, SlotsTrackWork, DecisionsAreTrue, RecordIsTrue,
                Running, RunningPhases, Ops
  <2>3. \A m \in Loads : awaits'[m] = IF m = l THEN t ELSE awaits[m]
    BY <1>1, <1>5
  <2>4. \A b \in AdGroups : slots[b] = LoadingSlot(t) <=> b = a
    BY <2>1, <2>2 DEF AdsIInv, AdsInv, SlotsTrackWork
  <2>. HIDE DEF t
  <2>5. UNCHANGED Told
    <3>1. \A c \in Ops : c # l => TaskOf(c)' = TaskOf(c)
      BY <2>3 DEF TaskOf
    <3>2. TaskOf(l)' = t
      BY <2>1, <2>3 DEF TaskOf
    <3>3. \A c \in Ops : Told'[c] = Told[c]
      BY <1>0, <1>2, <1>5, <2>2, <3>1, <3>2 DEF Told
    <3>. QED
      BY <3>3 DEF Told
  <2>6. Waiting' = [Waiting EXCEPT ![a] = @ \cup {l}]
    <3>1. \A b \in AdGroups :
             Waiting'[b] = IF b = a THEN Waiting[b] \cup {l} ELSE Waiting[b]
      <4>. SUFFICES ASSUME NEW b \in AdGroups, NEW m \in Loads
                    PROVE  m \in Waiting'[b] <=>
                              m \in Waiting[b] \/ (m = l /\ b = a)
        BY DEF Waiting
      <4>1. CASE m = l
        BY <1>2, <1>5, <2>1, <2>3, <2>4, <4>1 DEF Waiting, LoadingSlot
      <4>2. CASE m # l
        BY <1>5, <2>3, <4>2 DEF Waiting, LoadingSlot
      <4>. QED
        BY <4>1, <4>2
    <3>2. Waiting' = [b \in AdGroups |-> Waiting'[b]]
      BY DEF Waiting
    <3>. QED
      BY <1>3, <3>1, <3>2
  <2>7. UNCHANGED <<Ready, Request, Screen>>
    BY <1>5, SameScreens, SameRequests DEF Ready, LoadedSlot
  <2>8. a \notin Ready
    BY <2>1, SlotsAreApart DEF Ready
  <2>. QED
    BY <1>2, <2>5, <2>6, <2>7, <2>8 DEF Contract!LoadCalled, Contract!Untold
<1>6. CASE /\ slots[a].kind = "empty"
           /\ op' = [op EXCEPT ![l] = StartedOp(a)]
           /\ awaits' = [awaits EXCEPT ![l] = l]
           /\ slots' = [slots EXCEPT ![a] = LoadingSlot(l)]
  <2>1. \A y \in Ops : op'[y] = IF y = l THEN StartedOp(a) ELSE op[y]
    BY <1>0, <1>1, <1>6
  <2>2. /\ StartedOp(a).result = "none" /\ StartedOp(a).phase = "loader"
        /\ StartedOp(a).overdue = FALSE
    BY DEF StartedOp, IdleOp
  <2>3. \A m \in Loads : awaits'[m] = IF m = l THEN l ELSE awaits[m]
    BY <1>1, <1>6
  <2>4. /\ slots[a] = EmptySlot
        /\ \A b \in AdGroups : slots'[b] = IF b = a THEN LoadingSlot(l) ELSE slots[b]
    BY <1>1, <1>6, SlotsHaveShape
  <2>5. UNCHANGED Told
    <3>1. \A c \in Ops : TaskOf(c)' = TaskOf(c) /\ TaskOf(c) \in Ops
      BY <1>1, <2>3, TasksAreOps DEF TaskOf
    <3>2. op[l].result = "none"
      BY <1>0, <1>2 DEF Told
    <3>3. \A y \in Ops : op'[y].result = op[y].result
      BY <2>1, <2>2, <3>2
    <3>. QED
      BY <3>1, <3>3 DEF Told
  <2>6. Waiting' = [Waiting EXCEPT ![a] = @ \cup {l}]
    <3>1. \A b \in AdGroups :
             Waiting'[b] = IF b = a THEN Waiting[b] \cup {l} ELSE Waiting[b]
      <4>. SUFFICES ASSUME NEW b \in AdGroups, NEW m \in Loads
                    PROVE  m \in Waiting'[b] <=>
                              m \in Waiting[b] \/ (m = l /\ b = a)
        BY DEF Waiting
      <4>0. /\ m \in Waiting[b] <=> awaits[m] # None /\ slots[b] = LoadingSlot(awaits[m])
            /\ m \in Waiting'[b] <=> awaits'[m] # None /\ slots'[b] = LoadingSlot(awaits'[m])
        BY DEF Waiting, LoadingSlot
      <4>1. awaits[m] \in Loads \cup {None} /\ awaits[m] # l
        BY <1>1, <1>2
      <4>2. CASE m = l
        BY <1>0, <1>1, <1>2, <2>3, <2>4, <4>0, <4>2
      <4>3. CASE m # l /\ b = a
        BY <2>3, <2>4, <4>0, <4>1, <4>3, SlotsAreApart
      <4>4. CASE m # l /\ b # a
        BY <2>3, <2>4, <4>0, <4>4
      <4>. QED
        BY <4>2, <4>3, <4>4
    <3>2. Waiting' = [b \in AdGroups |-> Waiting'[b]]
      BY DEF Waiting
    <3>. QED
      BY <1>3, <3>1, <3>2
  <2>7. UNCHANGED Request
    <3>1. /\ Request[a] = [asked |-> FALSE, late |-> FALSE]
          /\ Request'[a] = [asked |-> FALSE, late |-> FALSE]
      <4>1. slots[a].kind # "loading"
        BY <2>4 DEF EmptySlot
      <4>2. slots'[a].kind = "loading" /\ slots'[a].task = l
        BY <2>4 DEF LoadingSlot
      <4>3. InFlow(l)' = FALSE /\ op'[l].overdue = FALSE
        BY <1>0, <2>1, <2>2 DEF InFlow
      <4>4. Request[a] = [asked |-> FALSE, late |-> FALSE]
        BY <4>1 DEF Request
      <4>5. Request'[a] = [asked |-> InFlow(l)', late |-> op'[l].overdue]
        BY <4>2 DEF Request, InFlow
      <4>. QED
        BY <4>3, <4>4, <4>5
    <3>2. \A t \in Loads : Running(t) => op'[t] = op[t]
      BY <1>1, <2>1 DEF Running, Ops
    <3>3. \A b \in AdGroups : Request'[b] = Request[b]
      BY <2>4, <3>1, <3>2, SameRequest
    <3>. QED
      BY <3>3 DEF Request
  <2>8. UNCHANGED Ready
    <3>1. \A b \in AdGroups : slots'[b] = LoadedSlot <=> slots[b] = LoadedSlot
      BY <2>4, SlotsAreApart
    <3>. QED
      BY <3>1 DEF Ready, LoadedSlot
  <2>9. UNCHANGED Screen
    BY <1>0, <2>1, SameScreens DEF Ops
  <2>10. a \notin Ready
    BY <2>4, SlotsAreApart DEF Ready
  <2>. QED
    BY <1>2, <2>5, <2>6, <2>7, <2>8, <2>9, <2>10
      DEF Contract!LoadCalled, Contract!Untold
<1>. QED
  BY <1>4, <1>5, <1>6 DEF Load

-----------------------------------------------------------------------------
LEMMA ShowKeepsTruth ==
    ASSUME AdsIInv, NEW s \in Shows, NEW a \in AdGroups, Show(s, a)
    PROVE  DecisionsAreTrue' /\ TasksAreAwaited'
<1>0. Loads \cap Shows = {} /\ s \in Ops
  BY AdsAssumption DEF Ops
<1>1. op \in [Ops -> OpType] /\ awaits' = awaits /\ op[s].phase = "idle"
  BY DEF AdsIInv, AdsInv, TypeOK, Show
<1>2. PICK r \in {EndedOp(a, "already_showing"), EndedOp(a, "not_loaded"), StartedOp(a)} :
        op' = [op EXCEPT ![s] = r]
  BY DEF Show
<1>3. RecordIsTrue(r) /\ r.outcome = "none"
  BY DEF EndedOp, StartedOp, IdleOp, RecordIsTrue, RunningPhases
<1>4. \A y \in Ops : op'[y] = IF y = s THEN r ELSE op[y]
  BY <1>0, <1>1, <1>2
<1>5. DecisionsAreTrue'
  BY <1>0, <1>3, <1>4 DEF AdsIInv, DecisionsAreTrue, Ops, RecordIsTrue
<1>6. \A l \in Loads : op'[l] = op[l]
  BY <1>0, <1>4 DEF Ops
<1>7. \A l \in Loads : awaits[l] \in Loads \cup {None}
  BY DEF AdsIInv, AdsInv, TypeOK
<1>8. TasksAreAwaited'
  BY <1>1, <1>6, <1>7 DEF AdsIInv, TasksAreAwaited, Running
<1>. QED
  BY <1>5, <1>8

LEMMA ShowIsContracted ==
    ASSUME AdsIInv, NEW s \in Shows, NEW a \in AdGroups, Show(s, a)
    PROVE  Contract!ShowCalled(s, a)
<1>0. /\ Loads \cap Shows = {} /\ s \in Ops /\ s \notin Loads
      /\ a # None /\ None \notin AdGroups
  BY AdsAssumption DEF Ops
<1>1. /\ op \in [Ops -> OpType] /\ awaits' = awaits
      /\ op[s].phase = "idle" /\ ~Running(s)
      /\ slots \in [AdGroups -> [kind : {"empty", "loading", "loaded"},
                                 task : Loads \cup {None}]]
  BY DEF AdsIInv, AdsInv, TypeOK, Show, Running
<1>2. Screen[s] = Contract!Off
  BY <1>1 DEF Screen, Contract!Off
<1>3. /\ op[s].result = "none" /\ TaskOf(s) = s
      /\ Told[s] = "none"
  BY <1>0, <1>1 DEF AdsIInv, DecisionsAreTrue, RecordIsTrue, Told, TaskOf
<1>4. Contract!OnScreen(a) <=> a \in showing
  <2>1. \A t \in Shows : Screen[t].ad = a <=> Running(t) /\ op[t].ad = a
    BY <1>0 DEF Screen
  <2>. QED
    BY <2>1 DEF Contract!OnScreen, AdsIInv, AdsInv, SlotsTrackWork
<1>5. /\ \A c \in Ops : TaskOf(c)' = TaskOf(c) /\ TaskOf(c) \in Ops
      /\ \A c \in Ops : TaskOf(c) = s => c = s
  <2>1. \A c \in Loads : awaits[c] \in Loads \cup {None}
    BY DEF AdsIInv, AdsInv, TypeOK
  <2>. QED
    BY <1>0, <1>1, <2>1, TasksAreOps DEF TaskOf
<1>6. /\ Told = [c \in Ops |-> Told[c]] /\ Told' = [c \in Ops |-> Told'[c]]
      /\ Screen = [t \in Shows |-> Screen[t]]
      /\ Screen' = [t \in Shows |-> Screen'[t]]
  BY DEF Told, Screen
<1>7. ASSUME NEW r, op' = [op EXCEPT ![s] = r]
      PROVE  /\ \A y \in Ops : op'[y] = IF y = s THEN r ELSE op[y]
             /\ Told' = [Told EXCEPT ![s] = r.result]
             /\ \A t \in Shows : t # s => Screen'[t] = Screen[t]
             /\ \A t \in Loads : op'[t] = op[t]
  <2>1. \A y \in Ops : op'[y] = IF y = s THEN r ELSE op[y]
    BY <1>0, <1>1, <1>7
  <2>2. \A c \in Ops : Told'[c] = IF c = s THEN r.result ELSE Told[c]
    BY <1>3, <1>5, <2>1 DEF Told
  <2>3. Told' = [Told EXCEPT ![s] = r.result]
    BY <1>0, <1>6, <2>2
  <2>4. \A t \in Shows : t # s => Screen'[t] = Screen[t]
    BY <2>1 DEF Screen, Running, InFlow, Ops
  <2>5. \A t \in Loads : op'[t] = op[t]
    BY <1>0, <2>1 DEF Ops
  <2>. QED
    BY <2>1, <2>3, <2>4, <2>5
<1>8. ASSUME NEW why \in {"already_showing", "not_loaded"},
             op' = [op EXCEPT ![s] = EndedOp(a, why)], UNCHANGED slots
      PROVE  /\ Told' = [Told EXCEPT ![s] = why]
             /\ UNCHANGED <<Ready, Screen, Waiting, Request>>
  <2>1. EndedOp(a, why).result = why /\ EndedOp(a, why).phase = "done"
    BY DEF EndedOp, IdleOp
  <2>2. Screen'[s] = Screen[s]
    BY <1>0, <1>1, <1>7, <1>8, <2>1 DEF Screen, Running
  <2>3. UNCHANGED Screen
    BY <1>6, <1>7, <1>8, <2>2
  <2>4. UNCHANGED Request
    BY <1>7, <1>8, SameRequests
  <2>5. UNCHANGED <<Ready, Waiting>>
    BY <1>1, <1>8 DEF Ready, Waiting, LoadedSlot, LoadingSlot
  <2>. QED
    BY <1>7, <1>8, <2>1, <2>3, <2>4, <2>5
<1>9. CASE /\ a \in showing
           /\ op' = [op EXCEPT ![s] = EndedOp(a, "already_showing")]
           /\ UNCHANGED slots
  BY <1>2, <1>3, <1>4, <1>8, <1>9 DEF Contract!ShowCalled, Contract!Untold
<1>10. CASE /\ a \notin showing
            /\ slots[a].kind # "loaded"
            /\ op' = [op EXCEPT ![s] = EndedOp(a, "not_loaded")]
            /\ UNCHANGED slots
  <2>1. a \notin Ready
    BY <1>10 DEF Ready, LoadedSlot
  <2>. QED
    BY <1>2, <1>3, <1>4, <1>8, <1>10, <2>1 DEF Contract!ShowCalled, Contract!Untold
<1>11. CASE /\ a \notin showing
            /\ slots[a].kind = "loaded"
            /\ op' = [op EXCEPT ![s] = StartedOp(a)]
            /\ slots' = [slots EXCEPT ![a] = EmptySlot]
  <2>1. /\ StartedOp(a).result = "none" /\ StartedOp(a).phase = "loader"
        /\ StartedOp(a).overdue = FALSE /\ StartedOp(a).earned = FALSE
        /\ StartedOp(a).ad = a
    BY DEF StartedOp, IdleOp
  <2>2. /\ slots[a] = LoadedSlot
        /\ \A b \in AdGroups : slots'[b] = IF b = a THEN EmptySlot ELSE slots[b]
    BY <1>1, <1>11, SlotsHaveShape
  <2>3. a \in Ready /\ Ready' = Ready \ {a}
    <3>1. \A b \in AdGroups : slots'[b] = LoadedSlot <=> slots[b] = LoadedSlot /\ b # a
      BY <2>2, SlotsAreApart
    <3>. QED
      BY <2>2, <3>1 DEF Ready, LoadedSlot
  <2>4. UNCHANGED Told
    <3>1. Told' = [Told EXCEPT ![s] = StartedOp(a).result]
      BY <1>7, <1>11
    <3>2. Told' = [Told EXCEPT ![s] = Told[s]]
      BY <1>3, <2>1, <3>1
    <3>. QED
      BY <1>6, <3>2
  <2>5. UNCHANGED Waiting
    <3>1. \A b \in AdGroups, m \in Loads :
             slots'[b] = LoadingSlot(awaits[m]) <=> slots[b] = LoadingSlot(awaits[m])
      BY <2>2 DEF EmptySlot, LoadedSlot, LoadingSlot
    <3>. QED
      BY <1>1, <3>1 DEF Waiting, LoadingSlot
  <2>6. UNCHANGED Request
    <3>1. slots[a].kind # "loading" /\ slots'[a].kind # "loading"
      BY <2>2 DEF EmptySlot, LoadedSlot
    <3>2. Request'[a] = Request[a]
      BY <3>1 DEF Request
    <3>3. \A b \in AdGroups : Request'[b] = Request[b]
      BY <1>7, <1>11, <2>2, <3>2, SameRequest
    <3>. QED
      BY <3>3 DEF Request
  <2>7. Screen' = [Screen EXCEPT ![s].ad = a]
    <3>. DEFINE v == [ad |-> a, asked |-> FALSE, late |-> FALSE, earned |-> FALSE]
    <3>1. Screen'[s] = v
      <4>1. op'[s] = StartedOp(a)
        BY <1>0, <1>7, <1>11
      <4>2. /\ Running(s)' /\ InFlow(s)' = FALSE
            /\ op'[s].ad = a /\ op'[s].overdue = FALSE /\ op'[s].earned = FALSE
        BY <2>1, <4>1 DEF Running, InFlow
      <4>3. Screen'[s] = [ad |-> op'[s].ad, asked |-> InFlow(s)',
                          late |-> op'[s].overdue, earned |-> op'[s].earned]
        BY <4>2 DEF Screen, InFlow, Running
      <4>. QED
        BY <4>2, <4>3
    <3>2. v = [Screen[s] EXCEPT !.ad = a]
      BY <1>2, OffTakesAnAd
    <3>. HIDE DEF v
    <3>. QED
      BY <1>6, <1>7, <1>11, <3>1, <3>2
  <2>. QED
    BY <1>2, <1>3, <1>4, <1>11, <2>3, <2>4, <2>5, <2>6, <2>7
      DEF Contract!ShowCalled, Contract!Untold
<1>. QED
  BY <1>9, <1>10, <1>11 DEF Show

-----------------------------------------------------------------------------
LEMMA ContinuationEnds ==
    ASSUME AdsIInv, NEW x \in Ops, Continues(x), End(x)
    PROVE  /\ Running(x)
           /\ op'[x].phase = "done"
           /\ op'[x].result = op[x].outcome
           /\ op'[x].outcome = op[x].outcome
           /\ op'[x].overdue = op[x].overdue
           /\ op'[x].earned = op[x].earned
           /\ \A y \in Ops : y # x => op'[y] = op[y]
<1>. DEFINE r == [op[x] EXCEPT !.phase = "done", !.result = op[x].outcome]
<1>1. op \in [Ops -> OpType] /\ op[x] \in OpType
  BY DEF AdsIInv, AdsInv, TypeOK
<1>2. op' = [op EXCEPT ![x] = r]
  BY <1>1 DEF End
<1>3. /\ r.phase = "done" /\ r.result = op[x].outcome
      /\ r.outcome = op[x].outcome /\ r.overdue = op[x].overdue
      /\ r.earned = op[x].earned
  BY <1>1 DEF OpType
<1>. HIDE DEF r
<1>. QED
  BY <1>1, <1>2, <1>3 DEF Continues, Running

LEMMA ContinuationKeepsTruth ==
    ASSUME AdsIInv, NEW x \in Ops, Continues(x), End(x), UNCHANGED awaits
    PROVE  DecisionsAreTrue' /\ TasksAreAwaited'
<1>1. /\ op'[x].phase = "done"
      /\ op'[x].outcome = op[x].outcome
      /\ op'[x].overdue = op[x].overdue
      /\ op'[x].earned = op[x].earned
      /\ \A y \in Ops : y # x => op'[y] = op[y]
  BY ContinuationEnds
<1>2. RecordIsTrue(op'[x])
  BY <1>1 DEF AdsIInv, DecisionsAreTrue, RecordIsTrue, RunningPhases
<1>3. DecisionsAreTrue'
  BY <1>1, <1>2 DEF AdsIInv, DecisionsAreTrue, Ops, RecordIsTrue
<1>4. \A y \in Ops : /\ Running(y)' => Running(y)
                     /\ op[y].phase # "idle" => op'[y].phase # "idle"
  BY <1>1 DEF Running
<1>5. \A l \in Loads : l \in Ops /\ awaits[l] \in Loads \cup {None}
  BY DEF AdsIInv, AdsInv, TypeOK, Ops
<1>6. TasksAreAwaited'
  BY <1>4, <1>5 DEF AdsIInv, TasksAreAwaited, Ops
<1>. QED
  BY <1>3, <1>6

LEMMA LoadContinuesIsContracted ==
    ASSUME AdsIInv, NEW l \in Loads, LoadContinues(l)
    PROVE  /\ op[l].ad \in AdGroups
           /\ op[l].outcome \in {"ok", "error", "timeout"}
           /\ Contract!LoadEnds(op[l].ad, op[l].outcome)
<1>. DEFINE a == op[l].ad
            result == op[l].outcome
<1>0. Loads \cap Shows = {} /\ l \in Ops /\ l # None
  BY AdsAssumption DEF Ops
<1>1. /\ Running(l) /\ Continues(l) /\ End(l) /\ awaits' = awaits
      /\ op'[l].phase = "done" /\ op'[l].result = result
      /\ \A y \in Ops : y # l => op'[y] = op[y]
  BY <1>0, ContinuationEnds DEF LoadContinues
<1>2. /\ a \in AdGroups /\ awaits[l] = l
      /\ \A b \in AdGroups : slots[b] = LoadingSlot(l) <=> b = a
  BY <1>0, <1>1
    DEF AdsIInv, AdsInv, WhoRunsHasAGroup, SlotsTrackWork, TasksAreAwaited
<1>3. /\ op[l].result = "none"
      /\ result \in {"ok", "error", "timeout"}
      /\ result = "ok" => op[l].phase = "open"
      /\ result = "timeout" => op[l].overdue
  BY <1>0, <1>1
    DEF AdsIInv, DecisionsAreTrue, RecordIsTrue, Continues, Settled, RunningPhases
<1>4. /\ slots \in [AdGroups -> [kind : {"empty", "loading", "loaded"},
                                 task : Loads \cup {None}]]
      /\ awaits \in [Loads -> Loads \cup {None}]
  BY DEF AdsIInv, AdsInv, TypeOK
<1>5. slots' = [slots EXCEPT ![a] = IF result = "ok" THEN LoadedSlot ELSE EmptySlot]
  BY <1>2 DEF LoadContinues
<1>6. \A b \in AdGroups :
         slots'[b] = IF b # a THEN slots[b]
                     ELSE IF result = "ok" THEN LoadedSlot ELSE EmptySlot
  BY <1>2, <1>4, <1>5
<1>7. Waiting[a] = {m \in Loads : awaits[m] = l}
  <2>. SUFFICES ASSUME NEW m \in Loads
                PROVE  m \in Waiting[a] <=> awaits[m] = l
    BY <1>2 DEF Waiting
  <2>1. LoadingSlot(awaits[m]) = LoadingSlot(l) <=> awaits[m] = l
    BY DEF LoadingSlot
  <2>. QED
    BY <1>0, <1>2, <2>1 DEF Waiting
<1>8. l \in Waiting[a]
  BY <1>2, <1>7
<1>9. Request[a] = [asked |-> InFlow(l), late |-> op[l].overdue]
  <2>1. slots[a].kind = "loading" /\ slots[a].task = l
    BY <1>2 DEF LoadingSlot
  <2>. QED
    BY <1>2, <2>1 DEF Request
<1>10. /\ result = "ok" => Request[a].asked
       /\ result = "timeout" => Request[a].late
  <2>1. Request[a].asked = InFlow(l) /\ Request[a].late = op[l].overdue
    BY <1>9
  <2>2. result = "ok" => InFlow(l)
    BY <1>3 DEF InFlow
  <2>. HIDE DEF a, result
  <2>. QED
    BY <1>3, <2>1, <2>2
<1>11. Told' = [c \in Ops |-> IF c \in Waiting[a] THEN result ELSE Told[c]]
  <2>1. \A c \in Ops : TaskOf(c)' = TaskOf(c) /\ TaskOf(c) \in Ops
    BY <1>1, TasksAreOps DEF TaskOf
  <2>2. \A c \in Ops : TaskOf(c) = l <=> c \in Waiting[a]
    BY <1>0, <1>2, <1>7 DEF TaskOf
  <2>3. \A c \in Ops : Told'[c] = IF c \in Waiting[a] THEN result ELSE Told[c]
    BY <1>1, <2>1, <2>2 DEF Told
  <2>4. Told' = [c \in Ops |-> Told'[c]]
    BY DEF Told
  <2>. HIDE DEF a, result
  <2>. QED
    BY <2>3, <2>4
<1>12. Ready' = IF result = "ok" THEN Ready \cup {a} ELSE Ready
  <2>1. slots[a] = LoadingSlot(l)
    BY <1>2
  <2>2. \A b \in AdGroups :
           slots'[b] = LoadedSlot <=> slots[b] = LoadedSlot \/ (b = a /\ result = "ok")
    BY <1>6, <2>1, SlotsAreApart
  <2>3. Ready' = {b \in AdGroups : slots'[b] = LoadedSlot}
    BY DEF Ready, LoadedSlot
  <2>. QED
    BY <1>2, <2>2, <2>3 DEF Ready
<1>13. Waiting' = [Waiting EXCEPT ![a] = {}]
  <2>1. \A m \in Loads : awaits[m] # None => awaits[m] \in Loads
    BY <1>4
  <2>2. ASSUME NEW b \in AdGroups
        PROVE  Waiting'[b] = IF b = a THEN {} ELSE Waiting[b]
    <3>1. \A m \in Loads :
             m \in Waiting'[b] <=> awaits[m] # None /\ slots'[b] = LoadingSlot(awaits[m])
      BY <1>1 DEF Waiting, LoadingSlot
    <3>2. CASE b = a
      <4>1. \A m \in Loads : slots'[a] # LoadingSlot(awaits[m])
        BY <1>6, <3>2 DEF EmptySlot, LoadedSlot, LoadingSlot
      <4>2. Waiting'[b] \subseteq Loads
        BY DEF Waiting
      <4>. QED
        BY <3>1, <3>2, <4>1, <4>2
    <3>3. CASE b # a
      BY <1>6, <3>1, <3>3 DEF Waiting
    <3>. QED
      BY <3>2, <3>3
  <2>3. Waiting = [b \in AdGroups |-> Waiting[b]] /\ Waiting' = [b \in AdGroups |-> Waiting'[b]]
    BY DEF Waiting
  <2>. HIDE DEF a
  <2>. QED
    BY <2>2, <2>3
<1>14. Request' = [Request EXCEPT ![a] = Contract!NotAsked]
  <2>1. Request'[a] = Contract!NotAsked
    <3>1. slots'[a].kind # "loading"
      BY <1>2, <1>6 DEF EmptySlot, LoadedSlot
    <3>. QED
      BY <1>2, <3>1 DEF Request, Contract!NotAsked
  <2>2. ASSUME NEW b \in AdGroups, b # a
        PROVE  Request'[b] = Request[b]
    <3>1. slots'[b] = slots[b] /\ slots[b] # LoadingSlot(l)
      BY <1>2, <1>6, <2>2
    <3>2. CASE slots[b].kind = "loading"
      <4>1. slots[b].task \in Loads /\ slots[b].task # l
        BY <3>1, <3>2, SlotsHaveShape
      <4>2. op'[slots[b].task] = op[slots[b].task]
        BY <1>1, <4>1 DEF Ops
      <4>. QED
        BY <3>1, <4>2 DEF Request, InFlow
    <3>3. CASE slots[b].kind # "loading"
      BY <3>1, <3>3 DEF Request
    <3>. QED
      BY <3>2, <3>3
  <2>3. Request = [b \in AdGroups |-> Request[b]] /\ Request' = [b \in AdGroups |-> Request'[b]]
    BY DEF Request
  <2>. HIDE DEF a
  <2>. QED
    BY <2>1, <2>2, <2>3
<1>15. UNCHANGED Screen
  BY <1>0, <1>1, SameScreens DEF Ops
<1>16. Contract!LoadEnds(a, result)
  BY <1>8, <1>10, <1>11, <1>12, <1>13, <1>14, <1>15 DEF Contract!LoadEnds, Ops
<1>. QED
  BY <1>2, <1>3, <1>16

LEMMA ShowContinuesIsContracted ==
    ASSUME AdsIInv, NEW s \in Shows, ShowContinues(s)
    PROVE  /\ op[s].outcome \in {"rewarded", "dismissed", "failed", "error", "timeout"}
           /\ Contract!ShowEnds(s, op[s].outcome)
<1>. DEFINE result == op[s].outcome
<1>0. /\ Loads \cap Shows = {} /\ s \in Ops /\ s \notin Loads
      /\ None \notin AdGroups
  BY AdsAssumption DEF Ops
<1>1. /\ Running(s) /\ Continues(s) /\ End(s)
      /\ awaits' = awaits /\ slots' = slots
      /\ op'[s].phase = "done" /\ op'[s].result = result
      /\ \A y \in Ops : y # s => op'[y] = op[y]
  BY <1>0, ContinuationEnds DEF ShowContinues
<1>2. op[s] \in OpType /\ op[s].ad \in AdGroups
  BY <1>0, <1>1 DEF AdsIInv, AdsInv, TypeOK, WhoRunsHasAGroup
<1>3. /\ result \in {"rewarded", "dismissed", "failed", "error", "timeout"}
      /\ result \in {"rewarded", "dismissed", "failed"} => op[s].phase = "open"
      /\ result = "timeout" => op[s].overdue
      /\ result = "rewarded" => op[s].earned
      /\ result = "dismissed" => ~op[s].earned
  BY <1>0, <1>1, <1>2
    DEF AdsIInv, DecisionsAreTrue, RecordIsTrue, Continues, Settled, OpType
<1>4. Screen[s] = [ad |-> op[s].ad, asked |-> InFlow(s), late |-> op[s].overdue,
                   earned |-> op[s].earned]
  BY <1>1 DEF Screen
<1>5. /\ Screen[s].ad # None
      /\ result \in {"rewarded", "dismissed", "failed"} => Screen[s].asked
      /\ result = "rewarded" => Screen[s].earned
      /\ result = "dismissed" => ~Screen[s].earned
      /\ result = "timeout" => Screen[s].late
  <2>1. /\ Screen[s].ad = op[s].ad /\ Screen[s].asked = InFlow(s)
        /\ Screen[s].late = op[s].overdue /\ Screen[s].earned = op[s].earned
    BY <1>4
  <2>2. result \in {"rewarded", "dismissed", "failed"} => InFlow(s)
    BY <1>3 DEF InFlow
  <2>. HIDE DEF result
  <2>. QED
    BY <1>0, <1>2, <1>3, <2>1, <2>2
<1>6. Told' = [Told EXCEPT ![s] = result]
  <2>1. \A c \in Ops : TaskOf(c)' = TaskOf(c) /\ TaskOf(c) \in Ops
    BY <1>1, TasksAreOps DEF TaskOf
  <2>2. \A c \in Ops : TaskOf(c) = s <=> c = s
    <3>1. \A c \in Loads : awaits[c] \in Loads \cup {None}
      BY DEF AdsIInv, AdsInv, TypeOK
    <3>. QED
      BY <1>0, <3>1 DEF TaskOf
  <2>3. \A c \in Ops : Told'[c] = IF c = s THEN result ELSE Told[c]
    BY <1>1, <2>1, <2>2 DEF Told
  <2>4. Told = [c \in Ops |-> Told[c]] /\ Told' = [c \in Ops |-> Told'[c]]
    BY DEF Told
  <2>. HIDE DEF result
  <2>. QED
    BY <1>0, <2>3, <2>4
<1>7. Screen' = [Screen EXCEPT ![s] = Contract!Off]
  <2>1. Screen'[s] = Contract!Off
    BY <1>1 DEF Screen, Contract!Off, Running
  <2>2. \A t \in Shows : t # s => Screen'[t] = Screen[t]
    BY <1>1 DEF Screen, Running, InFlow, Ops
  <2>3. Screen = [t \in Shows |-> Screen[t]] /\ Screen' = [t \in Shows |-> Screen'[t]]
    BY DEF Screen
  <2>. QED
    BY <2>1, <2>2, <2>3
<1>8. UNCHANGED <<Ready, Waiting>>
  BY <1>1 DEF Ready, Waiting, LoadedSlot, LoadingSlot
<1>9. UNCHANGED Request
  BY <1>0, <1>1, SameRequests DEF Ops
<1>10. Contract!ShowEnds(s, result)
  BY <1>5, <1>6, <1>7, <1>8, <1>9 DEF Contract!ShowEnds
<1>. QED
  BY <1>3, <1>10

-----------------------------------------------------------------------------
LEMMA AdsIInit == Init => AdsIInv
<1>1. Init => AdsInv
  BY AdsInit
<1>2. Init => DecisionsAreTrue /\ TasksAreAwaited
  BY DEF Init, IdleOp, DecisionsAreTrue, TasksAreAwaited, RecordIsTrue, Running, Ops
<1>. QED
  BY <1>1, <1>2 DEF AdsIInv

LEMMA AdsIStep == AdsIInv /\ [Next]_vars => AdsIInv'
<1>. SUFFICES ASSUME AdsIInv, [Next]_vars
              PROVE  AdsIInv'
  OBVIOUS
<1>1. AdsInv'
  BY AdsStep DEF AdsIInv
<1>2. ASSUME NEW x \in Ops, FlowStep(x)
      PROVE  DecisionsAreTrue' /\ TasksAreAwaited'
  BY <1>2, StepsAreWithinFlow, WithinFlowKeeps
<1>3. ASSUME NEW l \in Loads, LoadStep(l)
      PROVE  DecisionsAreTrue' /\ TasksAreAwaited'
  <2>1. CASE \E a \in AdGroups : Load(l, a)
    BY <2>1, LoadKeepsTruth
  <2>2. CASE ProviderLoaded(l)
    BY <1>2, <2>2 DEF FlowStep, Ops
  <2>3. CASE LoadContinues(l)
    BY <2>3, ContinuationKeepsTruth DEF LoadContinues, Ops
  <2>. QED
    BY <1>3, <2>1, <2>2, <2>3 DEF LoadStep
<1>4. ASSUME NEW s \in Shows, ShowStep(s)
      PROVE  DecisionsAreTrue' /\ TasksAreAwaited'
  <2>1. CASE \E a \in AdGroups : Show(s, a)
    BY <2>1, ShowKeepsTruth
  <2>2. CASE UserEarnedReward(s) \/ Dismissed(s) \/ FailedToShow(s)
    BY <1>2, <2>2 DEF FlowStep, Ops
  <2>3. CASE ShowContinues(s)
    BY <2>3, ContinuationKeepsTruth DEF ShowContinues, Ops
  <2>. QED
    BY <1>4, <2>1, <2>2, <2>3 DEF ShowStep
<1>5. CASE UNCHANGED vars
  <2>1. op' = op /\ awaits' = awaits
    BY <1>5 DEF vars
  <2>2. DecisionsAreTrue' <=> DecisionsAreTrue
    BY <2>1 DEF DecisionsAreTrue
  <2>3. TasksAreAwaited' <=> TasksAreAwaited
    BY <2>1 DEF TasksAreAwaited, Running
  <2>. QED
    BY <1>1, <2>2, <2>3 DEF AdsIInv
<1>6. CASE Next
  <2>1. CASE \E x \in Ops : OpStep(x)
    BY <1>1, <1>2, <2>1 DEF FlowStep, AdsIInv
  <2>2. CASE \E l \in Loads : LoadStep(l)
    BY <1>1, <1>3, <2>2 DEF AdsIInv
  <2>3. CASE \E s \in Shows : ShowStep(s)
    BY <1>1, <1>4, <2>3 DEF AdsIInv
  <2>. QED
    BY <1>6, <2>1, <2>2, <2>3 DEF Next
<1>. QED
  BY <1>1, <1>5, <1>6 DEF AdsIInv

LEMMA AdsIInvariance == Spec => []AdsIInv
BY AdsIInit, AdsIStep, PTL DEF Spec

LEMMA ContractStarts == Init => Contract!ContractInit
<1>. SUFFICES ASSUME Init PROVE Contract!ContractInit
  OBVIOUS
<1>1. /\ \A a \in AdGroups : slots[a] = EmptySlot
      /\ \A l \in Loads : awaits[l] = None
      /\ \A x \in Ops : op[x].phase = "idle" /\ op[x].result = "none"
  BY DEF Init, IdleOp
<1>2. Ready = {}
  BY <1>1, SlotsAreApart DEF Ready
<1>3. Waiting = [a \in AdGroups |-> {}]
  BY <1>1 DEF Waiting
<1>4. Request = [a \in AdGroups |-> Contract!NotAsked]
  BY <1>1 DEF Request, EmptySlot, Contract!NotAsked
<1>5. Screen = [s \in Shows |-> Contract!Off]
  BY <1>1 DEF Screen, Running, Ops, Contract!Off
<1>6. Told = [c \in Loads \cup Shows |-> Contract!Untold]
  BY <1>1 DEF Told, TaskOf, Ops, Contract!Untold
<1>. QED
  BY <1>2, <1>3, <1>4, <1>5, <1>6 DEF Contract!ContractInit

LEMMA ContractSimulation ==
    AdsIInv /\ [Next]_vars => [Contract!ContractNext]_seenVars
<1>. SUFFICES ASSUME AdsIInv, [Next]_vars
              PROVE  Contract!ContractNext \/ UNCHANGED seenVars
  OBVIOUS
<1>1. ASSUME NEW x \in Ops, FlowStep(x)
      PROVE  Contract!ContractNext \/ UNCHANGED seenVars
  BY <1>1, StepsAreWithinFlow, WithinFlowIsContracted
<1>2. ASSUME NEW l \in Loads, LoadStep(l)
      PROVE  Contract!ContractNext \/ UNCHANGED seenVars
  <2>1. CASE \E a \in AdGroups : Load(l, a)
    BY <2>1, LoadIsContracted DEF Contract!ContractNext
  <2>2. CASE ProviderLoaded(l)
    BY <1>1, <2>2 DEF FlowStep, Ops
  <2>3. CASE LoadContinues(l)
    BY <2>3, LoadContinuesIsContracted DEF Contract!ContractNext
  <2>. QED
    BY <1>2, <2>1, <2>2, <2>3 DEF LoadStep
<1>3. ASSUME NEW s \in Shows, ShowStep(s)
      PROVE  Contract!ContractNext \/ UNCHANGED seenVars
  <2>1. CASE \E a \in AdGroups : Show(s, a)
    BY <2>1, ShowIsContracted DEF Contract!ContractNext
  <2>2. CASE UserEarnedReward(s) \/ Dismissed(s) \/ FailedToShow(s)
    BY <1>1, <2>2 DEF FlowStep, Ops
  <2>3. CASE ShowContinues(s)
    BY <2>3, ShowContinuesIsContracted DEF Contract!ContractNext
  <2>. QED
    BY <1>3, <2>1, <2>2, <2>3 DEF ShowStep
<1>4. CASE UNCHANGED vars
  <2>1. UNCHANGED <<slots, op, awaits>>
    BY <1>4 DEF vars
  <2>2. UNCHANGED <<Ready, Waiting, Request, Screen, Told>>
    BY <2>1 DEF Ready, Waiting, Request, Screen, Told, TaskOf, Running, InFlow,
                LoadedSlot, LoadingSlot
  <2>. QED
    BY <2>2 DEF seenVars
<1>5. CASE Next
  BY <1>1, <1>2, <1>3, <1>5 DEF Next, FlowStep
<1>. QED
  BY <1>4, <1>5

(* The adapter keeps its contract for any ad groups, loads and shows, and  *)
(* whether its times are limited or not: those who joined a load are told  *)
(* what its one request came to, the provider is asked for nothing once the*)
(* time is up, one show takes an ad and is told of a reward if and only if *)
(* it was earned in it.                                                    *)
THEOREM AdsKeepTheirContract == Spec => ImplementsAdContract
<1>1. Init => Contract!ContractInit
  BY ContractStarts
<1>2. AdsIInv /\ [Next]_vars => [Contract!ContractNext]_Contract!contractVars
  BY ContractSimulation DEF seenVars, Contract!contractVars
<1>. QED
  BY <1>1, <1>2, AdsIInvariance, PTL
    DEF Spec, ImplementsAdContract, Contract!ContractSpec

=============================================================================
