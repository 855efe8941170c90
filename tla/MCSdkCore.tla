------------------------------ MODULE MCSdkCore ------------------------------
(***************************************************************************)
(* The two building blocks of the SDK's adapters on one instance: the grant*)
(* coordinator and the event flow.  They share no state, so a behaviour is *)
(* one of either.                                                          *)
(***************************************************************************)
EXTENDS GrantCoordinator, EventFlow

coreVars == <<coordVars, vars>>

NoGrant == \A c \in Callers : call[c].phase = "idle"
NoFlow == \A f \in Flows : stage[f] = "start"

MCInit == CoordInit /\ Init

MCNext ==
    \/ NoFlow /\ CoordNext /\ UNCHANGED vars
    \/ NoGrant /\ Next /\ UNCHANGED coordVars

-----------------------------------------------------------------------------
(***************************************************************************)
(* The fairness of either block: settled promises are followed up, due     *)
(* timers fire, synchronous platform calls return, and the consumer's      *)
(* grant callback settles.                                                 *)
(***************************************************************************)
LeaveRegister(f) ==
    RegisterThrows(f) \/ \E hasCleanup \in BOOLEAN : RegisterReturns(f, hasCleanup)

MCSpec ==
    /\ MCInit /\ [][MCNext]_coreVars
    /\ \A o \in Orders :
          /\ WF_coreVars(UNCHANGED vars /\ (GrantResolves(o) \/ GrantRejects(o)))
          /\ WF_coreVars(UNCHANGED vars /\ Release(o))
    /\ \A c \in Callers : WF_coreVars(UNCHANGED vars /\ Continue(c))
    /\ \A f \in Flows :
          /\ WF_coreVars(UNCHANGED coordVars /\ LeaveRegister(f))
          /\ WF_coreVars(UNCHANGED coordVars /\ TimerFires(f))
          /\ WF_coreVars(UNCHANGED coordVars /\ CleanupEnds(f))

(* Nobody waits for ever on the building blocks: every call of run()       *)
(* returns, whatever its attempt comes to, and a flow with a deadline      *)
(* settles although its platform stays silent.                             *)
CoreCallsEnd == CallsReturn /\ FlowSettles
=============================================================================
