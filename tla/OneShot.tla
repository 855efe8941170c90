------------------------------- MODULE OneShot -------------------------------
(***************************************************************************)
(* What event flows promise their callers (the header comment of           *)
(* packages/sdk/src/event-flow.ts): each flow yields one value, decided    *)
(* once, and a registration that is given back by the time the value is    *)
(* out.                                                                    *)
(***************************************************************************)
CONSTANTS Flows, Values, Pending

VARIABLES value,     \* what each promise settled with
          resource   \* the listener each flow has at the platform

Init ==
    /\ value = [f \in Flows |-> Pending]
    /\ resource = [f \in Flows |-> "none"]

Acquire(f) ==
    /\ resource[f] = "none"
    /\ resource' = [resource EXCEPT ![f] = "registered"]
    /\ UNCHANGED value

Release(f) ==
    /\ resource[f] = "registered"
    /\ resource' = [resource EXCEPT ![f] = "released"]
    /\ UNCHANGED value

(***************************************************************************)
(* The value comes out; a listener still held is given back first.         *)
(***************************************************************************)
Conclude(f, v) ==
    /\ value[f] = Pending
    /\ value' = [value EXCEPT ![f] = v]
    /\ resource' = [resource EXCEPT
                      ![f] = IF @ = "registered" THEN "released" ELSE @]

Next ==
    \E f \in Flows :
        Acquire(f) \/ Release(f) \/ \E v \in Values : Conclude(f, v)

Spec == Init /\ [][Next]_<<value, resource>>
=============================================================================
