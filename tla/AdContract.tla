------------------------------ MODULE AdContract ------------------------------
(***************************************************************************)
(* What the full-screen ad adapter promises (packages/sdk/src/ads/         *)
(* adapter.ts, the comments of AdsAdapter, AdDeadline and                  *)
(* createAdsAdapter), with nothing said of slots, tasks, marks and flows.  *)
(* A consumer sees which ads can be shown and what its calls are told; the *)
(* provider sees what it is asked for and says who has earned a reward.    *)
(***************************************************************************)
CONSTANTS AdGroups, Loads, Shows, None

VARIABLES ready,    \* ad groups with a loaded ad nobody has shown
          waiting,  \* per ad group: load calls that wait, joined ones included
          request,  \* per ad group: the provider's side of the load under way
          screen,   \* per show: its ad group and the provider's side
          told      \* per call: its answer

contractVars == <<ready, waiting, request, screen, told>>

NotAsked == [asked |-> FALSE, late |-> FALSE]
Off == [ad |-> None, asked |-> FALSE, late |-> FALSE, earned |-> FALSE]
Untold == "none"

ContractInit ==
    /\ ready = {}
    /\ waiting = [a \in AdGroups |-> {}]
    /\ request = [a \in AdGroups |-> NotAsked]
    /\ screen = [s \in Shows |-> Off]
    /\ told = [c \in Loads \cup Shows |-> Untold]

(***************************************************************************)
(* A load call is answered at once when an ad is ready, and waits for the  *)
(* load under way or a new one otherwise.                                  *)
(***************************************************************************)
LoadCalled(l, a) ==
    /\ told[l] = Untold
    /\ \A b \in AdGroups : l \notin waiting[b]
    /\ \/ /\ a \in ready
          /\ told' = [told EXCEPT ![l] = "ok"]
          /\ UNCHANGED waiting
       \/ /\ a \notin ready
          /\ waiting' = [waiting EXCEPT ![a] = @ \cup {l}]
          /\ UNCHANGED told
    /\ UNCHANGED <<ready, request, screen>>

(***************************************************************************)
(* The provider is asked once for all who wait, and in time.               *)
(***************************************************************************)
LoadAsked(a) ==
    /\ waiting[a] # {}
    /\ request[a] = NotAsked
    /\ request' = [request EXCEPT ![a].asked = TRUE]
    /\ UNCHANGED <<ready, waiting, screen, told>>

LoadLate(a) ==
    /\ waiting[a] # {}
    /\ request' = [request EXCEPT ![a].late = TRUE]
    /\ UNCHANGED <<ready, waiting, screen, told>>

(***************************************************************************)
(* All who wait are told the same.  Success makes one ad ready, and after a*)
(* failure the next call begins afresh.                                    *)
(***************************************************************************)
LoadEnds(a, result) ==
    /\ waiting[a] # {}
    /\ result = "ok" => request[a].asked
    /\ result = "timeout" => request[a].late
    /\ told' = [c \in Loads \cup Shows |->
                  IF c \in waiting[a] THEN result ELSE told[c]]
    /\ ready' = IF result = "ok" THEN ready \cup {a} ELSE ready
    /\ waiting' = [waiting EXCEPT ![a] = {}]
    /\ request' = [request EXCEPT ![a] = NotAsked]
    /\ UNCHANGED screen

OnScreen(a) == \E s \in Shows : screen[s].ad = a

(***************************************************************************)
(* A show takes the ad for itself, or is refused for a reason that is true.*)
(***************************************************************************)
ShowCalled(s, a) ==
    /\ told[s] = Untold
    /\ screen[s] = Off
    /\ \/ /\ OnScreen(a)
          /\ told' = [told EXCEPT ![s] = "already_showing"]
          /\ UNCHANGED <<ready, screen>>
       \/ /\ ~OnScreen(a) /\ a \notin ready
          /\ told' = [told EXCEPT ![s] = "not_loaded"]
          /\ UNCHANGED <<ready, screen>>
       \/ /\ ~OnScreen(a) /\ a \in ready
          /\ ready' = ready \ {a}
          /\ screen' = [screen EXCEPT ![s].ad = a]
          /\ UNCHANGED told
    /\ UNCHANGED <<waiting, request>>

ShowAsked(s) ==
    /\ screen[s].ad # None
    /\ ~screen[s].asked /\ ~screen[s].late
    /\ screen' = [screen EXCEPT ![s].asked = TRUE]
    /\ UNCHANGED <<ready, waiting, request, told>>

ShowLate(s) ==
    /\ screen[s].ad # None
    /\ screen' = [screen EXCEPT ![s].late = TRUE]
    /\ UNCHANGED <<ready, waiting, request, told>>

RewardEarned(s) ==
    /\ screen[s].asked
    /\ screen' = [screen EXCEPT ![s].earned = TRUE]
    /\ UNCHANGED <<ready, waiting, request, told>>

(***************************************************************************)
(* A show that ends with the ad dismissed tells of a reward if and only if *)
(* the provider has said so; a timeout is told only when time is over.     *)
(***************************************************************************)
ShowEnds(s, result) ==
    /\ screen[s].ad # None
    /\ result \in {"rewarded", "dismissed", "failed"} => screen[s].asked
    /\ result = "rewarded" => screen[s].earned
    /\ result = "dismissed" => ~screen[s].earned
    /\ result = "timeout" => screen[s].late
    /\ told' = [told EXCEPT ![s] = result]
    /\ screen' = [screen EXCEPT ![s] = Off]
    /\ UNCHANGED <<ready, waiting, request>>

ContractNext ==
    \/ \E a \in AdGroups :
          \/ \E l \in Loads : LoadCalled(l, a)
          \/ LoadAsked(a)
          \/ LoadLate(a)
          \/ \E result \in {"ok", "error", "timeout"} : LoadEnds(a, result)
    \/ \E s \in Shows :
          \/ \E a \in AdGroups : ShowCalled(s, a)
          \/ ShowAsked(s)
          \/ ShowLate(s)
          \/ RewardEarned(s)
          \/ \E result \in {"rewarded", "dismissed", "failed", "error", "timeout"} :
                ShowEnds(s, result)

ContractSpec == ContractInit /\ [][ContractNext]_contractVars
=============================================================================
