----------------------------- MODULE RewardLedger -----------------------------
(***************************************************************************)
(* What granting a reward through prepare, execute and status comes to: a  *)
(* reward is paid with one key, once and for good, and its consumer        *)
(* credits it after that and not before.  Keys, requests, lost answers and *)
(* crashes do not appear here.                                             *)
(***************************************************************************)
CONSTANTS Keys, Rewards

VARIABLES payments,  \* the keys with which each reward has been paid
          credited   \* rewards their consumers have credited

ledgerVars == <<payments, credited>>

LedgerInit ==
    /\ payments = [r \in Rewards |-> {}]
    /\ credited = {}

Pay(r, k) ==
    /\ payments[r] = {}
    /\ payments' = [payments EXCEPT ![r] = {k}]
    /\ UNCHANGED credited

Credit(r) ==
    /\ payments[r] # {}
    /\ credited' = credited \cup {r}
    /\ UNCHANGED payments

LedgerNext ==
    \E r \in Rewards : Credit(r) \/ \E k \in Keys : Pay(r, k)

LedgerSpec == LedgerInit /\ [][LedgerNext]_ledgerVars
=============================================================================
