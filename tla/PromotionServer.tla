--------------------------- MODULE PromotionServer ---------------------------
(***************************************************************************)
(* Promotion grants on the server, packages/api-core/src/promotion.ts, in  *)
(* forward mode: the explicit steps preparePromotionReward,                *)
(* executePromotionReward and statusPromotionReward, and the legacy        *)
(* grantPromotionReward, which chains the three requests in one call.      *)
(*                                                                         *)
(* The functions keep nothing between calls.  What they must get right is  *)
(* what they say of a request whose answer may be lost, late or garbled,   *)
(* because their consumer acts on it.  So the provider's ledger and the    *)
(* consumer that the package's README prescribes are modelled with them:   *)
(* it stores a key before executing it, never executes a key twice, asks   *)
(* for the status when in doubt, takes a new key only after a definite     *)
(* failure, and credits only on GRANTED.                                   *)
(***************************************************************************)
CONSTANTS Keys,      \* transaction keys the provider can issue
          Rewards,   \* rewards a consumer grants through the explicit steps
          Legacy,    \* calls of the legacy grant
          NoKey

ASSUME ServerAssumption ==
    /\ Rewards \cap Legacy = {}
    /\ NoKey \notin Keys
    /\ NoKey \notin Rewards
    /\ NoKey \notin Legacy

VARIABLES ledger,    \* external: the provider's record of a key
          owner,     \* external: for what a key was issued
          wire,      \* external: keys whose execute request is on its way
          consumer,  \* a reward's stored stage, key and latest verdict
          legacy     \* a legacy call's progress, key and result

serverVars == <<ledger, owner, wire, consumer, legacy>>

(***************************************************************************)
(* Answers of the provider, by what the functions read of them: the HTTP   *)
(* status, isUpstreamFailure (an `ok: false` or a failing top-level        *)
(* resultType), the strict resultType (which may be nested), the strict    *)
(* error code, whether there is a string key, and the status field         *)
(* ("alias": a value only the legacy reader takes for granted).            *)
(***************************************************************************)
Https == {"2xx", "4xx", "other"}
Types == {"SUCCESS", "FAIL", "other", "none"}
Codes == {"none", "4111", "4113", "other"}

KeyAnswers == [http : Https, failure : BOOLEAN, type : Types, key : BOOLEAN]
ExecuteAnswers ==
    [http : Https, failure : BOOLEAN, type : Types, code : Codes]
StatusAnswers ==
    [http : Https, failure : BOOLEAN, type : Types, code : Codes,
     status : {"SUCCESS", "PENDING", "FAILED", "alias", "other", "none"}]

Failed(a) == a.http # "2xx" \/ a.failure
ExplicitSuccess(a) == ~Failed(a) /\ a.type = "SUCCESS"
ExplicitFail(a) == a.http = "2xx" /\ a.failure /\ a.type = "FAIL"

-----------------------------------------------------------------------------
(***************************************************************************)
(* What the functions make of an answer.                                   *)
(***************************************************************************)

\* Mutants: any failing answer to an execute is a failure; a status is
\* believed outside a SUCCESS envelope.
ExecuteVerdictAnyFailure(a) ==
    CASE ExplicitSuccess(a) -> "SUBMITTED"
      [] Failed(a) -> "FAILED"
      [] OTHER -> "UNKNOWN"
StatusVerdictAnyEnvelope(a) ==
    CASE a.status = "SUCCESS" -> "GRANTED"
      [] a.status \in {"PENDING", "FAILED"} -> a.status
      [] OTHER -> "UNKNOWN"

PrepareGivesKey(a) == ExplicitSuccess(a) /\ a.key

DefiniteRejection(a) ==
    a.http = "4xx" \/ (ExplicitFail(a) /\ a.code # "none")

ExecuteVerdict(a) ==
    CASE ExplicitSuccess(a) -> "SUBMITTED"
      [] DefiniteRejection(a) -> "FAILED"
      [] OTHER -> "UNKNOWN"

StatusVerdict(a) ==
    CASE ExplicitFail(a) /\ a.code = "4111" -> "NOT_FOUND"
      [] ExplicitSuccess(a) /\ a.status = "SUCCESS" -> "GRANTED"
      [] ExplicitSuccess(a) /\ a.status \in {"PENDING", "FAILED"} -> a.status
      [] OTHER -> "UNKNOWN"

(***************************************************************************)
(* The legacy reader also takes aliases, and an envelope without a status  *)
(* by its resultType; whatever it does not know is FAILED.                 *)
(***************************************************************************)
LegacyStatus(a) ==
    CASE Failed(a) \/ a.status = "PENDING" -> "PENDING"
      [] ~Failed(a) /\ (\/ a.status \in {"SUCCESS", "alias"}
                        \/ a.status = "none" /\ a.type = "SUCCESS") -> "GRANTED"
      [] OTHER -> "FAILED"

-----------------------------------------------------------------------------
(***************************************************************************)
(* The provider.  It issues a key for a recipient, takes an execute        *)
(* request whenever it arrives, accepts each key at most once and settles  *)
(* it in its own time.                                                     *)
(***************************************************************************)
HasRecord(k) == ledger[k] \in {"pending", "granted", "failed"}

(***************************************************************************)
(* An explicit answer to an execute is true.  A success has a record, and  *)
(* so has a key refused with 4113; any other refusal says that the request *)
(* was not applied.  Every other answer, a 5xx say, can stand for anything.*)
(***************************************************************************)
Refusal(a) ==
    \/ a.http = "4xx"
    \/ a.http = "2xx" /\ a.failure /\ a.type = "FAIL" /\ a.code # "none"

Confirmation(a) == a.http = "2xx" /\ ~a.failure /\ a.type = "SUCCESS"

ExecuteAnswerIsPossible(k, a) ==
    /\ Confirmation(a) => HasRecord(k)
    /\ Refusal(a) => IF a.code = "4113" THEN HasRecord(k)
                     ELSE ledger[k] = "issued" /\ k \notin wire

StatusAnswerIsPossible(k, a) ==
    Confirmation(a) =>
        /\ a.status = "SUCCESS" => ledger[k] = "granted"
        /\ a.status = "PENDING" => HasRecord(k)
        /\ a.status = "FAILED" => ledger[k] = "failed"

PossibleStatus(k) == {a \in StatusAnswers : StatusAnswerIsPossible(k, a)}

Issue(k, who) ==
    /\ ledger[k] = "unissued"
    /\ ledger' = [ledger EXCEPT ![k] = "issued"]
    /\ owner' = [owner EXCEPT ![k] = who]

ExecuteArrives(k, accepted) ==
    /\ k \in wire
    /\ wire' = wire \ {k}
    /\ ledger' = [ledger EXCEPT
                    ![k] = IF accepted /\ @ = "issued" THEN "pending" ELSE @]
    /\ UNCHANGED <<owner, consumer, legacy>>

ProviderSettles(k, outcome) ==
    /\ ledger[k] = "pending"
    /\ ledger' = [ledger EXCEPT ![k] = outcome]
    /\ UNCHANGED <<owner, wire, consumer, legacy>>

-----------------------------------------------------------------------------
ServerInit ==
    /\ ledger = [k \in Keys |-> "unissued"]
    /\ owner = [k \in Keys |-> NoKey]
    /\ wire = {}
    /\ consumer = [r \in Rewards |->
                     [stage |-> "new", key |-> NoKey, verdict |-> "none"]]
    /\ legacy = [c \in Legacy |->
                   [phase |-> "idle", key |-> NoKey, result |-> "none"]]

(***************************************************************************)
(* preparePromotionReward.  A key that reaches nobody stays unissued here. *)
(***************************************************************************)
Prepare(r) ==
    /\ consumer[r].stage = "new"
    /\ consumer' = [consumer EXCEPT ![r].stage = "preparing"]
    /\ UNCHANGED <<ledger, owner, wire, legacy>>

PrepareSucceeds(r, k, a) ==
    /\ consumer[r].stage = "preparing"
    /\ PrepareGivesKey(a)
    /\ Issue(k, r)
    /\ consumer' = [consumer EXCEPT ![r] = [stage |-> "prepared", key |-> k,
                                            verdict |-> "none"]]
    /\ UNCHANGED <<wire, legacy>>

PrepareFails(r) ==
    /\ consumer[r].stage = "preparing"
    /\ consumer' = [consumer EXCEPT ![r].stage = "new"]
    /\ UNCHANGED <<ledger, owner, wire, legacy>>

(***************************************************************************)
(* executePromotionReward.  Up to the request nothing has been sent, and   *)
(* whatever goes wrong there is thrown.                                    *)
(***************************************************************************)
Execute(r) ==
    /\ consumer[r].stage = "prepared"
    /\ consumer' = [consumer EXCEPT ![r].stage = "dispatching"]
    /\ UNCHANGED <<ledger, owner, wire, legacy>>

DispatchFails(r) ==
    /\ consumer[r].stage = "dispatching"
    /\ consumer' = [consumer EXCEPT ![r].stage = "prepared"]
    /\ UNCHANGED <<ledger, owner, wire, legacy>>

DispatchExecute(r) ==
    /\ consumer[r].stage = "dispatching"
    /\ wire' = wire \cup {consumer[r].key}
    /\ consumer' = [consumer EXCEPT ![r].stage = "executing"]
    /\ UNCHANGED <<ledger, owner, legacy>>

\* Mutant: a request the transport rejects has failed.
ExecuteRejectedFails(r) ==
    /\ consumer[r].stage = "executing"
    /\ consumer' = [consumer EXCEPT ![r].stage = "failed",
                                    ![r].verdict = "FAILED"]
    /\ UNCHANGED <<ledger, owner, wire, legacy>>

(***************************************************************************)
(* The transport rejects the request, before or after the provider had it. *)
(***************************************************************************)
ExecuteRejected(r) ==
    /\ consumer[r].stage = "executing"
    /\ consumer' = [consumer EXCEPT ![r].stage = "polling",
                                    ![r].verdict = "UNKNOWN"]
    /\ UNCHANGED <<ledger, owner, wire, legacy>>

(***************************************************************************)
(* An answer arrives.  The consumer gives up on the key only for a failure *)
(* that is not 4113.                                                       *)
(***************************************************************************)
ExecuteAnswered(r, a) ==
    /\ consumer[r].stage = "executing"
    /\ ExecuteAnswerIsPossible(consumer[r].key, a)
    /\ consumer' = [consumer EXCEPT
          ![r].stage = IF ExecuteVerdict(a) = "FAILED" /\ a.code # "4113"
                       THEN "failed" ELSE "polling",
          ![r].verdict = ExecuteVerdict(a)]
    /\ UNCHANGED <<ledger, owner, wire, legacy>>

(***************************************************************************)
(* statusPromotionReward; a request the transport rejects is UNKNOWN too.  *)
(***************************************************************************)
StatusAnswered(r) ==
    /\ consumer[r].stage = "polling"
    /\ \E verdict \in {StatusVerdict(a) : a \in PossibleStatus(consumer[r].key)} :
          consumer' = [consumer EXCEPT
             ![r].stage = CASE verdict = "GRANTED" -> "credited"
                            [] verdict = "FAILED" -> "failed"
                            [] OTHER -> "polling",
             ![r].verdict = verdict]
    /\ UNCHANGED <<ledger, owner, wire, legacy>>

(***************************************************************************)
(* The consumer: a crash leaves what it had stored, so an execute that may *)
(* have been sent is followed by polling; a failed reward starts again     *)
(* with a new key.                                                         *)
(***************************************************************************)
Crash(r) ==
    /\ consumer[r].stage \in {"preparing", "dispatching", "executing"}
    /\ consumer' = [consumer EXCEPT
          ![r].stage = IF @ = "preparing" THEN "new" ELSE "polling"]
    /\ UNCHANGED <<ledger, owner, wire, legacy>>

Renew(r) ==
    /\ consumer[r].stage = "failed"
    /\ consumer' = [consumer EXCEPT ![r] = [stage |-> "new", key |-> NoKey,
                                            verdict |-> "none"]]
    /\ UNCHANGED <<ledger, owner, wire, legacy>>

-----------------------------------------------------------------------------
(***************************************************************************)
(* grantPromotionReward.  A call that brings a key only looks it up; the   *)
(* others get a key, execute it and look it up.                            *)
(***************************************************************************)
LegacyReturns(c, key, result) ==
    legacy' = [legacy EXCEPT ![c] = [phase |-> "returned", key |-> key,
                                     result |-> result]]

LegacyIncomplete(c) ==
    /\ legacy[c].phase = "idle"
    /\ LegacyReturns(c, NoKey, "MISSING")
    /\ UNCHANGED <<ledger, owner, wire, consumer>>

\* Mutant: a lookup executes its key.
LegacyLookupExecutes(c, k) ==
    /\ legacy[c].phase = "idle"
    /\ ledger[k] # "unissued"
    /\ wire' = wire \cup {k}
    /\ legacy' = [legacy EXCEPT ![c] = [phase |-> "execute", key |-> k,
                                        result |-> "none"]]
    /\ UNCHANGED <<ledger, owner, consumer>>

LegacyLookup(c, k) ==
    /\ legacy[c].phase = "idle"
    /\ ledger[k] # "unissued"
    /\ legacy' = [legacy EXCEPT ![c] = [phase |-> "result", key |-> k,
                                        result |-> "none"]]
    /\ UNCHANGED <<ledger, owner, wire, consumer>>

LegacyGetKey(c) ==
    /\ legacy[c].phase = "idle"
    /\ legacy' = [legacy EXCEPT ![c].phase = "key"]
    /\ UNCHANGED <<ledger, owner, wire, consumer>>

LegacyKeyFails(c, result) ==
    /\ legacy[c].phase = "key"
    /\ LegacyReturns(c, NoKey, result)
    /\ UNCHANGED <<ledger, owner, wire, consumer>>

(***************************************************************************)
(* The key arrives and the execute request leaves in the same turn.        *)
(***************************************************************************)
LegacyExecute(c, k) ==
    /\ legacy[c].phase = "key"
    /\ Issue(k, c)
    /\ wire' = wire \cup {k}
    /\ legacy' = [legacy EXCEPT ![c] = [phase |-> "execute", key |-> k,
                                        result |-> "none"]]
    /\ UNCHANGED consumer

LegacyExecuteAnswered(c, a) ==
    /\ legacy[c].phase = "execute"
    /\ ExecuteAnswerIsPossible(legacy[c].key, a)
    /\ IF Failed(a)
       THEN LegacyReturns(c, legacy[c].key, "PROMOTION_EXECUTE_FAILED")
       ELSE legacy' = [legacy EXCEPT ![c].phase = "result"]
    /\ UNCHANGED <<ledger, owner, wire, consumer>>

LegacyResultAnswered(c) ==
    /\ legacy[c].phase = "result"
    /\ \E result \in {LegacyStatus(a) : a \in PossibleStatus(legacy[c].key)} :
          LegacyReturns(c, legacy[c].key, result)
    /\ UNCHANGED <<ledger, owner, wire, consumer>>

(***************************************************************************)
(* No request of the legacy grant is guarded: a transport rejection leaves *)
(* as an exception, and the key with it.  A crash looks the same.          *)
(***************************************************************************)
LegacyThrows(c) ==
    /\ legacy[c].phase \in {"key", "execute", "result"}
    /\ legacy' = [legacy EXCEPT ![c] = [phase |-> "thrown", key |-> NoKey,
                                        result |-> "none"]]
    /\ UNCHANGED <<ledger, owner, wire, consumer>>

-----------------------------------------------------------------------------
ProviderStep(k) ==
    \/ \E accepted \in BOOLEAN : ExecuteArrives(k, accepted)
    \/ \E outcome \in {"granted", "failed"} : ProviderSettles(k, outcome)

ExplicitStep(r) ==
    \/ Prepare(r)
    \/ \E k \in Keys, a \in KeyAnswers : PrepareSucceeds(r, k, a)
    \/ PrepareFails(r)
    \/ Execute(r)
    \/ DispatchFails(r)
    \/ DispatchExecute(r)
    \/ ExecuteRejected(r)
    \/ \E a \in ExecuteAnswers : ExecuteAnswered(r, a)
    \/ StatusAnswered(r)
    \/ Crash(r)
    \/ Renew(r)

LegacyStep(c) ==
    \/ LegacyIncomplete(c)
    \/ \E k \in Keys : LegacyLookup(c, k)
    \/ LegacyGetKey(c)
    \/ \E result \in {"PROMOTION_KEY_FAILED", "PROMOTION_KEY_MISSING"} :
          LegacyKeyFails(c, result)
    \/ \E k \in Keys : LegacyExecute(c, k)
    \/ \E a \in ExecuteAnswers : LegacyExecuteAnswered(c, a)
    \/ LegacyResultAnswered(c)
    \/ LegacyThrows(c)

ServerNext ==
    \/ \E k \in Keys : ProviderStep(k)
    \/ \E r \in Rewards : ExplicitStep(r)
    \/ \E c \in Legacy : LegacyStep(c)

ServerSpec == ServerInit /\ [][ServerNext]_serverVars

-----------------------------------------------------------------------------
Stages == {"new", "preparing", "prepared", "dispatching", "executing",
           "polling", "failed", "credited"}
Verdicts == {"none", "SUBMITTED", "UNKNOWN", "FAILED", "GRANTED", "PENDING",
             "NOT_FOUND"}
LegacyPhases == {"idle", "key", "execute", "result", "returned", "thrown"}
LegacyResults == {"none", "MISSING", "PROMOTION_KEY_FAILED",
                  "PROMOTION_KEY_MISSING", "PROMOTION_EXECUTE_FAILED",
                  "PENDING", "FAILED", "GRANTED"}

(* Type invariant of the ledger, the wire, the consumers and the calls.    *)
ServerTypeOK ==
    /\ ledger \in [Keys -> {"unissued", "issued", "pending", "granted",
                            "failed"}]
    /\ owner \in [Keys -> Rewards \cup Legacy \cup {NoKey}]
    /\ wire \subseteq Keys
    /\ consumer \in [Rewards -> [stage : Stages, key : Keys \cup {NoKey},
                                 verdict : Verdicts]]
    /\ legacy \in [Legacy -> [phase : LegacyPhases, key : Keys \cup {NoKey},
                              result : LegacyResults]]

(* A key from which the provider pays, has paid or may yet pay.            *)
Live(k) == ledger[k] \in {"pending", "granted"} \/ k \in wire

(* A reward is paid from one key at most, however many answers are lost or *)
(* late and however often its consumer crashes: as long as one key of it   *)
(* may still be paid, no verdict of execute or status makes the consumer   *)
(* execute another.                                                        *)
RewardPaidOnce ==
    \A r \in Rewards, j, k \in Keys :
        owner[j] = r /\ owner[k] = r /\ Live(j) /\ Live(k) => j = k

(* What execute and status say holds in the provider's ledger, also for an *)
(* execute request that is still on its way: SUBMITTED and PENDING have a  *)
(* record, GRANTED was granted, and a key given up is never paid.          *)
VerdictsAreTrue ==
    \A r \in Rewards :
        LET k == consumer[r].key IN
        /\ consumer[r].verdict \in {"SUBMITTED", "PENDING"} => HasRecord(k)
        /\ consumer[r].verdict = "GRANTED" => ledger[k] = "granted"
        /\ consumer[r].stage = "failed" => ~Live(k)

(* A legacy call that returns without a key has set no payment in motion,  *)
(* and one that was given a key never executes it: a key its consumer has  *)
(* only prepared is untouched, whoever looks it up.                        *)
LegacyIsRecoverable ==
    /\ \A c \in Legacy, k \in Keys :
          legacy[c].phase = "returned" /\ owner[k] = c =>
              legacy[c].key = k
    /\ \A r \in Rewards :
          consumer[r].stage = "prepared" => ~Live(consumer[r].key)

(* The ledger that RewardLedger describes: a reward has been paid with the *)
(* granted keys that were issued for it.                                   *)
PaidWith(r) == {k \in Keys : owner[k] = r /\ ledger[k] = "granted"}
Payments == [r \in Rewards |-> PaidWith(r)]
Credited == {r \in Rewards : consumer[r].stage = "credited"}

Ledger ==
    INSTANCE RewardLedger WITH payments <- Payments, credited <- Credited

(* Prepare, execute and status, called as the README prescribes, pay a     *)
(* reward once and for good and credit it afterwards only: a lost or late  *)
(* answer, a crash or a key that was replaced changes nothing of that.     *)
ImplementsLedger == Ledger!LedgerSpec
=============================================================================
