----------------------------- MODULE SmartMessage -----------------------------
(***************************************************************************)
(* sendSmartMessage and bulkSendSmartMessage in forward mode,              *)
(* packages/api-core/src/smart-message.ts, and normalizeMessageResponse,   *)
(* which decides whether an answer proves that a message was sent, that it *)
(* was not, or neither.                                                    *)
(*                                                                         *)
(* The functions keep nothing; the consumer acts on their verdicts.  It    *)
(* sends a message again only after FAILED, as the package's README says.  *)
(***************************************************************************)
EXTENDS Naturals

CONSTANT MaxSends  \* bound: how often the consumer sends the message

ASSUME SendsAssumption == MaxSends \in Nat

VARIABLES posted,  \* external: what has become of each request
          message  \* the consumer's call in progress, and its verdict

messageVars == <<posted, message>>

Sends == 1..MaxSends

(***************************************************************************)
(* An answer, by what the normalizer reads of it: the HTTP status, `ok`,   *)
(* the resultType over all its aliases ("invalid": not a string, or they   *)
(* disagree), the pair providerStatus and status ("null": a key without a  *)
(* value, "failure": one of them states one), where the send result is     *)
(* (under `result`, otherwise nested, or at the top level), whether there  *)
(* is more of it at the top, its counts and its failure entries.           *)
(***************************************************************************)
MessageAnswers ==
    [http : {"2xx", "4xx", "other"},
     ok : {"none", "true", "false", "other"},
     envelope : {"none", "SUCCESS", "failure", "undetermined", "unknown",
                 "invalid"},
     stated : {"none", "null", "invalid", "failure", "conflict", "SENT",
               "other"},
     place : {"result", "nested", "top"}, hybrid : BOOLEAN,
     counts : {"none", "invalid", "zero", "zero channels", "positive"},
     fail : {"none", "malformed", "entries"}]

-----------------------------------------------------------------------------
(***************************************************************************)
(* normalizeMessageResponse.  What it emits itself, a status without an    *)
(* envelope and without a result, is read by a rule of its own.            *)
(***************************************************************************)
IsEnvelopeFree(a) ==
    a.envelope = "none" /\ a.place # "result" /\ a.stated # "none"

NormalizedVerdict(a) ==
    CASE a.stated = "failure" -> "FAILED"
      [] a.stated = "SENT" /\ a.ok \in {"none", "true"} -> "SENT"
      [] OTHER -> "UNKNOWN"

(***************************************************************************)
(* Evidence lives in one place.  An explicit msgCount, zero included, or a *)
(* positive channel count is evidence, and so are failure entries.         *)
(***************************************************************************)
IsContradictory(a) ==
    \/ a.place # "top" /\ a.hybrid
    \/ a.counts = "invalid"
    \/ a.fail = "malformed"

EvidenceVerdict(a) ==
    CASE IsContradictory(a) -> "UNKNOWN"
      [] ~IsContradictory(a) /\ a.counts = "positive" -> "SENT"
      [] ~IsContradictory(a) /\ a.counts # "positive" /\ a.fail = "entries" ->
            "FAILED"
      [] ~IsContradictory(a) /\ a.counts = "zero" /\ a.fail = "none" -> "SENT"
      [] OTHER -> "UNKNOWN"

\* Mutant: counts outweigh a stated failure.
EnvelopeVerdictByCounts(a) ==
    CASE a.envelope = "failure" -> "FAILED"
      [] a.envelope = "SUCCESS" -> EvidenceVerdict(a)
      [] OTHER -> "UNKNOWN"

EnvelopeVerdict(a) ==
    CASE a.envelope = "failure" -> "FAILED"
      [] a.envelope = "SUCCESS" /\ a.stated = "failure" -> "FAILED"
      [] a.envelope = "SUCCESS" /\ a.stated \notin
            {"failure", "invalid", "conflict"} -> EvidenceVerdict(a)
      [] OTHER -> "UNKNOWN"

\* Mutant: every bad HTTP status proves a rejection.
MessageVerdictAnyStatus(a) ==
    CASE a.http # "2xx" -> "FAILED"
      [] a.http = "2xx" /\ a.ok = "false" /\ ~IsEnvelopeFree(a) -> "FAILED"
      [] a.http = "2xx" /\ IsEnvelopeFree(a) -> NormalizedVerdict(a)
      [] OTHER -> IF a.envelope = "none" THEN EvidenceVerdict(a)
                  ELSE EnvelopeVerdict(a)

MessageVerdict(a) ==
    CASE a.http = "4xx" -> "FAILED"
      [] a.http = "other" -> "UNKNOWN"
      [] a.http = "2xx" /\ a.ok = "false" /\ ~IsEnvelopeFree(a) -> "FAILED"
      [] a.http = "2xx" /\ IsEnvelopeFree(a) -> NormalizedVerdict(a)
      [] OTHER -> IF a.envelope = "none" THEN EvidenceVerdict(a)
                  ELSE EnvelopeVerdict(a)

-----------------------------------------------------------------------------
(***************************************************************************)
(* The provider takes a request whenever it arrives.  A failure it states  *)
(* is true, also beside counts that say otherwise.  So is the module's own *)
(* vocabulary, a status without an envelope and without a result, and so   *)
(* is a send result that nothing contradicts.  Every other answer can      *)
(* stand for anything.                                                     *)
(***************************************************************************)
OwnVocabulary(a) == a.envelope = "none" /\ a.place # "result"

StatesFailure(a) ==
    \/ a.http = "4xx"
    \/ /\ a.http = "2xx"
       /\ \/ a.ok = "false"
          \/ a.envelope = "failure"
          \/ a.stated = "failure" /\ (a.envelope = "SUCCESS" \/ OwnVocabulary(a))

SaysSent(a) ==
    /\ a.http = "2xx" /\ ~StatesFailure(a)
    /\ OwnVocabulary(a) /\ a.stated = "SENT" /\ a.ok # "other"

HasResult(a) ==
    /\ a.http = "2xx" /\ ~StatesFailure(a) /\ ~SaysSent(a)
    /\ a.envelope \in {"none", "SUCCESS"}
    /\ a.place = "top" \/ ~a.hybrid
    /\ a.counts \in {"none", "zero", "zero channels", "positive"}
    /\ a.fail \in {"none", "entries"}

NothingSent(a) == HasResult(a) /\ a.counts # "positive" /\ a.fail = "entries"

Processed(a) ==
    /\ HasResult(a)
    /\ \/ a.counts = "positive"
       \/ a.counts = "zero" /\ a.fail = "none"

MessageAnswerIsPossible(n, a) ==
    /\ (StatesFailure(a) \/ NothingSent(a)) => posted[n] = "rejected"
    /\ (SaysSent(a) \/ Processed(a)) => posted[n] \in {"sent", "empty"}

RequestArrives(n, outcome) ==
    /\ posted[n] = "wire"
    /\ posted' = [posted EXCEPT ![n] = outcome]
    /\ UNCHANGED message

-----------------------------------------------------------------------------
MessageInit ==
    /\ posted = [n \in Sends |-> "none"]
    /\ message = [stage |-> "new", tries |-> 0]

(***************************************************************************)
(* A call.  Input validation and the client's resolution come before the   *)
(* request; what goes wrong there is thrown and nothing was sent.          *)
(***************************************************************************)
Send ==
    /\ message.stage \in {"new", "refused", "FAILED"}
    /\ message' = [message EXCEPT !.stage = "calling"]
    /\ UNCHANGED posted

SendRefused ==
    /\ message.stage = "calling"
    /\ message' = [message EXCEPT !.stage = "refused"]
    /\ UNCHANGED posted

RequestLeaves ==
    /\ message.stage = "calling"
    /\ message.tries < MaxSends
    /\ message' = [stage |-> "sending", tries |-> message.tries + 1]
    /\ posted' = [posted EXCEPT ![message.tries + 1] = "wire"]

(* The transport rejects; the request may be anywhere, and the consumer    *)
(* leaves it at that.                                                      *)
SendThrows ==
    /\ message.stage = "sending"
    /\ message' = [message EXCEPT !.stage = "thrown"]
    /\ UNCHANGED posted

SendAnswered(a) ==
    /\ message.stage = "sending"
    /\ MessageAnswerIsPossible(message.tries, a)
    /\ message' = [message EXCEPT !.stage = MessageVerdict(a)]
    /\ UNCHANGED posted

-----------------------------------------------------------------------------
MessageNext ==
    \/ \E n \in Sends, outcome \in {"sent", "empty", "rejected"} :
          RequestArrives(n, outcome)
    \/ Send
    \/ SendRefused
    \/ RequestLeaves
    \/ SendThrows
    \/ \E a \in MessageAnswers : SendAnswered(a)

MessageSpec == MessageInit /\ [][MessageNext]_messageVars

-----------------------------------------------------------------------------
(* Type invariant of the requests and of the consumer's call.              *)
MessageTypeOK ==
    /\ posted \in [Sends -> {"none", "wire", "sent", "empty", "rejected"}]
    /\ message \in [stage : {"new", "calling", "refused", "sending", "thrown",
                             "SENT", "FAILED", "UNKNOWN"},
                    tries : 0..MaxSends]

(* SENT and FAILED are true of the request they answer, also if it was     *)
(* still on its way when the verdict was reached: SENT was processed, and  *)
(* FAILED neither was nor will be.                                         *)
MessageVerdictsAreTrue ==
    /\ message.stage = "SENT" => posted[message.tries] \in {"sent", "empty"}
    /\ message.stage = "FAILED" => posted[message.tries] = "rejected"

(* A consumer that sends again after FAILED alone has a message delivered  *)
(* once at most, counting requests that are still on their way.            *)
MessageDeliveredOnce ==
    \A m, n \in Sends :
        posted[m] \in {"wire", "sent"} /\ posted[n] \in {"wire", "sent"} => m = n
=============================================================================
