--------------------------------- MODULE Login ---------------------------------
(***************************************************************************)
(* The identity calls of packages/api-core/src in forward mode:            *)
(* completeTossLogin and removeTossLoginByUserKey (login.ts), verifyAnonKey*)
(* (anon-key.ts) and exchangeAnonAuthCode (anonymous-auth-code.ts).        *)
(*                                                                         *)
(* They keep no state; what counts is whether an answer is true of the     *)
(* provider, which consumes a code, unlinks a user or judges a key when a  *)
(* request arrives, whatever becomes of its answer.                        *)
(***************************************************************************)
CONSTANTS Logins    \* calls, each of one of the four functions

VARIABLES login,    \* every call
          performed \* external: calls whose request the provider carried out

loginVars == <<login, performed>>

LoginKinds == {"complete", "remove", "verify", "exchange"}

(* For a key to verify, "performed" is the provider's positive judgement.  *)
LoginInit ==
    /\ login = [c \in Logins |-> [kind |-> "complete", phase |-> "idle",
                                  aborted |-> FALSE, answer |-> "none"]]
    /\ performed = {}

(***************************************************************************)
(* Answers by what the functions tell apart: the HTTP status, the type of  *)
(* the envelope ("FAIL", "busy": FAIL with code 4095, "incomplete":        *)
(* HTTP_TIMEOUT and its like, "none": no resultType), a top-level error,   *)
(* and whether there is the token, user key, verdict or anonymous key.     *)
(***************************************************************************)
LoginAnswers ==
    [http : {"2xx", "4xx", "429", "5xx"},
     type : {"SUCCESS", "FAIL", "busy", "incomplete", "none"},
     error : BOOLEAN, payload : BOOLEAN]

IsUpstreamFailure(a) == a.type \in {"FAIL", "busy"}

(***************************************************************************)
(* The provider is taken at its word: it gives a payload, or a success     *)
(* without an error, for what it has done, and refuses with a 4xx or a     *)
(* plain FAIL what it has not; an incomplete call carries an error.        *)
(***************************************************************************)
LoginAnswerIsPossible(c, a) ==
    /\ a.payload => c \in performed \/ login[c].kind = "verify"
    /\ a.http = "2xx" /\ a.type \in {"SUCCESS", "none"} /\ ~a.error
          => c \in performed \/ login[c].kind = "verify"
    /\ a.http = "4xx" \/ (a.http = "2xx" /\ a.type = "FAIL")
          => c \notin performed \/ login[c].kind = "verify"
    /\ a.type = "incomplete" => a.error
    /\ a.payload => ~a.error /\ a.type \in {"SUCCESS", "none"}

-----------------------------------------------------------------------------
TokenVerdict(a) ==
    CASE IsUpstreamFailure(a) -> "TOKEN_EXCHANGE_FAILED"
      [] ~IsUpstreamFailure(a) /\ ~a.payload -> "TOKEN_RESPONSE_MISSING_ACCESS_TOKEN"
      [] ~IsUpstreamFailure(a) /\ a.payload -> "none"

LookupVerdict(a) ==
    CASE IsUpstreamFailure(a) -> "LOGIN_ME_FAILED"
      [] ~IsUpstreamFailure(a) /\ ~a.payload -> "LOGIN_ME_MISSING_USER_KEY"
      [] ~IsUpstreamFailure(a) /\ a.payload -> "ok"

\* Mutant: an error beside a 2xx status is overlooked.
RemoveVerdictByStatus(a) ==
    IF a.http # "2xx" \/ IsUpstreamFailure(a) THEN "FAILED" ELSE "REMOVED"

RemoveVerdict(a) ==
    IF a.http # "2xx" \/ IsUpstreamFailure(a) \/ a.error THEN "FAILED" ELSE "REMOVED"

(* Only a boolean in an explicit SUCCESS envelope is a verdict.            *)
VerifyVerdict(c, a) ==
    CASE a.http # "2xx" \/ a.type # "SUCCESS" \/ ~a.payload -> "no_verdict"
      [] a.http = "2xx" /\ a.type = "SUCCESS" /\ a.payload ->
            IF c \in performed THEN "valid" ELSE "invalid"

ExchangeVerdict(a) ==
    CASE a.http \in {"429", "5xx"} -> "UPSTREAM_UNAVAILABLE"
      [] a.http = "4xx" -> "EXCHANGE_REJECTED"
      [] a.http = "2xx" ->
            CASE a.type = "FAIL" -> "EXCHANGE_REJECTED"
              [] a.type \in {"busy", "incomplete"} -> "UPSTREAM_UNAVAILABLE"
              [] a.type = "none" -> "INVALID_RESPONSE"
              [] a.type = "SUCCESS" -> IF a.payload THEN "ok" ELSE "INVALID_RESPONSE"

-----------------------------------------------------------------------------
LoginAnswered(c, answer) ==
    /\ login' = [login EXCEPT ![c].phase = "done", ![c].answer = answer]
    /\ UNCHANGED performed

(***************************************************************************)
(* The call.  Input that is missing is refused, and by an exchange also a  *)
(* mode that is not forward: the other three answer that mode locally,     *)
(* which asks nothing of the provider and is left out.  An exchange may be *)
(* handed a signal that is aborted already.                                *)
(***************************************************************************)
LoginCalled(c, kind, refuses, isAborted) ==
    /\ login[c].phase = "idle"
    /\ isAborted => kind = "exchange" /\ ~refuses
    /\ login' = [login EXCEPT ![c] =
          [kind |-> kind, aborted |-> isAborted,
           phase |-> IF refuses \/ isAborted THEN "done" ELSE "asking",
           answer |-> CASE refuses -> "refused"
                        [] ~refuses /\ isAborted -> "ABORTED"
                        [] ~refuses /\ ~isAborted -> "none"]]
    /\ UNCHANGED performed

(* The signal of an exchange is aborted.                                   *)
LoginAbort(c) ==
    /\ login[c].kind = "exchange" /\ login[c].phase \in {"asking", "arrived"}
    /\ ~login[c].aborted
    /\ login' = [login EXCEPT ![c].aborted = TRUE]
    /\ UNCHANGED performed

(***************************************************************************)
(* The provider carries the request out, or refuses to.                    *)
(***************************************************************************)
LoginArrives(c, accepts) ==
    /\ login[c].phase = "asking"
    /\ login' = [login EXCEPT ![c].phase = "arrived"]
    /\ performed' = IF accepts THEN performed \cup {c} ELSE performed

(***************************************************************************)
(* The transport rejects, before the request has arrived or after.  Login  *)
(* lets the error through; the others name it.                             *)
(***************************************************************************)
LoginRejects(c) ==
    /\ login[c].phase \in {"asking", "arrived", "lookup"}
    /\ LoginAnswered(c,
         CASE login[c].kind \in {"complete", "remove"} -> "thrown"
           [] login[c].kind = "verify" -> "no_verdict"
           [] login[c].kind = "exchange" ->
                 IF login[c].aborted THEN "ABORTED" ELSE "UPSTREAM_UNAVAILABLE")

(* The token exchange is answered; the user is looked up with the token.   *)
TokenAnswered(c, a) ==
    /\ login[c].kind = "complete" /\ login[c].phase = "arrived"
    /\ LoginAnswerIsPossible(c, a)
    /\ IF TokenVerdict(a) = "none"
         THEN /\ login' = [login EXCEPT ![c].phase = "lookup"]
              /\ UNCHANGED performed
         ELSE LoginAnswered(c, TokenVerdict(a))

LookupAnswered(c, a) ==
    /\ login[c].phase = "lookup"
    /\ LoginAnswered(c, LookupVerdict(a))

RemoveAnswered(c, a) ==
    /\ login[c].kind = "remove" /\ login[c].phase = "arrived"
    /\ LoginAnswerIsPossible(c, a)
    /\ LoginAnswered(c, RemoveVerdict(a))

VerifyAnswered(c, a) ==
    /\ login[c].kind = "verify" /\ login[c].phase = "arrived"
    /\ LoginAnswerIsPossible(c, a)
    /\ LoginAnswered(c, VerifyVerdict(c, a))

(* The signal is asked again before the answer is read.                    *)
ExchangeAnswered(c, a) ==
    /\ login[c].kind = "exchange" /\ login[c].phase = "arrived"
    /\ LoginAnswerIsPossible(c, a)
    /\ LoginAnswered(c, IF login[c].aborted THEN "ABORTED" ELSE ExchangeVerdict(a))

LoginNext ==
    \E c \in Logins :
        \/ \E kind \in LoginKinds, refuses, isAborted \in BOOLEAN :
              LoginCalled(c, kind, refuses, isAborted)
        \/ LoginAbort(c)
        \/ \E accepts \in BOOLEAN : LoginArrives(c, accepts)
        \/ LoginRejects(c)
        \/ \E a \in LoginAnswers :
              \/ TokenAnswered(c, a)
              \/ LookupAnswered(c, a)
              \/ RemoveAnswered(c, a)
              \/ VerifyAnswered(c, a)
              \/ ExchangeAnswered(c, a)

LoginSpec == LoginInit /\ [][LoginNext]_loginVars

-----------------------------------------------------------------------------
LoginResults ==
    {"none", "refused", "thrown", "ok", "TOKEN_EXCHANGE_FAILED",
     "TOKEN_RESPONSE_MISSING_ACCESS_TOKEN", "LOGIN_ME_FAILED",
     "LOGIN_ME_MISSING_USER_KEY", "FAILED", "REMOVED", "valid", "invalid",
     "no_verdict", "ABORTED", "UPSTREAM_UNAVAILABLE", "EXCHANGE_REJECTED",
     "INVALID_RESPONSE"}

(* Type invariant of the calls and the provider's record.                  *)
LoginTypeOK ==
    /\ login \in [Logins ->
         [kind : LoginKinds, phase : {"idle", "asking", "arrived", "lookup", "done"},
          aborted : BOOLEAN, answer : LoginResults]]
    /\ performed \subseteq Logins

(* Answers that a consumer acts on are true of the provider, whatever it   *)
(* answers and wherever the request or its answer is lost.  Who is logged  *)
(* in, removed or given a key has been; a code whose user lookup failed is *)
(* spent, so trying it again is pointless; a rejected or refused one is    *)
(* not; and an anonymous key is called valid or invalid as it was judged.  *)
LoginVerdictsAreTrue ==
    \A c \in Logins :
        /\ login[c].answer \in {"ok", "REMOVED", "valid", "LOGIN_ME_FAILED",
                                "LOGIN_ME_MISSING_USER_KEY"} => c \in performed
        /\ login[c].answer \in {"EXCHANGE_REJECTED", "invalid", "refused"}
              => c \notin performed
=============================================================================
