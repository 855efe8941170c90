---------------------------- MODULE MtlsTransport ----------------------------
(***************************************************************************)
(* The Node transport of the partner API,                                  *)
(* packages/api-client/src/node/mtls-transport.ts: request() turns the     *)
(* events of one node:https request and its response into a promise.       *)
(* Timer, abort signal, request errors and the response's data, aborted,   *)
(* error, end and close events race for it.                                *)
(*                                                                         *)
(* Requests of one transport share its options, and here one abort signal, *)
(* which a caller may or may not pass.  Headers and URLs are left out; of  *)
(* a body only its size is kept.                                           *)
(***************************************************************************)
EXTENDS Naturals

CONSTANTS Requests,      \* calls of request()
          MaxBytes,      \* maxResponseBytes
          MaxDelivered   \* bound: the largest body a server sends

ASSUME TransportAssumption ==
    /\ MaxBytes \in Nat \ {0}
    /\ MaxDelivered \in Nat

VARIABLES deadline,   \* timeoutMs > 0; zero disables the timer
          aborted,    \* the shared signal
          req         \* what each call's closure and promise hold

vars == <<deadline, aborted, req>>

(***************************************************************************)
(* settled, timer, completed, received and kept (the size of chunks) are   *)
(* the closure's; listening: the abort listener is attached; destroyed:    *)
(* request.destroy() was called.  delivered, ended and closed are the      *)
(* response stream's.                                                      *)
(***************************************************************************)
Idle == [phase |-> "idle", settled |-> FALSE, completed |-> FALSE,
         timer |-> FALSE, listening |-> FALSE, destroyed |-> FALSE,
         received |-> 0, kept |-> 0,
         delivered |-> 0, ended |-> FALSE, closed |-> FALSE,
         promise |-> "pending"]

Init ==
    /\ deadline \in BOOLEAN
    /\ aborted = FALSE
    /\ req = [r \in Requests |-> Idle]

\* Mutant: the listener stays on a signal that outlives the request.
CleanupTimerOnly(q) == [q EXCEPT !.timer = FALSE]

(***************************************************************************)
(* cleanup: the timer is cleared and the abort listener removed.           *)
(***************************************************************************)
Cleanup(q) == [q EXCEPT !.timer = FALSE, !.listening = FALSE]

(***************************************************************************)
(* settle rejects once and destroys the request; fail is settle for the    *)
(* response's handlers.                                                    *)
(***************************************************************************)
Settle(q, code) ==
    IF q.settled THEN q
    ELSE [Cleanup(q) EXCEPT !.settled = TRUE, !.destroyed = TRUE,
                            !.promise = code]

Fail(q, code) ==
    IF q.completed \/ q.settled THEN q
    ELSE Settle([q EXCEPT !.completed = TRUE], code)

-----------------------------------------------------------------------------
(***************************************************************************)
(* request(): a URL or body it does not support, or a signal that has      *)
(* aborted, is refused before anything is created; node:https may refuse   *)
(* the certificate material.                                               *)
(***************************************************************************)
Refuse(r, code) ==
    /\ req[r].phase = "idle"
    /\ code = "ALREADY_ABORTED" => aborted
    /\ req' = [req EXCEPT ![r].phase = "refused", ![r].promise = code]
    /\ UNCHANGED <<deadline, aborted>>

Start(r, signal) ==
    /\ req[r].phase = "idle"
    /\ ~(signal /\ aborted)
    /\ req' = [req EXCEPT ![r].phase = "requested", ![r].timer = deadline,
                          ![r].listening = signal]
    /\ UNCHANGED <<deadline, aborted>>

(***************************************************************************)
(* Events that end the request from outside the response.  One abort event *)
(* reaches every listener.                                                 *)
(***************************************************************************)
Abort ==
    /\ ~aborted
    /\ aborted' = TRUE
    /\ req' = [r \in Requests |->
                 IF req[r].listening THEN Settle(req[r], "ABORTED")
                                     ELSE req[r]]
    /\ UNCHANGED deadline

TimerFires(r) ==
    /\ req[r].timer
    /\ req' = [req EXCEPT ![r] = Settle(@, "TIMEOUT")]
    /\ UNCHANGED <<deadline, aborted>>

RequestError(r) ==
    /\ req[r].phase \in {"requested", "responding"}
    /\ req' = [req EXCEPT ![r] = Settle(@, "REQUEST_FAILED")]
    /\ UNCHANGED <<deadline, aborted>>

-----------------------------------------------------------------------------
(***************************************************************************)
(* The response.  Events that were queued before the request was destroyed *)
(* may still come; nothing comes after close.                              *)
(***************************************************************************)

Response(r) ==
    /\ req[r].phase = "requested"
    /\ req' = [req EXCEPT ![r].phase = "responding"]
    /\ UNCHANGED <<deadline, aborted>>

Streaming(q) == q.phase = "responding" /\ ~q.ended /\ ~q.closed

(***************************************************************************)
(* A chunk that crosses the limit fails the request and is dropped.        *)
(***************************************************************************)

\* Mutant: the limit is checked against what was there before the chunk.
TakeLate(q, n) ==
    CASE q.completed \/ q.settled -> q
      [] ~(q.completed \/ q.settled) /\ q.received > MaxBytes ->
            Fail(q, "RESPONSE_TOO_LARGE")
      [] OTHER -> [q EXCEPT !.received = @ + n, !.kept = @ + n]

Take(q, n) ==
    CASE q.completed \/ q.settled -> q
      [] ~(q.completed \/ q.settled) /\ q.received + n > MaxBytes ->
            Fail([q EXCEPT !.received = @ + n], "RESPONSE_TOO_LARGE")
      [] OTHER -> [q EXCEPT !.received = @ + n, !.kept = @ + n]

Data(r, n) ==
    /\ Streaming(req[r])
    /\ req[r].delivered + n <= MaxDelivered
    /\ req' = [req EXCEPT
                 ![r] = [Take(@, n) EXCEPT !.delivered = req[r].delivered + n]]
    /\ UNCHANGED <<deadline, aborted>>

(***************************************************************************)
(* The response's aborted and error events.                                *)
(***************************************************************************)
ResponseFails(r) ==
    /\ Streaming(req[r])
    /\ req' = [req EXCEPT ![r] = Fail(@, "REQUEST_FAILED")]
    /\ UNCHANGED <<deadline, aborted>>

(***************************************************************************)
(* end builds the whole fetch Response before it confirms anything: what   *)
(* cannot be converted (a status of 600, say) is a failure.                *)
(***************************************************************************)

Finish(q, convertible) ==
    CASE q.completed \/ q.settled -> q
      [] ~(q.completed \/ q.settled) /\ convertible ->
            [Cleanup(q) EXCEPT !.completed = TRUE, !.settled = TRUE,
                               !.promise = "resolved"]
      [] OTHER -> Fail(q, "REQUEST_FAILED")

End(r, convertible) ==
    /\ Streaming(req[r])
    /\ req' = [req EXCEPT
                 ![r] = [Finish(@, convertible) EXCEPT !.ended = TRUE]]
    /\ UNCHANGED <<deadline, aborted>>

(***************************************************************************)
(* A close before end means that the body never completed.                 *)
(***************************************************************************)
Close(r) ==
    /\ req[r].phase = "responding"
    /\ ~req[r].closed
    /\ req' = [req EXCEPT
                 ![r] = [(IF @.ended THEN @ ELSE Fail(@, "REQUEST_FAILED"))
                            EXCEPT !.closed = TRUE]]
    /\ UNCHANGED <<deadline, aborted>>

RequestStep(r) ==
    \/ \E code \in {"INVALID_URL", "UNSUPPORTED_BODY", "ALREADY_ABORTED",
                    "REQUEST_FAILED"} : Refuse(r, code)
    \/ \E signal \in BOOLEAN : Start(r, signal)
    \/ TimerFires(r)
    \/ RequestError(r)
    \/ Response(r)
    \/ \E n \in 1..MaxDelivered : Data(r, n)
    \/ ResponseFails(r)
    \/ \E convertible \in BOOLEAN : End(r, convertible)
    \/ Close(r)

Next == Abort \/ \E r \in Requests : RequestStep(r)

Spec == Init /\ [][Next]_vars

(***************************************************************************)
(* Only a timer that is set is sure to fire; the peer may stay silent.     *)
(***************************************************************************)
FairSpec == Spec /\ \A r \in Requests : WF_vars(TimerFires(r))

-----------------------------------------------------------------------------
Failures == {"INVALID_URL", "UNSUPPORTED_BODY", "ALREADY_ABORTED", "TIMEOUT",
             "ABORTED", "RESPONSE_TOO_LARGE", "REQUEST_FAILED"}

RequestType ==
    [phase : {"idle", "refused", "requested", "responding"},
     settled : BOOLEAN, completed : BOOLEAN, timer : BOOLEAN,
     listening : BOOLEAN, destroyed : BOOLEAN,
     received : Nat, kept : Nat, delivered : Nat,
     ended : BOOLEAN, closed : BOOLEAN,
     promise : Failures \cup {"pending", "resolved"}]

(* Type invariant of the transport.                                        *)
TypeOK ==
    /\ deadline \in BOOLEAN
    /\ aborted \in BOOLEAN
    /\ req \in [Requests -> RequestType]

Started(q) == q.phase \in {"requested", "responding"}

(* A caller gets a Response only for a body that came to its end, with     *)
(* every byte the server delivered and no more than the limit.             *)
ResolvedIsWhole ==
    \A r \in Requests : req[r].promise = "resolved" =>
        /\ req[r].ended
        /\ req[r].kept = req[r].delivered
        /\ req[r].kept <= MaxBytes

(* The timer and the abort listener belong to a pending request: a settled *)
(* one has neither, whatever settled it, and a failed one is destroyed.    *)
(* A pending one is never without the timer the options ask for.           *)
SettledIsReleased ==
    \A r \in Requests :
        /\ Started(req[r]) => (req[r].timer <=> deadline
                                                /\ req[r].promise = "pending")
        /\ req[r].promise # "pending" => ~req[r].listening
        /\ Started(req[r]) => (req[r].destroyed
                                 <=> req[r].promise \in Failures)

(* A started request settles although the server stays silent, if it has a *)
(* deadline; without one, it does when its response ends or closes, even   *)
(* if the response cannot be converted.                                    *)
RequestSettles ==
    \A r \in Requests :
        Started(req[r]) /\ (deadline \/ req[r].ended \/ req[r].closed)
            ~> req[r].promise # "pending"
=============================================================================
