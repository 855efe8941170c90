------------------------------ MODULE RemoteCall ------------------------------
(***************************************************************************)
(* A call of the HTTP client (packages/api-client/src/index.ts) to the     *)
(* Cloudflare service (packages/api-cloudflare-service/src), whose fetch   *)
(* fallback runs an operation of api-core once.  The client may give up    *)
(* while the service goes on, and the request or its answer may be lost.   *)
(***************************************************************************)
CONSTANTS Remotes,      \* calls of the client
          TimedRemotes  \* those of a client with timeoutMs > 0

ASSUME RemoteAssumption == TimedRemotes \subseteq Remotes

VARIABLES service,  \* the service's environment and the client's token
          remote    \* every call: its operation, both ends and its outcome

remoteVars == <<service, remote>>

(***************************************************************************)
(* The service is deployed in some mode, with or without an mTLS binding,  *)
(* a bearer token and the raw relay; the client has the token or not.      *)
(***************************************************************************)
RemoteInit ==
    /\ service \in [forward : BOOLEAN, binding : BOOLEAN, token : BOOLEAN,
                    authorized : BOOLEAN, raw : BOOLEAN]
    /\ remote = [c \in Remotes |->
          [kind |-> "health", client |-> "idle", server |-> "none",
           status |-> "none", sent |-> FALSE, outcome |-> "none"]]

Healthy == ~service.forward \/ service.binding

ClientSettles(c, outcome) ==
    remote' = [remote EXCEPT ![c].client = "done", ![c].outcome = outcome]

ClientSends(c, kind) ==
    /\ remote[c].client = "idle"
    /\ remote' = [remote EXCEPT ![c].client = "waiting", ![c].server = "wire",
                                ![c].kind = kind]
    /\ UNCHANGED service

(***************************************************************************)
(* The abort of the client's timer rejects fetch, or the reading of the    *)
(* body; the request goes on.                                              *)
(***************************************************************************)
ClientTimerFires(c) ==
    /\ c \in TimedRemotes
    /\ remote[c].client = "waiting"
    /\ ClientSettles(c, "timeout")
    /\ UNCHANGED service

(* The connection fails before the request has arrived, or afterwards.     *)
ConnectionFails(c) ==
    /\ remote[c].client = "waiting"
    /\ \/ remote' = [remote EXCEPT ![c].client = "done", ![c].outcome = "network"]
       \/ /\ remote[c].server = "wire"
          /\ remote' = [remote EXCEPT ![c].client = "done", ![c].outcome = "network",
                                      ![c].server = "lost"]
    /\ UNCHANGED service

Respond(c, status) ==
    remote' = [remote EXCEPT ![c].server = "answered", ![c].status = status]

(***************************************************************************)
(* handleFetchFallback: health needs no token; without one configured      *)
(* there is nothing else to be found.                                      *)
(***************************************************************************)
Handle(c) ==
    /\ remote[c].server = "wire"
    /\ IF remote[c].kind = "health"
         THEN Respond(c, IF Healthy THEN "200" ELSE "503")
         ELSE IF ~service.token
           THEN Respond(c, "404")
           ELSE IF ~service.authorized
             THEN Respond(c, "401")
             ELSE remote' = [remote EXCEPT ![c].server = "operation"]
    /\ UNCHANGED service

(* The path is unknown, or the body is no JSON, which is found out last.   *)
HandleRefuses(c, status) ==
    /\ status \in {"404", "500"}
    /\ remote[c].server = "wire" /\ remote[c].kind # "health"
    /\ \/ status = "404" \/ (service.token /\ service.authorized)
    /\ Respond(c, status)
    /\ UNCHANGED service

(***************************************************************************)
(* The operation itself.  The raw relay may be off; input may be refused,  *)
(* by an error or in the operation's result; otherwise requestToss needs a *)
(* client ("config", an error 500) and the request goes out.  The relay    *)
(* asks for no mode.                                                       *)
(***************************************************************************)
Operate(c, refusal) ==
    /\ remote[c].server = "operation" /\ ~remote[c].sent
    /\ refusal = "200" => remote[c].kind = "api"
    /\ IF remote[c].kind = "raw" /\ ~service.raw
         THEN Respond(c, "403")
         ELSE IF refusal # "none"
           THEN Respond(c, refusal)
           ELSE IF remote[c].kind = "api" /\ ~service.forward
             THEN Respond(c, "200")
             ELSE IF ~service.binding
               THEN Respond(c, "config")
               ELSE remote' = [remote EXCEPT ![c].sent = TRUE]
    /\ UNCHANGED service

(* The provider answers, or its request rejects.                           *)
OperationEnds(c, status) ==
    /\ status \in {"200", "500"}
    /\ remote[c].server = "operation" /\ remote[c].sent
    /\ Respond(c, status)
    /\ UNCHANGED service

\* Mutant: the client takes an unready service for a failure.
ClientReceivesStrictly(c) ==
    /\ remote[c].client = "waiting" /\ remote[c].server = "answered"
    /\ ClientSettles(c, IF remote[c].status = "200" THEN "resolved" ELSE "rejected")
    /\ UNCHANGED service

(***************************************************************************)
(* The answer is read: health accepts a 503, any other failing status is   *)
(* an error that carries it.                                               *)
(***************************************************************************)
ClientReceives(c) ==
    /\ remote[c].client = "waiting" /\ remote[c].server = "answered"
    /\ ClientSettles(c, IF \/ remote[c].status = "200"
                           \/ remote[c].kind = "health" /\ remote[c].status = "503"
                          THEN "resolved" ELSE "rejected")
    /\ UNCHANGED service

RemoteNext ==
    \E c \in Remotes :
        \/ \E kind \in {"health", "api", "raw"} : ClientSends(c, kind)
        \/ ClientTimerFires(c)
        \/ ConnectionFails(c)
        \/ Handle(c)
        \/ \E status \in {"404", "500"} : HandleRefuses(c, status)
        \/ \E refusal \in {"none", "200", "400"} : Operate(c, refusal)
        \/ \E status \in {"200", "500"} : OperationEnds(c, status)
        \/ ClientReceives(c)

RemoteSpec == RemoteInit /\ [][RemoteNext]_remoteVars

-----------------------------------------------------------------------------
(* Type invariant of the deployment and the calls.                         *)
RemoteTypeOK ==
    /\ service \in [forward : BOOLEAN, binding : BOOLEAN, token : BOOLEAN,
                    authorized : BOOLEAN, raw : BOOLEAN]
    /\ remote \in [Remotes ->
          [kind : {"health", "api", "raw"}, client : {"idle", "waiting", "done"},
           server : {"none", "wire", "lost", "operation", "answered"},
           sent : BOOLEAN,
           status : {"none", "200", "400", "401", "403", "404", "500", "503", "config"},
           outcome : {"none", "resolved", "rejected", "timeout", "network"}]]

(* What the client is told of a call is true of both ends.  An error of    *)
(* the client's making (4xx), or of the service's configuration, means     *)
(* that nothing went to the provider, so the call can be corrected and     *)
(* repeated; a service that says it is ready has a client for every        *)
(* forwarded operation, and one that says it is not is heard, not mistaken *)
(* for a failure.  A timeout and a lost connection claim nothing: the      *)
(* request may be anywhere, and which failures are of the other kind is    *)
(* what a caller has to know.                                              *)
RemoteOutcomesAreTrue ==
    \A c \in Remotes :
        /\ remote[c].outcome = "rejected"
              /\ remote[c].status \in {"400", "401", "403", "404", "config"}
              => ~remote[c].sent
        /\ remote[c].kind = "health" =>
              /\ remote[c].outcome # "rejected"
              /\ remote[c].status = "200" /\ service.forward =>
                   \A d \in Remotes :
                      remote[d].kind = "api" => remote[d].status # "config"

(* A client with a timeout is not kept waiting by a silent service.        *)
RemotesEnd ==
    \A c \in TimedRemotes :
        remote[c].client = "waiting" ~> remote[c].client = "done"
=============================================================================
