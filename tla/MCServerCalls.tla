---------------------------- MODULE MCServerCalls ----------------------------
(***************************************************************************)
(* The server side on one instance: order status, smart messages, the      *)
(* promotion API, the transport, the identity calls and the HTTP client    *)
(* with its service.  They share no state, so a behaviour is one of a      *)
(* single part: it starts where the others have not been used and their    *)
(* surroundings are some fixed ones.                                       *)
(***************************************************************************)
EXTENDS OrderStatus, SmartMessage, PromotionServer, MtlsTransport, Login,
        RemoteCall

partVars ==
    <<orderVars, messageVars, serverVars, vars, loginVars, remoteVars>>

MCInit ==
    /\ OrderInit /\ MessageInit /\ ServerInit /\ Init /\ LoginInit /\ RemoteInit

NoQuery ==
    /\ \A o \in Orders : order[o] = [state |-> "absent",
                                     sku |-> CHOOSE s \in Skus : TRUE]
    /\ \A q \in Queries : query[q].phase = "idle"
NoMessage == message.stage = "new"
NoReward ==
    /\ \A r \in Rewards : consumer[r].stage = "new"
    /\ \A c \in Legacy : legacy[c].phase = "idle"
    /\ \A k \in Keys : ledger[k] = "unissued"
NoRequest ==
    /\ ~deadline /\ ~aborted
    /\ \A r \in Requests : req[r].phase = "idle"
NoLogin == \A c \in Logins : login[c].phase = "idle"
NoRemote ==
    /\ \A f \in DOMAIN service : ~service[f]
    /\ \A c \in Remotes : remote[c].client = "idle"

OnlyOrders == UNCHANGED <<messageVars, serverVars, vars, loginVars, remoteVars>>
OnlyMessage == UNCHANGED <<orderVars, serverVars, vars, loginVars, remoteVars>>
OnlyRewards == UNCHANGED <<orderVars, messageVars, vars, loginVars, remoteVars>>
OnlyRequests ==
    UNCHANGED <<orderVars, messageVars, serverVars, loginVars, remoteVars>>
OnlyLogins == UNCHANGED <<orderVars, messageVars, serverVars, vars, remoteVars>>
OnlyRemotes == UNCHANGED <<orderVars, messageVars, serverVars, vars, loginVars>>

MCNext ==
    \/ /\ NoMessage /\ NoReward /\ NoRequest /\ NoLogin /\ NoRemote
       /\ OrderNext /\ OnlyOrders
    \/ /\ NoQuery /\ NoReward /\ NoRequest /\ NoLogin /\ NoRemote
       /\ MessageNext /\ OnlyMessage
    \/ /\ NoQuery /\ NoMessage /\ NoRequest /\ NoLogin /\ NoRemote
       /\ ServerNext /\ OnlyRewards
    \/ /\ NoQuery /\ NoMessage /\ NoReward /\ NoLogin /\ NoRemote
       /\ Next /\ OnlyRequests
    \/ /\ NoQuery /\ NoMessage /\ NoReward /\ NoRequest /\ NoRemote
       /\ LoginNext /\ OnlyLogins
    \/ /\ NoQuery /\ NoMessage /\ NoReward /\ NoRequest /\ NoLogin
       /\ RemoteNext /\ OnlyRemotes

-----------------------------------------------------------------------------
(***************************************************************************)
(* Fairness: an order status request is answered or rejected and its sleep *)
(* ends; timers fire.  Nothing else is sure to happen.                     *)
(***************************************************************************)
MCSpec ==
    /\ MCInit /\ [][MCNext]_partVars
    /\ \A q \in Queries :
          /\ WF_partVars(OnlyOrders /\ query[q].phase = "asking" /\ QueryAnswered(q))
          /\ WF_partVars(OnlyOrders /\ Wake(q))
    /\ \A r \in Requests : WF_partVars(OnlyRequests /\ TimerFires(r))
    /\ \A c \in Remotes : WF_partVars(OnlyRemotes /\ ClientTimerFires(c))

(* An order status call whose requests end returns or throws: the retries  *)
(* of transient statuses are bounded.                                      *)
QueryReturns ==
    \A q \in Queries :
        query[q].phase = "asking" ~> query[q].phase \in {"returned", "thrown"}

(* No server call is kept waiting by a silent peer: not a query whose      *)
(* statuses stay transient, nor a request with a deadline or one whose     *)
(* response has ended, nor a remote call of a client with a timeout.       *)
ServerCallsEnd == QueryReturns /\ RequestSettles /\ RemotesEnd
=============================================================================
