----------------------------- MODULE SharedFlight -----------------------------
(***************************************************************************)
(* Two adapters that share one attempt among all who ask while it runs:    *)
(* the review dialog (packages/sdk/src/review/adapter.ts) and the storage  *)
(* adapters (packages/sdk/src/rn/storage.ts, webview/identity.ts), which   *)
(* also keep the store of an attempt that succeeded.                       *)
(*                                                                         *)
(* A promise that settles is seen later, in microtasks, and other code may *)
(* ask in between; the steps are split there.                              *)
(***************************************************************************)
CONSTANTS Reviews,    \* createReviewAdapter instances
          Storages,   \* storage adapter instances
          Attempts,   \* bound: attempts that are started
          Askers,     \* calls of request, get, set or remove
          NoAttempt   \* no attempt

ASSUME FlightAssumption ==
    /\ Reviews \cap Storages = {}
    /\ NoAttempt \notin Attempts

VARIABLES flight,   \* review's inFlight, storage's resolving
          store,    \* storage's cached: the attempt whose store is kept
          attempt,  \* every attempt
          asker     \* every call

flightVars == <<flight, store, attempt, asker>>

FlightOwners == Reviews \cup Storages

FlightInit ==
    /\ flight = [s \in FlightOwners |-> NoAttempt]
    /\ store = [s \in Storages |-> NoAttempt]
    /\ attempt = [a \in Attempts |->
                    [phase |-> "new", owner |-> NoAttempt, outcome |-> "none"]]
    /\ asker = [u \in Askers |->
                  [phase |-> "idle", waits |-> NoAttempt, answer |-> "none"]]

AwaitAttempt(u, a) ==
    asker' = [asker EXCEPT ![u].phase = "waiting", ![u].waits = a]

Enter(a, phase, outcome) ==
    attempt' = [attempt EXCEPT ![a].phase = phase, ![a].outcome = outcome]

(***************************************************************************)
(* Who asks first publishes an attempt.  Review calls its loader in a      *)
(* microtask of its own, storage at once.                                  *)
(***************************************************************************)
StartAttempt(u, s, a) ==
    /\ attempt[a].phase = "new"
    /\ attempt' = [attempt EXCEPT
                     ![a].phase = IF s \in Reviews THEN "queued" ELSE "loading",
                     ![a].owner = s]
    /\ flight' = [flight EXCEPT ![s] = a]
    /\ AwaitAttempt(u, a)
    /\ UNCHANGED store

JoinAttempt(u, a) ==
    /\ AwaitAttempt(u, a)
    /\ UNCHANGED <<flight, store, attempt>>

Kept(s) == IF s \in Storages THEN store[s] ELSE NoAttempt

\* Mutant: only what is kept is shared, not what runs.
AskUnshared(u, s) ==
    /\ asker[u].phase = "idle"
    /\ IF Kept(s) # NoAttempt
         THEN JoinAttempt(u, Kept(s))
         ELSE \E a \in Attempts : StartAttempt(u, s, a)

Ask(u, s) ==
    /\ asker[u].phase = "idle"
    /\ \/ Kept(s) # NoAttempt /\ JoinAttempt(u, Kept(s))
       \/ Kept(s) = NoAttempt /\ flight[s] # NoAttempt /\ JoinAttempt(u, flight[s])
       \/ /\ Kept(s) = NoAttempt /\ flight[s] = NoAttempt
          /\ \E a \in Attempts : StartAttempt(u, s, a)

ReviewTurn(a) ==
    /\ attempt[a].phase = "queued"
    /\ Enter(a, "loading", "none")
    /\ UNCHANGED <<flight, store, asker>>

(***************************************************************************)
(* The loader brings a platform that has what is needed: the dialog opens, *)
(* or the store is kept.                                                   *)
(***************************************************************************)
FlightLoads(a) ==
    /\ attempt[a].phase = "loading"
    /\ IF attempt[a].owner \in Reviews
         THEN Enter(a, "dialog", "none") /\ UNCHANGED store
         ELSE /\ Enter(a, "settled", "ok")
              /\ store' = [store EXCEPT ![attempt[a].owner] = a]
    /\ UNCHANGED <<flight, asker>>

(***************************************************************************)
(* The loader rejects, the platform is unavailable or lacks the function,  *)
(* or the dialog ends with an error.                                       *)
(***************************************************************************)
FlightFails(a) ==
    /\ attempt[a].phase \in {"loading", "dialog"}
    /\ Enter(a, "settled", "failed")
    /\ UNCHANGED <<flight, store, asker>>

DialogEnds(a) ==
    /\ attempt[a].phase = "dialog"
    /\ Enter(a, "settled", "ok")
    /\ UNCHANGED <<flight, store, asker>>

Forgets(a) == attempt[a].owner \in Reviews \/ attempt[a].outcome = "failed"

(***************************************************************************)
(* The `finally` of a review, the `catch` of a storage: the attempt is     *)
(* withdrawn.                                                              *)
(***************************************************************************)
Forget(a) ==
    /\ attempt[a].phase = "settled" /\ Forgets(a)
    /\ attempt' = [attempt EXCEPT ![a].phase = "over"]
    /\ flight' = [flight EXCEPT ![attempt[a].owner] = NoAttempt]
    /\ UNCHANGED <<store, asker>>

(***************************************************************************)
(* A caller resumes.  Review hands out the promise behind the `finally`;   *)
(* storage registers its `catch` before anybody awaits the promise.        *)
(***************************************************************************)
AnswerAsker(u) ==
    LET a == asker[u].waits
    IN  /\ asker[u].phase = "waiting"
        /\ attempt[a].phase = IF Forgets(a) THEN "over" ELSE "settled"
        /\ asker' = [asker EXCEPT ![u].phase = "answered",
                                  ![u].answer = attempt[a].outcome]
        /\ UNCHANGED <<flight, store, attempt>>

FlightNext ==
    \/ \E u \in Askers :
          AnswerAsker(u) \/ \E s \in FlightOwners : Ask(u, s)
    \/ \E a \in Attempts :
          \/ ReviewTurn(a)
          \/ FlightLoads(a)
          \/ FlightFails(a)
          \/ DialogEnds(a)
          \/ Forget(a)

FlightSpec == FlightInit /\ [][FlightNext]_flightVars

-----------------------------------------------------------------------------
(* Type invariant of the adapters, the attempts and the callers.           *)
FlightTypeOK ==
    /\ flight \in [FlightOwners -> Attempts \cup {NoAttempt}]
    /\ store \in [Storages -> Attempts \cup {NoAttempt}]
    /\ attempt \in [Attempts ->
         [phase : {"new", "queued", "loading", "dialog", "settled", "over"},
          owner : FlightOwners \cup {NoAttempt},
          outcome : {"none", "ok", "failed"}]]
    /\ asker \in [Askers ->
         [phase : {"idle", "waiting", "answered"},
          waits : Attempts \cup {NoAttempt},
          answer : {"none", "ok", "failed"}]]

Running(a) == attempt[a].phase \in {"queued", "loading", "dialog"}

(* One attempt of an adapter runs at a time, so no second review dialog    *)
(* opens over the first, and everybody who was given a store by a storage  *)
(* adapter was given the same one, whatever its loader hands out.          *)
AttemptsAreShared ==
    /\ \A a, b \in Attempts :
          Running(a) /\ Running(b) /\ attempt[a].owner = attempt[b].owner => a = b
    /\ \A u, v \in Askers :
          LET a == asker[u].waits
              b == asker[v].waits
          IN  /\ asker[u].answer = "ok" /\ asker[v].answer = "ok"
              /\ attempt[a].owner = attempt[b].owner
              /\ attempt[a].owner \in Storages
              => a = b

(* A failure is never kept: who has been told of one, or of the end of a   *)
(* review, and asks again starts a new attempt or joins a newer one.       *)
FailuresAreForgotten ==
    \A u \in Askers :
        LET a == asker[u].waits
        IN  /\ asker[u].phase = "answered"
            /\ Forgets(a)
            => flight[attempt[a].owner] # a /\ Kept(attempt[a].owner) # a

(* Sharing is neither missed nor overdone: at no time do two attempts for  *)
(* one owner run or give it two stores, and no failure is shared with a    *)
(* call that is made after it was known.                                   *)
SharingIsExact == AttemptsAreShared /\ FailuresAreForgotten
=============================================================================
