------------------------------ MODULE Diagnostics ------------------------------
(***************************************************************************)
(* The diagnostics of packages/sdk/src/diagnostics.ts: run() wraps a call  *)
(* in a start and a finish event, which are kept in a ring.                *)
(*                                                                         *)
(* The sink is called inside emit and may come back with a run or a clear; *)
(* those are steps of their own, since emit does nothing after it.         *)
(***************************************************************************)
EXTENDS Naturals, Sequences

CONSTANTS Runs,      \* calls of run()
          Capacity,  \* events kept
          MaxClears  \* bound: calls of clear()

ASSUME DiagnosticsAssumption == Capacity \in 0..200 /\ MaxClears \in Nat

VARIABLES events,    \* the ring
          sequence,  \* the counter of the same name
          wrapped,   \* every run: its number and what its caller got
          emitted,   \* history: all events the sink was given
          cleared,   \* history: how many of them clear() saw
          clears     \* calls of clear() so far

diagnosticsVars == <<events, sequence, wrapped, emitted, cleared, clears>>

DiagnosticsInit ==
    /\ events = <<>> /\ sequence = 0
    /\ wrapped = [r \in Runs |-> [phase |-> "idle", number |-> 0, result |-> "none"]]
    /\ emitted = <<>> /\ cleared = 0 /\ clears = 0

(***************************************************************************)
(* What the action can end with, by the code its error carries; "opaque"   *)
(* is an error whose code cannot be read.                                  *)
(***************************************************************************)
TimeoutCodes == {"TIMEOUT", "AD_LOAD_TIMEOUT", "BANNER_INIT_TIMEOUT"}
DiagnosedResults ==
    {"value", "opaque", "OTHER", "UNSUPPORTED", "SDK_UNAVAILABLE"} \cup TimeoutCodes

Outcome(result) ==
    CASE result = "value" -> "resolved"
      [] result = "UNSUPPORTED" -> "unsupported"
      [] result = "SDK_UNAVAILABLE" -> "unavailable"
      [] result \in TimeoutCodes -> "timeout"
      [] result \in {"opaque", "OTHER"} -> "rejected"

\* Mutant: the ring is trimmed before the event is added.
EmitTrimmingFirst(event) ==
    /\ events' = Append(IF Len(events) > Capacity THEN Tail(events) ELSE events, event)
    /\ emitted' = Append(emitted, event)

(***************************************************************************)
(* emit: the oldest event goes when the ring is full.                      *)
(***************************************************************************)
Emitting(event) ==
    /\ events' = IF Capacity = 0 THEN events
                 ELSE IF Len(events) = Capacity
                        THEN Append(Tail(events), event)
                        ELSE Append(events, event)
    /\ emitted' = Append(emitted, event)

(* Diagnostics are off, or the operation is unknown: nothing is observed.  *)
RunUnobserved(r, result) ==
    /\ wrapped[r].phase = "idle"
    /\ wrapped' = [wrapped EXCEPT ![r].phase = "done", ![r].result = result]
    /\ UNCHANGED <<events, sequence, emitted, cleared, clears>>

RunStarts(r) ==
    /\ wrapped[r].phase = "idle"
    /\ sequence' = sequence + 1
    /\ wrapped' = [wrapped EXCEPT ![r].phase = "running", ![r].number = sequence']
    /\ Emitting([phase |-> "start", sequence |-> sequence'])
    /\ UNCHANGED <<cleared, clears>>

RunFinishes(r, result) ==
    /\ wrapped[r].phase = "running"
    /\ wrapped' = [wrapped EXCEPT ![r].phase = "done", ![r].result = result]
    /\ Emitting([phase |-> "finish", sequence |-> wrapped[r].number,
                 outcome |-> Outcome(result)])
    /\ UNCHANGED <<sequence, cleared, clears>>

Clear ==
    /\ clears < MaxClears
    /\ events' = <<>>
    /\ cleared' = Len(emitted) /\ clears' = clears + 1
    /\ UNCHANGED <<sequence, wrapped, emitted>>

DiagnosticsNext ==
    \/ \E r \in Runs :
          \/ RunStarts(r)
          \/ \E result \in DiagnosedResults :
                RunUnobserved(r, result) \/ RunFinishes(r, result)
    \/ Clear

DiagnosticsSpec == DiagnosticsInit /\ [][DiagnosticsNext]_diagnosticsVars

-----------------------------------------------------------------------------
(* Indices of the run with this number in the history.                     *)
Observed(phase, n) ==
    {i \in 1..Len(emitted) : emitted[i].phase = phase /\ emitted[i].sequence = n}

(* The ring holds the last events since clear(), at most Capacity of them, *)
(* in the order in which they happened; each finish follows the start of   *)
(* the same run, once, and carries the outcome its caller was given.       *)
RingIsRecent ==
    LET recent == SubSeq(emitted, cleared + 1, Len(emitted))
        excess == IF Len(recent) > Capacity THEN Len(recent) - Capacity ELSE 0
    IN  /\ events = SubSeq(recent, excess + 1, Len(recent))
        /\ \A r \in Runs : wrapped[r].number # 0 =>
              LET n == wrapped[r].number
              IN  \E i \in 1..Len(emitted) :
                     /\ Observed("start", n) = {i}
                     /\ IF wrapped[r].phase = "running"
                          THEN Observed("finish", n) = {}
                          ELSE \E j \in (i + 1)..Len(emitted) :
                                  /\ Observed("finish", n) = {j}
                                  /\ emitted[j].outcome = Outcome(wrapped[r].result)
=============================================================================
