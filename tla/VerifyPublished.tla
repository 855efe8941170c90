--------------------------- MODULE VerifyPublished ---------------------------
(***************************************************************************)
(* scripts/verify-published-node.mjs with scripts/lib/start-mtls-server.mjs*)
(* (the verification of a release that is on npm): resolve, install, check *)
(* the manifests, boot a server with fresh keys, run the consumer, judge   *)
(* it, clean up, report and exit.  Every phase can fail, and so can every  *)
(* step of the cleanup.                                                    *)
(***************************************************************************)
EXTENDS Naturals

CONSTANTS ResolveAttempts  \* RESOLVE_ATTEMPTS

ASSUME VerifyAssumption == ResolveAttempts \in Nat \ {0}

VARIABLES release,  \* external: what the release under test is like
          run,      \* where the verification is, its report and its verdict
          left      \* what it has created and not removed

verifyVars == <<release, run, left>>

(***************************************************************************)
(* right: npm installs the requested version, with a core it accepts;      *)
(* inside: its entrypoint resolves into the installed package; sound: it   *)
(* passes the contract scenarios.                                          *)
(***************************************************************************)
Releases == [right : BOOLEAN, inside : BOOLEAN, sound : BOOLEAN]
IsGood(r) == r.right /\ r.inside /\ r.sound

Nothing == [project |-> FALSE, keys |-> FALSE, server |-> FALSE]

(***************************************************************************)
(* overall and failure are the report's; attached: the error that is being *)
(* thrown carries the report; cleanup: serverCleanupFailure; written: the  *)
(* report's file, where "unavailable" says reportAvailable: false.         *)
(***************************************************************************)
VerifyInit ==
    /\ release \in Releases
    /\ run = [step |-> "resolve", attempt |-> 1, overall |-> "fail",
              failure |-> "none", attached |-> FALSE, cleanup |-> FALSE,
              exit |-> "none", written |-> "none"]
    /\ left = Nothing

Moves(to) == run' = [run EXCEPT !.step = to]

(* catch: the report is completed and attached to the error.               *)
Throw(phase) ==
    run' = [run EXCEPT !.step = "close", !.failure = phase, !.attached = TRUE]

-----------------------------------------------------------------------------
(* A version that is not exact is refused before there is a report.        *)
RefuseVersion ==
    /\ run.step = "resolve" /\ run.attempt = 1
    /\ Moves("failed")
    /\ UNCHANGED <<release, left>>

(***************************************************************************)
(* resolveRegistryMetadata: a miss that may be transient is looked up      *)
(* again, finitely often; output that is no JSON is an internal error.     *)
(***************************************************************************)
Resolve(answer) ==
    /\ run.step = "resolve"
    /\ CASE answer = "found" -> Moves("install")
         [] answer = "garbled" -> Throw("internal")
         [] answer = "transient" /\ run.attempt < ResolveAttempts ->
               run' = [run EXCEPT !.attempt = @ + 1]
         [] OTHER -> Throw("resolve")
    /\ UNCHANGED <<release, left>>

(* The project directory is made, then npm installs into it or fails.      *)
Install(outcome) ==
    /\ run.step = "install"
    /\ left' = [left EXCEPT !.project = outcome # "no directory"]
    /\ CASE outcome = "installed" -> Moves("manifests")
         [] outcome = "failed" -> Throw("install")
         [] outcome = "no directory" -> Throw("internal")
    /\ UNCHANGED release

(* Manifests that are wrong or missing fail; those that do not parse throw.*)
CheckManifests(phase) ==
    /\ run.step = "manifests"
    /\ IF release.right THEN Moves("boot") ELSE Throw(phase)
    /\ UNCHANGED <<release, left>>

(***************************************************************************)
(* startMtlsServer makes the keys, then spawns the server and waits for it *)
(* to be ready.  If that fails the server is killed and the keys are       *)
(* removed.                                                                *)
(***************************************************************************)
MakeKeys ==
    /\ run.step = "boot" /\ ~left.keys
    /\ left' = [left EXCEPT !.keys = TRUE]
    /\ UNCHANGED <<release, run>>

SpawnServer ==
    /\ run.step = "boot" /\ left.keys /\ ~left.server
    /\ left' = [left EXCEPT !.server = TRUE]
    /\ UNCHANGED <<release, run>>

ServerReady ==
    /\ run.step = "boot" /\ left.server
    /\ Moves("consumer")
    /\ UNCHANGED <<release, left>>

BootFails(removed) ==
    /\ run.step = "boot"
    /\ left' = [left EXCEPT !.server = FALSE, !.keys = @ /\ ~removed]
    /\ Throw("internal")
    /\ UNCHANGED release

(***************************************************************************)
(* The boot's timer and the server's exit are callbacks: keys that cannot  *)
(* be removed there are an uncaught exception, which ends the process.     *)
(***************************************************************************)
BootCrashes ==
    /\ run.step = "boot" /\ left.server
    /\ left' = [left EXCEPT !.server = FALSE]
    /\ run' = [run EXCEPT !.step = "exited", !.exit = "1"]
    /\ UNCHANGED release

-----------------------------------------------------------------------------
(***************************************************************************)
(* The consumer prints a payload, what its entrypoint resolved to and how  *)
(* the scenarios went, and exits with 0 if both are right.  The package    *)
(* may end it before that, with any code; it may be killed, not start or   *)
(* run out of time.                                                        *)
(***************************************************************************)
ConsumerOutcomes ==
    [ended : {"exit", "killed", "no start", "timeout"}, code : {0, 1},
     payload : BOOLEAN]

ConsumerIsPossible(o) ==
    o.ended = "exit" /\ o.payload =>
        (o.code = 0 <=> release.inside /\ release.sound)

(* "none": the run passes.  An exit with 0 without a payload is a TypeError*)
(* where the parent checks the payload again.                              *)
Verdict(o) ==
    CASE o.ended \in {"no start", "timeout"} -> "contract"
      [] o.ended = "killed" \/ (o.ended = "exit" /\ o.code # 0) ->
            IF o.payload /\ ~release.inside THEN "verify" ELSE "contract"
      [] OTHER -> CASE ~o.payload -> "internal"
                    [] o.payload /\ ~release.inside -> "verify"
                    [] o.payload /\ release.inside /\ ~release.sound -> "contract"
                    [] OTHER -> "none"

RunConsumer(o) ==
    /\ run.step = "consumer"
    /\ ConsumerIsPossible(o)
    /\ IF Verdict(o) = "none"
         THEN run' = [run EXCEPT !.step = "close", !.overall = "pass"]
         ELSE Throw(Verdict(o))
    /\ UNCHANGED <<release, left>>

-----------------------------------------------------------------------------
(***************************************************************************)
(* finally: close() ends the server, by force after two seconds, and       *)
(* removes its keys, which may fail; then the project directory is removed,*)
(* and that is not guarded: its error replaces the one being thrown.       *)
(***************************************************************************)
CloseServer(removed) ==
    /\ run.step = "close"
    /\ IF left.server
         THEN /\ left' = [left EXCEPT !.server = FALSE, !.keys = ~removed]
              /\ run' = [run EXCEPT !.step = "remove", !.cleanup = ~removed]
         ELSE /\ Moves("remove")
              /\ UNCHANGED left
    /\ UNCHANGED release

\* Mutant: a failed cleanup is swallowed.
RemoveProjectSwallowing(removed) ==
    /\ run.step = "remove"
    /\ left' = [left EXCEPT !.project = @ /\ ~removed]
    /\ Moves(IF run.failure = "none" THEN "passed" ELSE "failed")
    /\ UNCHANGED release

RemoveProject(removed) ==
    /\ run.step = "remove"
    /\ left' = [left EXCEPT !.project = @ /\ ~removed]
    /\ CASE left.project /\ ~removed ->
               run' = [run EXCEPT !.step = "failed", !.attached = FALSE]
         [] (removed \/ ~left.project) /\ run.cleanup /\ run.failure = "none" ->
               run' = [run EXCEPT !.step = "failed", !.failure = "internal",
                                  !.attached = TRUE]
         [] OTHER -> Moves(IF run.failure = "none" THEN "passed" ELSE "failed")
    /\ UNCHANGED release

(* main: the report is written if a file was asked for.                    *)
Exit(requested) ==
    /\ run.step \in {"passed", "failed"}
    /\ run' = [run EXCEPT
          !.step = "exited",
          !.exit = IF run.step = "passed" THEN "0" ELSE "1",
          !.written = CASE ~requested -> "none"
                        [] requested /\ (run.step = "passed" \/ run.attached) ->
                              run.overall
                        [] OTHER -> "unavailable"]
    /\ UNCHANGED <<release, left>>

VerifyNext ==
    \/ RefuseVersion
    \/ \E answer \in {"found", "garbled", "transient", "refused"} : Resolve(answer)
    \/ \E outcome \in {"installed", "failed", "no directory"} : Install(outcome)
    \/ \E phase \in {"verify", "internal"} : CheckManifests(phase)
    \/ MakeKeys
    \/ SpawnServer
    \/ ServerReady
    \/ \E removed \in BOOLEAN : BootFails(removed)
    \/ BootCrashes
    \/ \E o \in ConsumerOutcomes : RunConsumer(o)
    \/ \E removed \in BOOLEAN : CloseServer(removed)
    \/ \E removed \in BOOLEAN : RemoveProject(removed)
    \/ \E requested \in BOOLEAN : Exit(requested)

VerifySpec == VerifyInit /\ [][VerifyNext]_verifyVars

-----------------------------------------------------------------------------
(* Type invariant of the release, the run and its leftovers.               *)
VerifyTypeOK ==
    /\ release \in Releases
    /\ run \in [step : {"resolve", "install", "manifests", "boot", "consumer",
                        "close", "remove", "passed", "failed", "exited"},
                attempt : 1..ResolveAttempts, overall : {"pass", "fail"},
                failure : {"none", "resolve", "install", "verify", "contract",
                           "internal"},
                attached : BOOLEAN, cleanup : BOOLEAN,
                exit : {"none", "0", "1"},
                written : {"none", "pass", "fail", "unavailable"}]
    /\ left \in [project : BOOLEAN, keys : BOOLEAN, server : BOOLEAN]

(* An exit with 0 proves the release: it is the requested version, its own *)
(* entrypoint ran, the scenarios passed, and neither a server, nor its     *)
(* keys, nor a project directory is left.  A report of a pass proves as    *)
(* much of the release, and no exit leaves a server behind.                *)
ExitMeansVerified ==
    /\ run.exit = "0" => IsGood(release) /\ left = Nothing
    /\ run.written = "pass" => IsGood(release)
    /\ run.step = "exited" => ~left.server

(* "on an otherwise-successful run it FAILS the verification: a leftover   *)
(* server process or key directory must not ride a pass".                  *)
LeftoversFailTheReport == run.written = "pass" => left = Nothing

(* "A cleanup failure must never mask an existing verification error": the *)
(* report that was asked for names it.                                     *)
FailureIsReported ==
    run.written # "none" /\ run.failure # "none" => run.written # "unavailable"
=============================================================================
