------------------------------ MODULE MCRelease ------------------------------
(***************************************************************************)
(* The release scripts on one instance: publishing, or the verification of *)
(* what was published.  They share no state, so a behaviour is one of      *)
(* either.                                                                 *)
(***************************************************************************)
EXTENDS TLC, PublishPlan, VerifyPublished

releaseVars == <<publishVars, verifyVars>>

NoJob ==
    /\ ~synced /\ registry = {} /\ \A p \in Packages : deps[p] = <<>>
    /\ \A j \in Jobs : job[j].stage = "queued"
NoVerification == release.right /\ release.inside /\ release.sound /\ run.step = "resolve"

MCInit == PublishInit /\ VerifyInit

MCNext ==
    \/ NoVerification /\ PublishNext /\ UNCHANGED verifyVars
    \/ NoJob /\ VerifyNext /\ UNCHANGED publishVars

(* Jobs differ in nothing but their progress.                              *)
JobSymmetry == Permutations(Jobs)

MCSpec == MCInit /\ [][MCNext]_releaseVars

(* An exit with 0 proves what the script is there for: that every package  *)
(* is on npm, or that the release is the one asked for and works, with     *)
(* nothing of the verification left behind.                                *)
ExitsTellTheTruth == ExitMeansPublished /\ ExitMeansVerified
=============================================================================
