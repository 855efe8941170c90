----------------------------- MODULE PublishPlan -----------------------------
(***************************************************************************)
(* The publish workflow: scripts/sync-internal-dependencies.mjs --check,   *)
(* scripts/build-packages.mjs, the tarball tests and                       *)
(* scripts/publish-oidc.sh, in the order of .github/workflows/publish.yml. *)
(*                                                                         *)
(* Jobs of different commits run concurrently and a job is run again after *)
(* it failed, so several of them publish the same versions to one registry.*)
(* A dry run, which publishes nothing, is left out.                        *)
(***************************************************************************)
EXTENDS Naturals, Sequences, SequencesExt

CONSTANTS N,     \* publishable packages, numbered in the order of their names
          Jobs   \* runs of the workflow

ASSUME PublishAssumption == N \in Nat \ {0}

VARIABLES deps,      \* the packages each manifest depends on, as it lists them
          synced,    \* the manifests name each other's current versions
          registry,  \* external: packages whose version is on npm
          job        \* the runs

publishVars == <<deps, synced, registry, job>>

Packages == 1..N
Listings == UNION {[1..n -> Packages] : n \in 0..N}
DepsOf(p) == ToSet(deps[p])

(***************************************************************************)
(* Any manifests a maintainer may have committed, cyclic ones included, on *)
(* any part of what is published already; no package names itself, nor     *)
(* another twice.                                                          *)
(***************************************************************************)
PublishInit ==
    /\ deps \in [Packages -> {s \in Listings : IsInjective(s)}]
    /\ \A p \in Packages : p \notin DepsOf(p)
    /\ synced \in BOOLEAN
    /\ registry \in SUBSET Packages
    /\ job = [j \in Jobs |-> [stage |-> "queued", left |-> <<>>, failed |-> {}]]

-----------------------------------------------------------------------------
(***************************************************************************)
(* The depth-first traversal of both scripts: a plan is what has been      *)
(* visited, and whether a package was met again while its own visit was    *)
(* under way.  There the build script throws; the publish script, which    *)
(* marks a package when it enters it, goes on.                             *)
(***************************************************************************)
Plans == [order : Seq(Packages), circular : BOOLEAN]

(***************************************************************************)
(* Where a traversal is: the visits under way, the packages to visit next  *)
(* at this level and the plan so far.  It starts with all packages, in the *)
(* order of their names.                                                   *)
(***************************************************************************)
Visits == [path : SUBSET Packages, dirs : Listings, plan : Plans]

Start == [path |-> {}, dirs |-> [p \in Packages |-> p],
          plan |-> [order |-> <<>>, circular |-> FALSE]]

Enter(at, p) == [path |-> at.path \cup {p}, dirs |-> deps[p], plan |-> at.plan]

Traverse ==
    LET visit[at \in Visits] ==
            IF at.dirs = <<>> THEN at.plan
            ELSE LET p == Head(at.dirs)
                     next == IF p \in ToSet(at.plan.order) THEN at.plan
                             ELSE IF p \in at.path
                               THEN [at.plan EXCEPT !.circular = TRUE]
                               ELSE [visit[Enter(at, p)] EXCEPT
                                        !.order = Append(@, p)]
                 IN visit[[at EXCEPT !.dirs = Tail(@), !.plan = next]]
    IN visit[Start]

-----------------------------------------------------------------------------
JobMoves(j, from, to) ==
    /\ job[j].stage = from
    /\ job' = [job EXCEPT ![j] = to]
    /\ UNCHANGED <<deps, synced, registry>>

JobFails(j) == [job[j] EXCEPT !.stage = "exit 1"]

(* A step of the workflow fails, or the runner ends the job where it is.   *)
StepFails(j) ==
    /\ job[j].stage \notin {"exit 0", "exit 1"}
    /\ JobMoves(j, job[j].stage, JobFails(j))

CheckInternalDeps(j) ==
    JobMoves(j, "queued", IF synced THEN [job[j] EXCEPT !.stage = "synced"]
                          ELSE JobFails(j))

PlanBuild(j) ==
    JobMoves(j, "synced",
             IF Traverse.circular THEN JobFails(j)
             ELSE [job[j] EXCEPT !.stage = "building", !.left = Traverse.order])

(* One package builds; a build that fails is a StepFails.                  *)
Build(j) ==
    /\ job[j].left # <<>>
    /\ JobMoves(j, "building", [job[j] EXCEPT !.left = Tail(@)])

(* The packed tarballs pass their tests; the packages are discovered.      *)
StartPublishing(j) ==
    /\ job[j].left = <<>>
    /\ JobMoves(j, "building", [job[j] EXCEPT !.stage = "publishing",
                                              !.left = Traverse.order])

-----------------------------------------------------------------------------
(***************************************************************************)
(* The main loop of publish-oidc.sh.                                       *)
(***************************************************************************)
Current(j) == Head(job[j].left)
Published(j) == [job[j] EXCEPT !.stage = "publishing", !.left = Tail(@)]
NotPublished(j) == [Published(j) EXCEPT !.failed = @ \cup {Current(j)}]

\* Mutant: dependents of a package that failed are published all the same.
NextPackageUnblocked(j, valid) ==
    /\ job[j].left # <<>>
    /\ JobMoves(j, "publishing",
                IF ~valid THEN NotPublished(j)
                ELSE [job[j] EXCEPT !.stage = "viewing"])

(* A failed dependency blocks the package; its exports may be invalid.     *)
NextPackage(j, valid) ==
    /\ job[j].left # <<>>
    /\ JobMoves(j, "publishing",
                IF DepsOf(Current(j)) \cap job[j].failed # {} \/ ~valid
                THEN NotPublished(j)
                ELSE [job[j] EXCEPT !.stage = "viewing"])

(* npm view finds the version only if it is there, and need not.           *)
View(j, found) ==
    /\ job[j].stage = "viewing"
    /\ found => Current(j) \in registry
    /\ JobMoves(j, "viewing",
                IF found THEN Published(j) ELSE [job[j] EXCEPT !.stage = "sending"])

(***************************************************************************)
(* npm publish: npm accepts the version, accepts it but its answer is lost,*)
(* says that it was published before (another job's work), or refuses.     *)
(***************************************************************************)
Publish(j, outcome) ==
    /\ job[j].stage = "sending"
    /\ outcome \in {"accepted", "lost"} => Current(j) \notin registry
    /\ outcome = "duplicate" => Current(j) \in registry
    /\ registry' = IF outcome \in {"accepted", "lost"}
                   THEN registry \cup {Current(j)} ELSE registry
    /\ job' = [job EXCEPT ![j] = IF outcome \in {"accepted", "duplicate"}
                                 THEN Published(j) ELSE NotPublished(j)]
    /\ UNCHANGED <<deps, synced>>

FinishPublishing(j) ==
    /\ job[j].left = <<>>
    /\ JobMoves(j, "publishing",
                IF job[j].failed = {} THEN [job[j] EXCEPT !.stage = "exit 0"]
                ELSE JobFails(j))

PublishNext ==
    \E j \in Jobs :
        \/ StepFails(j)
        \/ CheckInternalDeps(j)
        \/ PlanBuild(j)
        \/ Build(j)
        \/ StartPublishing(j)
        \/ \E valid \in BOOLEAN : NextPackage(j, valid)
        \/ \E found \in BOOLEAN : View(j, found)
        \/ \E outcome \in {"accepted", "lost", "duplicate", "refused"} :
              Publish(j, outcome)
        \/ FinishPublishing(j)

PublishSpec == PublishInit /\ [][PublishNext]_publishVars

-----------------------------------------------------------------------------
(* Type invariant of the repository, the registry and the jobs.            *)
PublishTypeOK ==
    /\ deps \in [Packages -> Listings]
    /\ synced \in BOOLEAN
    /\ registry \subseteq Packages
    /\ \A j \in Jobs :
          /\ job[j].stage \in {"queued", "synced", "building", "publishing",
                               "viewing", "sending", "exit 0", "exit 1"}
          /\ ToSet(job[j].left) \subseteq Packages
          /\ job[j].failed \subseteq Packages

(* Nothing reaches npm before what it depends on, at the versions it names,*)
(* whatever fails, is run again or runs concurrently, and however the      *)
(* manifests depend on each other; and no package is built before what it  *)
(* depends on.                                                             *)
DependenciesComeFirst ==
    [][/\ \A p \in registry' \ registry : synced /\ DepsOf(p) \subseteq registry
       /\ \A j \in Jobs :
             job[j].stage = "building" /\ job[j].left # <<>> =>
                DepsOf(Current(j)) \cap ToSet(job[j].left) = {}]_publishVars

(* A job that exits with 0 leaves every package on npm.                    *)
ExitMeansPublished ==
    \A j \in Jobs : job[j].stage = "exit 0" => registry = Packages
=============================================================================
