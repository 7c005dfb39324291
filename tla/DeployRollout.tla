--------------------------- MODULE DeployRollout ---------------------------
(***************************************************************************)
(* ci/deploy/deploy.py, seen from the images: jobs that deploy the same    *)
(* application to the same environment and target.  They share the alias   *)
(* "<app>:<environment>" three times over, as a tag of the Jenkins agent's *)
(* docker daemon, as a tag of the registry and as a tag of the target's    *)
(* daemon, and they share the running container.  Nothing serialises them: *)
(* only the comparison of image digests before services are stopped and    *)
(* the version shown afterwards tell a job whose image it is looking at.   *)
(* A timeout ends the local ssh only: docker compose may go on on the      *)
(* target and do its work when nobody waits for it any more.               *)
(* An image is named by the job that built it: its unique tag is inside.   *)
(* The maintenance window is the business of DeployWindow.                 *)
(***************************************************************************)
CONSTANTS Jobs,    \* concurrent runs of deploy() for one app and environment
          Nothing  \* no image, no container

ASSUME NothingAssumption == Nothing \notin Jobs

VARIABLES
    at,          \* the command each job is about to run
    agentAlias,  \* the image the alias names on the Jenkins agent
    registry,    \* the image the alias names in the registry
    targetAlias, \* the image the alias names on the target
    running,     \* the image of the container "app" on the target
    late,        \* the docker compose command that outlived each job
    \* history
    met,         \* jobs that were under way together with another one
    broke,       \* jobs that failed with services stopped, or about to be
    lastVerified \* the job that last had its release verified

rolloutVars == <<at, agentAlias, registry, targetAlias, running, late,
                 met, broke, lastVerified>>

Images == Jobs \union {Nothing}
Steps == {"build", "push", "pull", "inspect", "down", "up", "verify",
          "done", "failed"}
\* The job, or a command it left behind, may still do something.
Underway(j) == \/ at[j] \notin {"build", "done", "failed"}
               \/ late[j] # "none"

RolloutTypeOK ==
    /\ at \in [Jobs -> Steps]
    /\ {agentAlias, registry, targetAlias, running, lastVerified} \subseteq Images
    /\ late \in [Jobs -> {"none", "down", "up"}]
    /\ met \subseteq Jobs
    /\ broke \subseteq Jobs

\* Nothing was deployed yet: the first jobs leave what the later ones find.
RolloutInit ==
    /\ at = [j \in Jobs |-> "build"]
    /\ agentAlias = Nothing
    /\ registry = Nothing
    /\ targetAlias = Nothing
    /\ running = Nothing
    /\ late = [j \in Jobs |-> "none"]
    /\ met = {}
    /\ broke = {}
    /\ lastVerified = Nothing

Go(j, l) == at' = [at EXCEPT ![j] = l]

----------------------------------------------------------------------------
\* maven, docker build, docker tag <precise> <alias>; the job is under way.
Build(j) ==
    /\ at[j] = "build"
    /\ agentAlias' = j
    /\ LET others == {k \in Jobs \ {j} : Underway(k)}
       IN  met' = met \union others \union (IF others = {} THEN {} ELSE {j})
    /\ Go(j, "push")
    /\ UNCHANGED <<registry, targetAlias, running, late, broke, lastVerified>>

\* docker push of the precise tag, then of whatever the alias names by now.
Push(j) ==
    /\ at[j] = "push"
    /\ registry' = agentAlias
    /\ Go(j, "pull")
    /\ UNCHANGED <<agentAlias, targetAlias, running, late, met, broke, lastVerified>>

\* docker pull of the precise tag, docker compose pull of the alias.
Pull(j) ==
    /\ at[j] = "pull"
    /\ targetAlias' = registry
    /\ Go(j, "inspect")
    /\ UNCHANGED <<agentAlias, registry, running, late, met, broke, lastVerified>>

\* A fault for the sensitivity checks: a step nothing continues.
MistypedInspect(j) ==
    /\ at[j] = "inspect"
    /\ targetAlias = j
    /\ Go(j, "stop")
    /\ UNCHANGED <<agentAlias, registry, targetAlias, running, late,
                   met, broke, lastVerified>>

\* precise_id = expected_id: go on to stop the services.
Inspect(j) ==
    /\ at[j] = "inspect"
    /\ targetAlias = j
    /\ Go(j, "down")
    /\ UNCHANGED <<agentAlias, registry, targetAlias, running, late,
                   met, broke, lastVerified>>

\* docker compose down removes the container, whosever it is.
Down(j) ==
    /\ at[j] = "down"
    /\ running' = Nothing
    /\ Go(j, "up")
    /\ UNCHANGED <<agentAlias, registry, targetAlias, late, met, broke, lastVerified>>

\* A fault for the sensitivity checks: the compose file pins the previous release.
PinnedUp(j) ==
    /\ at[j] = "up"
    /\ running' = lastVerified
    /\ Go(j, "verify")
    /\ UNCHANGED <<agentAlias, registry, targetAlias, late, met, broke, lastVerified>>

\* docker compose up -d runs what the alias names on the target by now.
Up(j) ==
    /\ at[j] = "up"
    /\ running' = targetAlias
    /\ Go(j, "verify")
    /\ UNCHANGED <<agentAlias, registry, targetAlias, late, met, broke, lastVerified>>

\* A fault for the sensitivity checks: any running release will do.
BlindVerify(j) ==
    /\ at[j] = "verify"
    /\ lastVerified' = j
    /\ Go(j, "done")
    /\ UNCHANGED <<agentAlias, registry, targetAlias, running, late, met, broke>>

\* The container's version file, and /status/items, show the job's tag.
VerifyImage(j) ==
    /\ at[j] = "verify"
    /\ running = j
    /\ lastVerified' = j
    /\ Go(j, "done")
    /\ UNCHANGED <<agentAlias, registry, targetAlias, running, late, met, broke>>

\* A command fails, the digests differ, the tag does not show before the
\* deadline, or the job is killed: nothing is rolled back.
GiveUp(j) ==
    /\ at[j] \notin {"done", "failed"}
    /\ broke' = IF at[j] \in {"up", "verify"} THEN broke \union {j} ELSE broke
    /\ Go(j, "failed")
    /\ UNCHANGED <<agentAlias, registry, targetAlias, running, late,
                   met, lastVerified>>

\* docker compose down or up takes longer than its timeout: the ssh is killed
\* and the job fails, the command goes on.
TimeOut(j) ==
    /\ at[j] \in {"down", "up"}
    /\ late' = [late EXCEPT ![j] = at[j]]
    /\ broke' = broke \union {j}
    /\ Go(j, "failed")
    /\ UNCHANGED <<agentAlias, registry, targetAlias, running,
                   met, lastVerified>>

\* It does its work after all, or dies.
Land(j) ==
    /\ late[j] # "none"
    /\ late' = [late EXCEPT ![j] = "none"]
    /\ running' \in {running, IF late[j] = "down" THEN Nothing ELSE targetAlias}
    /\ UNCHANGED <<at, agentAlias, registry, targetAlias,
                   met, broke, lastVerified>>

RolloutNext ==
    \E j \in Jobs : \/ Build(j) \/ Push(j) \/ Pull(j) \/ Inspect(j)
                   \/ Down(j) \/ Up(j) \/ VerifyImage(j)
                   \/ GiveUp(j) \/ TimeOut(j) \/ Land(j)

RolloutSpec == RolloutInit /\ [][RolloutNext]_rolloutVars

----------------------------------------------------------------------------
(* Properties.                                                             *)

\* A job that no other job ran into, nor a command an earlier one left behind,
\* verifies its own release: whatever the alias named before, the image it
\* started is the one it built.
AloneSeesItself ==
    \A j \in Jobs : at[j] = "verify" /\ j \notin met => running = j

\* Once every job is over and none broke off with services stopped, what runs
\* is the release that was verified last, however the jobs were interleaved.
LastVerifiedRuns ==
    /\ \A j \in Jobs : at[j] \in {"done", "failed"}
    /\ broke = {}
    => running = lastVerified
=============================================================================
