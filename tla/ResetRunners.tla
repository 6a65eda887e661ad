---------------------------- MODULE ResetRunners ----------------------------
(***************************************************************************)
(* gitlab/reset-runner and its older copy Image Runner/reset-runners.sh:   *)
(* both remove the runner containers, start new ones and prune volumes,    *)
(* the copy before it starts them.  Both run under `set -e`; Docker may    *)
(* fail any command.  The runner of a loop is any of those left to do.     *)
(***************************************************************************)
EXTENDS FiniteSets

CONSTANTS
    Runners,     \* the keys of runner_configs
    NamedLike    \* runner -> the runners whose name contains its own

ASSUME ResetAssumption == \A r \in Runners : r \in NamedLike[r]

VARIABLES
    program,     \* which of the two scripts runs
    phase,       \* its part that runs, or how it ended
    used,        \* USED_TAGS that have an entry in runner_configs
    todo,        \* what the loop of the phase has left
    containers,  \* runner -> its container
    images,      \* the runners whose image is on the machine
    volumes,     \* runner -> its volume gitlab-runner-config-...
    prunes_named,\* `docker volume prune` removes named volumes (before 23.0)
    opening_volumes, \* volumes when the script was started
    clean        \* Docker has failed no command of this run

resetGhosts == <<opening_volumes, clean>>
resetVars   == <<program, phase, used, todo, containers, images, volumes,
                 prunes_named, resetGhosts>>

ResetTypeOK ==
    /\ program \in {"reset-runner", "reset-runners.sh"}
    /\ phase \in {"ask", "remove", "start", "prune", "done", "aborted"}
    /\ todo \subseteq used /\ used \subseteq Runners /\ images \subseteq Runners
    /\ containers \in [Runners -> {"absent", "stopped", "running"}]
    /\ {volumes, opening_volumes} \subseteq [Runners -> {"none", "fresh", "registered"}]
    /\ \A r \in Runners : containers[r] # "absent" => volumes[r] # "none"
    /\ {prunes_named, clean} \subseteq BOOLEAN

\* Whatever earlier runs, and hands, have left.
ResetInit ==
    /\ program \in {"reset-runner", "reset-runners.sh"} /\ phase = "ask"
    /\ used = {} /\ todo = {} /\ images \in SUBSET Runners
    /\ containers \in [Runners -> {"absent", "stopped", "running"}]
    /\ volumes \in [Runners -> {"none", "fresh", "registered"}]
    /\ \A r \in Runners : containers[r] # "absent" => volumes[r] # "none"
    /\ prunes_named \in BOOLEAN /\ opening_volumes = volumes /\ clean = TRUE

-----------------------------------------------------------------------------

\* The tags of the latest pipeline's jobs; the copy takes all of runner_configs.
Ask ==
    /\ phase = "ask" /\ phase' = "remove"
    /\ used' \in IF program = "reset-runner" THEN SUBSET Runners ELSE {Runners}
    /\ todo' = used'
    /\ UNCHANGED <<program, containers, images, volumes, prunes_named, resetGhosts>>

\* No project, no pipeline, or a curl that fails: GitLab's answer, not Docker's.
AskFails ==
    /\ phase = "ask" /\ program = "reset-runner" /\ phase' = "aborted"
    /\ UNCHANGED <<program, used, todo, containers, images, volumes, prunes_named, resetGhosts>>

\* Slip: the test of the copy in both scripts.
SeenRunning(r) == \E s \in NamedLike[r] : containers[s] = "running"

\* reset-runners.sh line 21: only what `docker ps -q -f name=` shows is removed.
Seen(r) ==
    program = "reset-runner" \/ \E s \in NamedLike[r] : containers[s] = "running"

\* docker stop || true, docker rm || true: rm needs a container that stopped.
Remove(r) ==
    /\ phase = "remove" /\ r \in todo /\ todo' = todo \ {r}
    /\ \/ /\ containers' = [containers EXCEPT ![r] = IF Seen(r) THEN "absent" ELSE @]
          /\ UNCHANGED clean
       \/ /\ Seen(r) /\ containers[r] # "absent" /\ clean' = FALSE
          /\ \E c \in {containers[r], "stopped"} : containers' = [containers EXCEPT ![r] = c]
    /\ UNCHANGED <<program, phase, used, images, volumes, prunes_named, opening_volumes>>

Fresh(r) == [volumes EXCEPT ![r] = IF @ = "none" THEN "fresh" ELSE @]

\* docker run -d --name; reset-runner skips a runner whose image is missing.
StartOne(r) ==
    /\ phase = "start" /\ r \in todo /\ containers[r] = "absent" /\ r \in images
    /\ containers' = [containers EXCEPT ![r] = "running"]
    /\ volumes' = Fresh(r) /\ todo' = todo \ {r}
    /\ UNCHANGED <<program, phase, used, images, prunes_named, resetGhosts>>

\* It also skips one whose `docker image inspect` fails, with the image there.
NoImage(r) ==
    /\ phase = "start" /\ r \in todo /\ program = "reset-runner"
    /\ todo' = todo \ {r}
    /\ clean' = (clean /\ r \notin images)
    /\ UNCHANGED <<program, phase, used, containers, images, volumes, prunes_named,
                   opening_volumes>>

\* `set -e` ends the script: the name is taken, the image is missing, or Docker
\* fails, with or without the container created.
StartAborts(r) ==
    /\ phase = "start" /\ r \in todo /\ phase' = "aborted"
    /\ r \in images \/ program = "reset-runners.sh"
    /\ IF containers[r] # "absent" \/ r \notin images
       THEN UNCHANGED <<containers, volumes, clean>>
       ELSE /\ clean' = FALSE
            /\ \/ UNCHANGED <<containers, volumes>>
               \/ /\ containers' = [containers EXCEPT ![r] = "stopped"]
                  /\ volumes' = Fresh(r)
    /\ UNCHANGED <<program, used, todo, images, prunes_named, opening_volumes>>

\* Slip: the order of the copy in both scripts.
PruneFirst(p) == IF p = "remove" THEN "prune" ELSE IF p = "prune" THEN "start" ELSE "done"

\* The three phases, in the order of each script.
After(p) ==
    IF program = "reset-runner"
    THEN CASE p = "remove" -> "start" [] p = "start" -> "prune" [] p = "prune" -> "done"
    ELSE CASE p = "remove" -> "prune" [] p = "prune" -> "start" [] p = "start" -> "done"

LoopEnds ==
    /\ phase \in {"remove", "start"} /\ todo = {}
    /\ phase' = After(phase) /\ todo' = used
    /\ UNCHANGED <<program, used, containers, images, volumes, prunes_named, resetGhosts>>

\* docker volume prune -f: the volumes no container refers to.
Prune ==
    /\ phase = "prune" /\ phase' = After("prune")
    /\ volumes' = [r \in Runners |-> IF prunes_named /\ containers[r] = "absent"
                                     THEN "none" ELSE volumes[r]]
    /\ UNCHANGED <<program, used, todo, containers, images, prunes_named, resetGhosts>>

\* A failure is ignored by reset-runner only.
PruneFails ==
    /\ phase = "prune" /\ clean' = FALSE
    /\ phase' = IF program = "reset-runner" THEN "done" ELSE "aborted"
    /\ UNCHANGED <<program, used, todo, containers, images, volumes, prunes_named, opening_volumes>>

ResetNext ==
    \/ Ask \/ AskFails \/ LoopEnds \/ Prune \/ PruneFails
    \/ \E r \in Runners : Remove(r) \/ StartOne(r) \/ NoImage(r) \/ StartAborts(r)

ResetSpec == ResetInit /\ [][ResetNext]_resetVars

-----------------------------------------------------------------------------

\* Whatever an earlier run left behind, a run for which Docker fails no command
\* heals it: it gets to its success line with a container for every runner it
\* has an image for.  Where it does not, GitLab did not answer and no runner was
\* taken down, or the copy got stuck on a container it does not see or on a
\* missing image, the others removed (reset-runner:23-78,
\* reset-runners.sh:20-50).
ResetHeals ==
    clean => /\ phase = "done" =>
                   \A r \in used \intersect images : containers[r] = "running"
             /\ phase = "aborted" =>
                   \/ program = "reset-runner" /\ used = {}
                   \/ /\ program = "reset-runners.sh"
                      /\ \E r \in used : containers[r] = "stopped" \/ r \notin images

\* A reset costs no runner its registration, which is in its volume: not one
\* that it has started again, except where the copy prunes named volumes before
\* it starts (reset-runner:82, reset-runners.sh:36).
RegistrationKept ==
    \A r \in used :
        /\ phase = "done" /\ containers[r] = "running" /\ opening_volumes[r] = "registered"
        /\ ~(program = "reset-runners.sh" /\ prunes_named)
        => volumes[r] = "registered"
=============================================================================
