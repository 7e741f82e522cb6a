----------------------------- MODULE SingleServer -----------------------------
(***************************************************************************)
(* The docker containers of one machine, and the commands that come and go *)
(* with them: sye-cluster-join.sh, sye-cluster-leave.sh, sye registry      *)
(* start, remove and add-release, and sye single-server, which is all of   *)
(* them in a row.  The scripts list containers again and again while a     *)
(* machine-controller starts others and docker restarts what was stopped.  *)
(*                                                                         *)
(* Docker and the machine-controller are external.  docker run creates a   *)
(* container of a name that is not taken and starts it; docker stop stops  *)
(* what it is given; docker rm removes what does not run.  The controller  *)
(* restarts with docker (--restart always) unless it was never started,    *)
(* and the registry unless it was stopped (--restart unless-stopped).      *)
(***************************************************************************)
EXTENDS Naturals

CONSTANTS
    Service,   \* the service containers that the machine-controller starts
    MaxFaults  \* bound: commands that die or whose calls fail, restarts of docker

ASSUME SingleServerAssumption ==
    /\ MaxFaults \in Nat
    /\ {"controller", "registry"} \cap Service = {}

Container == Service \cup {"controller", "registry"}

VARIABLES
    ct,         \* the state of each container
    volume,     \* the containers with a volume, which may outlive them
    images,     \* whether there are images in the volume of the registry
    archive,    \* which registry the configuration file in the directory names
    conf,       \* which registry the configuration in /etc/sye names
    named,      \* whether machine.json is in /etc/sye
    job,        \* what the shell is doing
    restarted,  \* history: whether docker was restarted during it
    want,       \* whether the operator wants a single server
    faults

vars == <<ct, volume, images, archive, conf, named, job, restarted, want, faults>>

Url == {"none", "local", "external"}

NoJob == [cmd |-> "none", step |-> "idle", local |-> FALSE, ids |-> {}]

LeaveStep == {"leave", "stopController", "list", "stopAll", "listAgain", "removeAll", "volumes", "files"}
RegistryStep == {"find", "remove", "load", "start", "check", "push"}
JoinStep == {"define", "extract", "name", "look", "create", "run"}

TypeOK ==
    /\ ct \in [Container -> {"none", "created", "running", "stopped"}]
    /\ volume \subseteq Container \ {"controller"}
    /\ images \in BOOLEAN /\ (images => "registry" \in volume)
    /\ archive \in Url /\ conf \in Url
    /\ named \in BOOLEAN /\ (named => conf # "none")
    /\ job \in [cmd : {"none", "leave", "remove", "start", "add", "join", "single"},
                step : {"idle"} \cup LeaveStep \cup RegistryStep \cup JoinStep,
                local : BOOLEAN, ids : SUBSET Container]
    /\ restarted \in BOOLEAN /\ want \in BOOLEAN
    /\ faults \in 0..MaxFaults

Init ==
    /\ ct = [x \in Container |-> "none"]
    /\ volume = {} /\ images = FALSE
    /\ archive = "none" /\ conf = "none" /\ named = FALSE
    /\ job = NoJob
    /\ restarted = FALSE /\ want = FALSE
    /\ faults = 0

-------------------------------------------------------------------------------

At(step) == job.step = step

Goto(step) == job' = [job EXCEPT !.step = step]

End == job' = NoJob

GotoIf(ok, step) == IF ok THEN Goto(step) ELSE End

\* A command of its own ends here; single-server goes on.
Return(step) == GotoIf(job.cmd = "single", step)

Existing == {x \in Container : ct[x] # "none"}

Becomes(containers, state) ==
    ct' = [x \in Container |-> IF x \in containers THEN state ELSE ct[x]]

\* A registry answers: the local one if it runs and has images, another one if all goes well.
Answers(url) ==
    \/ url = "local" /\ ct["registry"] = "running" /\ images
    \/ url = "external"

Begin(cmd, step, local) ==
    /\ job.cmd = "none"
    /\ job' = [cmd |-> cmd, step |-> step, local |-> local, ids |-> {}]
    /\ restarted' = FALSE

-------------------------------------------------------------------------------
(* Commands, of which the operator runs one at a time. *)

\* cluster-join finds the configuration file that the operator has put there.
CommandStart ==
    /\ ~want
    /\ \/ /\ \/ Begin("leave", "leave", FALSE)
             \/ Begin("remove", "find", FALSE)
             \/ Begin("start", "load", TRUE)
             \/ Begin("add", "push", TRUE)
          /\ UNCHANGED archive
       \/ Begin("join", "extract", FALSE) /\ archive' \in Url
    /\ UNCHANGED <<ct, volume, images, conf, named, want, faults>>

\* sye single-server, with --local-registry or without; repeated until it succeeds.
SingleServerStart ==
    /\ \E local \in BOOLEAN : Begin("single", "leave", local)
    /\ want' = TRUE
    /\ UNCHANGED <<ct, volume, images, archive, conf, named, faults>>

-------------------------------------------------------------------------------
(* sye-cluster-leave.sh, with set -e. *)

LeaveLook ==
    /\ At("leave")
    /\ Goto(IF Existing = {} THEN "volumes" ELSE "stopController")
    /\ UNCHANGED <<ct, volume, images, archive, conf, named, restarted, want, faults>>

\* Mutant of StopController: all containers are stopped in one go.
StopControllerLater ==
    /\ At("stopController")
    /\ Goto("list")
    /\ UNCHANGED <<ct, volume, images, archive, conf, named, restarted, want, faults>>

\* The controller first, that it may start no others.
StopController ==
    /\ At("stopController")
    /\ IF ct["controller"] = "running" THEN Becomes({"controller"}, "stopped") ELSE UNCHANGED ct
    /\ Goto("list")
    /\ UNCHANGED <<volume, images, archive, conf, named, restarted, want, faults>>

\* Mutant of List: docker ps without -a.
ListRunning ==
    /\ At("list") \/ At("listAgain")
    /\ LET ids == {x \in Container : ct[x] = "running"} IN
        IF ids = {} THEN End
        ELSE job' = [job EXCEPT !.ids = ids, !.step = IF @ = "list" THEN "stopAll" ELSE "removeAll"]
    /\ UNCHANGED <<ct, volume, images, archive, conf, named, restarted, want, faults>>

\* $(docker ps -a -q), once for docker stop and once for docker rm; both fail without one.
List ==
    /\ At("list") \/ At("listAgain")
    /\ IF Existing = {} THEN End
       ELSE job' = [job EXCEPT !.ids = Existing,
                               !.step = IF @ = "list" THEN "stopAll" ELSE "removeAll"]
    /\ UNCHANGED <<ct, volume, images, archive, conf, named, restarted, want, faults>>

\* Mutant of StopAll: with the containers goes their configuration.
StopAllAndFiles ==
    /\ At("stopAll")
    /\ Becomes({x \in job.ids : ct[x] = "running"}, "stopped")
    /\ Goto("listAgain")
    /\ conf' = "none" /\ named' = FALSE
    /\ UNCHANGED <<volume, images, archive, restarted, want, faults>>

StopAll ==
    /\ At("stopAll")
    /\ Becomes({x \in job.ids : ct[x] = "running"}, "stopped")
    /\ Goto("listAgain")
    /\ UNCHANGED <<volume, images, archive, conf, named, restarted, want, faults>>

\* One that runs is left, and makes docker rm fail when it has removed the others.
Stubborn == {x \in job.ids : ct[x] = "running"}

RemoveAll ==
    /\ At("removeAll")
    /\ Becomes(job.ids \ Stubborn, "none")
    /\ GotoIf(Stubborn = {}, "volumes")
    /\ UNCHANGED <<volume, images, archive, conf, named, restarted, want, faults>>

\* Volumes that no container uses.
RemoveVolumes ==
    /\ At("volumes")
    /\ volume' = volume \cap Existing
    /\ images' = (images /\ "registry" \in volume')
    /\ Goto("files")
    /\ UNCHANGED <<ct, archive, conf, named, restarted, want, faults>>

\* rm -rf /etc/sye: the machine has left.
LeaveDone ==
    /\ At("files")
    /\ conf' = "none" /\ named' = FALSE
    /\ Return(IF job.local THEN "find" ELSE "define")
    /\ UNCHANGED <<ct, volume, images, archive, restarted, want, faults>>

-------------------------------------------------------------------------------
(* registryRemove, registryStart, registryAddImages *)

\* The registry is looked for among all containers, and stopped.
RegistryStop ==
    /\ At("find")
    /\ IF ct["registry"] = "none" THEN UNCHANGED ct /\ Return("load")
       ELSE /\ ct' = [ct EXCEPT !["registry"] = IF @ = "running" THEN "stopped" ELSE @]
            /\ Goto("remove")
    /\ UNCHANGED <<volume, images, archive, conf, named, restarted, want, faults>>

RegistryRemove ==
    /\ At("remove")
    /\ Becomes({"registry"}, "none")
    /\ Return("load")
    /\ UNCHANGED <<volume, images, archive, conf, named, restarted, want, faults>>

\* docker run creates the container, with its volume.
RegistryCreate ==
    /\ At("load")
    /\ IF ct["registry"] # "none" THEN UNCHANGED <<ct, volume>> /\ End
       ELSE Becomes({"registry"}, "created") /\ volume' = volume \cup {"registry"} /\ Goto("start")
    /\ UNCHANGED <<images, archive, conf, named, restarted, want, faults>>

RegistryRun ==
    /\ At("start")
    /\ Becomes({"registry"}, "running")
    /\ Goto("check")
    /\ UNCHANGED <<volume, images, archive, conf, named, restarted, want, faults>>

\* curl, for a minute.
RegistryCheck ==
    /\ At("check")
    /\ IF ct["registry"] = "running" THEN Return("push") ELSE End
    /\ UNCHANGED <<ct, volume, images, archive, conf, named, restarted, want, faults>>

RegistryAddImages ==
    /\ At("push")
    /\ images' = (images \/ ct["registry"] = "running")
    /\ IF ct["registry"] = "running" THEN Return("define") ELSE End
    /\ UNCHANGED <<ct, volume, archive, conf, named, restarted, want, faults>>

-------------------------------------------------------------------------------
(* sye-cluster-join.sh, with errexit, after the cluster-create of single-server. *)

\* clusterCreate asks the registry for the release.
ClusterCreate ==
    /\ At("define")
    /\ LET url == IF job.local THEN "local" ELSE "external" IN
        IF Answers(url) THEN archive' = url /\ Goto("extract") ELSE UNCHANGED archive /\ End
    /\ UNCHANGED <<ct, volume, images, conf, named, restarted, want, faults>>

\* A file of an earlier configuration that the new one lacks stays: machine.json.
Extract ==
    /\ At("extract")
    /\ conf' = IF archive = "none" THEN conf ELSE archive
    /\ GotoIf(archive # "none", "name")
    /\ UNCHANGED <<ct, volume, images, archive, named, restarted, want, faults>>

WriteMachineJson ==
    /\ At("name")
    /\ named' = TRUE
    /\ Goto("look")
    /\ UNCHANGED <<ct, volume, images, archive, conf, restarted, want, faults>>

\* The script has succeeded, and so has single-server, which removes the archive.
JoinSucceeds ==
    /\ End
    /\ archive' = IF job.cmd = "single" THEN "none" ELSE archive
    /\ want' = (want /\ job.cmd # "single")

\* Only running controllers are looked for.
JoinLook ==
    /\ At("look")
    /\ IF ct["controller"] = "running" THEN JoinSucceeds
       ELSE Goto("create") /\ UNCHANGED <<archive, want>>
    /\ UNCHANGED <<ct, volume, images, conf, named, restarted, faults>>

\* An image is needed, and a name that is not taken.
ControllerCreate ==
    /\ At("create")
    /\ IF Answers(conf) /\ ct["controller"] = "none"
       THEN Becomes({"controller"}, "created") /\ Goto("run")
       ELSE UNCHANGED ct /\ End
    /\ UNCHANGED <<volume, images, archive, conf, named, restarted, want, faults>>

ControllerRun ==
    /\ At("run")
    /\ Becomes({"controller"}, "running")
    /\ JoinSucceeds
    /\ UNCHANGED <<volume, images, conf, named, restarted, faults>>

-------------------------------------------------------------------------------
(* The outside world. *)

\* The controller starts a service, with a volume of its own.
StartService ==
    /\ ct["controller"] = "running" /\ Answers(conf)
    /\ \E s \in Service :
        /\ ct[s] # "running"
        /\ Becomes({s}, "running")
        /\ volume' = volume \cup {s}
    /\ UNCHANGED <<images, archive, conf, named, job, restarted, want, faults>>

StopService ==
    /\ ct["controller"] = "running"
    /\ \E s \in Service : ct[s] = "running" /\ Becomes({s}, "stopped")
    /\ UNCHANGED <<volume, images, archive, conf, named, job, restarted, want, faults>>

\* Docker is upgraded, or the machine boots and the command dies with it.
Restart ==
    /\ faults < MaxFaults
    /\ faults' = faults + 1
    /\ ct' = [ct EXCEPT !["controller"] = IF @ = "stopped" THEN "running" ELSE @]
    /\ restarted' = TRUE
    /\ End \/ UNCHANGED job
    /\ UNCHANGED <<volume, images, archive, conf, named, want>>

\* The command is interrupted, or a call of it fails.
Crash ==
    /\ job.cmd # "none"
    /\ faults < MaxFaults
    /\ faults' = faults + 1
    /\ End
    /\ UNCHANGED <<ct, volume, images, archive, conf, named, restarted, want>>

Leave ==
    \/ LeaveLook \/ StopController \/ List \/ StopAll \/ RemoveAll \/ RemoveVolumes \/ LeaveDone

Registry ==
    \/ RegistryStop \/ RegistryRemove \/ RegistryCreate \/ RegistryRun \/ RegistryCheck
    \/ RegistryAddImages

Join == ClusterCreate \/ Extract \/ WriteMachineJson \/ JoinLook \/ ControllerCreate \/ ControllerRun

Next ==
    \/ CommandStart \/ SingleServerStart
    \/ Leave \/ Registry \/ Join
    \/ StartService \/ StopService \/ Restart \/ Crash

Spec == Init /\ [][Next]_vars

\* A command that has begun goes on; the operator repeats a single-server that failed.
Fairness ==
    /\ WF_vars(Leave \/ Registry \/ Join)
    /\ WF_vars(want /\ SingleServerStart)

FairSpec == Spec /\ Fairness

-------------------------------------------------------------------------------
(* Properties. *)

\* A controller never finds itself without its configuration, not even one that docker
\* restarts in the middle of a leave, or after one that failed: there is none left when
\* /etc/sye is removed, and none yet when it is filled.
ControllerHasConfig ==
    TypeOK /\ (ct["controller"] # "none" => conf # "none" /\ named)

\* leave makes three lists of containers while others may come up.  When it succeeds no
\* container and no volume is left, and it fails only if docker was restarted meanwhile.
LeaveLeavesNothing ==
    [][/\ LeaveDone => Existing = {} /\ volume = {}
       /\ RemoveAll /\ Stubborn # {} => restarted]_vars

\* A single-server that is repeated after every failure succeeds in the end, in whatever
\* state earlier commands have left the machine: half-made or stopped containers whose
\* names are taken, a controller that came up again, an old configuration.
SingleServerFinishes == want ~> ~want

\* A join that is repeated succeeds: not with a container left by one that died.
JoinNeedsNoLeave ==
    [][ControllerCreate /\ Answers(conf) => ct["controller"] = "none"]_vars
================================================================================
