----------------------------- MODULE CertRotation -----------------------------
(***************************************************************************)
(* Rotation of the cluster's TLS certificates: the operator who runs       *)
(* "sye cluster create-certs" and then, for each of the three stage files, *)
(* "upload-config" followed by sye-cluster-install-certs.sh on every       *)
(* machine; the bucket the configuration is kept in; and the machines,     *)
(* which meanwhile may boot, join, crash, restart or be deleted.           *)
(*                                                                         *)
(* The machine controller is a container of another repository.  Of it the *)
(* scripts use that it reads /etc/sye/keys when it starts, picks up        *)
(* changed keys while it runs, and logs a line when it has done so.        *)
(***************************************************************************)
EXTENDS CertStages, FiniteSets

CONSTANTS
    Machine,        \* every virtual machine that ever exists
    Initial,        \* those that make up the cluster when the model starts
    Azure,          \* TRUE: sye azure upload-config, FALSE: sye aws upload-config
    Hasty,          \* TRUE: the operator starts an install within 5 seconds of
                    \* the last reload, or interrupts one before the reload
    MaxCrashes,     \* bound on crashes of machine controllers
    NoKeys,         \* no keys: not downloaded, not installed, not loaded
    NotAnArchive    \* a download that tar cannot unpack

ASSUME MachineAssumption ==
    /\ Initial \subseteq Machine
    /\ {Azure, Hasty} \subseteq BOOLEAN
    /\ MaxCrashes \in Nat
    /\ NoKeys \notin Keys
    /\ NotAnArchive \notin Keys
    /\ NoKeys # NotAnArchive

VARIABLES
    master,     \* keys in the operator's own sye-environment.tar.gz
    stageFile,  \* keys in the three files of the last create-certs
    stage,      \* the stage being rolled out, 0 between rotations
    phase,      \* what the operator does next: "idle", "upload" or "install"
    done,       \* the machines the operator has ticked off for this stage
    bucket,     \* private/sye-environment.tar.gz in the bucket
    node,       \* life cycle of a machine
    late,       \* whether the signed URL of a booting machine has expired
    image,      \* sye-environment.tar.gz as downloaded by the machine
    disk,       \* /etc/sye/keys
    active,     \* keys the running controller has loaded, NoKeys if it is down
    script,     \* sye-cluster-install-certs.sh on the machine
    recent,     \* docker logs --since 5s shows "CA Certificate Update Complete"
    stale,      \* history: it is the line of a reload before the last install
    crashes

operatorVars == <<master, stageFile, stage, phase>>
machineVars  == <<node, late, image, disk, active, script, recent, stale>>
vars == <<operatorVars, done, bucket, machineVars, crashes>>

TypeOK ==
    /\ master \in Keys
    /\ stageFile \in [Stage -> Keys]
    /\ stage \in {0} \cup Stage
    /\ phase \in {"idle", "upload", "install"}
    /\ done \subseteq Machine
    /\ bucket \in Keys \cup {NotAnArchive}
    /\ node \in [Machine -> {"absent", "booting", "fetched", "joined", "failed", "gone"}]
    /\ late \in [Machine -> BOOLEAN]
    /\ image \in [Machine -> Keys \cup {NoKeys, NotAnArchive}]
    /\ disk \in [Machine -> Keys \cup {NoKeys}]
    /\ active \in [Machine -> Keys \cup {NoKeys}]
    /\ script \in [Machine -> {"idle", "waiting"}]
    /\ recent \in [Machine -> BOOLEAN]
    /\ stale \in [Machine -> BOOLEAN]
    /\ crashes \in 0..MaxCrashes

Init ==
    /\ master = Fresh(1)
    /\ stageFile = [s \in Stage |-> Fresh(1)]
    /\ stage = 0
    /\ phase = "idle"
    /\ done = {}
    /\ bucket = Fresh(1)
    /\ node = [m \in Machine |-> IF m \in Initial THEN "joined" ELSE "absent"]
    /\ late = [m \in Machine |-> FALSE]
    /\ image = [m \in Machine |-> NoKeys]
    /\ disk = [m \in Machine |-> IF m \in Initial THEN Fresh(1) ELSE NoKeys]
    /\ active = disk
    /\ script = [m \in Machine |-> "idle"]
    /\ recent = [m \in Machine |-> FALSE]
    /\ stale = [m \in Machine |-> FALSE]
    /\ crashes = 0

\* The machines that cluster-show lists.
Listed == {m \in Machine : node[m] \notin {"absent", "gone"}}

-------------------------------------------------------------------------------
(* The operator. *)

\* sye cluster create-certs <current configuration>.
CreateCerts ==
    /\ phase = "idle"
    /\ master.ca < MaxCa
    /\ stageFile' = StageFiles(master, master.ca + 1)
    /\ stage' = 1
    /\ phase' = "upload"
    /\ UNCHANGED <<master, done, bucket, machineVars, crashes>>

\* Mutant of AwsUpload: the name of the file instead of its contents.
AwsUploadName(file) == NotAnArchive

\* sye aws upload-config sends the contents of the file.
AwsUpload(file) == file

\* sye azure upload-config sends the name of the file.
AzureUpload(file) == NotAnArchive

\* Mutant of UploadConfig: the ticks of the last stage are left in place.
UploadConfigKeepsTicks ==
    /\ phase = "upload"
    /\ bucket' = stageFile[stage]
    /\ phase' = "install"
    /\ UNCHANGED <<master, stageFile, stage, done, machineVars, crashes>>

\* upload-config of the current stage.
UploadConfig ==
    /\ phase = "upload"
    /\ bucket' = IF Azure THEN AzureUpload(stageFile[stage]) ELSE AwsUpload(stageFile[stage])
    /\ phase' = "install"
    /\ done' = {}
    /\ UNCHANGED <<master, stageFile, stage, machineVars, crashes>>

\* Mutant of NextStage: machines that have yet to join are not waited for.
NextStageWithoutNewcomers ==
    /\ phase = "install" /\ stage < 3
    /\ {m \in Machine : node[m] = "joined"} \subseteq done
    /\ stage' = stage + 1
    /\ phase' = "upload"
    /\ UNCHANGED <<master, stageFile, done, bucket, machineVars, crashes>>

\* Mutant of NextStage: it is taken after the last stage, too.
NextStageForever ==
    /\ phase = "install"
    /\ Listed \subseteq done
    /\ stage' = stage + 1
    /\ phase' = "upload"
    /\ UNCHANGED <<master, stageFile, done, bucket, machineVars, crashes>>

\* The operator turns to the next stage when all listed machines are done.
NextStage ==
    /\ phase = "install" /\ stage < 3
    /\ Listed \subseteq done
    /\ stage' = stage + 1
    /\ phase' = "upload"
    /\ UNCHANGED <<master, stageFile, done, bucket, machineVars, crashes>>

\* The last file becomes the master configuration.
SaveMaster ==
    /\ phase = "install" /\ stage = 3
    /\ Listed \subseteq done
    /\ master' = stageFile[3]
    /\ stage' = 0
    /\ phase' = "idle"
    /\ UNCHANGED <<stageFile, done, bucket, machineVars, crashes>>

-------------------------------------------------------------------------------
(* sye-cluster-install-certs.sh *)

\* An install may start: its archive of the stage is on a machine that has a
\* configuration directory (before the join, tar -C fails and so does the script).
MayInstall(m) ==
    /\ phase = "install"
    /\ m \notin done
    /\ disk[m] # NoKeys
    /\ script[m] = "idle"
    /\ Hasty \/ ~recent[m]

\* The keys differ from the installed ones: they replace them, and the script
\* begins to wait for the controller.
InstallNew(m) ==
    /\ MayInstall(m)
    /\ disk[m] # stageFile[stage]
    /\ disk' = [disk EXCEPT ![m] = stageFile[stage]]
    /\ script' = [script EXCEPT ![m] = "waiting"]
    /\ stale' = [stale EXCEPT ![m] = recent[m]]
    /\ UNCHANGED <<operatorVars, done, bucket, node, late, image, active, recent, crashes>>

\* Mutant of InstallIdentical: exit 1 is taken for a failure.
InstallIdenticalFails(m) ==
    /\ MayInstall(m)
    /\ disk[m] = stageFile[stage]
    /\ UNCHANGED vars

\* The keys are "identical to those already installed": exit 1, and the
\* operator has nothing left to do on this machine.
InstallIdentical(m) ==
    /\ MayInstall(m)
    /\ disk[m] = stageFile[stage]
    /\ done' = done \cup {m}
    /\ UNCHANGED <<operatorVars, bucket, machineVars, crashes>>

\* Mutant of SeesRotation: the script does not wait for the line in the log.
SeesRotationAtOnce(m) ==
    /\ script[m] = "waiting"
    /\ active[m] # NoKeys
    /\ script' = [script EXCEPT ![m] = "idle"]
    /\ done' = done \cup {m}
    /\ UNCHANGED <<operatorVars, bucket, node, late, image, disk, active, recent, stale, crashes>>

\* The script finds the line in the log of the running controller: exit 0.
SeesRotation(m) ==
    /\ script[m] = "waiting"
    /\ active[m] # NoKeys
    /\ recent[m]
    /\ script' = [script EXCEPT ![m] = "idle"]
    /\ done' = done \cup {m}
    /\ UNCHANGED <<operatorVars, bucket, node, late, image, disk, active, recent, stale, crashes>>

\* The operator interrupts a script, unless Hasty only one that waits in vain
\* because the controller started with the new keys and will log nothing.
Interrupt(m) ==
    /\ script[m] = "waiting"
    /\ Hasty \/ (active[m] = disk[m] /\ ~recent[m])
    /\ script' = [script EXCEPT ![m] = "idle"]
    /\ UNCHANGED <<operatorVars, done, bucket, node, late, image, disk, active, recent, stale, crashes>>

-------------------------------------------------------------------------------
(* The machine controller, and the container runtime that restarts it. *)

\* The container starts, for the first time or after a crash (--restart always).
ControllerStart(m) ==
    /\ node[m] = "joined"
    /\ active[m] = NoKeys
    /\ active' = [active EXCEPT ![m] = disk[m]]
    /\ UNCHANGED <<operatorVars, done, bucket, node, late, image, disk, script, recent, stale, crashes>>

\* The controller loads the keys that changed under it, and logs that it did.
ControllerReload(m) ==
    /\ active[m] \notin {NoKeys, disk[m]}
    /\ active' = [active EXCEPT ![m] = disk[m]]
    /\ recent' = [recent EXCEPT ![m] = TRUE]
    /\ stale' = [stale EXCEPT ![m] = FALSE]
    /\ UNCHANGED <<operatorVars, done, bucket, node, late, image, disk, script, crashes>>

ControllerCrash(m) ==
    /\ active[m] # NoKeys
    /\ crashes < MaxCrashes
    /\ crashes' = crashes + 1
    /\ active' = [active EXCEPT ![m] = NoKeys]
    /\ UNCHANGED <<operatorVars, done, bucket, node, late, image, disk, script, recent, stale>>

\* Five seconds pass.  A script that follows the log misses no line of it.
LogAges(m) ==
    /\ recent[m]
    /\ script[m] = "idle"
    /\ recent' = [recent EXCEPT ![m] = FALSE]
    /\ stale' = [stale EXCEPT ![m] = FALSE]
    /\ UNCHANGED <<operatorVars, done, bucket, node, late, image, disk, active, script, crashes>>

-------------------------------------------------------------------------------
(* The life of a machine. *)

\* machine-add signs a URL for the configuration and launches the machine.
MachineAdd(m) ==
    /\ node[m] = "absent"
    /\ node' = [node EXCEPT ![m] = "booting"]
    /\ UNCHANGED <<operatorVars, done, bucket, late, image, disk, active, script, recent, stale, crashes>>

\* Ten minutes pass before the machine gets to its download.
UrlExpires(m) ==
    /\ node[m] = "booting" /\ ~late[m]
    /\ late' = [late EXCEPT ![m] = TRUE]
    /\ UNCHANGED <<operatorVars, done, bucket, node, image, disk, active, script, recent, stale, crashes>>

\* bootstrap.sh: curl without -f stores an error page as if it were the file.
Download(m) ==
    /\ node[m] = "booting"
    /\ node' = [node EXCEPT ![m] = "fetched"]
    /\ image' = [image EXCEPT ![m] = IF late[m] THEN NotAnArchive ELSE bucket]
    /\ UNCHANGED <<operatorVars, done, bucket, late, disk, active, script, recent, stale, crashes>>

\* sye-cluster-join.sh unpacks the archive; errexit stops it when tar fails.
\* ControllerStart is its last command.
Join(m) ==
    /\ node[m] = "fetched"
    /\ IF image[m] = NotAnArchive
       THEN /\ node' = [node EXCEPT ![m] = "failed"]
            /\ UNCHANGED disk
       ELSE /\ node' = [node EXCEPT ![m] = "joined"]
            /\ disk' = [disk EXCEPT ![m] = image[m]]
    /\ UNCHANGED <<operatorVars, done, bucket, late, image, active, script, recent, stale, crashes>>

\* machine-delete: the machine and its disk are gone.
MachineDelete(m) ==
    /\ m \in Listed
    /\ node' = [node EXCEPT ![m] = "gone"]
    /\ image' = [image EXCEPT ![m] = NoKeys]
    /\ disk' = [disk EXCEPT ![m] = NoKeys]
    /\ active' = [active EXCEPT ![m] = NoKeys]
    /\ script' = [script EXCEPT ![m] = "idle"]
    /\ recent' = [recent EXCEPT ![m] = FALSE]
    /\ stale' = [stale EXCEPT ![m] = FALSE]
    /\ UNCHANGED <<operatorVars, done, bucket, late, crashes>>

-------------------------------------------------------------------------------

Install(m)    == InstallNew(m) \/ InstallIdentical(m) \/ SeesRotation(m) \/ Interrupt(m)
Controller(m) == ControllerStart(m) \/ ControllerReload(m) \/ ControllerCrash(m) \/ LogAges(m)
Life(m)       == MachineAdd(m) \/ UrlExpires(m) \/ Download(m) \/ Join(m) \/ MachineDelete(m)

Next ==
    \/ CreateCerts \/ UploadConfig \/ NextStage \/ SaveMaster
    \/ \E m \in Machine : Install(m) \/ Controller(m) \/ Life(m)

Spec == Init /\ [][Next]_vars

\* The operator carries a rotation through once it is begun, replaces machines
\* that failed to join, and ends scripts that wait in vain.  The containers and
\* the boot scripts make progress by themselves.
Fairness ==
    /\ WF_vars(UploadConfig) /\ WF_vars(NextStage) /\ WF_vars(SaveMaster)
    /\ \A m \in Machine :
        /\ WF_vars(InstallNew(m)) /\ WF_vars(InstallIdentical(m))
        /\ WF_vars(SeesRotation(m)) /\ WF_vars(Interrupt(m))
        /\ WF_vars(ControllerStart(m)) /\ WF_vars(ControllerReload(m)) /\ WF_vars(LogAges(m))
        /\ WF_vars(Download(m)) /\ WF_vars(Join(m))
        /\ WF_vars(node[m] = "failed" /\ MachineDelete(m))

FairSpec == Spec /\ Fairness

-------------------------------------------------------------------------------
(* Properties. *)

\* Any two running controllers accept each other's certificates, at every
\* moment of every rotation: the reason why the rotation has stages at all.
MutualTrust ==
    \A m, n \in Machine :
        NoKeys \notin {active[m], active[n]} => Accepts(active[m], active[n])

\* Between rotations every controller issues from the operator's authority and
\* trusts nothing else: an authority that was rotated out has lost all trust.
OldCaRetired ==
    phase = "idle" => \A m \in Machine : active[m] \in {NoKeys, Fresh(master.ca)}

\* The install script "waits for certificate rotation to complete".  When it
\* exits with success the controller of its machine has loaded the installed
\* keys, unless the line it found in the last five seconds of the log had been
\* there when it installed them.  A patient operator (~Hasty) waits that long.
ExitMeansRotated ==
    [][\A m \in Machine : SeesRotation(m) => active[m] = disk[m] \/ stale[m]]_vars

\* A machine fails to join only when its signed URL expired before it booted;
\* in particular all machines created during a rotation join the cluster.
NewMachinesJoin == \A m \in Machine : node[m] = "failed" => late[m]

\* A rotation that is begun is carried through all three stages, whatever
\* machines join, crash or are deleted meanwhile.
RotationCompletes == stage # 0 ~> stage = 0

\* The controllers move through the rotation in step.
Barrier == INSTANCE StageBarrier WITH
    MaxEpoch <- 3 * MaxCa,
    position <- [m \in Machine |-> IF active[m] = NoKeys THEN 0 ELSE Epoch(active[m])],
    frontier <- 3 * master.ca + (IF phase = "upload" THEN stage - 1 ELSE stage)

MovesInStep == Barrier!Spec
-------------------------------------------------------------------------------
(* The inductive invariant behind MutualTrust. *)

\* The configuration the fleet comes from, and the one it is to have.
Base == IF stage \in {0, 1} THEN master ELSE stageFile[stage - 1]
Current == IF phase = "install" THEN stageFile[stage] ELSE Base

PhaseInv == phase = "idle" <=> stage = 0

RotationInv ==
    /\ master = Fresh(master.ca)
    /\ stage # 0 => master.ca < MaxCa /\ stageFile = StageFiles(master, master.ca + 1)
    /\ bucket \in {Current, NotAnArchive}

\* A machine has nothing but the last or the current configuration; keys that
\* are installed but not loaded have a script that still waits for its line;
\* and a machine that is ticked off has the current configuration.
FleetInv ==
    \A m \in Machine :
        /\ disk[m] # NoKeys <=> node[m] = "joined"
        /\ node[m] = "fetched" => image[m] \in {Base, Current, NotAnArchive}
        /\ disk[m] \in {NoKeys, Base, Current}
        /\ active[m] \in {NoKeys, Base, disk[m]}
        /\ disk[m] = NoKeys => active[m] = NoKeys /\ script[m] = "idle"
        /\ active[m] \notin {NoKeys, disk[m]} => script[m] = "waiting" /\ ~recent[m]
        /\ script[m] = "waiting" => phase = "install" /\ disk[m] = Current
        /\ phase = "install" /\ m \in done =>
               node[m] = "gone" \/ (disk[m] = Current /\ script[m] = "idle")

\* With a patient operator (~Hasty): the configurations and the running
\* controllers of the fleet are never more than one stage apart.
FleetWithinOneStage == PhaseInv /\ RotationInv /\ FleetInv
================================================================================
