------------------------------ MODULE AwsMachine ------------------------------
(***************************************************************************)
(* sye aws machine-add, request-spot-instances, machine-delete and         *)
(* machine-redeploy: commands that are each a chain of EC2 calls, with     *)
(* nothing but the tags in EC2 to tell the next command what the last one  *)
(* did.  A command may die between any two calls and other commands may    *)
(* run at the same time.  The subject is the data volume of a machine.     *)
(*                                                                         *)
(* EC2 is external: an instance changes state some time after the call     *)
(* that asked for it, and a terminated instance takes the volumes marked   *)
(* DeleteOnTermination with it.  So is the kernel of a machine, on which   *)
(* bootstrap.sh waits for the volume and mounts it.                        *)
(***************************************************************************)
EXTENDS Naturals, FiniteSets

CONSTANTS
    Command,     \* shells in which commands are run, one after the other
    Name,        \* names given with --machine-name
    Instance,    \* bound: the instances EC2 ever launches
    Volume,      \* bound: the data volumes EC2 ever creates
    MaxCrashes,  \* bound: commands that die half-way
    None         \* no name, no instance, no volume

ASSUME MachineAssumption ==
    /\ IsFiniteSet(Instance)
    /\ Name \cap Instance = {}
    /\ None \notin Name \cup Instance \cup Volume
    /\ MaxCrashes \in Nat

VARIABLES
    state,     \* instance-state-name, "none" before the launch
    name,      \* the Name tag, None while the instance has no tags
    spot,      \* whether the SpotInstanceRequest tag is set
    attached,  \* the data volume among the block device mappings
    onTerm,    \* DeleteOnTermination of that mapping
    wants,     \* EBS_DEVICE_NAME in the user data
    mounted,   \* bootstrap.sh has mounted the data volume
    volume,    \* "none", "available", "in-use" or "deleted"
    owner,     \* the name of the machine the volume was created for
    data,      \* whether the volume holds a file system with data
    job,       \* what each shell is doing
    deletes,   \* history: the machines machine-delete was told to delete
    crashes

ec2Vars == <<state, name, spot, attached, onTerm, wants, volume, owner>>
hostVars == <<mounted, data>>
vars == <<ec2Vars, hostVars, job, deletes, crashes>>

AnyName == Name \cup Instance \cup {None}

\* The local variables of redeployInstance and deleteInstance.
NoJob == [pc |-> "idle", nm |-> None, inst |-> None, vol |-> None, new |-> {}]

Step == {"idle", "tag", "terminate", "terminated", "stop", "describe", "detach",
         "available", "run", "running", "attach", "modify", "replace"}

TypeOK ==
    /\ state \in [Instance -> {"none", "pending", "running", "stopping", "stopped",
                               "shutting-down", "terminated"}]
    /\ name \in [Instance -> AnyName]
    /\ spot \in [Instance -> BOOLEAN]
    /\ attached \in [Instance -> Volume \cup {None}]
    /\ onTerm \in [Instance -> BOOLEAN]
    /\ wants \in [Instance -> BOOLEAN]
    /\ mounted \in [Instance -> BOOLEAN]
    /\ volume \in [Volume -> {"none", "available", "in-use", "deleted"}]
    /\ owner \in [Volume -> AnyName]
    /\ data \in [Volume -> BOOLEAN]
    /\ job \in [Command -> [pc : Step, nm : AnyName, inst : Instance \cup {None},
                            vol : Volume \cup {None}, new : SUBSET Instance]]
    /\ deletes \subseteq Name \cup Instance
    /\ crashes \in 0..MaxCrashes

Init ==
    /\ state = [i \in Instance |-> "none"]
    /\ name = [i \in Instance |-> None]
    /\ spot = [i \in Instance |-> FALSE]
    /\ attached = [i \in Instance |-> None]
    /\ onTerm = [i \in Instance |-> FALSE]
    /\ wants = [i \in Instance |-> FALSE]
    /\ mounted = [i \in Instance |-> FALSE]
    /\ volume = [v \in Volume |-> "none"]
    /\ owner = [v \in Volume |-> None]
    /\ data = [v \in Volume |-> FALSE]
    /\ job = [c \in Command |-> NoJob]
    /\ deletes = {}
    /\ crashes = 0

-------------------------------------------------------------------------------
(* Lookups. *)

\* getInstances: machines of the cluster that are not terminated.
Visible == {i \in Instance : name[i] # None /\
                state[i] \in {"pending", "running", "stopping", "stopped"}}

\* getInstance: the only machine of that name, or else the machine of that id.
Lookup(n) ==
    LET named == {i \in Visible : name[i] = n}
    IN  IF Cardinality(named) = 1 THEN named ELSE Visible \cap {n}

Continue(c, pc) == job' = [job EXCEPT ![c].pc = pc]

\* The command ends, after its last call or because a call failed.
End(c) == job' = [job EXCEPT ![c] = NoJob]

-------------------------------------------------------------------------------
(* machine-add and request-spot-instances. *)

\* RunInstances or a fulfilled spot request: the set of instances launched,
\* their Name tag, and the data volume created for dataOf, if any.
Launch(instances, tag, disk, dataOf) ==
    /\ \A i \in instances : state[i] = "none"
    /\ state' = [i \in Instance |-> IF i \in instances THEN "pending" ELSE state[i]]
    /\ name' = [i \in Instance |-> IF i \in instances THEN tag ELSE name[i]]
    /\ wants' = [i \in Instance |-> IF i \in instances THEN disk # None ELSE wants[i]]
    /\ IF disk = None
       THEN UNCHANGED <<attached, onTerm, volume, owner>>
       ELSE /\ volume[disk] = "none"
            /\ attached' = [i \in Instance |-> IF i \in instances THEN disk ELSE attached[i]]
            /\ onTerm' = [i \in Instance |-> i \in instances \/ onTerm[i]]
            /\ volume' = [volume EXCEPT ![disk] = "in-use"]
            /\ owner' = [owner EXCEPT ![disk] = dataOf]

\* createInstance with a name: the tags are part of the launch.
AddNamed(c) ==
    /\ job[c].pc = "idle"
    /\ \E i \in Instance, n \in Name, disk \in Volume \cup {None} : Launch({i}, n, disk, n)
    /\ UNCHANGED <<spot, hostVars, job, deletes, crashes>>

\* createInstance without a name, and so without storage: the tags follow.
AddUnnamed(c) ==
    /\ job[c].pc = "idle"
    /\ \E i \in Instance :
           /\ Launch({i}, None, None, None)
           /\ job' = [job EXCEPT ![c].pc = "tag", ![c].new = {i}, ![c].inst = i]
    /\ UNCHANGED <<spot, hostVars, deletes, crashes>>

\* createSpotInstance: a name is for one machine only.  When EC2 fulfils less
\* than was asked for, the command throws and what was launched stays untagged.
\* Bounds: two instances at most, and storage only with one.
RequestSpot(c) ==
    /\ job[c].pc = "idle"
    /\ \E got \in SUBSET Instance, asked \in 1..2, n \in Name \cup {None}, disk \in Volume \cup {None} :
           /\ n # None => asked = 1
           /\ Cardinality(got) \in 1..asked
           /\ disk # None => asked = 1
           /\ Launch(got, None, disk, IF n # None THEN n ELSE CHOOSE i \in got : TRUE)
           /\ job' = IF Cardinality(got) < asked
                     THEN job
                     ELSE [job EXCEPT ![c].pc = "tag", ![c].new = got, ![c].nm = n]
    /\ UNCHANGED <<spot, hostVars, deletes, crashes>>

\* tagResource on one of the new instances, which gets its id for a name if the
\* user gave none; only spot instances carry a SpotInstanceRequest tag.
TagNew(c) ==
    /\ job[c].pc = "tag"
    /\ \E i \in job[c].new :
           /\ name' = [name EXCEPT ![i] = IF job[c].nm # None THEN job[c].nm ELSE i]
           /\ spot' = [spot EXCEPT ![i] = job[c].inst = None]
           /\ IF job[c].new = {i} THEN End(c)
              ELSE job' = [job EXCEPT ![c].new = @ \ {i}]
    /\ UNCHANGED <<state, attached, onTerm, wants, volume, owner, hostVars, deletes, crashes>>

-------------------------------------------------------------------------------
(* machine-delete. *)

\* deleteInstance finds the instance.  Cancelling the spot request, which is
\* fulfilled, does nothing to the instance.
DeleteRead(c) ==
    /\ job[c].pc = "idle"
    /\ \E n \in Name \cup Instance :
           /\ \E i \in Lookup(n) :
                  /\ job' = [job EXCEPT ![c].pc = "terminate", ![c].inst = i]
                  /\ deletes' = deletes \cup {name[i]}
    /\ UNCHANGED <<ec2Vars, hostVars, crashes>>

Terminate(i) ==
    state' = [state EXCEPT ![i] = IF @ = "terminated" THEN @ ELSE "shutting-down"]

DeleteTerminate(c) ==
    /\ job[c].pc = "terminate"
    /\ Terminate(job[c].inst)
    /\ Continue(c, "terminated")
    /\ UNCHANGED <<name, spot, attached, onTerm, wants, volume, owner, hostVars, deletes, crashes>>

DeleteDone(c) ==
    /\ job[c].pc = "terminated"
    /\ state[job[c].inst] = "terminated"
    /\ End(c)
    /\ UNCHANGED <<ec2Vars, hostVars, deletes, crashes>>

-------------------------------------------------------------------------------
(* machine-redeploy. *)

\* The instance and its data volume are read once, at the start.
RedeployRead(c) ==
    /\ job[c].pc = "idle"
    /\ \E n \in Name \cup Instance :
           \E i \in Lookup(n) :
               /\ ~spot[i]
               /\ job' = [job EXCEPT ![c].pc = "stop", ![c].inst = i, ![c].vol = attached[i]]
    /\ UNCHANGED <<ec2Vars, hostVars, deletes, crashes>>

\* stopInstances is always called: the code compares the state, an object, with
\* a string.  EC2 refuses it for an instance that is not up.
RedeployStop(c) ==
    /\ job[c].pc = "stop"
    /\ LET old == job[c].inst IN
       IF state[old] \in {"running", "stopping", "stopped"}
       THEN /\ state' = [state EXCEPT ![old] = IF @ = "stopped" THEN @ ELSE "stopping"]
            /\ Continue(c, "describe")
       ELSE /\ UNCHANGED state
            /\ End(c)
    /\ UNCHANGED <<name, spot, attached, onTerm, wants, volume, owner, hostVars, deletes, crashes>>

\* Mutant of RedeployDescribe: it does not wait for the instance to be stopped.
RedeployDescribeAtOnce(c) ==
    /\ job[c].pc = "describe"
    /\ LET vol == job[c].vol IN
       IF vol # None /\ volume[vol] = "deleted"
       THEN End(c)
       ELSE Continue(c, IF vol # None /\ volume[vol] # "available" THEN "detach" ELSE "run")
    /\ UNCHANGED <<ec2Vars, hostVars, deletes, crashes>>

\* waitFor instanceStopped, then describeVolumes.
RedeployDescribe(c) ==
    /\ job[c].pc = "describe"
    /\ state[job[c].inst] # "stopping"
    /\ LET vol == job[c].vol IN
       IF \/ state[job[c].inst] # "stopped"
          \/ vol # None /\ volume[vol] = "deleted"
       THEN End(c)
       ELSE Continue(c, IF vol # None /\ volume[vol] # "available" THEN "detach" ELSE "run")
    /\ UNCHANGED <<ec2Vars, hostVars, deletes, crashes>>

\* detachVolume names the volume only: it is taken from whoever has it.
RedeployDetach(c) ==
    /\ job[c].pc = "detach"
    /\ LET vol == job[c].vol IN
       IF volume[vol] = "in-use"
       THEN /\ volume' = [volume EXCEPT ![vol] = "available"]
            /\ attached' = [i \in Instance |-> IF attached[i] = vol THEN None ELSE attached[i]]
            /\ onTerm' = [i \in Instance |-> onTerm[i] /\ attached[i] # vol]
            /\ Continue(c, "available")
       ELSE /\ UNCHANGED <<volume, attached, onTerm>>
            /\ End(c)
    /\ UNCHANGED <<state, name, spot, wants, owner, hostVars, deletes, crashes>>

\* waitFor volumeAvailable.
RedeployAvailable(c) ==
    /\ job[c].pc = "available"
    /\ volume[job[c].vol] \in {"available", "deleted"}
    /\ IF volume[job[c].vol] = "deleted" THEN End(c) ELSE Continue(c, "run")
    /\ UNCHANGED <<ec2Vars, hostVars, deletes, crashes>>

\* Mutant of RedeployRun: the volume is not attached to the new instance.
RedeployRunSkipsAttach(c) ==
    /\ job[c].pc = "run"
    /\ \E i \in Instance :
           /\ state[i] = "none"
           /\ state' = [state EXCEPT ![i] = "pending"]
           /\ name' = [name EXCEPT ![i] = name[job[c].inst]]
           /\ wants' = [wants EXCEPT ![i] = job[c].vol # None]
           /\ job' = [job EXCEPT ![c].new = {i}, ![c].pc = "replace"]
    /\ UNCHANGED <<spot, attached, onTerm, volume, owner, hostVars, deletes, crashes>>

\* runInstances with the tags that were read from the old instance.
RedeployRun(c) ==
    /\ job[c].pc = "run"
    /\ \E i \in Instance :
           /\ state[i] = "none"
           /\ state' = [state EXCEPT ![i] = "pending"]
           /\ name' = [name EXCEPT ![i] = name[job[c].inst]]
           /\ wants' = [wants EXCEPT ![i] = job[c].vol # None]
           /\ job' = [job EXCEPT ![c].new = {i},
                                 ![c].pc = IF job[c].vol # None THEN "running" ELSE "replace"]
    /\ UNCHANGED <<spot, attached, onTerm, volume, owner, hostVars, deletes, crashes>>

New(c) == CHOOSE i \in job[c].new : TRUE

\* Mutant of RedeployRunning: it does not wait for the instance to run.
RedeployRunningAtOnce(c) ==
    /\ job[c].pc = "running"
    /\ Continue(c, "attach")
    /\ UNCHANGED <<ec2Vars, hostVars, deletes, crashes>>

\* waitFor instanceRunning.
RedeployRunning(c) ==
    /\ job[c].pc = "running"
    /\ state[New(c)] # "pending"
    /\ IF state[New(c)] = "running" THEN Continue(c, "attach") ELSE End(c)
    /\ UNCHANGED <<ec2Vars, hostVars, deletes, crashes>>

\* Mutant of RedeployAttach: it takes whichever data volume is available.
RedeployAttachAny(c) ==
    /\ job[c].pc = "attach"
    /\ IF /\ state[New(c)] \in {"running", "stopping", "stopped"}
          /\ attached[New(c)] = None
       THEN /\ \E vol \in Volume :
                   /\ volume[vol] = "available"
                   /\ volume' = [volume EXCEPT ![vol] = "in-use"]
                   /\ attached' = [attached EXCEPT ![New(c)] = vol]
            /\ Continue(c, "modify")
       ELSE /\ UNCHANGED <<volume, attached>>
            /\ End(c)
    /\ UNCHANGED <<state, name, spot, onTerm, wants, owner, hostVars, deletes, crashes>>

\* attachVolume: a volume attached by this call survives its instance.
RedeployAttach(c) ==
    /\ job[c].pc = "attach"
    /\ LET vol == job[c].vol IN
       IF /\ volume[vol] = "available"
          /\ state[New(c)] \in {"running", "stopping", "stopped"}
          /\ attached[New(c)] = None
       THEN /\ volume' = [volume EXCEPT ![vol] = "in-use"]
            /\ attached' = [attached EXCEPT ![New(c)] = vol]
            /\ Continue(c, "modify")
       ELSE /\ UNCHANGED <<volume, attached>>
            /\ End(c)
    /\ UNCHANGED <<state, name, spot, onTerm, wants, owner, hostVars, deletes, crashes>>

\* modifyInstanceAttribute: from now on the volume goes with the instance.
RedeployModify(c) ==
    /\ job[c].pc = "modify"
    /\ IF attached[New(c)] = job[c].vol
       THEN /\ onTerm' = [onTerm EXCEPT ![New(c)] = TRUE]
            /\ Continue(c, "replace")
       ELSE /\ UNCHANGED onTerm
            /\ End(c)
    /\ UNCHANGED <<state, name, spot, attached, wants, volume, owner, hostVars, deletes, crashes>>

\* Mutant of RedeployReplace: the wrong one of the two instances goes.
RedeployReplaceNew(c) ==
    /\ job[c].pc = "replace"
    /\ Terminate(New(c))
    /\ End(c)
    /\ UNCHANGED <<name, spot, attached, onTerm, wants, volume, owner, hostVars, deletes, crashes>>

\* terminateInstances of the old instance, without waiting: the last step.
RedeployReplace(c) ==
    /\ job[c].pc = "replace"
    /\ Terminate(job[c].inst)
    /\ End(c)
    /\ UNCHANGED <<name, spot, attached, onTerm, wants, volume, owner, hostVars, deletes, crashes>>

-------------------------------------------------------------------------------
(* The command line, EC2 and the machines. *)

\* The shell, its network or its credentials die between two calls.
Crash(c) ==
    /\ job[c].pc # "idle"
    /\ crashes < MaxCrashes
    /\ crashes' = crashes + 1
    /\ End(c)
    /\ UNCHANGED <<ec2Vars, hostVars, deletes>>

Running(i) ==
    /\ state[i] = "pending"
    /\ state' = [state EXCEPT ![i] = "running"]
    /\ UNCHANGED <<name, spot, attached, onTerm, wants, volume, owner, hostVars, job, deletes, crashes>>

Stopped(i) ==
    /\ state[i] = "stopping"
    /\ state' = [state EXCEPT ![i] = "stopped"]
    /\ mounted' = [mounted EXCEPT ![i] = FALSE]
    /\ UNCHANGED <<name, spot, attached, onTerm, wants, volume, owner, data, job, deletes, crashes>>

\* The volume of a terminated instance is deleted with it or set free.
Terminated(i) ==
    /\ state[i] = "shutting-down"
    /\ state' = [state EXCEPT ![i] = "terminated"]
    /\ mounted' = [mounted EXCEPT ![i] = FALSE]
    /\ attached' = [attached EXCEPT ![i] = None]
    /\ onTerm' = [onTerm EXCEPT ![i] = FALSE]
    /\ IF attached[i] = None THEN UNCHANGED volume
       ELSE volume' = [volume EXCEPT ![attached[i]] = IF onTerm[i] THEN "deleted" ELSE "available"]
    /\ UNCHANGED <<name, spot, wants, owner, data, job, deletes, crashes>>

\* bootstrap.sh waits until the device can be opened, makes a file system on it
\* only if it has none, and mounts it.
Mount(i) ==
    /\ state[i] = "running"
    /\ wants[i] /\ ~mounted[i]
    /\ attached[i] # None
    /\ data' = [data EXCEPT ![attached[i]] = TRUE]
    /\ mounted' = [mounted EXCEPT ![i] = TRUE]
    /\ UNCHANGED <<ec2Vars, job, deletes, crashes>>

-------------------------------------------------------------------------------

Add(c)      == AddNamed(c) \/ AddUnnamed(c) \/ RequestSpot(c)
Delete(c)   == DeleteTerminate(c) \/ DeleteDone(c)
Redeploy(c) == \/ RedeployStop(c) \/ RedeployDescribe(c) \/ RedeployDetach(c)
               \/ RedeployAvailable(c) \/ RedeployRun(c) \/ RedeployRunning(c)
               \/ RedeployAttach(c) \/ RedeployModify(c) \/ RedeployReplace(c)
Ec2(i)      == Running(i) \/ Stopped(i) \/ Terminated(i)

Next ==
    \/ \E c \in Command : \/ Add(c) \/ DeleteRead(c) \/ RedeployRead(c)
                          \/ TagNew(c) \/ Delete(c) \/ Redeploy(c) \/ Crash(c)
    \/ \E i \in Instance : Ec2(i) \/ Mount(i)

Spec == Init /\ [][Next]_vars

\* A command that runs goes on to its end; EC2 and the machines do their part.
Fairness ==
    /\ \A c \in Command : WF_vars(TagNew(c)) /\ WF_vars(Delete(c)) /\ WF_vars(Redeploy(c))
    /\ \A i \in Instance : WF_vars(Ec2(i)) /\ WF_vars(Mount(i))

FairSpec == Spec /\ Fairness

-------------------------------------------------------------------------------
(* Properties. *)

\* Data is lost only on request: a volume with data is deleted only after a
\* machine-delete of the machine it belongs to.  No crash or retry of another
\* command, and no machine-redeploy, destroys data.
DataSurvives ==
    \A v \in Volume : volume[v] = "deleted" /\ data[v] => owner[v] \in deletes

\* A data volume is attached to no machine but the one it was created for, or
\* to one without tags yet, however many shells add, redeploy and delete machines
\* side by side and whichever of them die: a redeploy detaches and attaches the
\* volume that it read of the old machine, minutes later.
VolumeFollowsItsMachine ==
    \A i \in Instance :
        attached[i] # None => name[i] \in {None, owner[attached[i]]}

\* The volume is never taken from under a machine that has it mounted.
NeverPulledWhileMounted ==
    \A i \in Instance : mounted[i] => attached[i] # None

\* The same, with the types of all variables.
MountInv == TypeOK /\ NeverPulledWhileMounted

\* No data volume of the machine that RedeployReplace completes the redeploy of
\* is left lying about, attached to nothing.
HandedOver(c) == \A v \in Volume : owner[v] = name[New(c)] => volume[v] # "available"

\* machine-redeploy "deletes a machine and attaches its data volume to a new
\* machine": when it has replaced a machine, the volume has gone along.
RedeployKeepsVolume == [][\A c \in Command : RedeployReplace(c) => HandedOver(c)]_vars

\* The same, as long as no command has died half-way: whatever a spot request, a
\* delete or another redeploy did before, the new machine has the volume.
UninterruptedRedeployKeepsVolume ==
    [][\A c \in Command : RedeployReplace(c) /\ crashes = 0 => HandedOver(c)]_vars

\* A machine that waits for its data volume at boot gets it, unless it is
\* stopped or terminated or the command that was to attach it died.
BootCompletes ==
    \A i \in Instance :
        state[i] = "running" /\ wants[i] ~> mounted[i] \/ state[i] # "running" \/ crashes > 0
================================================================================
