------------------------------- MODULE AwsRegion -------------------------------
(***************************************************************************)
(* sye aws region-add and region-delete.  A region of a cluster is a VPC   *)
(* with what hangs on it; all that the next command knows of it are tags,  *)
(* which region-add puts on a resource after it has created it.  The       *)
(* region that is added first is the core region: its subnets are tagged   *)
(* as such, and the firewall of every later region admits the subnets of   *)
(* the core region, and the other way round.                               *)
(*                                                                         *)
(* EC2 and EFS are external.  One subnet stands for the subnets of a VPC,  *)
(* one group for the five security groups that are made together; a        *)
(* gateway that is attached to no VPC is not modelled.                     *)
(***************************************************************************)
EXTENDS Naturals, FiniteSets

CONSTANTS
    Command,     \* shells in which commands are run
    Region,
    Vpc,         \* bound: the VPCs EC2 ever creates
    HasEfs,      \* the regions in which EFS is available
    Repeat,      \* regions for which region-add may be repeated though they have a VPC
    Fragile,     \* which commands may die half-way: "add", "delete"
    MaxCrashes,  \* bound: commands that die
    None

ASSUME RegionAssumption ==
    /\ HasEfs \subseteq Region
    /\ Repeat \subseteq Region
    /\ Fragile \subseteq {"add", "delete"}
    /\ MaxCrashes \in Nat
    /\ None \notin Region \cup Vpc

\* What region-add creates in a VPC and then tags.
Part == {"routes", "subnets", "groups", "efsGroup"}

VARIABLES
    vpc,        \* "unused", "untagged", "tagged" or "deleted"
    region,     \* the region a VPC is in
    part,       \* "absent", "untagged" or "tagged"
    gateway,    \* the VPCs that have an internet gateway
    core,       \* the VPCs whose subnets have the SyeCore tag
    admits,     \* the VPCs whose subnets the group sye-default of a VPC admits
    fs,         \* the elastic file system of a region: "none", "untagged", "tagged"
    mount,      \* the VPC it has mount targets in
    job,        \* what each shell is doing
    removing,   \* the region an operator has set out to delete
    complete,   \* history: the VPCs whose region-add has ended with success
    crashes

cloudVars == <<vpc, region, part, gateway, core, admits, fs, mount>>
vars == <<cloudVars, job, removing, complete, crashes>>

\* pc: the next step; host: the VPC that the next part is for; at: the next step of region-delete in each of the VPCs.
NoJob == [pc |-> "idle", region |-> None, vpc |-> None, host |-> None, part |-> "routes",
          core |-> None, coreSubnets |-> {}, rules |-> {}, at |-> [v \in Vpc |-> "none"], seen |-> {}]

AddStep == {"tagVpc", "gateway", "create", "tag", "findCore", "tagCore", "findCoreAgain",
            "allow", "efsGroup", "fileSystem", "tagFileSystem", "mount"}
DeleteStep == {"mountTargets", "fileSystemGone", "find", "vpcs"}

TypeOK ==
    /\ vpc \in [Vpc -> {"unused", "untagged", "tagged", "deleted"}]
    /\ region \in [Vpc -> Region \cup {None}]
    /\ part \in [Vpc -> [Part -> {"absent", "untagged", "tagged"}]]
    /\ gateway \subseteq Vpc
    /\ core \subseteq Vpc
    /\ admits \in [Vpc -> SUBSET Vpc]
    /\ fs \in [Region -> {"none", "untagged", "tagged"}]
    /\ mount \in [Region -> Vpc \cup {None}]
    /\ job \in [Command ->
           [pc : {"idle"} \cup AddStep \cup DeleteStep, region : Region \cup {None},
            vpc : Vpc \cup {None}, host : Vpc \cup {None}, part : Part, core : Region \cup {None},
            coreSubnets : SUBSET Vpc, rules : SUBSET {"core", "own"},
            at : [Vpc -> {"none", "subnets", "groups", "gateway", "routes", "vpc", "done"}],
            seen : SUBSET (Vpc \X {"groups", "efsGroup"})]]
    /\ removing \in Region \cup {None}
    /\ complete \subseteq Vpc
    /\ crashes \in 0..MaxCrashes

Init ==
    /\ vpc = [v \in Vpc |-> "unused"]
    /\ region = [v \in Vpc |-> None]
    /\ part = [v \in Vpc |-> [p \in Part |-> "absent"]]
    /\ gateway = {}
    /\ core = {}
    /\ admits = [v \in Vpc |-> {}]
    /\ fs = [r \in Region |-> "none"]
    /\ mount = [r \in Region |-> None]
    /\ job = [c \in Command |-> NoJob]
    /\ removing = None
    /\ complete = {}
    /\ crashes = 0

-------------------------------------------------------------------------------
(* Lookups. *)

\* getVpcs of a region; region-add goes on with any one of them, vpcs[0].
Vpcs(r) == {v \in Vpc : region[v] = r /\ vpc[v] = "tagged"}

\* The VPCs of a region whose subnets have the name getSubnet looks for.
NamedSubnets(r) == {v \in Vpc : region[v] = r /\ part[v]["subnets"] = "tagged"}

\* getCoreRegion: with subnets in several regions the location is any of them.
\* getSubnet throws unless it finds exactly one subnet of the name.
CoreLocations == {region[v] : v \in core}
CoreIsAmbiguous == \E r \in CoreLocations : Cardinality(NamedSubnets(r)) # 1

\* getSecurityGroups: the tagged groups of a VPC.
Groups(v) == {p \in {"groups", "efsGroup"} : part[v][p] = "tagged"}

Goto(c, pc) == job' = [job EXCEPT ![c].pc = pc]

\* The command ends, after its last call or because a call failed.
End(c) == job' = [job EXCEPT ![c] = NoJob]

Idle(c) == job[c].pc = "idle"

Adding(c)   == job[c].pc \in AddStep
Deleting(c) == job[c].pc \in DeleteStep

-------------------------------------------------------------------------------
(* region-add. *)

\* README: "start with the core region".  Once it is complete regions may be
\* added side by side, but none twice at a time or while one is being deleted.
MayAdd(r) ==
    /\ removing = None
    /\ \A c \in Command : job[c].region # r
    /\ r \in Repeat \/ \A v \in Vpc : region[v] = r => vpc[v] = "deleted"
    /\ complete \cap core # {} \/ \A c \in Command : Idle(c)

AddVpc(c) ==
    /\ Idle(c)
    /\ \E v \in Vpc, r \in Region :
           /\ MayAdd(r)
           /\ vpc[v] = "unused"
           /\ vpc' = [vpc EXCEPT ![v] = "untagged"]
           /\ region' = [region EXCEPT ![v] = r]
           /\ job' = [job EXCEPT ![c].pc = "tagVpc", ![c].vpc = v, ![c].host = v, ![c].region = r]
    /\ UNCHANGED <<part, gateway, core, admits, fs, mount, removing, complete, crashes>>

TagVpc(c) ==
    /\ job[c].pc = "tagVpc"
    /\ vpc' = [vpc EXCEPT ![job[c].vpc] = "tagged"]
    /\ Goto(c, "gateway")
    /\ UNCHANGED <<region, part, gateway, core, admits, fs, mount, removing, complete, crashes>>

AddGateway(c) ==
    /\ job[c].pc = "gateway"
    /\ gateway' = gateway \cup {job[c].vpc}
    /\ Goto(c, "create")
    /\ UNCHANGED <<vpc, region, part, core, admits, fs, mount, removing, complete, crashes>>

\* Routes, subnets, groups and, much later, the group for the mount targets.
CreatePart(c) ==
    /\ job[c].pc = "create"
    /\ part' = [part EXCEPT ![job[c].host][job[c].part] = "untagged"]
    /\ Goto(c, "tag")
    /\ UNCHANGED <<vpc, region, gateway, core, admits, fs, mount, removing, complete, crashes>>

TagPart(c) ==
    /\ job[c].pc = "tag"
    /\ part' = [part EXCEPT ![job[c].host][job[c].part] = "tagged"]
    /\ job' = [job EXCEPT ![c].part = CASE @ = "routes" -> "subnets" [] OTHER -> "groups",
                          ![c].pc = CASE job[c].part = "groups" -> "findCore"
                                      [] job[c].part = "efsGroup" -> "fileSystem"
                                      [] OTHER -> "create"]
    /\ UNCHANGED <<vpc, region, gateway, core, admits, fs, mount, removing, complete, crashes>>

\* Mutant of FindCore: core regions elsewhere are not seen.
FindCoreHere(c) ==
    /\ job[c].pc \in {"findCore", "findCoreAgain"}
    /\ IF job[c].vpc \in core
       THEN job' = [job EXCEPT ![c].pc = "allow", ![c].core = job[c].region,
                        ![c].coreSubnets = {job[c].vpc}, ![c].rules = {"core"}]
       ELSE Goto(c, "tagCore")
    /\ UNCHANGED <<cloudVars, removing, complete, crashes>>

\* Mutant of FindCore: the new region is not told to admit the core region.
FindCoreOneWay(c) ==
    /\ job[c].pc \in {"findCore", "findCoreAgain"}
    /\ IF core = {} THEN Goto(c, "tagCore")
       ELSE \E k \in CoreLocations :
                job' = [job EXCEPT ![c].pc = "allow", ![c].core = k, ![c].coreSubnets = core,
                                   ![c].rules = {"core"}]
    /\ UNCHANGED <<cloudVars, removing, complete, crashes>>

\* ensureCoreRegion reads the tags, sets them if there are none, and reads again.
FindCore(c) ==
    /\ job[c].pc \in {"findCore", "findCoreAgain"}
    /\ CASE CoreIsAmbiguous -> End(c)
         [] core = {}       -> Goto(c, "tagCore")
         [] OTHER           ->
                \E k \in CoreLocations :
                    job' = [job EXCEPT ![c].pc = "allow", ![c].core = k, ![c].coreSubnets = core,
                                ![c].rules = {"core"} \cup IF k = job[c].region THEN {} ELSE {"own"}]
    /\ UNCHANGED <<cloudVars, removing, complete, crashes>>

TagCore(c) ==
    /\ job[c].pc = "tagCore"
    /\ core' = core \cup {job[c].vpc}
    /\ Goto(c, "findCoreAgain")
    /\ UNCHANGED <<vpc, region, part, gateway, admits, fs, mount, removing, complete, crashes>>

\* allowInboundIPv6Traffic adds the subnets of the VPCs in from to sye-default,
\* in any one of the VPCs of r.  It fails if there is no VPC, if it has no such
\* group or if the group has one of the rules.
Allow(c, r, from, rule) ==
    /\ job[c].pc = "allow" /\ rule \in job[c].rules
    /\ IF Vpcs(r) = {} THEN End(c) /\ UNCHANGED admits
       ELSE \E v \in Vpcs(r) :
           IF "groups" \in Groups(v) /\ admits[v] \cap from = {}
           THEN /\ admits' = [admits EXCEPT ![v] = @ \cup from]
                /\ job' = [job EXCEPT ![c].rules = @ \ {rule}]
           ELSE End(c) /\ UNCHANGED admits
    /\ UNCHANGED <<vpc, region, part, gateway, core, fs, mount, removing, complete, crashes>>

\* Both updates of the firewalls are made at the same time.
AllowRules(c) ==
    \/ Allow(c, job[c].core, {job[c].vpc}, "core")
    \/ Allow(c, job[c].region, job[c].coreSubnets, "own")

\* The command has succeeded.
AddDone(c) ==
    /\ complete' = complete \cup {job[c].vpc}
    /\ End(c)

\* Where EFS is available a group for the mount targets is made in any one of
\* the VPCs of the region.
AllowDone(c) ==
    /\ job[c].pc = "allow" /\ job[c].rules = {}
    /\ IF job[c].region \in HasEfs
       THEN Goto(c, "efsGroup") /\ UNCHANGED complete
       ELSE AddDone(c)
    /\ UNCHANGED <<cloudVars, removing, crashes>>

FindEfsVpc(c) ==
    /\ job[c].pc = "efsGroup"
    /\ IF Vpcs(job[c].region) = {} THEN End(c) /\ UNCHANGED part
       ELSE \E v \in Vpcs(job[c].region) :
           CASE part[v]["efsGroup"] # "absent" -> End(c) /\ UNCHANGED part
             [] part[v]["efsGroup"] = "absent" /\ "groups" \in Groups(v) ->
                    /\ job' = [job EXCEPT ![c].pc = "create", ![c].part = "efsGroup", ![c].host = v]
                    /\ UNCHANGED part
             [] OTHER -> End(c) /\ part' = [part EXCEPT ![v]["efsGroup"] = "untagged"]
    /\ UNCHANGED <<vpc, region, gateway, core, admits, fs, mount, removing, complete, crashes>>

\* The creation token is the name of the cluster: one file system per region.
CreateFileSystem(c) ==
    /\ job[c].pc = "fileSystem"
    /\ IF fs[job[c].region] = "none"
       THEN fs' = [fs EXCEPT ![job[c].region] = "untagged"] /\ Goto(c, "tagFileSystem")
       ELSE UNCHANGED fs /\ End(c)
    /\ UNCHANGED <<vpc, region, part, gateway, core, admits, mount, removing, complete, crashes>>

TagFileSystem(c) ==
    /\ job[c].pc = "tagFileSystem"
    /\ fs' = [fs EXCEPT ![job[c].region] = "tagged"]
    /\ Goto(c, "mount")
    /\ UNCHANGED <<vpc, region, part, gateway, core, admits, mount, removing, complete, crashes>>

\* The mount targets, in the new subnets, need a group of the same VPC.
CreateMountTargets(c) ==
    /\ job[c].pc = "mount"
    /\ IF job[c].host = job[c].vpc
       THEN mount' = [mount EXCEPT ![job[c].region] = job[c].vpc] /\ AddDone(c)
       ELSE UNCHANGED <<mount, complete>> /\ End(c)
    /\ UNCHANGED <<vpc, region, part, gateway, core, admits, fs, removing, crashes>>

-------------------------------------------------------------------------------
(* region-delete. *)

\* README: no machines are left, and "start with non-core regions".  A region
\* that is once begun is finished first, however many attempts it takes.
MayDelete(r) ==
    /\ \A c \in Command : Idle(c)
    /\ removing \in {None, r}
    /\ r \in CoreLocations => \A q \in Region \ {r} : Vpcs(q) = {}

\* Mutant of DeleteStart: a missing file system is not an early return.
DeleteStartAlwaysEfs(c) ==
    /\ Idle(c)
    /\ \E r \in Region :
           /\ MayDelete(r)
           /\ removing' = r
           /\ job' = [job EXCEPT ![c].region = r,
                                 ![c].pc = IF r \notin HasEfs THEN "vpcs" ELSE "mountTargets"]
    /\ UNCHANGED <<cloudVars, complete, crashes>>

DeleteStart(c) ==
    /\ Idle(c)
    /\ \E r \in Region :
           /\ MayDelete(r)
           /\ removing' = r
           /\ job' = [job EXCEPT ![c].region = r,
                                 ![c].pc = IF fs[r] # "tagged" THEN "vpcs" ELSE "mountTargets"]
    /\ UNCHANGED <<cloudVars, complete, crashes>>

\* deleteElasticFileSystem; where it finds no file system there is nothing to do.
\* It waits for two minutes until the mount targets are gone.  If that was not
\* enough EFS refuses the next call, and the next attempt finds them gone.
DeleteMountTargets(c) ==
    /\ job[c].pc = "mountTargets"
    /\ mount' = [mount EXCEPT ![job[c].region] = None]
    /\ \/ Goto(c, "fileSystemGone")
       \/ mount[job[c].region] # None /\ End(c)
    /\ UNCHANGED <<vpc, region, part, gateway, core, admits, fs, removing, complete, crashes>>

DeleteFileSystem(c) ==
    /\ job[c].pc = "fileSystemGone"
    /\ fs' = [fs EXCEPT ![job[c].region] = "none"]
    /\ Goto(c, "find")
    /\ UNCHANGED <<vpc, region, part, gateway, core, admits, mount, removing, complete, crashes>>

\* The group efs-mount-target is deleted in all VPCs; a VPC without one is an error.
DeleteEfsGroup(c) ==
    /\ job[c].pc = "find"
    /\ LET mine == Vpcs(job[c].region)
           with == {v \in mine : "efsGroup" \in Groups(v)}
       IN  /\ part' = [v \in Vpc |-> IF v \in with THEN [part[v] EXCEPT !["efsGroup"] = "absent"]
                                                    ELSE part[v]]
           /\ IF with = mine THEN Goto(c, "vpcs") ELSE End(c)
    /\ UNCHANGED <<vpc, region, gateway, core, admits, fs, mount, removing, complete, crashes>>

\* All VPCs of the region, and their groups, are read; then each is taken apart
\* independently of the others.  "No VPCs found" tells the operator to stop.
FindVpcs(c) ==
    /\ job[c].pc = "vpcs"
    /\ \A v \in Vpc : job[c].at[v] = "none"
    /\ LET mine == Vpcs(job[c].region) IN
       IF mine = {}
       THEN /\ End(c)
            /\ removing' = None
       ELSE /\ job' = [job EXCEPT ![c].at = [v \in Vpc |-> IF v \in mine THEN "subnets" ELSE "none"],
                                  ![c].seen = UNION {{v} \X Groups(v) : v \in mine}]
            /\ UNCHANGED removing
    /\ UNCHANGED <<cloudVars, complete, crashes>>

\* The groups seen in a VPC at the start.
Seen(c, v) == {p \in Part : <<v, p>> \in job[c].seen}

Step(c, v, step) == job' = [job EXCEPT ![c].at[v] = step]

\* The rule for a subnet is revoked in its own VPC, if that is the core region,
\* and at the same time the subnet is deleted.
DeleteSubnets(c, v) ==
    /\ job[c].at[v] = "subnets"
    /\ admits' = [admits EXCEPT ![v] =
           IF /\ part[v]["subnets"] # "absent"
              /\ job[c].region \in CoreLocations
              /\ "groups" \in Seen(c, v)
           THEN @ \ {v} ELSE @]
    /\ IF mount[job[c].region] = v
       THEN UNCHANGED <<part, core>> /\ End(c)
       ELSE /\ part' = [part EXCEPT ![v]["subnets"] = "absent"]
            /\ core' = core \ {v}
            /\ Step(c, v, "groups")
    /\ UNCHANGED <<vpc, region, gateway, fs, mount, removing, complete, crashes>>

\* The groups seen are deleted at the same time.  sye-egress-pitcher cannot go
\* before efs-mount-target, whose rule refers to it.
DeleteGroups(c, v) ==
    /\ job[c].at[v] = "groups"
    /\ \E early \in BOOLEAN :
           LET gone == IF "efsGroup" \in Seen(c, v) /\ early THEN {"efsGroup"}
                       ELSE IF part[v]["efsGroup"] = "untagged" THEN {} ELSE Seen(c, v)
           IN  /\ part' = [part EXCEPT ![v] = [p \in Part |-> IF p \in gone THEN "absent" ELSE @[p]]]
               /\ admits' = [admits EXCEPT ![v] = IF "groups" \in gone THEN {} ELSE @]
               /\ IF gone = Seen(c, v) THEN Step(c, v, "gateway") ELSE End(c)
    /\ UNCHANGED <<vpc, region, gateway, core, fs, mount, removing, complete, crashes>>

DeleteGateway(c, v) ==
    /\ job[c].at[v] = "gateway"
    /\ gateway' = gateway \ {v}
    /\ Step(c, v, "routes")
    /\ UNCHANGED <<vpc, region, part, core, admits, fs, mount, removing, complete, crashes>>

\* Only route tables that have the tag are found.
DeleteRoutes(c, v) ==
    /\ job[c].at[v] = "routes"
    /\ part' = [part EXCEPT ![v]["routes"] = IF @ = "tagged" THEN "absent" ELSE @]
    /\ Step(c, v, "vpc")
    /\ UNCHANGED <<vpc, region, gateway, core, admits, fs, mount, removing, complete, crashes>>

\* EC2 refuses to delete a VPC that something hangs on.
DeleteVpc(c, v) ==
    /\ job[c].at[v] = "vpc"
    /\ IF v \in gateway \/ \E p \in Part : part[v][p] # "absent"
       THEN End(c) /\ UNCHANGED vpc
       ELSE Step(c, v, "done") /\ vpc' = [vpc EXCEPT ![v] = "deleted"]
    /\ UNCHANGED <<region, part, gateway, core, admits, fs, mount, removing, complete, crashes>>

\* Mutant of DeleteDone: the command does not wait for the VPCs.
DeleteDoneEarly(c) ==
    /\ job[c].pc = "vpcs"
    /\ \E v \in Vpc : job[c].at[v] # "none"
    /\ End(c)
    /\ removing' = None
    /\ UNCHANGED <<cloudVars, complete, crashes>>

\* The command has succeeded.
DeleteDone(c) ==
    /\ job[c].pc = "vpcs"
    /\ \E v \in Vpc : job[c].at[v] = "done"
    /\ \A v \in Vpc : job[c].at[v] \in {"none", "done"}
    /\ End(c)
    /\ removing' = None
    /\ UNCHANGED <<cloudVars, complete, crashes>>

-------------------------------------------------------------------------------

Crash(c) ==
    /\ \/ "add" \in Fragile /\ Adding(c)
       \/ "delete" \in Fragile /\ Deleting(c)
    /\ crashes < MaxCrashes
    /\ crashes' = crashes + 1
    /\ End(c)
    /\ UNCHANGED <<cloudVars, removing, complete>>

Add(c) ==
    \/ AddVpc(c) \/ TagVpc(c) \/ AddGateway(c) \/ CreatePart(c) \/ TagPart(c)
    \/ FindCore(c) \/ TagCore(c) \/ AllowRules(c) \/ AllowDone(c)
    \/ FindEfsVpc(c) \/ CreateFileSystem(c) \/ TagFileSystem(c) \/ CreateMountTargets(c)

DeleteIn(c, v) ==
    \/ DeleteSubnets(c, v) \/ DeleteGroups(c, v) \/ DeleteGateway(c, v)
    \/ DeleteRoutes(c, v) \/ DeleteVpc(c, v)

Delete(c) ==
    \/ DeleteStart(c) \/ DeleteMountTargets(c) \/ DeleteFileSystem(c) \/ DeleteEfsGroup(c)
    \/ FindVpcs(c) \/ (\E v \in Vpc : DeleteIn(c, v)) \/ DeleteDone(c)

Next == \E c \in Command : Add(c) \/ Delete(c) \/ Crash(c)

Spec == Init /\ [][Next]_vars

\* A command that runs goes on to its end, and the operator repeats a
\* region-delete that failed.
Fairness == \A c \in Command : WF_vars(removing # None /\ Delete(c))

FairSpec == Spec /\ Fairness

-------------------------------------------------------------------------------
(* Properties. *)

\* There is at most one core region, also when later regions are added side by
\* side, and when the core region is deleted and another one takes its place.
OneCoreRegion == Cardinality(CoreLocations) <= 1

\* The same, with the types of all variables.
CoreInv == TypeOK /\ OneCoreRegion

\* A VPC that can carry traffic.
Open(v) == part[v]["subnets"] = "tagged" /\ part[v]["groups"] = "tagged"

\* A VPC that is the only one of its region.
Single(v) == region[v] \notin Repeat

\* Once region-add has succeeded there is a core region, and traffic passes
\* between the two, both ways, until one of them is deleted.  A rule that is due
\* in a region with several VPCs is set in any one of them, which must not harm
\* the other regions.
RegionsConnected ==
    \A v \in complete : Open(v) /\ Single(v) =>
        /\ core # {}
        /\ \A k \in core : Open(k) => /\ k \in admits[v]
                                      /\ Single(k) => v \in admits[k]

\* "Only allow IPv6 traffic within cluster regions": no firewall admits the
\* addresses of a subnet that the cluster no longer has.
OnlyClusterTraffic ==
    \A v \in Vpc : \A w \in admits[v] : vpc[w] # "deleted"

\* A region-delete that succeeds leaves nothing of the cluster in the region,
\* whichever earlier attempts to delete it died half-way.
DeletedMeansGone ==
    [][\A c \in Command : DeleteDone(c) =>
          /\ fs[job[c].region] = "none"
          /\ \A v \in Vpc : region[v] = job[c].region => vpc[v] = "deleted"]_vars

\* A region that is being deleted is deleted in the end, if the operator repeats
\* the command after every failure: no attempt leaves behind what the next one
\* cannot remove.
DeleteFinishes ==
    \A r \in Region : removing = r ~> \A v \in Vpc : region[v] = r => vpc[v] = "deleted"
================================================================================
