# TLA+ models of sye-tools

sye-tools is a command line that builds and runs clusters of Sye machines: it writes the configuration and the
certificates of a cluster, creates its machines, regions and Kubernetes clusters at AWS and Azure, and ships the
scripts that run on the machines. There is no server: the state lives in the cloud, mostly in tags, and on the
machines. Every command is a chain of calls that may stop between any two of them, be repeated, or run beside
another command in another shell. That is what these modules are about.

Paths below are relative to `src/`.

## 1. Inventory

| component | state | operations | what is hard | what makes it correct |
|---|---|---|---|---|
| Certificate rotation: `sye-cluster/index.ts`, `sye-cluster-install-certs.sh`, `upload-config` | operator's archive, three stage files, the archive in the bucket, `/etc/sye/keys` on every machine, keys loaded by each controller | create-certs, upload-config, install-certs, (join, machine-add) | a distributed protocol run by hand over a fleet in which machines boot, crash, restart and go; an install script that waits for a line in a log | any two running controllers trust each other at all times; in the end nobody trusts the old authority; a rotation that is begun can be ended; machines added half-way join |
| AWS machines: `sye-aws/lib/machine.ts`, `sye-aws/bootstrap.sh` | instances, tags, data volumes, the mount on the machine | machine-add, request-spot-instances, machine-delete, machine-redeploy | crashes between detach and attach, two shells, DeleteOnTermination, boot that waits for a volume | data is never lost but by machine-delete; the volume follows its machine |
| AWS regions: `sye-aws/lib/region.ts`, `common.ts` | VPC, gateway, routes, subnets, groups, rules, elastic file system, tag of the core region | region-add, region-delete | resources exist before their tags; election of a core region by check and set; parallel deletes; repetition after a crash | one core region; regions connected; delete leaves nothing, and can be repeated to the end |
| Azure machines: `sye-azure/lib/machine.ts`, `common.ts` | VM, NIC, address, data disk, tags; the shared security groups | machine-add, -delete, -redeploy, -edit, ensure-security-rules | rules computed from a list of addresses and written later; two sources for the roles; the disks to keep are in memory only | ensured rules admit exactly the machines; group matches roles; the disk survives a redeploy |
| EKS clusters: `sye-eks/lib/*`, `lib/k8s.ts` | two stacks, the cluster, what is installed in it | cluster-create, cluster-delete | "Already exists - OK", "Already deleted - OK": half-done work of an earlier or a concurrent command | success of create means complete, success of delete means gone, no load balancer is orphaned, both can be repeated to the end |
| Cluster configuration: `sye-cluster/index.ts` | one archive | cluster create, token | none: arguments in, file out | - |
| AWS clusters: `sye-aws/lib/cluster.ts` | bucket, two IAM roles with policy and instance profile | cluster-create, cluster-delete, upload-config | two parallel chains of calls; create tolerates nothing that exists, delete takes every error for "not there"; a policy without its role is found by nobody | create that succeeds is complete, delete leaves no role, create after delete works |
| ECR registry: `sye-aws/lib/registry.ts` | a repository per service, images, policies that name roles | registry-create, -delete, -grant-permission | read-modify-write of a policy; roles that are gone stay in it in a form ECR does not accept; one page of images | every granted cluster keeps its permission; a repeated grant and a repeated delete succeed |
| AKS clusters: `sye-aks/lib/*`, `lib/azure/azure-session.ts`, `lib/k8s.ts` | region (group, VNET, service principal), cluster, node pools, public addresses, security group, kubeconfig, add-ons | region-prepare, -cleanup, cluster-create, -delete, nodepool-add, -delete, ensure-public-ip | every call takes "already exists" for done; a principal keeps its old password; scale sets are read, changed and upgraded in three calls | success means complete or gone; the cluster has the password of its principal; every VM is addressed |
| One machine: `sye-cluster-join.sh`, `sye-cluster-leave.sh`, `sye-registry/index.ts`, `cli/sye.ts` | containers, volumes, `/etc/sye`, the archive | join, leave, registry start, add-release, remove, single-server | the scripts list containers again and again while the controller starts services and docker restarts what was stopped; a container that was left takes the name of the next | leave leaves nothing; a controller has its configuration; single-server can be repeated to the end |
| Azure clusters, regions: `sye-azure/lib/cluster.ts`, `region.ts` | resource groups, storage account, networks, groups | cluster-create, -join, -delete, region-add, -delete | errors taken for "already deleted" | commands are idempotent |
| Azure session: `lib/azure/*` | login, token cache, storage account | - | - | - |
| DNS: `sye-aws/lib/dns.ts`, `sye-azure/lib/dns.ts` | records | record create, delete | choice of the zone | - |
| `sye-aws/lib/cidr.ts`, `lib/common.ts`, the rest of `cli/*` | none | - | - | - |

How they interact: `cluster create` makes the archive; `upload-config` puts it into the bucket of the cloud cluster;
`machine-add` signs a URL for it (AWS: ten minutes) and launches a machine, whose boot script downloads archive and
`sye-cluster-join.sh`, waits for its data volume, mounts it, unpacks the archive and starts the machine controller.
`region-add` must precede `machine-add`; on Azure every change of machines rewrites the rules of all groups of the
region. An AWS cluster is created before anything else, for its machines need the instance profiles; a registry is
granted to its roles. `sye single-server` is leave, registry, cluster create and join on one machine. Tags and what
exists in the cloud are the only memory that commands share.

The hazards, each at its line and with the properties that cover it, are in `PROJECT.json`.

## 2. Modules

| module | models | with |
|---|---|---|
| `CertStages` | contents of `keys/`, the three stage files, who accepts whom | pure operators |
| `CertRotation` | operator, bucket, fleet during certificate rotations | extends `CertStages` |
| `StageBarrier` | what a staged rotation promises: controllers move through epochs behind a barrier | abstract specification, refined by `CertRotation` |
| `CertRotationProofs` | theorems about `CertRotation` | TLAPS |
| `AwsMachine` (`MCAwsMachine`) | AWS machine commands, EC2 and the boot script | `MCAwsMachine` adds symmetry of names, instances and volumes |
| `AwsMachineProofs` | theorems about `AwsMachine` | TLAPS |
| `AwsRegion` | AWS region commands | |
| `AzureMachine` (`MCAzureMachine`) | Azure machine commands in one region | `MCAzureMachine` adds symmetry of shells, names and addresses |
| `AzureMachineProofs` | theorems about `AzureMachine` | TLAPS |
| `EksCluster` | EKS cluster-create and cluster-delete | |
| `EksClusterProofs` | theorems about `EksCluster` | TLAPS |
| `ClusterIam` | AWS cluster-create and cluster-delete: bucket, roles, policies, profiles | |
| `AwsClusterProofs` | theorems about `AwsRegion` and `ClusterIam` | TLAPS |
| `RegistryAccess` | a registry at ECR and the clusters that may read it | |
| `RegistryAccessProofs` | theorems about `RegistryAccess` | TLAPS |
| `AksCluster` | AKS regions, clusters and node pools | |
| `AksClusterProofs` | theorems about `AksCluster` | TLAPS |
| `SingleServer` | one machine: join, leave, registry and single-server | |
| `SingleServerProofs` | theorems about `SingleServer` | TLAPS |

Every module has one action per call that changes state (or per group of calls that nothing else can tell apart). A
command is a program counter and its local variables (`job[c]` or `pc[c]` for a shell `c`), so that what a command
has read before and uses later is visibly stale. `Crash(c)` forgets the locals: the shell, its network or its
credentials die. A call that the cloud refuses ends the command in the same way (`End(c)`), because exceptions pass to
the top; where the code catches them (`DeleteRefused`, `Refused`) the action says what it goes on with. What belongs to AWS, Azure, docker or the controller is external: it is modelled by what
the code relies on, and marked so in `PROJECT.json`. Definitions called *mutant* in their comment are
wrong on purpose: each is what a plausible bug would make of the definition after it, and exists to show that a
property would notice.

### CertRotation

`master`, `stageFile` are the operator's archives (`createCerts`, `createConfigurationFileForCertRotation`); `stage`,
`phase`, `done` are where the operator is in the procedure of `sye-cluster/README.md`; `bucket` is
`private/sye-environment.tar.gz`; `node`, `late`, `image` are the life of a machine up to `sye-cluster-join.sh`;
`disk` is `/etc/sye/keys`, `active` the keys that the running controller has loaded, `script` an install script that
waits, `recent` whether `docker logs --since 5s` would show the line it waits for. `stale` is history: that line was
there before the keys were installed. An authority is its generation
number, a `keys/` directory the issuer and the set of trusted roots.

Two assumptions about the operator are constants. `Hasty` says that an install may be started while the log still
shows the line of an earlier reload, or be interrupted before the reload; all runs have `Hasty = FALSE`, the theorems
about trust assume `~Hasty`. What the exit of the script means (`ExitMeansRotated`) is stated and proved for both: the
controller has the installed keys, or the line was stale. `Azure` chooses the upload.
An operator who finds the script waiting for a line that will not come (the controller restarted by itself and has
the keys) interrupts it and runs it again, which ends in "identical ... exiting" and counts as done (`InstallIdentical`).

### AwsMachine

`state`, `name`, `spot`, `attached`, `onTerm`, `wants` are what EC2 knows of an instance; `volume`, `owner`, `data` of
a data volume (`owner` and `deletes` are history: for whom it was created, and whom machine-delete was told to
delete); `mounted` is the boot script's mount. Actions `RedeployRead` ... `RedeployReplace` are the calls of
`redeployInstance` in order. `instance.State !== 'stopped'` compares an object with a string, so stop is always called.

### AwsRegion

A VPC goes from "unused" through "untagged" (created) and "tagged" to "deleted"; so do its parts. `core` holds the
VPCs whose subnets carry the tag of the core region, `admits` the firewall rules for IPv6 between subnets, `fs` and
`mount` the elastic file system. `job[c].at[v]` is how far the parallel chain for VPC `v` has come. The README of
sye-aws gives the order in which an operator adds and deletes regions: `MayAdd`, `MayDelete`:
the first region-add runs by itself, once the core region is complete others run side by side, each in a region of its own,
and a region-delete runs alone. `Repeat` are the regions for which region-add may be repeated though they have a VPC, so
that they get several; `Fragile` says which commands may die. What region-add does to the firewall of a region that
has several VPCs is excepted from `RegionsConnected`, which says that no other region suffers from it.

### AzureMachine

`vm`, `tags`, `lun`, `disk`, `nic`, `ip`, `addr` are a machine, `group[t]` the addresses that the shared group of type
`t` admits. `machineRedeploy` calls `machineDelete` and `machineAdd`, so their actions serve it with other locals.
An address is dynamic: it comes and goes with the VM, not with the public IP. `dirty` is history: the set of addresses
has changed and no ensure has succeeded since. So is `unmatched`: the machines whose tags are not the roles their group
was chosen for, because machineAdd takes the group from `--role` and not from `--management`, or because a machine-edit
has changed the NIC and not yet the tags. `Alone` is an assumption about the operators: a command that rewrites
the rules, or redeploys, runs by itself, and no machine is worked on by two commands at once. Two shells may still add,
edit and delete different machines with `--skip-security-rules`, each between the calls of the other.

### EksCluster

`vpc`, `workers`, `cluster` have the statuses of CloudFormation and EKS, including failure. `addons` is what has been
installed, in the order of `Addon`; `balanced` the services of type LoadBalancer, one of nginx and one of Sye, which is
installed later. A wait that times out is modelled as an end at any time while the status has not changed
(`ClusterWait`, `EksGone`, `WaitForTiller`). `goal` is what the operator is about: he does not create what he is about to
delete until nothing is left of it (`Settled`). Two creates may run at once, and two deletes.

### ClusterIam

`role`, `policy`, `attached`, `profile`, `member` are what IAM holds of the two roles (`Kind`), `bucket` the bucket with
all that `createBucket` puts into it. `at[c][k]` is how far the chain of shell `c` for role `k` has come, since
`Promise.all` runs both `createIamRole` (or `deleteIamRole`) side by side; `Fail` ends both, as the first rejection
ends the command. `DeleteRefused` is a call of a delete that fails for some other reason and is logged as "not there";
`refused` remembers it. `plan` is the operator: after a cluster-create that failed he runs cluster-delete and tries again.
Names that `AwsRegion` has too begin with `Cluster` or speak of shells, for `AwsClusterProofs` extends both modules.

### RegistryAccess

`reader[s]` is the policy of repository `s`: the roles it names, with `Stale` for all that have been deleted since.
`GetRepositoryPolicy` reads it, `GetRole` looks up the roles it names and drops those that are gone,
`SetRepositoryPolicy` writes back what was read with the new role. `RoleMade` and `RoleGone` are cluster-create and
cluster-delete. `granted` is history. `Together` permits two grants, or two commands that create or delete, at a time;
`Refusable` names calls that may fail though they are valid.

### AksCluster

`region`, `sp`, `listed`, `roles` are what region-prepare makes, `subnet` to `addons` what belongs to one cluster, with
`config` for the pools whose scale set gives its VMs public addresses and `bare` for those that have VMs without one.
`kubeconfig`, `addons`, `tiller` are as in `EksCluster`. The actions bear the names of the methods of `AzureSession`;
`job[c]` holds the next call and what the command has read. One owner works on region and cluster, other shells on its
node pools. `password`, `mismatch` and `lost` are history.

### SingleServer

`ct` is the state of each container, `volume` the volumes, which outlive containers; `conf` and `named` are
`/etc/sye`, `archive` the file `sye-environment.tar.gz` in the directory. The operator runs one command at a time, in one
shell; the interleaving is with docker and the controller (`StartService`, `StopService`, `Restart`). Every
`$(docker ps ...)` of the leave script is a list of its own (`List`).

## 3. Runs

All bounds are small because the commands are: a second machine, volume, region or shell brings in every
pairwise interleaving, and no code path looks at more than one machine or VPC at a time other than by a quantifier.

| run | shows | bounds | distinct states |
|---|---|---|---|
| `cert_rotation` | `MutualTrust`, `OldCaRetired`, `NewMachinesJoin`, `FleetWithinOneStage` (the inductive invariant), `ExitMeansRotated`, `MovesInStep` (refinement of `StageBarrier`), `RotationCompletes` | two rotations in a row, two machines and a newcomer, one controller crash | 73,824 |
| `cert_rotation_azure` | violation of `NewMachinesJoin` | one rotation | |
| `aws_machine` | `DataSurvives`, `MountInv`, `UninterruptedRedeployKeepsVolume`, `BootCompletes` | one shell, three instances, one volume, one crash | 631,965 |
| `aws_machine_two` | `VolumeFollowsItsMachine` | two shells, two machines (names), three instances, two volumes, one crash, symmetry | 6,495,375 |
| `aws_region` | `CoreInv`, `RegionsConnected`, `DeletedMeansGone`, `DeleteFinishes` | two shells, three regions, three VPCs, two regions with EFS, one region that may have several VPCs, two deletes that die | 502,104 |
| `azure_machine` | `RulesInv`, `GroupsServeRoles`, `DiskOutlivesMachine`, `UninterruptedRedeployKeepsDisk` | two shells, two machines, two addresses, three types of group, with and without management flag and rules, one crash, symmetry | 1,560,600 |
| `eks_cluster` | `BalancerInv`, `CreatedMeansReady`, `DeletedMeansGone`, `CreateFinishes` | two shells, two faults (a crash, a failing stack or cluster, a failing kubectl) | 11,163 |
| `eks_cluster_delete` | violation of `DeleteFinishes` | one shell, one fault | |
| `cluster_iam` | `ClusterTypeOK`, `CreatedMeansUsable`, `ClusterDeletedMeansGone`, `CreateFinishes` | two shells, both roles, two faults (commands that die, calls that are refused) | 310,311 |
| `registry_access` | `GrantInv`, `DeleteFinishes`, `GrantFinishes` | two shells, two clusters, two services, two images in pages of one, one command that dies | 696,519 |
| `aks_cluster` | `SecretInv`, `CreatedMeansReady`, `PublicAddresses`, `DeletedMeansGone`, `CreateFinishes` | the owner and a second shell, two pools, two passwords, one fault | 607,401 |
| `single_server` | `ControllerHasConfig`, `LeaveLeavesNothing`, `SingleServerFinishes` | controller, registry and two services, two faults or restarts of docker | 119,375 |

The properties ending in `Inv` are a safety property together with the types of all variables.

Three instances let a machine be redeployed twice, or two machines and the redeploy of one. Three regions let two be added
side by side beside the core region; three VPCs let a region have several, and be deleted and added again. Symmetry is
used where no liveness is checked. `CHECK_DEADLOCK FALSE` is set where the bound on instances, machines or
rotations is used up: the system rests there.

**Fairness.** Actions of AWS, docker and the boot scripts are weakly fair: what was asked of them they do. A command
that has begun goes on unless it dies. The operator is fair only where the property is about an operator who
persists: a rotation is carried through, a failed delete or create is repeated. In `RegistryAccess` that is strong
fairness, since other commands come in between and a weakly fair operator could miss every gap. No other command
is ever fair to start, nor is a crash.

## 4. What differs from the documentation

Runs that end in a violation:

- `cert_rotation_azure`: `sye azure upload-config` stores the name of the file in the bucket (`sye-azure/lib/cluster.ts:72`).
- `eks_cluster_delete`: a cluster-delete that ended after EKS had begun to delete the cluster cannot be completed.

Seen with other constants, or with properties that the modules keep and no run checks:

- `CertRotation` with `Hasty = TRUE`: a second install within five seconds of a reload ends at the line of the first, and a
  fleet that goes on to the next stage loses its trust (`MutualTrust` fails).
- `AwsRegion` without the last conjunct of `MayAdd`: of two first region-adds at once both make their region the core region
  (`CoreInv` fails, `sye-aws/lib/region.ts:276`). Without the second, that is with the same region added twice at once: one
  of them leaves a group that no region-delete finds (`DeleteFinishes` fails).
- `AwsRegion`, `RegionsConnected` without `Single`: in a region with several VPCs a rule goes to any of them, and region-add
  succeeds with a region that is cut off (`sye-aws/lib/region.ts:353`).
- `AwsRegion` with `Fragile = {"add"}`: a region-add that died between a call and the tag leaves what region-delete cannot
  find (`DeleteFinishes` fails, `sye-aws/lib/region.ts:40`).
- `AzureMachine` with `Alone = FALSE` and two shells: of two machine-adds the one with the older list may write last
  (`RulesInv` fails).
- `AwsMachine`, `RedeployKeepsVolume`: a redeploy that dies after `detachVolume` cannot be repeated; the new machine is
  without its data (`sye-aws/lib/machine.ts:309`).
- `AwsRegion`, `OnlyClusterTraffic`: after region-delete the core region goes on admitting the subnets of the deleted
  region (`sye-aws/lib/region.ts:602`).
- `AzureMachine`, `RolesServed`: a machine that is added with `--management` and no role, or with one role that has a group
  of its own, gets the group of the role, and the management ports stay closed until it is redeployed or edited
  (`sye-azure/lib/machine.ts:91`; `sye-azure/README.md:44` says they are open). The example of `sye-azure/README.md:92` escapes
  this: `--role log --role frontend-balancer` gets the group that opens everything. A machine-edit that died half-way is
  the other case. `GroupsServeRoles` says that there is no third.
- `AzureMachine` with `Alone = FALSE`: two edits of one machine leave tags and group apart
  (`GroupsServeRoles`), and two redeploys of it lose the disk (`UninterruptedRedeployKeepsDisk`).
- `AzureMachine`, `RedeployKeepsDisk`: a crash between the detach and the new VM, as at AWS.
- `AzureMachine`, `SharedGroupsStay`, with a machine named like a type of group: machine-delete deletes the group.
- `ClusterIam`, `CreateFinishesAlways`: a cluster-create that dies between `createPolicy` and `attachRolePolicy`, or a
  cluster-delete that dies between `detachRolePolicy` and `deletePolicy`, leaves a policy that no cluster-delete finds,
  and every later cluster-create of that name fails (`sye-aws/lib/cluster.ts:313`).
- `RegistryAccess` with `Together = TRUE`: of two grants at the same time one is lost. With
  `Refusable = {"getRepositoryPolicy"}`: a throttled read is taken for "No policy is set", and the permissions of other
  clusters are overwritten (both `GrantInv`, `sye-aws/lib/registry.ts:173`).
- `AksCluster`, `EnsuredMeansAddressed`: an ensure-public-ip that dies between the change of a scale set and the upgrade
  of its VMs leaves VMs that no later one mends, although `cli/sye-aks.ts:191` promises it: it skips every
  scale set that is configured (`lib/azure/azure-session.ts:718`).
- `SingleServer`, `JoinNeedsNoLeave`: a join that died after docker had created the container cannot be repeated without
  a leave (`sye-cluster-join.sh:52`).

Seen while reading, and outside of any property:

- `sye-aks/lib/cluster-create.ts:125` tests `installPrometheus`, which is the imported function and not the option: the
  `--install-prometheus` of `cli/sye-aks.ts:100` has no effect, Prometheus is always installed (`Addon`).
- `sye-aws/lib/cluster.ts:245`: the policy of the scaling role lacks `ecr:GetAuthorizationToken`, which the basic one has.
- `sye-aws/lib/registry.ts:96`: the prefix is matched anywhere in the name, so a registry `live` also lists, and
  registry-delete deletes, the repositories of `trulive`.
- `sye-cluster-leave.sh:7`: the usage text speaks of controller and service containers; the script removes every
  container on the machine, the registry included (`List`).

## 5. Proofs

`CertRotationProofs` proves, for every fleet, every number of rotations and every number of crashes:
`TypeCorrect`, `ExitIsRotated`, `NewcomersJoin` (assuming AWS's upload), and, assuming a patient operator (`~Hasty`),
`OneStageApart`, `TrustIsMutual`, `OldCaIsRetired` and `ImplementsBarrier`. `ExitIsRotated` has an invariant of its own
(`LineInv`): where a script waits and the log shows the line, the line is stale or the controller has the installed keys.

`MutualTrust` says nothing of installed but unloaded keys, of archives under way to a booting machine, or of what the
operator ticked off, and is not inductive. The strengthening is `FleetWithinOneStage`: with `Base` the
configuration the fleet comes from and `Current` the one it is to have, every machine has `Base` or `Current` on disk,
loaded, or downloaded; keys that are installed and not loaded have a script that waits for the line of *their*
reload; a machine that is ticked off has `Current`. The next stage begins when all listed machines are ticked off,
so `Base` is then nowhere any more and `Current` takes its place. `NeighboursAccept` shows that `Base` and `Current`
accept each other at each of the three stages, which is why the rotation has three. For the refinement a
configuration is mapped to an epoch (three per authority); `FrontierIsCurrent` and `PositionNearFrontier` show that
the frontier is the epoch of `Current` and that a controller is there or one behind.

`EksClusterProofs` proves, for every number of shells and faults: `TypeCorrect`, `NoOrphanedBalancer` (`BalancerInv`),
`CreateIsComplete`, `DeleteIsComplete`. The strengthening `EksInv` says that creates and deletes never overlap, and, for every program counter, what its command may rely on although it has only seen
"already exists": a create that is past the VPC has a complete VPC, one that installs something has what comes before it, and
so on; a delete that is past the check of services has none left. Outside of deletes nothing is half deleted
(`NotDeleting`), and so nothing a create has seen is taken away from it (`Stable`).

`AwsClusterProofs` has two halves that share nothing but the file. The one about `ClusterIam` proves, for every number of
shells, roles and faults: `ClusterTypeCorrect`, `ClusterCreateIsComplete`, `ClusterDeleteIsComplete`. Types alone are not
inductive here: that only a policy that exists is attached is what the chain has ensured two calls before. `IamInv` adds that
a create has no other command beside it (`CreatesAlone`), that each of its chains has made all that it is past of
(`ChainMade`), and that each chain of a delete of which no call was refused has removed all that it is past of
(`ChainRemoved`). With `CreatesAlone` neither can be undone by another shell, though deletes may overlap.

The one about `AwsRegion` proves, for every set of regions, VPCs and shells and any number of commands that die:

- `OneCoreRegionAlways` (`CoreInv`), for all constants. `ensureCoreRegion` looks for a core region and then tags one, and
  nothing in the code keeps two shells from doing so at once. What keeps to one is the order in which an operator adds
  regions, and `RegionInv` says how: region-adds run beside each other only while a region that is complete is the core
  region, and a region-delete runs alone (`Apart`); so while one is about to tag a core there still is none (`Made`). The core
  stays tagged as long as it has subnets (`OneCore`), and what region-delete takes apart belongs to its own region
  (`TakenApart`), where everything hangs on a VPC whose tag it can find (`PartsHang`).
- `RegionsStayConnected` (`RegionsConnected`), for all constants. A region outside of `Repeat` has one VPC
  (`Unique`). `Met` follows the firewalls call by call: the core a region-add has read is still the core when it writes the
  rules, and each rule that is not in the list of those to be written is there. The core is the last region to be deleted
  (`CoreLast`), so it is not replaced under a command that has read it; while there is none, no region with one VPC carries
  traffic (`Coreless`).
- `DeletedRegionsAreGone` (`DeletedMeansGone`), assuming that no region-add dies (`"add" \notin Fragile`): a VPC or a file system
  without its tag is one that a region-add is about to tag (`NoRemains`), and region-delete, alone, gets to the VPCs when the
  file system is gone and to its end when every tagged VPC is (`DeleteProgress`). Region-deletes may die at any call. A
  region-add that dies between a call and the tag leaves what no region-delete can find.

Each of `ConnectInv` and `GoneInv` is inductive together with `RegionInv`.

`SingleServerProofs` proves, for every set of services and any number of faults and restarts: `ControllerIsConfigured` and
`LeaveIsComplete`. `MachineInv` adds to the types what a join has done before it makes the controller
(`JoinProgress`); that a leave about to call `docker rm` has listed every container, or the controller has come up again,
which `docker rm` then refuses to remove (`Listed`); that nothing is left from there on (`LeaveProgress`); and that without a
restart of docker nothing runs once the controller was stopped (`Quiet`), which is why the script stops it first.

`RegistryAccessProofs` proves, for every set of clusters, services and images and any number of commands that die,
`GrantedClustersKeepAccess` (`GrantInv`), assuming `~Together` and `Refusable = {}`; section 4 has the runs that refute it
without either. `GrantInv` is not inductive, for it says nothing of the policy that a grant has read and is going to
write back. `GrantIInv` adds that one grant runs at a time (`OneGrant`); that of the roles the policy names now, what the grant
has looked up so far and has still to look up drops none that exists (`NobodyDropped`); and that a grant has given its
cluster access to all repositories it is past of, unless the role or a repository was deleted since it began
(`GrantedSoFar`). `RegistryTypes` assumes neither.

`AksClusterProofs` proves, without further assumptions, for any number of shells, pools, passwords and faults:
`ClustersKnowThePassword` (`SecretInv`), `CreateIsComplete`, `NoPoolIsPassedOver` (`PublicAddresses`) and
`DeleteIsComplete`. The part `SecretIInv` of the invariant follows the password: unless region-prepare was given
another password than that of the principal it found, or a group was not deleted, the principal's password is the one cluster-create is going to give and the one the cluster has
(`PasswordsMatch`); one owner works on region and cluster (`OneOwner`); region-prepare and cluster-create may rely on what
they found or made (`Prepared`); and the group with the cluster is gone before the principal goes
(`GroupGoneFirst`). `CreateProgress` and `DeleteProgress` say, for each call, what the command has made or removed though it
has only seen "already exists" or "not found"; `PatchProgress`, that whoever has taken a pool from what is left to do has
changed its scale set; and `BareUpgraded`, that where a scale set was changed, a VM without an address is being
upgraded by somebody, or the command that had to do it has died.

`AwsMachineProofs` proves, for every set of names, instances and volumes and any number of commands that die:
`VolumesStayWithTheirMachine` (`VolumeFollowsItsMachine`) for any number of shells, and, for one shell (`OneShell`),
`DataIsDeletedOnRequest` (`DataSurvives`), `VolumesStayMounted` (`MountInv`) and `RedeployHandsOver`
(`UninterruptedRedeployKeepsVolume`). Where a volume is depends on tags that are read now and used later. `TagInv` says that
instances no command has launched are blank and known to nobody (`Fresh`); that an attached volume is in use; and that each
command holds, at each of its calls, a volume of the name of the instance it is going to attach it to (`Tagging`,
`Named`). `ShellInv` adds, for a shell that is alone, that an instance with a mount has its volume attached and is up or on
its way down (`MountedUp`); that what goes with an instance that is shutting down was asked for by a machine-delete
(`ShuttingDown`); that what a redeploy has read stays true until it uses it: the instance is stopped when its volume is
detached, which is what the wait for "stopped" is for, and the volume is free while it is between two instances
(`JobInv`); and that, unless a command has died, a free volume is being handed over (`NothingLeft`). With two shells these
are false: a machine-delete may terminate what a redeploy in the other shell has just launched.

`AzureMachineProofs` proves, for every set of shells, machines, addresses and types of groups, any number of commands that die,
and assuming `Alone`:

- `RulesAreCurrent` (`RulesInv`). `Collecting` says that the addresses read so far are those of the machines that are no
  longer on the list, and that what was written is the full set; `Settled`, that without unensured changes no VM
  waits for its address and every group has the full set. Neither needs that other commands stand still: they may go
  on with calls that change no address.
- `RolesAreServed` (`GroupsServeRoles`), with the management flag, at every moment and after any crash. `GroupFollowsTags` says
  that the group of every machine is that of its tags, but for the exceptions; and that an edit between its two writes is
  one and has chosen the group of the tags it is going to write. `GroupServesRoles` is the fact about `NsgType` and `Serves`, for every set of roles.
- `OnlyDeleteDeletesTheDisk` (`DiskOutlivesMachine`): when a redeploy reads the machine it is about to delete, the
  disk is already detached, so it is not in the list of what to delete (`Redeploying`).
- `RedeployKeepsTheDisk` (`UninterruptedRedeployKeepsDisk`), if no machine is named like a group (see section 4) and every
  set of tags that is given has its group (in the code all seven are made; the run has three of them). `DiskOnItsWay` says
  that a disk attached to no machine is in the hands of one command (`Carries`), which with `TagsGiven` and
  `SharedGroupsStay` never fails on its way.

All four rest on `BaseInv`: commands that run beside each other work on different machines (`Apart`), and so what a command has
found or made is still so when it goes on (`Work`). TLC has checked every inductive invariant of this section on the
constants of the runs, those of `AwsRegion` also with region-adds that die, where they do not exclude it.

The assumptions on constants are the named `ASSUME`s of the modules; TLC evaluates them in the runs. What a theorem
assumes beyond them is in its statement, and each such hypothesis (`~Hasty`, `~Together`, `Refusable = {}`, `OneShell`, `Alone`,
no region-add that dies, names) holds of the constants of the run that checks the same
property. In `AwsMachineProofs`, `AzureMachineProofs` and `AwsClusterProofs` a lemma named after an action and `Does` states
once what the action does to the job of its shell and to the cloud; the lemmas that an invariant is preserved have one step
per action that cites it.

Every safety property that a run checks is a theorem, or follows from one. Only model-checked is all liveness
(`RotationCompletes`, `BootCompletes`, `DeleteFinishes`, `CreateFinishes`, `GrantFinishes`, `SingleServerFinishes`): it needs
ENABLED, which the prover does not have.

## 6. Not modelled

`PROJECT.json` names every part. Parsing of arguments, output, EC2 user data, address arithmetic, DNS, and which
images a release has have no behaviour over time. `sye-aks/lib/cluster-scale.ts` is called by nothing. Of the Azure session the
login, the token cache and the storage account are left out; the commands that show something only read. The machine
controller and the Sye services are not in the repository. Azure with several regions is left out of `AzureMachine`;
Azure's cluster-create, -join and -delete are straight lines of idempotent calls that share nothing with other commands.

Three interactions are in no module. A node pool's scale set is read whole and written back whole by
`enableVmssPublicIps`, which reverts what the autoscaler of AKS changes in between: capacities are not in `AksCluster`.
And `createVnet`, after a read that was refused for another reason than "not found", writes the VNET anew, without its
subnets: in `AksCluster` no such read fails. And a scale set that is deleted between its read and its write comes back
(`azure-session.ts:718` is an upsert), though it belongs to no pool any more: `PatchVmss` ends the command there. In
`AksCluster` a resource group is deleted in one step: what another command would find in a group that Azure is still
deleting, after a cleanup that died while it waited, is left out.

## 7. Plan

1. Azure regions, with cluster-create, -join and -delete, composed with `AzureMachine`.
