------------------------------ MODULE AksCluster ------------------------------
(***************************************************************************)
(* sye aks: region-prepare and region-cleanup make and remove what the     *)
(* clusters of a resource group share, a VNET and a service principal;     *)
(* cluster-create and cluster-delete work on one cluster in it; and        *)
(* nodepool-add, nodepool-delete and ensure-public-ip on the node pools of *)
(* that cluster, perhaps in another shell.  Every command is a chain of    *)
(* calls that takes what is there for done.                                *)
(*                                                                         *)
(* Azure, AKS, the Kubernetes API and Tiller are external.  AKS makes the  *)
(* nodes of a cluster and their security group in any order; a VM has a    *)
(* public address if the model of its scale set had one when the VM was    *)
(* made or last upgraded; Azure refuses what refers to a missing resource, *)
(* and to delete what is in use.                                           *)
(***************************************************************************)
EXTENDS Naturals, SequencesExt

CONSTANTS
    Command,   \* shells in which commands are run
    Owner,     \* bound: the shells of the owner, who works on region and cluster
    Pool,      \* names of node pools
    Main,      \* the pool that cluster-create makes
    Password,  \* passwords for the service principal
    MaxFaults, \* bound: commands that die, calls that are refused, clusters that fail
    None

ASSUME AksAssumption ==
    /\ Owner \subseteq Command
    /\ Main \in Pool
    /\ None \notin Password
    /\ MaxFaults \in Nat

VARIABLES
    region,      \* which of "group", "vnet" and "app" exist
    sp,          \* the password of the service principal, None without one
    listed,      \* whether the service principal appears in the list
    roles,       \* the scopes the service principal is a contributor to
    password,    \* history: what region-prepare was given for it last, as cluster-create is
    mismatch,    \* history: that may not be the password of the service principal, or
                 \* the cluster not of this service principal
    subnet,      \* whether the subnet of the cluster exists
    cluster,     \* the state of the AKS cluster
    secret,      \* the password in the profile of the cluster
    nsg,         \* whether there is a security group of its nodes
    ports,       \* the ports that are open in it
    pools,       \* the node pools
    config,      \* those whose scale set gives its VMs public addresses
    bare,        \* those with VMs that have none
    lost,        \* history: those a command was upgrading when it died
    kubeconfig,  \* whether the file of --kubeconfig works, while the cluster does
    addons,      \* what kubectl and helm have installed
    tiller,      \* whether the pod of Tiller is ready
    goal,        \* what the owner is about, "none", "create" or "delete"
    job,         \* what each shell is doing
    faults

regionVars == <<region, sp, listed, roles, password, mismatch>>
nodeVars == <<nsg, ports, pools, config, bare, lost>>
kubeVars == <<kubeconfig, addons, tiller>>
clusterVars == <<subnet, cluster, secret, nodeVars, kubeVars>>
vars == <<regionVars, clusterVars, goal, job, faults>>

\* In the order of their installation; waitForTillerStarted comes after "tiller".
Addon == <<"rbac", "tiller", "nginx", "operator", "prometheus", "adapter">>

Addons == ToSet(Addon)

RegionStep == {"group", "vnet", "app", "sp", "appear", "contributor",
               "groupGone", "spGone", "appGone"}

ClusterStep == {"cluster", "provision", "nodeRole", "subnetRole", "list", "patch", "upgrade",
                "ssp", "broker", "ssh", "download", "tillerWait", "created"} \cup Addons

DeleteStep == {"clusterGone", "subnetGone", "deleted"}

\* of: the pools a command has found; todo: those that lacked an address then.
NoJob == [step |-> "idle", whole |-> FALSE, of |-> {}, todo |-> {}, pool |-> None, refused |-> FALSE]

TypeOK ==
    /\ region \subseteq {"group", "vnet", "app"}
    /\ "vnet" \in region => "group" \in region
    /\ sp \in Password \cup {None} /\ password \in Password \cup {None}
    /\ listed \in BOOLEAN /\ (listed => sp # None)
    /\ roles \subseteq {"group", "nodes", "subnet"} /\ (roles # {} => listed)
    /\ subnet \in BOOLEAN /\ (subnet => "vnet" \in region)
    /\ cluster \in {"none", "creating", "ready", "failed", "deleting"}
    /\ (cluster # "none" => subnet)
    /\ secret \in Password \cup {None} /\ (secret = None <=> cluster = "none")
    /\ nsg \in BOOLEAN /\ ports \subseteq {"ssp", "broker", "ssh"}
    /\ pools \subseteq Pool /\ config \subseteq pools /\ bare \subseteq pools /\ lost \subseteq bare
    /\ kubeconfig \in BOOLEAN /\ addons \subseteq Addons /\ tiller \in BOOLEAN
    /\ mismatch \in BOOLEAN
    /\ goal \in {"none", "create", "delete"}
    /\ job \in [Command ->
           [step : {"idle"} \cup RegionStep \cup ClusterStep \cup DeleteStep, whole : BOOLEAN,
            of : SUBSET Pool, todo : SUBSET Pool, pool : Pool \cup {None}, refused : BOOLEAN]]
    /\ faults \in 0..MaxFaults

Init ==
    /\ region = {} /\ sp = None /\ listed = FALSE /\ roles = {}
    /\ password = None /\ mismatch = FALSE
    /\ subnet = FALSE /\ cluster = "none" /\ secret = None
    /\ nsg = FALSE /\ ports = {}
    /\ pools = {} /\ config = {} /\ bare = {} /\ lost = {}
    /\ kubeconfig = FALSE /\ addons = {} /\ tiller = FALSE
    /\ goal = "none"
    /\ job = [c \in Command |-> NoJob]
    /\ faults = 0

-------------------------------------------------------------------------------

At(c, step) == job[c].step = step

Goto(c, step) == job' = [job EXCEPT ![c].step = step]

\* The command ends, after its last call or because a call failed.
End(c) == job' = [job EXCEPT ![c] = NoJob]

Begin(c, step) == job' = [job EXCEPT ![c] = [NoJob EXCEPT !.step = step, !.whole = c \in Owner]]

\* The next step, or the end if the call fails.
GotoIf(c, ok, step) == IF ok THEN Goto(c, step) ELSE End(c)

Fault == faults < MaxFaults /\ faults' = faults + 1

\* A call that deletes is refused, and that is taken for "already deleted".
Refused(c, step) ==
    /\ Fault
    /\ job' = [job EXCEPT ![c].step = step, ![c].refused = TRUE]

Idle(c) == At(c, "idle")

\* The owner does one thing at a time.
OwnerIdle(c) == c \in Owner /\ \A d \in Owner : Idle(d)

-------------------------------------------------------------------------------
(* aksRegionPrepare *)

\* createResourceGroup
PrepareStart(c) ==
    /\ OwnerIdle(c) /\ goal = "none"
    /\ region' = region \cup {"group"}
    /\ Begin(c, "vnet")
    /\ UNCHANGED <<sp, listed, roles, password, mismatch, clusterVars, goal, faults>>

CreateVnet(c) ==
    /\ At(c, "vnet")
    /\ region' = region \cup {"vnet"}
    /\ Goto(c, "app")
    /\ UNCHANGED <<sp, listed, roles, password, mismatch, clusterVars, goal, faults>>

CreateAdApplication(c) ==
    /\ At(c, "app")
    /\ region' = region \cup {"app"}
    /\ Goto(c, "sp")
    /\ UNCHANGED <<sp, listed, roles, password, mismatch, clusterVars, goal, faults>>

\* A principal that is listed is kept with the password it has; one that exists
\* but is not listed yet makes the call fail.
CreateServicePrincipal(c) ==
    /\ At(c, "sp")
    /\ password' \in Password
    /\ mismatch' = (mismatch \/ sp \notin {None, password'})
    /\ \/ listed /\ Goto(c, "contributor") /\ UNCHANGED sp
       \/ ~listed /\ sp = None /\ Goto(c, "appear") /\ sp' = password'
       \/ ~listed /\ sp # None /\ End(c) /\ UNCHANGED sp
    /\ UNCHANGED <<region, listed, roles, clusterVars, goal, faults>>

\* "Wait for it to appear..."
ServicePrincipalAppeared(c) ==
    /\ At(c, "appear") /\ listed
    /\ Goto(c, "contributor")
    /\ UNCHANGED <<regionVars, clusterVars, goal, faults>>

\* assignRoleToServicePrincipal, for the resource group: the region is prepared.
PrepareDone(c) ==
    /\ At(c, "contributor")
    /\ roles' = roles \cup {"group"}
    /\ End(c)
    /\ UNCHANGED <<region, sp, listed, password, mismatch, clusterVars, goal, faults>>

-------------------------------------------------------------------------------
(* aksRegionCleanup *)

\* What goes with the cluster, and with the group of its nodes.
ClusterRemoved ==
    /\ cluster' = "none" /\ secret' = None
    /\ nsg' = FALSE /\ ports' = {}
    /\ pools' = {} /\ config' = {} /\ bare' = {} /\ lost' = {}
    /\ kubeconfig' = FALSE /\ addons' = {} /\ tiller' = FALSE

\* Nobody has pools to look after that are no more.
Forget(gone, next) ==
    job' = [d \in Command |-> [next[d] EXCEPT !.of = @ \ gone]]

CleanupStart(c) ==
    /\ OwnerIdle(c)
    /\ region # {} \/ sp # None
    /\ Begin(c, "groupGone")
    /\ goal' = "delete"
    /\ UNCHANGED <<regionVars, clusterVars, faults>>

\* Mutant of DeleteResourceGroup: its group is still being deleted when the principal is.
DeleteResourceGroupNoWait(c) ==
    /\ At(c, "groupGone")
    /\ Goto(c, "spGone")
    /\ UNCHANGED <<regionVars, clusterVars, goal, faults>>

\* With the group goes everything in it, also a cluster; any error is taken for
\* "Already deleted - OK."
DeleteResourceGroup(c) ==
    /\ At(c, "groupGone")
    /\ \/ /\ region' = region \ {"group", "vnet"}
          /\ roles' = {}
          /\ subnet' = FALSE
          /\ ClusterRemoved
          /\ Forget(pools, [job EXCEPT ![c].step = "spGone"])
          /\ UNCHANGED <<mismatch, faults>>
       \/ /\ Refused(c, "spGone")
          /\ mismatch' = TRUE
          /\ UNCHANGED <<region, roles, clusterVars>>
    /\ UNCHANGED <<sp, listed, password, goal>>

\* Without cluster and principal there is nothing that does not match.
StillMismatch == mismatch' = (mismatch /\ (cluster # "none" \/ sp' # None))

DeleteServicePrincipal(c) ==
    /\ At(c, "spGone")
    /\ IF listed THEN sp' = None /\ listed' = FALSE /\ roles' = {}
                 ELSE UNCHANGED <<sp, listed, roles>>
    /\ StillMismatch
    /\ Goto(c, "appGone")
    /\ UNCHANGED <<region, password, clusterVars, goal, faults>>

\* A principal that is not listed yet goes with its application.
CleanupDone(c) ==
    /\ At(c, "appGone")
    /\ region' = region \ {"app"}
    /\ sp' = None /\ listed' = FALSE /\ roles' = {}
    /\ StillMismatch
    /\ goal' = "none"
    /\ End(c)
    /\ UNCHANGED <<password, clusterVars, faults>>

-------------------------------------------------------------------------------
(* createAksCluster *)

\* Mutant of CreateSubnet: a subnet that exists is an error.
CreateSubnetOnce(c) ==
    /\ OwnerIdle(c) /\ goal \in {"none", "create"} /\ password # None
    /\ goal' = "create"
    /\ subnet' = (subnet \/ "vnet" \in region)
    /\ IF subnet' /\ ~subnet THEN Begin(c, "cluster") ELSE UNCHANGED job
    /\ UNCHANGED <<regionVars, cluster, secret, nodeVars, kubeVars, faults>>

\* createSubnet; without the VNET the command ends at once.
CreateSubnet(c) ==
    /\ OwnerIdle(c) /\ goal \in {"none", "create"} /\ password # None
    /\ goal' = "create"
    /\ subnet' = (subnet \/ "vnet" \in region)
    /\ IF subnet' THEN Begin(c, "cluster") ELSE UNCHANGED job
    /\ UNCHANGED <<regionVars, cluster, secret, nodeVars, kubeVars, faults>>

\* "Already exists - OK." is said of a cluster in any state.
CreateCluster(c) ==
    /\ At(c, "cluster")
    /\ \/ cluster # "none" /\ Goto(c, "nodeRole") /\ UNCHANGED <<cluster, secret>>
       \/ /\ cluster = "none" /\ listed /\ subnet
          /\ cluster' = "creating" /\ secret' = password
          /\ Goto(c, "provision")
       \/ /\ cluster = "none" /\ ~(listed /\ subnet)
          /\ End(c)
          /\ UNCHANGED <<cluster, secret>>
    /\ UNCHANGED <<regionVars, subnet, nodeVars, kubeVars, goal, faults>>

Provisioned(c) ==
    /\ At(c, "provision") /\ cluster # "creating"
    /\ GotoIf(c, cluster = "ready", "nodeRole")
    /\ UNCHANGED <<regionVars, clusterVars, goal, faults>>

\* The group of the nodes exists when something is in it.
NodeGroup == nsg \/ pools # {}

\* Mutant of AddCredentials: a role that cannot be assigned is left out.
AddCredentialsAnyway(c) ==
    /\ \/ At(c, "nodeRole") /\ Goto(c, "subnetRole")
          /\ roles' = IF listed /\ NodeGroup THEN roles \cup {"nodes"} ELSE roles
       \/ At(c, "subnetRole") /\ Goto(c, "list")
          /\ roles' = IF listed /\ subnet THEN roles \cup {"subnet"} ELSE roles
    /\ UNCHANGED <<region, sp, listed, password, mismatch, clusterVars, goal, faults>>

\* addCredentials: assignRoleToServicePrincipal, twice.
AddCredentials(c) ==
    /\ \/ At(c, "nodeRole") /\ GotoIf(c, listed /\ NodeGroup, "subnetRole")
          /\ roles' = IF listed /\ NodeGroup THEN roles \cup {"nodes"} ELSE roles
       \/ At(c, "subnetRole") /\ GotoIf(c, listed /\ subnet, "list")
          /\ roles' = IF listed /\ subnet THEN roles \cup {"subnet"} ELSE roles
    /\ UNCHANGED <<region, sp, listed, password, mismatch, clusterVars, goal, faults>>

\* openPortInNsg; --open-ssh-port may be given.
OpenPortInNsg(c) ==
    /\ job[c].step \in {"ssp", "broker", "ssh"}
    /\ ports' = IF nsg THEN ports \cup {job[c].step} ELSE ports
    /\ \/ ~nsg /\ End(c)
       \/ nsg /\ At(c, "ssp") /\ Goto(c, "broker")
       \/ nsg /\ At(c, "broker") /\ Goto(c, "ssh")
       \/ nsg /\ ~At(c, "ssp") /\ Goto(c, "download")
    /\ UNCHANGED <<regionVars, subnet, cluster, secret, nsg, pools, config, bare, lost,
                   kubeVars, goal, faults>>

\* downloadKubectlCredentials: the old file is deleted first.
DownloadCredentials(c) ==
    /\ At(c, "download")
    /\ kubeconfig' = (cluster \in {"creating", "ready"})
    /\ GotoIf(c, kubeconfig', Addon[1])
    /\ UNCHANGED <<regionVars, subnet, cluster, secret, nodeVars, addons, tiller, goal, faults>>

\* Charts need Tiller, and prometheus the namespace that the operator's chart creates.
MayInstall(addon) ==
    /\ kubeconfig /\ cluster = "ready"
    /\ addon \notin {"rbac", "tiller", "prometheus"} => tiller
    /\ addon = "prometheus" => "operator" \in addons

\* The last three are installed with --install-prometheus or without.
Install(c) ==
    \E i \in DOMAIN Addon :
        /\ At(c, Addon[i])
        /\ GotoIf(c, MayInstall(Addon[i]),
                  IF Addon[i] = "tiller" THEN "tillerWait"
                  ELSE IF i = Len(Addon) THEN "created" ELSE Addon[i + 1])
        /\ addons' = IF MayInstall(Addon[i]) THEN addons \cup {Addon[i]} ELSE addons
        /\ UNCHANGED <<regionVars, subnet, cluster, secret, nodeVars, kubeconfig, tiller, goal, faults>>

\* kubectl wait, for 300 seconds.
WaitForTiller(c) ==
    /\ At(c, "tillerWait")
    /\ GotoIf(c, cluster = "ready" /\ tiller, "nginx")
    /\ UNCHANGED <<regionVars, clusterVars, goal, faults>>

CreateDone(c) ==
    /\ At(c, "created")
    /\ goal' = "none"
    /\ End(c)
    /\ UNCHANGED <<regionVars, clusterVars, faults>>

-------------------------------------------------------------------------------
(* deleteAksCluster *)

DeleteStart(c) ==
    /\ OwnerIdle(c)
    /\ cluster # "none" \/ subnet
    /\ goal' = "delete"
    /\ Begin(c, "clusterGone")
    /\ UNCHANGED <<regionVars, clusterVars, faults>>

\* Mutant of DeleteCluster: the command does not wait until the cluster is gone.
DeleteClusterNoWait(c) ==
    /\ At(c, "clusterGone")
    /\ cluster' = IF cluster = "none" THEN "none" ELSE "deleting"
    /\ Goto(c, "subnetGone")
    /\ UNCHANGED <<regionVars, subnet, secret, nodeVars, kubeVars, goal, faults>>

\* Any error of the call is taken for "already deleted".
DeleteCluster(c) ==
    /\ At(c, "clusterGone")
    /\ \/ cluster = "none" /\ Goto(c, "subnetGone") /\ UNCHANGED <<cluster, faults>>
       \/ cluster # "none" /\ cluster' = "deleting" /\ UNCHANGED <<job, faults>>
       \/ cluster # "none" /\ Refused(c, "subnetGone") /\ UNCHANGED cluster
    /\ UNCHANGED <<regionVars, subnet, secret, nodeVars, kubeVars, goal>>

\* A subnet that is in use is not deleted: "already deleted".
DeleteSubnet(c) ==
    /\ At(c, "subnetGone")
    /\ \/ /\ subnet' = (subnet /\ cluster # "none")
          /\ roles' = IF subnet' THEN roles ELSE roles \ {"subnet"}
          /\ Goto(c, "deleted")
          /\ UNCHANGED faults
       \/ subnet /\ Refused(c, "deleted") /\ UNCHANGED <<subnet, roles>>
    /\ UNCHANGED <<region, sp, listed, password, mismatch, cluster, secret, nodeVars, kubeVars, goal>>

DeleteDone(c) ==
    /\ At(c, "deleted")
    /\ goal' = "none"
    /\ End(c)
    /\ UNCHANGED <<regionVars, clusterVars, faults>>

-------------------------------------------------------------------------------
(* addNodePoolToAksCluster, deleteNodePoolToAksCluster, ensurePublicIpOnNodepool *)

\* A pool that is there is updated; a new one has VMs without public addresses.
AddNodePool(c) ==
    /\ Idle(c) /\ cluster = "ready"
    /\ \E p \in Pool :
        /\ pools' = pools \cup {p}
        /\ bare' = bare \cup ({p} \ pools)
    /\ job' = [job EXCEPT ![c] = [NoJob EXCEPT !.step = "list"]]
    /\ UNCHANGED <<regionVars, subnet, cluster, secret, nsg, ports, config, lost, kubeVars,
                   goal, faults>>

\* AKS keeps the pool that the cluster was created with.
DeleteNodePool(c) ==
    /\ Idle(c) /\ cluster = "ready"
    /\ \E p \in pools \ {Main} :
        /\ pools' = pools \ {p} /\ config' = config \ {p}
        /\ bare' = bare \ {p} /\ lost' = lost \ {p}
        /\ Forget({p}, job)
    /\ UNCHANGED <<regionVars, subnet, cluster, secret, nsg, ports, kubeVars, goal, faults>>

EnsurePublicIp(c) ==
    /\ Idle(c) /\ cluster # "none"
    /\ job' = [job EXCEPT ![c] = [NoJob EXCEPT !.step = "list"]]
    /\ UNCHANGED <<regionVars, clusterVars, goal, faults>>

-------------------------------------------------------------------------------
(* enableVmssPublicIps *)

\* Scale sets that have an address in their model will be skipped.
ListVmss(c) ==
    /\ At(c, "list")
    /\ IF NodeGroup
       THEN job' = [job EXCEPT ![c].step = "patch", ![c].of = pools, ![c].todo = pools \ config]
       ELSE End(c)
    /\ UNCHANGED <<regionVars, clusterVars, goal, faults>>

PatchVmss(c) ==
    /\ At(c, "patch")
    /\ \E p \in job[c].todo :
        /\ config' = config \cup ({p} \cap pools)
        /\ IF p \in pools
           THEN job' = [job EXCEPT ![c].step = "upgrade", ![c].pool = p, ![c].todo = @ \ {p}]
           ELSE End(c)
    /\ UNCHANGED <<regionVars, subnet, cluster, secret, nsg, ports, pools, bare, lost, kubeVars,
                   goal, faults>>

\* Mutant of UpgradeVms: the model of the scale set is changed, but no VM.
UpgradeVmsNot(c) ==
    /\ At(c, "upgrade")
    /\ Goto(c, "patch")
    /\ UNCHANGED <<regionVars, clusterVars, goal, faults>>

\* updateInstances, for all VMs there are.
UpgradeVms(c) ==
    /\ At(c, "upgrade")
    /\ LET p == job[c].pool IN
        /\ GotoIf(c, p \in pools, "patch")
        /\ bare' = IF p \in config THEN bare \ {p} ELSE bare
        /\ lost' = IF p \in config THEN lost \ {p} ELSE lost
    /\ UNCHANGED <<regionVars, subnet, cluster, secret, nsg, ports, pools, config, kubeVars,
                   goal, faults>>

\* All pools have been looked at: cluster-create goes on, other commands have succeeded.
PublicIpsDone(c) ==
    /\ At(c, "patch") /\ job[c].todo = {}
    /\ GotoIf(c, job[c].whole, "ssp")
    /\ UNCHANGED <<regionVars, clusterVars, goal, faults>>

-------------------------------------------------------------------------------
(* The outside world. *)

ServicePrincipalListed ==
    /\ sp # None /\ ~listed
    /\ listed' = TRUE
    /\ UNCHANGED <<region, sp, roles, password, mismatch, clusterVars, goal, job, faults>>

\* The nodes and their security group, in any order.
NodesMade ==
    /\ cluster = "creating"
    /\ \/ ~nsg /\ nsg' = TRUE /\ UNCHANGED <<pools, bare>>
       \/ pools = {} /\ pools' = {Main} /\ bare' = {Main} /\ UNCHANGED nsg
    /\ UNCHANGED <<regionVars, subnet, cluster, secret, ports, config, lost, kubeVars, goal, job,
                   faults>>

ClusterProvisioned ==
    /\ cluster = "creating"
    /\ \/ nsg /\ pools # {} /\ cluster' = "ready" /\ UNCHANGED faults
       \/ cluster' = "failed" /\ Fault
    /\ UNCHANGED <<regionVars, subnet, secret, nodeVars, kubeVars, goal, job>>

\* The pod of Tiller runs on a node.
TillerReady ==
    /\ "tiller" \in addons /\ ~tiller /\ cluster = "ready"
    /\ tiller' = TRUE
    /\ UNCHANGED <<regionVars, subnet, cluster, secret, nodeVars, kubeconfig, addons, goal, job,
                   faults>>

\* The role in the group of the nodes goes with the group.
ClusterDeleted ==
    /\ cluster = "deleting"
    /\ ClusterRemoved
    /\ roles' = roles \ {"nodes"}
    /\ Forget(pools, job)
    /\ UNCHANGED <<region, sp, listed, password, mismatch, subnet, goal, faults>>

\* The shell dies; the VMs it was upgrading, or about to, are not looked at again.
Crash(c) ==
    /\ ~Idle(c) /\ Fault
    /\ lost' = IF At(c, "upgrade") THEN lost \cup (bare \cap {job[c].pool}) ELSE lost
    /\ End(c)
    /\ UNCHANGED <<regionVars, subnet, cluster, secret, nsg, ports, pools, config, bare, kubeVars,
                   goal>>

-------------------------------------------------------------------------------

EnableVmssPublicIps(c) == ListVmss(c) \/ PatchVmss(c) \/ UpgradeVms(c) \/ PublicIpsDone(c)

\* A command that has begun goes on.
Proceed(c) ==
    \/ CreateVnet(c) \/ CreateAdApplication(c) \/ CreateServicePrincipal(c)
    \/ ServicePrincipalAppeared(c) \/ PrepareDone(c)
    \/ DeleteResourceGroup(c) \/ DeleteServicePrincipal(c) \/ CleanupDone(c)
    \/ CreateCluster(c) \/ Provisioned(c) \/ AddCredentials(c) \/ EnableVmssPublicIps(c)
    \/ OpenPortInNsg(c) \/ DownloadCredentials(c) \/ Install(c) \/ WaitForTiller(c) \/ CreateDone(c)
    \/ DeleteCluster(c) \/ DeleteSubnet(c) \/ DeleteDone(c)

Start(c) ==
    \/ PrepareStart(c) \/ CleanupStart(c) \/ CreateSubnet(c) \/ DeleteStart(c)
    \/ c \notin Owner /\ (AddNodePool(c) \/ DeleteNodePool(c) \/ EnsurePublicIp(c))

Azure == ServicePrincipalListed \/ NodesMade \/ ClusterProvisioned \/ ClusterDeleted

Next ==
    \/ \E c \in Command : Start(c) \/ Proceed(c) \/ Crash(c)
    \/ Azure \/ TillerReady

Spec == Init /\ [][Next]_vars

\* Commands that have begun go on, and what was asked of Azure and Kubernetes is done
\* some day; the owner repeats a cluster-create until it succeeds.
Fairness ==
    /\ \A c \in Command : WF_vars(Proceed(c))
    /\ WF_vars(\E c \in Owner : goal = "create" /\ CreateSubnet(c))
    /\ WF_vars(ServicePrincipalListed) /\ WF_vars(NodesMade)
    /\ WF_vars(ClusterProvisioned) /\ WF_vars(ClusterDeleted) /\ WF_vars(TillerReady)

FairSpec == Spec /\ Fairness

-------------------------------------------------------------------------------
(* Properties. *)

\* cluster-create succeeds only with a cluster as Sye requires it, although it takes
\* everything that exists for done, in whatever state an earlier command has left it.
CreatedMeansReady ==
    [][\A c \in Command : CreateDone(c) =>
          /\ cluster = "ready" /\ {"nodes", "subnet"} \subseteq roles
          /\ {"ssp", "broker"} \subseteq ports
          /\ kubeconfig /\ tiller /\ addons = Addons]_vars

\* When a command has been through the pools it has found, each VM of theirs has a
\* public address, unless another command is upgrading it, or died when it was about to.
PublicAddresses ==
    [][\A c \in Command : PublicIpsDone(c) =>
          \A p \in (bare \cap job[c].of) \ lost :
              \E d \in Command : At(d, "upgrade") /\ job[d].pool = p]_vars

\* ensure-public-ip: "Ensure that all VMSS VMs and nodepools has public IPs configured";
\* the same without exceptions, when nobody else is at work.
EnsuredMeansAddressed ==
    [][\A c \in Command : PublicIpsDone(c) /\ ~job[c].whole /\ (\A d \in Command \ {c} : Idle(d)) =>
          bare \cap job[c].of = {}]_vars

\* A cluster that works has the password of the service principal that exists, through
\* all cleaning up and preparing anew, unless region-prepare was given another one than
\* that of the principal it found, or a group was not deleted.
SecretWorks == cluster = "ready" /\ ~mismatch => secret = sp

\* The same, with the types of all variables.
SecretInv == TypeOK /\ SecretWorks

\* Unless a call of it was really refused, cluster-delete leaves neither the cluster nor
\* its subnet, although it takes every error for success; and region-cleanup nothing.
DeletedMeansGone ==
    [][\A c \in Command : ~job[c].refused =>
          /\ DeleteDone(c) => cluster = "none" /\ ~subnet
          /\ CleanupDone(c) => cluster = "none" /\ region' = {} /\ sp' = None]_vars

\* A cluster-create that is repeated after every failure succeeds in the end, unless AKS
\* has failed to make the cluster, the region is not prepared, the owner gives up, or
\* somebody deletes node pools for ever.
CreateFinishes ==
    \/ goal = "create" ~> goal # "create" \/ cluster = "failed" \/ "vnet" \notin region \/ ~listed
    \/ []<><<\E c \in Command : DeleteNodePool(c)>>_vars
================================================================================
