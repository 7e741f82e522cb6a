------------------------------ MODULE EksCluster ------------------------------
(***************************************************************************)
(* sye eks cluster-create and cluster-delete of one Kubernetes cluster.    *)
(* Both are chains of slow calls: a CloudFormation stack for the VPC, the  *)
(* EKS cluster in it, a stack for the worker nodes, and what kubectl and   *)
(* helm install.  cluster-create may be repeated, and takes what is        *)
(* already there for done: "Already exists - OK."                          *)
(*                                                                         *)
(* CloudFormation, EKS, the Kubernetes API and Tiller are external.  A     *)
(* stack has outputs when it was created to the end; a VPC that something  *)
(* is in cannot be deleted; the API answers while the cluster is active.   *)
(***************************************************************************)
EXTENDS Naturals, FiniteSets, Sequences

CONSTANTS
    Command,    \* shells in which commands are run
    MaxFaults   \* bound: commands that die, and stacks or clusters that fail

ASSUME EksAssumption == MaxFaults \in Nat

VARIABLES
    vpc,         \* the stack of the VPC
    workers,     \* the stack of the worker nodes
    cluster,     \* the EKS cluster
    kubeconfig,  \* whether the file of --kubeconfig works, while the cluster does
    authorized,  \* whether the workers may join the cluster
    tiller,      \* whether the pod of Tiller is ready
    addons,      \* what kubectl and helm have installed in the cluster
    balanced,    \* the services with a load balancer, which stands in the VPC
    goal,        \* what the operator is about, "none", "create" or "delete"
    pc,          \* the next step of each shell
    faults

cloudVars == <<vpc, workers, cluster>>
kubeVars == <<authorized, tiller, addons, balanced>>
vars == <<cloudVars, kubeconfig, kubeVars, goal, pc, faults>>

\* In the order of their installation; waitForTillerStarted comes after "tiller".
Addon == <<"rbac", "tiller", "nginx", "metrics", "operator", "prometheus", "adapter">>

Addons == {Addon[i] : i \in DOMAIN Addon}

StackStatus == {"none", "creating", "complete", "failed", "deleting", "deleteFailed"}

CreateStep == {"vpcWait", "cluster", "clusterWait", "workers", "workersWait",
               "kubeconfig", "authorize", "tillerWait", "file"} \cup Addons

DeleteStep == {"nginxGone", "services", "workersGone", "workersGoneWait",
               "clusterGone", "clusterGoneWait", "vpcGone", "vpcGoneWait"}

TypeOK ==
    /\ vpc \in StackStatus /\ workers \in StackStatus
    /\ cluster \in {"none", "creating", "active", "failed", "deleting"}
    /\ kubeconfig \in BOOLEAN /\ authorized \in BOOLEAN /\ tiller \in BOOLEAN
    /\ addons \subseteq Addons
    /\ balanced \subseteq {"nginx", "sye"}
    /\ goal \in {"none", "create", "delete"}
    /\ pc \in [Command -> {"idle"} \cup CreateStep \cup DeleteStep]
    /\ faults \in 0..MaxFaults

Init ==
    /\ vpc = "none" /\ workers = "none" /\ cluster = "none"
    /\ kubeconfig = FALSE /\ authorized = FALSE /\ tiller = FALSE
    /\ addons = {} /\ balanced = {}
    /\ goal = "none"
    /\ pc = [c \in Command |-> "idle"]
    /\ faults = 0

-------------------------------------------------------------------------------

Goto(c, step) == pc' = [pc EXCEPT ![c] = step]

\* The command ends, after its last call or because a call failed.
End(c) == Goto(c, "idle")

Idle == \A c \in Command : pc[c] = "idle"

\* getStackOutput finds the output it is asked for.
HasOutputs(stack) == stack \in {"complete", "deleting", "deleteFailed"}

\* createStack, or AlreadyExistsException.
Create(stack) == IF stack = "none" THEN "creating" ELSE stack

\* deleteStack, which is content with a stack that is not there.
Delete(stack) == IF stack = "none" THEN "none" ELSE "deleting"

\* Whether what is asked of AWS or Kubernetes comes to life, or a fault of theirs prevents it.
Outcome(alive) ==
    \/ alive /\ UNCHANGED faults
    \/ ~alive /\ faults < MaxFaults /\ faults' = faults + 1

\* kubectl and helm reach the cluster.
Reachable == kubeconfig /\ cluster = "active"

-------------------------------------------------------------------------------
(* createEksCluster *)

\* Mutant of CreateVpc: AlreadyExistsException is an error like any other.
CreateVpcOnce(c) ==
    /\ pc[c] = "idle"
    /\ goal \in {"none", "create"}
    /\ goal' = "create"
    /\ vpc' = Create(vpc)
    /\ IF vpc = "none" THEN Goto(c, "vpcWait") ELSE End(c)
    /\ UNCHANGED <<workers, cluster, kubeconfig, kubeVars, faults>>

\* The operator does not create what he is about to delete.
CreateVpc(c) ==
    /\ pc[c] = "idle"
    /\ goal \in {"none", "create"}
    /\ goal' = "create"
    /\ vpc' = Create(vpc)
    /\ Goto(c, IF vpc = "none" THEN "vpcWait" ELSE "cluster")
    /\ UNCHANGED <<workers, cluster, kubeconfig, kubeVars, faults>>

VpcWait(c) ==
    /\ pc[c] = "vpcWait" /\ vpc # "creating"
    /\ IF vpc = "complete" THEN Goto(c, "cluster") ELSE End(c)
    /\ UNCHANGED <<cloudVars, kubeconfig, kubeVars, goal, faults>>

CreateCluster(c) ==
    /\ pc[c] = "cluster"
    /\ IF HasOutputs(vpc)
       THEN /\ cluster' = IF cluster = "none" THEN "creating" ELSE cluster
            /\ Goto(c, IF cluster = "none" THEN "clusterWait" ELSE "workers")
       ELSE UNCHANGED cluster /\ End(c)
    /\ UNCHANGED <<vpc, workers, kubeconfig, kubeVars, goal, faults>>

\* awaitAsyncCondition: until the status changes, or for 20 minutes.
ClusterWait(c) ==
    /\ pc[c] = "clusterWait"
    /\ IF cluster = "active" THEN Goto(c, "workers") ELSE End(c)
    /\ UNCHANGED <<cloudVars, kubeconfig, kubeVars, goal, faults>>

CreateWorkers(c) ==
    /\ pc[c] = "workers"
    /\ IF HasOutputs(vpc)
       THEN /\ workers' = Create(workers)
            /\ Goto(c, IF workers = "none" THEN "workersWait" ELSE "kubeconfig")
       ELSE UNCHANGED workers /\ End(c)
    /\ UNCHANGED <<vpc, cluster, kubeconfig, kubeVars, goal, faults>>

WorkersWait(c) ==
    /\ pc[c] = "workersWait" /\ workers # "creating"
    /\ IF workers = "complete" THEN Goto(c, "kubeconfig") ELSE End(c)
    /\ UNCHANGED <<cloudVars, kubeconfig, kubeVars, goal, faults>>

CreateKubeconfig(c) ==
    /\ pc[c] = "kubeconfig"
    /\ IF cluster = "none" THEN UNCHANGED kubeconfig /\ End(c)
       ELSE kubeconfig' = (cluster = "active") /\ Goto(c, "authorize")
    /\ UNCHANGED <<cloudVars, kubeVars, goal, faults>>

\* The role of the worker nodes is an output of their stack.
EnableWorkers(c) ==
    /\ pc[c] = "authorize"
    /\ IF HasOutputs(workers) /\ Reachable
       THEN authorized' = TRUE /\ Goto(c, Addon[1])
       ELSE UNCHANGED authorized /\ End(c)
    /\ UNCHANGED <<cloudVars, kubeconfig, tiller, addons, balanced, goal, faults>>

\* Charts need Tiller, and prometheus the namespace that the operator's chart
\* creates.  Nothing is installed twice.
MayInstall(addon) ==
    /\ Reachable
    /\ addon \notin {"rbac", "tiller", "prometheus"} => tiller
    /\ addon = "prometheus" => "operator" \in addons

\* Mutant of Install: an error of kubectl or helm does not end the command.
InstallIgnoresErrors(c) ==
    \E i \in DOMAIN Addon :
        /\ pc[c] = Addon[i]
        /\ IF MayInstall(Addon[i])
           THEN /\ addons' = addons \cup {Addon[i]}
                /\ balanced' = balanced \cup (IF Addon[i] = "nginx" THEN {"nginx"} ELSE {})
           ELSE UNCHANGED <<addons, balanced>>
        /\ Goto(c, IF i = Len(Addon) THEN "file" ELSE Addon[i + 1])
        /\ UNCHANGED <<cloudVars, kubeconfig, authorized, tiller, goal, faults>>

Install(c) ==
    \E i \in DOMAIN Addon :
        /\ pc[c] = Addon[i]
        /\ IF MayInstall(Addon[i])
           THEN /\ addons' = addons \cup {Addon[i]}
                /\ balanced' = balanced \cup (IF Addon[i] = "nginx" THEN {"nginx"} ELSE {})
                /\ Goto(c, IF Addon[i] = "tiller" THEN "tillerWait"
                           ELSE IF i = Len(Addon) THEN "file" ELSE Addon[i + 1])
           ELSE UNCHANGED <<addons, balanced>> /\ End(c)
        /\ UNCHANGED <<cloudVars, kubeconfig, authorized, tiller, goal, faults>>

\* kubectl wait, for 300 seconds.
WaitForTiller(c) ==
    /\ pc[c] = "tillerWait"
    /\ IF Reachable /\ tiller THEN Goto(c, "nginx") ELSE End(c)
    /\ UNCHANGED <<cloudVars, kubeconfig, kubeVars, goal, faults>>

\* The file for the autoscaler is the last thing; the command has succeeded.
CreateDone(c) ==
    /\ pc[c] = "file"
    /\ goal' = "none"
    /\ End(c)
    /\ UNCHANGED <<cloudVars, kubeconfig, kubeVars, faults>>

-------------------------------------------------------------------------------
(* deleteEksCluster *)

\* The cluster is looked up first; the operator deletes when no create runs.
DeleteStart(c) ==
    /\ pc[c] = "idle" /\ (Idle \/ goal = "delete")
    /\ vpc # "none" \/ workers # "none" \/ cluster # "none"
    /\ goal' = "delete"
    /\ IF cluster = "none" THEN End(c) ELSE Goto(c, "nginxGone")
    /\ UNCHANGED <<cloudVars, kubeconfig, kubeVars, faults>>

\* Any error of kubectl is taken to mean "Already deleted - OK."
DeleteNginx(c) ==
    /\ pc[c] = "nginxGone"
    /\ \E deleted \in BOOLEAN :
        /\ Outcome(deleted)
        /\ balanced' = IF deleted /\ cluster = "active" THEN balanced \ {"nginx"} ELSE balanced
    /\ Goto(c, "services")
    /\ UNCHANGED <<cloudVars, kubeconfig, authorized, tiller, addons, goal>>

\* Mutant of CheckServices: services are reported but do not end the command.
CheckServicesOnly(c) ==
    /\ pc[c] = "services"
    /\ IF cluster = "active" THEN Goto(c, "workersGone") ELSE End(c)
    /\ UNCHANGED <<cloudVars, kubeconfig, kubeVars, goal, faults>>

CheckServices(c) ==
    /\ pc[c] = "services"
    /\ IF cluster = "active" /\ balanced = {} THEN Goto(c, "workersGone") ELSE End(c)
    /\ UNCHANGED <<cloudVars, kubeconfig, kubeVars, goal, faults>>

DeleteWorkers(c) ==
    /\ pc[c] = "workersGone"
    /\ workers' = Delete(workers)
    /\ Goto(c, "workersGoneWait")
    /\ UNCHANGED <<vpc, cluster, kubeconfig, kubeVars, goal, faults>>

WorkersGone(c) ==
    /\ pc[c] = "workersGoneWait" /\ workers # "deleting"
    /\ IF workers = "none" THEN Goto(c, "clusterGone") ELSE End(c)
    /\ UNCHANGED <<cloudVars, kubeconfig, kubeVars, goal, faults>>

DeleteEks(c) ==
    /\ pc[c] = "clusterGone"
    /\ \/ cluster = "none" /\ Goto(c, "vpcGone") /\ UNCHANGED cluster
       \/ cluster = "active" /\ Goto(c, "clusterGoneWait") /\ cluster' = "deleting"
       \/ cluster \notin {"none", "active"} /\ End(c) /\ UNCHANGED cluster
    /\ UNCHANGED <<vpc, workers, kubeconfig, kubeVars, goal, faults>>

\* awaitAsyncCondition: until the status changes, or for 20 minutes.
EksGone(c) ==
    /\ pc[c] = "clusterGoneWait"
    /\ IF cluster = "none" THEN Goto(c, "vpcGone") ELSE End(c)
    /\ UNCHANGED <<cloudVars, kubeconfig, kubeVars, goal, faults>>

DeleteVpc(c) ==
    /\ pc[c] = "vpcGone"
    /\ vpc' = Delete(vpc)
    /\ Goto(c, "vpcGoneWait")
    /\ UNCHANGED <<workers, cluster, kubeconfig, kubeVars, goal, faults>>

\* Mutant of DeleteDone: the command does not wait for the stack.
DeleteDoneEarly(c) ==
    /\ pc[c] = "vpcGoneWait"
    /\ End(c)
    /\ UNCHANGED <<cloudVars, kubeconfig, kubeVars, goal, faults>>

\* The stack of the VPC is gone and the command has succeeded.
DeleteDone(c) ==
    /\ pc[c] = "vpcGoneWait" /\ vpc = "none"
    /\ End(c)
    /\ UNCHANGED <<cloudVars, kubeconfig, kubeVars, goal, faults>>

\* The stack of the VPC could not be deleted.
VpcStays(c) ==
    /\ pc[c] = "vpcGoneWait" /\ vpc \notin {"deleting", "none"}
    /\ End(c)
    /\ UNCHANGED <<cloudVars, kubeconfig, kubeVars, goal, faults>>

\* The operator sees that nothing is left, and may create the cluster anew.
Settled ==
    /\ goal = "delete" /\ Idle
    /\ vpc = "none" /\ workers = "none" /\ cluster = "none"
    /\ goal' = "none"
    /\ UNCHANGED <<cloudVars, kubeconfig, kubeVars, pc, faults>>

-------------------------------------------------------------------------------
(* The outside world. *)

VpcReady ==
    /\ vpc = "creating"
    /\ \E alive \in BOOLEAN : Outcome(alive) /\ vpc' = IF alive THEN "complete" ELSE "failed"
    /\ UNCHANGED <<workers, cluster, kubeconfig, kubeVars, goal, pc>>

WorkersReady ==
    /\ workers = "creating"
    /\ \E alive \in BOOLEAN : Outcome(alive) /\ workers' = IF alive THEN "complete" ELSE "failed"
    /\ UNCHANGED <<vpc, cluster, kubeconfig, kubeVars, goal, pc>>

ClusterReady ==
    /\ cluster = "creating"
    /\ \E alive \in BOOLEAN : Outcome(alive) /\ cluster' = IF alive THEN "active" ELSE "failed"
    /\ UNCHANGED <<vpc, workers, kubeconfig, kubeVars, goal, pc>>

\* The pod of Tiller runs on a worker that has joined the cluster.
TillerReady ==
    /\ "tiller" \in addons /\ ~tiller
    /\ workers = "complete" /\ authorized /\ cluster = "active"
    /\ tiller' = TRUE
    /\ UNCHANGED <<cloudVars, kubeconfig, authorized, addons, balanced, goal, pc, faults>>

\* The pods go with the workers.
WorkersDeleted ==
    /\ workers = "deleting"
    /\ \E gone \in BOOLEAN : Outcome(gone) /\ workers' = IF gone THEN "none" ELSE "deleteFailed"
    /\ tiller' = FALSE
    /\ UNCHANGED <<vpc, cluster, kubeconfig, authorized, addons, balanced, goal, pc>>

\* What was installed goes with the cluster; load balancers stay.
ClusterDeleted ==
    /\ cluster = "deleting"
    /\ cluster' = "none"
    /\ authorized' = FALSE /\ tiller' = FALSE /\ addons' = {}
    /\ UNCHANGED <<vpc, workers, kubeconfig, balanced, goal, pc, faults>>

VpcDeleted ==
    /\ vpc = "deleting"
    /\ \E gone \in BOOLEAN :
        /\ Outcome(gone)
        /\ vpc' = IF gone /\ workers = "none" /\ cluster = "none" /\ balanced = {}
                  THEN "none" ELSE "deleteFailed"
    /\ UNCHANGED <<workers, cluster, kubeconfig, kubeVars, goal, pc>>

\* Sye, which is installed later, has a service with a load balancer.  It is
\* not installed while the cluster is being deleted, but can be removed then.
SyeService ==
    /\ cluster = "active"
    /\ \/ "sye" \notin balanced /\ goal = "none" /\ Idle /\ balanced' = balanced \cup {"sye"}
       \/ "sye" \in balanced /\ balanced' = balanced \ {"sye"}
    /\ UNCHANGED <<cloudVars, kubeconfig, authorized, tiller, addons, goal, pc, faults>>

Crash(c) ==
    /\ pc[c] # "idle"
    /\ faults < MaxFaults
    /\ faults' = faults + 1
    /\ End(c)
    /\ UNCHANGED <<cloudVars, kubeconfig, kubeVars, goal>>

-------------------------------------------------------------------------------

CreateEksCluster(c) ==
    \/ CreateVpc(c) \/ VpcWait(c) \/ CreateCluster(c) \/ ClusterWait(c)
    \/ CreateWorkers(c) \/ WorkersWait(c) \/ CreateKubeconfig(c) \/ EnableWorkers(c)
    \/ Install(c) \/ WaitForTiller(c) \/ CreateDone(c)

DeleteEksCluster(c) ==
    \/ DeleteStart(c) \/ DeleteNginx(c) \/ CheckServices(c)
    \/ DeleteWorkers(c) \/ WorkersGone(c) \/ DeleteEks(c) \/ EksGone(c)
    \/ DeleteVpc(c) \/ DeleteDone(c) \/ VpcStays(c)

Aws == VpcReady \/ WorkersReady \/ ClusterReady \/ WorkersDeleted \/ ClusterDeleted \/ VpcDeleted

Next ==
    \/ \E c \in Command : CreateEksCluster(c) \/ DeleteEksCluster(c) \/ Crash(c)
    \/ Aws \/ TillerReady \/ SyeService \/ Settled

Spec == Init /\ [][Next]_vars

\* The operator repeats the command until it succeeds, and removes services that
\* stand in its way; what was asked of AWS or Kubernetes is done some day.
Fairness ==
    /\ \A c \in Command :
           /\ WF_vars(goal = "create" /\ CreateEksCluster(c))
           /\ WF_vars(goal = "delete" /\ DeleteEksCluster(c))
    /\ WF_vars(VpcReady) /\ WF_vars(WorkersReady) /\ WF_vars(ClusterReady)
    /\ WF_vars(WorkersDeleted) /\ WF_vars(ClusterDeleted) /\ WF_vars(VpcDeleted)
    /\ WF_vars(TillerReady)
    /\ WF_vars(goal = "delete" /\ SyeService)

FairSpec == Spec /\ Fairness

-------------------------------------------------------------------------------
(* Properties. *)

\* When cluster-create succeeds the cluster is complete, whatever was taken for
\* granted because it "already exists": half-made stacks, a cluster that is not
\* yet active, or what a concurrent or interrupted command has begun.
CreatedMeansReady ==
    [][\A c \in Command : CreateDone(c) =>
          /\ vpc = "complete" /\ workers = "complete" /\ cluster = "active"
          /\ kubeconfig /\ authorized /\ tiller /\ addons = Addons]_vars

\* No load balancer outlives its cluster: it could not be deleted through
\* Kubernetes any more, and the VPC not at all.
NoOrphans == balanced # {} => cluster = "active"

\* The same, with the types of all variables.
BalancerInv == TypeOK /\ NoOrphans

\* When a cluster-delete succeeds there is nothing left, whatever another delete
\* was doing meanwhile and whatever errors were taken to mean "Already deleted".
DeletedMeansGone ==
    [][\A c \in Command : DeleteDone(c) =>
          vpc = "none" /\ workers = "none" /\ cluster = "none"]_vars

\* A cluster-create that is repeated after every crash succeeds in the end,
\* unless AWS failed to create something or the operator gave up on the cluster.
CreateFinishes ==
    goal = "create" ~> goal # "create" \/ "failed" \in {vpc, workers, cluster}

\* A cluster-delete of a cluster that works, repeated after every failure, deletes
\* everything in the end.
DeleteFinishes ==
    goal = "delete" /\ cluster = "active" ~> vpc = "none" /\ workers = "none" /\ cluster = "none"
================================================================================
