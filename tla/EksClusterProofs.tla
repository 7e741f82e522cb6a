--------------------------- MODULE EksClusterProofs ---------------------------
(***************************************************************************)
(* Proofs about EksCluster, for every set of shells and any number of      *)
(* faults.                                                                 *)
(***************************************************************************)
EXTENDS EksCluster, TLAPS

-------------------------------------------------------------------------------
(* The order of installation. *)

\* What the sequence Addon holds.
LEMMA AddonOrder ==
    /\ DOMAIN Addon = 1..7 /\ Len(Addon) = 7
    /\ Addon[1] = "rbac" /\ Addon[2] = "tiller" /\ Addon[3] = "nginx" /\ Addon[4] = "metrics"
    /\ Addon[5] = "operator" /\ Addon[6] = "prometheus" /\ Addon[7] = "adapter"
BY DEF Addon

\* What is installed by then, when a command is about to install Addon[i].
Before(i) == {Addon[j] : j \in 1..(i - 1)}

\* The set of all that is installed.
LEMMA AddonSet ==
    Addons = {"rbac", "tiller", "nginx", "metrics", "operator", "prometheus", "adapter"}
<1>1. \A i \in 1..7 : i \in {1, 2, 3, 4, 5, 6, 7}
  OBVIOUS
<1> QED
  BY <1>1, AddonOrder DEF Addons

-------------------------------------------------------------------------------
(* Type correctness. *)

\* Before anything was created every variable has its type.
LEMMA TypeInit == Init => TypeOK
<1> SUFFICES ASSUME Init PROVE TypeOK
  OBVIOUS
<1>1. kubeconfig \in BOOLEAN /\ authorized \in BOOLEAN /\ tiller \in BOOLEAN
  BY Zenon DEF Init
<1>2. pc \in [Command -> {"idle"} \cup CreateStep \cup DeleteStep]
  BY DEF Init
<1> QED
  BY <1>1, <1>2, EksAssumption DEF Init, TypeOK, StackStatus

\* No step of a command, and no event at AWS or in Kubernetes, breaks a type.
LEMMA TypeStep == TypeOK /\ [Next]_vars => TypeOK'
<1> SUFFICES ASSUME TypeOK, [Next]_vars PROVE TypeOK'
  OBVIOUS
<1> USE DEF TypeOK, cloudVars, kubeVars, Goto, End
<1>1. ASSUME NEW c \in Command, CreateEksCluster(c) PROVE TypeOK'
  <2>1. CASE CreateVpc(c)
    BY <2>1 DEF CreateVpc, Create, StackStatus, CreateStep
  <2>2. CASE VpcWait(c)
    BY <2>2 DEF VpcWait, CreateStep
  <2>3. CASE CreateCluster(c)
    BY <2>3 DEF CreateCluster, CreateStep
  <2>4. CASE ClusterWait(c)
    BY <2>4 DEF ClusterWait, CreateStep
  <2>5. CASE CreateWorkers(c)
    BY <2>5 DEF CreateWorkers, Create, StackStatus, CreateStep
  <2>6. CASE WorkersWait(c)
    BY <2>6 DEF WorkersWait, CreateStep
  <2>7. CASE CreateKubeconfig(c)
    BY <2>7 DEF CreateKubeconfig, CreateStep
  <2>8. CASE EnableWorkers(c)
    BY <2>8, AddonOrder, AddonSet DEF EnableWorkers, CreateStep
  <2>9. CASE Install(c)
    <3>1. PICK i \in 1..7 :
              /\ pc[c] = Addon[i]
              /\ \/ /\ addons' = addons \cup {Addon[i]}
                    /\ balanced' = balanced \cup (IF Addon[i] = "nginx" THEN {"nginx"} ELSE {})
                    /\ Goto(c, IF Addon[i] = "tiller" THEN "tillerWait"
                               ELSE IF i = 7 THEN "file" ELSE Addon[i + 1])
                 \/ UNCHANGED <<addons, balanced>> /\ End(c)
              /\ UNCHANGED <<cloudVars, kubeconfig, authorized, tiller, goal, faults>>
      BY <2>9, AddonOrder DEF Install
    <3>2. Addon[i] \in Addons /\ (i # 7 => Addon[i + 1] \in Addons)
      BY AddonOrder DEF Addons
    <3> QED
      BY <3>1, <3>2 DEF CreateStep
  <2>10. CASE WaitForTiller(c)
    BY <2>10, AddonSet DEF WaitForTiller, CreateStep
  <2>11. CASE CreateDone(c)
    BY <2>11 DEF CreateDone
  <2> QED
    BY <1>1, <2>1, <2>2, <2>3, <2>4, <2>5, <2>6, <2>7, <2>8, <2>9, <2>10, <2>11 DEF CreateEksCluster
<1>2. ASSUME NEW c \in Command, DeleteEksCluster(c) PROVE TypeOK'
  <2>1. CASE DeleteStart(c) \/ CheckServices(c)
    BY <2>1 DEF DeleteStart, CheckServices, DeleteStep
  <2>6. CASE DeleteNginx(c)
    <3>1. faults' \in 0..MaxFaults
      BY <2>6, EksAssumption DEF DeleteNginx, Outcome
    <3>2. balanced' \subseteq {"nginx", "sye"}
      BY <2>6 DEF DeleteNginx
    <3> QED
      BY <2>6, <3>1, <3>2 DEF DeleteNginx, DeleteStep
  <2>2. CASE DeleteWorkers(c) \/ WorkersGone(c)
    <3>1. CASE DeleteWorkers(c)
      BY <3>1 DEF DeleteWorkers, Delete, StackStatus, DeleteStep
    <3>2. CASE WorkersGone(c)
      BY <3>2 DEF WorkersGone, DeleteStep
    <3> QED
      BY <2>2, <3>1, <3>2
  <2>3. CASE DeleteEks(c) \/ EksGone(c)
    BY <2>3 DEF DeleteEks, EksGone, DeleteStep
  <2>4. CASE DeleteVpc(c)
    BY <2>4 DEF DeleteVpc, Delete, StackStatus, DeleteStep
  <2>5. CASE DeleteDone(c) \/ VpcStays(c)
    BY <2>5 DEF DeleteDone, VpcStays
  <2> QED
    BY <1>2, <2>1, <2>2, <2>3, <2>4, <2>5, <2>6 DEF DeleteEksCluster
<1>3. ASSUME NEW c \in Command, Crash(c) PROVE TypeOK'
  BY <1>3, EksAssumption DEF Crash
<1>4. CASE Aws
  <2>1. CASE VpcReady
    BY <2>1, EksAssumption DEF VpcReady, Outcome, StackStatus
  <2>2. CASE WorkersReady
    BY <2>2, EksAssumption DEF WorkersReady, Outcome, StackStatus
  <2>3. CASE ClusterReady
    BY <2>3, EksAssumption DEF ClusterReady, Outcome
  <2>4. CASE WorkersDeleted \/ VpcDeleted
    <3>1. faults' \in 0..MaxFaults
      BY <2>4, EksAssumption DEF WorkersDeleted, VpcDeleted, Outcome
    <3>2. vpc' \in StackStatus /\ workers' \in StackStatus
      BY <2>4 DEF WorkersDeleted, VpcDeleted, StackStatus
    <3> QED
      BY <2>4, <3>1, <3>2 DEF WorkersDeleted, VpcDeleted
  <2>5. CASE ClusterDeleted
    BY <2>5 DEF ClusterDeleted
  <2> QED
    BY <1>4, <2>1, <2>2, <2>3, <2>4, <2>5 DEF Aws
<1>5. CASE TillerReady \/ SyeService \/ Settled
  BY <1>5 DEF TillerReady, SyeService, Settled
<1>6. CASE UNCHANGED vars
  BY <1>6 DEF vars
<1> QED
  BY <1>1, <1>2, <1>3, <1>4, <1>5, <1>6 DEF Next

\* Every variable keeps its type, whatever commands and faults interleave.
THEOREM TypeCorrect == Spec => []TypeOK
BY TypeInit, TypeStep, PTL DEF Spec

-------------------------------------------------------------------------------
(* The inductive invariant. *)

\* Creates and deletes never overlap.
ShellsInv ==
    \A c \in Command :
        /\ pc[c] \in CreateStep => goal # "delete"
        /\ pc[c] \in DeleteStep => goal = "delete"

\* What a delete may rely on, at every step.
DeleteInv ==
    /\ NoOrphans
    /\ \A c \in Command :
        /\ pc[c] \in DeleteStep \ {"nginxGone", "services"} => balanced = {}
        /\ pc[c] \in {"clusterGone", "clusterGoneWait", "vpcGone", "vpcGoneWait"} => workers = "none"
        /\ pc[c] \in {"vpcGone", "vpcGoneWait"} => cluster = "none"

\* Nothing is half deleted unless the operator is deleting.
NotDeleting ==
    goal # "delete" => {vpc, workers, cluster} \cap {"deleting", "deleteFailed"} = {}

\* The steps after EnableWorkers, and those after waitForTillerStarted.
Late == Addons \cup {"tillerWait", "file"}
Later == Late \ {"rbac", "tiller", "tillerWait"}

\* What a create may rely on, at every step, although it may have seen no more
\* than that things already exist.
CreateInvOf(c) ==
    /\ pc[c] \in CreateStep \ {"vpcWait", "cluster"} => vpc = "complete"
    /\ pc[c] \in Late => /\ workers = "complete" /\ cluster = "active"
                         /\ kubeconfig /\ authorized
    /\ pc[c] \in Later => tiller
    /\ \A i \in 1..7 : pc[c] = Addon[i] => Before(i) \subseteq addons
    /\ pc[c] = "tillerWait" => Before(3) \subseteq addons
    /\ pc[c] = "file" => Addons \subseteq addons

CreateInv == \A c \in Command : CreateInvOf(c)

EksInv == TypeOK /\ ShellsInv /\ DeleteInv /\ NotDeleting /\ CreateInv

\* The names of the steps of a create and of a delete are different.
LEMMA StepsDiffer == CreateStep \cap DeleteStep = {} /\ "idle" \notin CreateStep \cup DeleteStep
BY AddonSet DEF CreateStep, DeleteStep

\* Installing Addon[i] completes what comes before Addon[i + 1].
LEMMA BeforeNext ==
    ASSUME NEW i \in 1..7
    PROVE  Before(i + 1) = Before(i) \cup {Addon[i]}
<1>1. 1..((i + 1) - 1) = (1..(i - 1)) \cup {i}
  OBVIOUS
<1> QED
  BY <1>1 DEF Before

\* Nothing comes before the first, and everything before the eighth.
LEMMA BeforeEnds == Before(1) = {} /\ Before(8) = Addons
<1>1. 1..(1 - 1) = {} /\ 1..(8 - 1) = 1..7
  OBVIOUS
<1> QED
  BY <1>1, AddonOrder DEF Before, Addons

\* The invariant holds before anything was created.
LEMMA EksInit == Init => EksInv
<1> SUFFICES ASSUME Init PROVE EksInv
  OBVIOUS
<1>1. TypeOK
  BY TypeInit
<1>2. \A c \in Command : pc[c] = "idle"
  BY DEF Init
<1>3. ShellsInv
  BY <1>2, StepsDiffer DEF ShellsInv
<1>4. DeleteInv /\ NotDeleting
  BY <1>2, StepsDiffer DEF Init, DeleteInv, NoOrphans, NotDeleting
<1>5. CreateInv
  BY <1>2, AddonOrder, AddonSet DEF CreateInv, CreateInvOf, CreateStep, Late, Later
<1> QED
  BY <1>1, <1>3, <1>4, <1>5 DEF EksInv

\* A create moves from step to step, and leaves what deletes rely on alone.
LEMMA CreateMoves ==
    ASSUME EksInv, NEW c \in Command, CreateEksCluster(c)
    PROVE  /\ goal # "delete"
           /\ \E step \in CreateStep \cup {"idle"} : pc' = [pc EXCEPT ![c] = step]
           /\ goal' # "delete"
<1> USE DEF Goto, End
<1>1. CASE CreateVpc(c)
  BY <1>1 DEF CreateVpc, CreateStep
<1>2. ASSUME pc[c] \in CreateStep PROVE goal # "delete"
  BY <1>2 DEF EksInv, ShellsInv
<1>3. CASE VpcWait(c) \/ CreateCluster(c) \/ ClusterWait(c)
  BY <1>2, <1>3 DEF VpcWait, CreateCluster, ClusterWait, CreateStep
<1>4. CASE CreateWorkers(c) \/ WorkersWait(c) \/ CreateKubeconfig(c)
  BY <1>2, <1>4 DEF CreateWorkers, WorkersWait, CreateKubeconfig, CreateStep
<1>5. CASE EnableWorkers(c) \/ WaitForTiller(c) \/ CreateDone(c)
  BY <1>2, <1>5, AddonOrder, AddonSet DEF EnableWorkers, WaitForTiller, CreateDone, CreateStep
<1>6. CASE Install(c)
  <2>1. PICK i \in 1..7 :
            /\ pc[c] = Addon[i]
            /\ \E step \in Addons \cup {"tillerWait", "file", "idle"} : Goto(c, step)
            /\ UNCHANGED goal
    BY <1>6, AddonOrder DEF Install, Addons
  <2>2. pc[c] \in CreateStep
    BY <2>1, AddonOrder DEF Addons, CreateStep
  <2> QED
    BY <1>2, <2>1, <2>2 DEF CreateStep
<1> QED
  BY <1>1, <1>3, <1>4, <1>5, <1>6 DEF CreateEksCluster

\* A delete that has begun moves from step to step.
LEMMA DeleteMoves ==
    ASSUME EksInv, NEW c \in Command, DeleteEksCluster(c), ~DeleteStart(c)
    PROVE  /\ pc[c] \in DeleteStep
           /\ \E step \in DeleteStep \cup {"idle"} : pc' = [pc EXCEPT ![c] = step]
           /\ goal' = goal
           /\ UNCHANGED <<kubeconfig, authorized, tiller, addons>>
<1> USE DEF Goto, End, cloudVars, kubeVars
<1>1. CASE DeleteNginx(c) \/ CheckServices(c)
  BY <1>1 DEF DeleteNginx, CheckServices, DeleteStep
<1>2. CASE DeleteWorkers(c) \/ WorkersGone(c)
  BY <1>2 DEF DeleteWorkers, WorkersGone, DeleteStep
<1>3. CASE DeleteEks(c) \/ EksGone(c)
  BY <1>3 DEF DeleteEks, EksGone, DeleteStep
<1>4. CASE DeleteVpc(c)
  BY <1>4 DEF DeleteVpc, DeleteStep
<1>5. CASE DeleteDone(c) \/ VpcStays(c)
  BY <1>5 DEF DeleteDone, VpcStays, DeleteStep
<1> QED
  BY <1>1, <1>2, <1>3, <1>4, <1>5 DEF DeleteEksCluster

\* When nothing is being deleted no shell is at a step of a delete.
LEMMA NoDeleter ==
    ASSUME EksInv, goal # "delete"
    PROVE  \A c \in Command : pc[c] \notin DeleteStep
BY DEF EksInv, ShellsInv

\* While a delete runs no shell is at a step of a create.
LEMMA NoCreator ==
    ASSUME EksInv, goal = "delete"
    PROVE  \A c \in Command : pc[c] \notin CreateStep
BY DEF EksInv, ShellsInv

\* The outside world moves no shell and does not change the operator's mind.
LEMMA WorldMoves ==
    ASSUME Aws \/ TillerReady \/ SyeService \/ UNCHANGED vars
    PROVE  UNCHANGED <<pc, goal>>
<1> USE DEF cloudVars, kubeVars, vars
<1>1. CASE VpcReady \/ WorkersReady \/ ClusterReady
  BY <1>1 DEF VpcReady, WorkersReady, ClusterReady
<1>2. CASE WorkersDeleted \/ ClusterDeleted \/ VpcDeleted
  BY <1>2 DEF WorkersDeleted, ClusterDeleted, VpcDeleted
<1>3. CASE TillerReady \/ SyeService
  BY <1>3 DEF TillerReady, SyeService
<1>4. CASE UNCHANGED vars
  BY <1>4
<1> QED
  BY <1>1, <1>2, <1>3, <1>4 DEF Aws

\* Creates and a delete do not begin to overlap.
LEMMA ShellsStep ==
    ASSUME EksInv, [Next]_vars
    PROVE  ShellsInv'
<1> USE DEF ShellsInv
<1>0. pc \in [Command -> {"idle"} \cup CreateStep \cup DeleteStep]
  BY DEF EksInv, TypeOK
<1>1. ASSUME NEW c \in Command, CreateEksCluster(c) PROVE ShellsInv'
  <2>1. PICK step \in CreateStep \cup {"idle"} : pc' = [pc EXCEPT ![c] = step]
    BY <1>1, CreateMoves
  <2>2. goal # "delete" /\ goal' # "delete"
    BY <1>1, CreateMoves
  <2>3. \A d \in Command : pc'[d] \notin DeleteStep
    BY <1>0, <2>1, <2>2, NoDeleter, StepsDiffer
  <2> QED
    BY <2>2, <2>3
<1>2. ASSUME NEW c \in Command, DeleteStart(c) PROVE ShellsInv'
  <2>1. goal' = "delete" /\ \A d \in Command : pc[d] \notin CreateStep
    BY <1>2, NoCreator, StepsDiffer DEF DeleteStart, Idle
  <2>2. pc' = [pc EXCEPT ![c] = "idle"] \/ pc' = [pc EXCEPT ![c] = "nginxGone"]
    BY <1>2 DEF DeleteStart, Goto, End
  <2>3. "nginxGone" \notin CreateStep
    BY StepsDiffer DEF DeleteStep
  <2>4. \A d \in Command : pc'[d] \notin CreateStep
    BY <1>0, <2>1, <2>2, <2>3, StepsDiffer
  <2> QED
    BY <2>1, <2>4
<1>3. ASSUME NEW c \in Command, DeleteEksCluster(c), ~DeleteStart(c) PROVE ShellsInv'
  <2>1. goal = "delete" /\ goal' = goal
    BY <1>3, DeleteMoves DEF EksInv
  <2>2. PICK step \in DeleteStep \cup {"idle"} : pc' = [pc EXCEPT ![c] = step]
    BY <1>3, DeleteMoves
  <2>3. \A d \in Command : pc'[d] \notin CreateStep
    BY <1>0, <2>1, <2>2, NoCreator, StepsDiffer
  <2> QED
    BY <2>1, <2>3
<1>4. ASSUME NEW c \in Command, Crash(c) PROVE ShellsInv'
  <2>1. pc' = [pc EXCEPT ![c] = "idle"] /\ goal' = goal
    BY <1>4 DEF Crash, Goto, End
  <2>2. \A d \in Command : pc'[d] \in {"idle", pc[d]}
    BY <1>0, <2>1
  <2> QED
    BY <2>1, <2>2, StepsDiffer DEF EksInv
<1>5. CASE Aws \/ TillerReady \/ SyeService \/ UNCHANGED vars
  BY <1>5, WorldMoves DEF EksInv
<1>6. CASE Settled
  BY <1>6, StepsDiffer DEF Settled, Idle
<1> QED
  BY <1>1, <1>2, <1>3, <1>4, <1>5, <1>6 DEF Next

\* What a delete relies on is not taken away from it.
LEMMA DeleteInvStep ==
    ASSUME EksInv, [Next]_vars, ShellsInv'
    PROVE  DeleteInv'
<1> USE DEF DeleteInv, NoOrphans, Goto, End, cloudVars, kubeVars
<1>0. pc \in [Command -> {"idle"} \cup CreateStep \cup DeleteStep]
  BY DEF EksInv, TypeOK
<1>1. ASSUME NEW c \in Command, CreateEksCluster(c) PROVE DeleteInv'
  <2>1. goal' # "delete"
    BY <1>1, CreateMoves
  <2>2. \A d \in Command : pc'[d] \notin DeleteStep
    BY <2>1 DEF ShellsInv
  <2>3. NoOrphans'
    <3>1. CASE CreateVpc(c) \/ VpcWait(c) \/ CreateCluster(c) \/ ClusterWait(c)
      BY <3>1 DEF EksInv, CreateVpc, VpcWait, CreateCluster, ClusterWait
    <3>2. CASE CreateWorkers(c) \/ WorkersWait(c) \/ CreateKubeconfig(c)
      BY <3>2 DEF EksInv, CreateWorkers, WorkersWait, CreateKubeconfig
    <3>3. CASE EnableWorkers(c) \/ WaitForTiller(c) \/ CreateDone(c)
      BY <3>3 DEF EksInv, EnableWorkers, WaitForTiller, CreateDone
    <3>4. CASE Install(c)
      BY <3>4 DEF EksInv, Install, MayInstall, Reachable
    <3> QED
      BY <1>1, <3>1, <3>2, <3>3, <3>4 DEF CreateEksCluster
  <2> QED
    BY <2>2, <2>3 DEF DeleteStep
<1>2. ASSUME NEW c \in Command, DeleteStart(c) PROVE DeleteInv'
  <2>1. UNCHANGED <<balanced, vpc, workers, cluster>>
    BY <1>2 DEF DeleteStart
  <2>2. \A d \in Command : pc'[d] \in {"idle", "nginxGone", pc[d]}
    BY <1>0, <1>2 DEF DeleteStart
  <2> QED
    BY <2>1, <2>2 DEF EksInv, DeleteStep
<1>3. ASSUME NEW c \in Command, DeleteEksCluster(c), ~DeleteStart(c) PROVE DeleteInv'
  <2> USE <1>0 DEF EksInv, DeleteStep
  <2>2. CASE DeleteNginx(c)
    BY <2>2 DEF DeleteNginx
  <2>3. CASE CheckServices(c)
    BY <2>3 DEF CheckServices
  <2>4. CASE DeleteWorkers(c)
    BY <2>4 DEF DeleteWorkers, Delete
  <2>5. CASE WorkersGone(c)
    BY <2>5 DEF WorkersGone
  <2>6. CASE DeleteEks(c)
    BY <2>6 DEF DeleteEks
  <2>7. CASE EksGone(c)
    BY <2>7 DEF EksGone
  <2>8. CASE DeleteVpc(c)
    BY <2>8 DEF DeleteVpc, Delete
  <2>9. CASE DeleteDone(c) \/ VpcStays(c)
    BY <2>9 DEF DeleteDone, VpcStays
  <2> QED
    BY <1>3, <2>2, <2>3, <2>4, <2>5, <2>6, <2>7, <2>8, <2>9 DEF DeleteEksCluster
<1>4. ASSUME NEW c \in Command, Crash(c) PROVE DeleteInv'
  BY <1>0, <1>4 DEF Crash, EksInv, DeleteStep
<1>5. CASE Aws
  <2>1. CASE VpcReady \/ WorkersReady \/ ClusterReady
    BY <2>1 DEF VpcReady, WorkersReady, ClusterReady, EksInv
  <2>2. CASE WorkersDeleted \/ ClusterDeleted \/ VpcDeleted
    BY <2>2 DEF WorkersDeleted, ClusterDeleted, VpcDeleted, EksInv
  <2> QED
    BY <1>5, <2>1, <2>2 DEF Aws
<1>6. CASE TillerReady
  BY <1>6 DEF TillerReady, EksInv
<1>7. CASE SyeService
  BY <1>7 DEF SyeService, Idle, EksInv, DeleteStep
<1>8. CASE Settled \/ UNCHANGED vars
  BY <1>8 DEF Settled, vars, EksInv
<1> QED
  BY <1>1, <1>2, <1>3, <1>4, <1>5, <1>6, <1>7, <1>8 DEF Next

\* Nothing is left half deleted by a command that only creates, or when the
\* operator sees that nothing is left.
LEMMA NotDeletingStep ==
    ASSUME EksInv, [Next]_vars
    PROVE  NotDeleting'
<1> USE DEF NotDeleting, Goto, End, cloudVars, kubeVars
<1>1. ASSUME NEW c \in Command, CreateEksCluster(c) PROVE NotDeleting'
  <2>0. goal # "delete"
    BY <1>1, CreateMoves
  <2> USE <2>0 DEF EksInv
  <2>1. CASE CreateVpc(c)
    BY <2>1 DEF CreateVpc, Create
  <2>2. CASE CreateCluster(c)
    BY <2>2 DEF CreateCluster
  <2>3. CASE CreateWorkers(c)
    BY <2>3 DEF CreateWorkers, Create
  <2>4. CASE VpcWait(c) \/ ClusterWait(c) \/ WorkersWait(c) \/ CreateKubeconfig(c)
    BY <2>4 DEF VpcWait, ClusterWait, WorkersWait, CreateKubeconfig
  <2>5. CASE EnableWorkers(c) \/ WaitForTiller(c) \/ CreateDone(c)
    BY <2>5 DEF EnableWorkers, WaitForTiller, CreateDone
  <2>6. CASE Install(c)
    BY <2>6 DEF Install
  <2> QED
    BY <1>1, <2>1, <2>2, <2>3, <2>4, <2>5, <2>6 DEF CreateEksCluster
<1>2. ASSUME NEW c \in Command, DeleteStart(c) PROVE NotDeleting'
  BY <1>2 DEF DeleteStart
<1>3. ASSUME NEW c \in Command, DeleteEksCluster(c), ~DeleteStart(c) PROVE NotDeleting'
  <2>1. goal' = "delete"
    BY <1>3, DeleteMoves DEF EksInv, ShellsInv
  <2> QED
    BY <2>1
<1>4. ASSUME NEW c \in Command, Crash(c) PROVE NotDeleting'
  BY <1>4 DEF Crash, EksInv
<1>5. CASE Aws
  <2>1. CASE VpcReady \/ WorkersReady \/ ClusterReady
    BY <2>1 DEF VpcReady, WorkersReady, ClusterReady, EksInv
  <2>2. CASE WorkersDeleted \/ ClusterDeleted \/ VpcDeleted
    BY <2>2 DEF WorkersDeleted, ClusterDeleted, VpcDeleted, EksInv
  <2> QED
    BY <1>5, <2>1, <2>2 DEF Aws
<1>6. CASE TillerReady \/ SyeService \/ Settled \/ UNCHANGED vars
  BY <1>6 DEF TillerReady, SyeService, Settled, vars, EksInv
<1> QED
  BY <1>1, <1>2, <1>3, <1>4, <1>5, <1>6 DEF Next

\* What creates rely on of the cluster does not change while they run.
Stable ==
    /\ vpc = "complete" => vpc' = "complete"
    /\ workers = "complete" => workers' = "complete"
    /\ cluster = "active" => cluster' = "active"
    /\ cluster = "active" /\ kubeconfig => kubeconfig'
    /\ authorized => authorized'
    /\ tiller => tiller'
    /\ addons \subseteq addons'

\* In a stable step a shell keeps its part of CreateInv.
LEMMA StableKeeps ==
    ASSUME NEW c \in Command, CreateInvOf(c), Stable, pc'[c] = pc[c]
    PROVE  CreateInvOf(c)'
<1>1. pc[c] \in CreateStep \ {"vpcWait", "cluster"} => vpc' = "complete"
  BY DEF CreateInvOf, Stable
<1>2. pc[c] \in Late => /\ workers' = "complete" /\ cluster' = "active"
                        /\ kubeconfig' /\ authorized'
  BY DEF CreateInvOf, Stable
<1>3. pc[c] \in Later => tiller'
  BY DEF CreateInvOf, Stable
<1>4. \A i \in 1..7 : pc[c] = Addon[i] => Before(i) \subseteq addons'
  BY DEF CreateInvOf, Stable
<1>5. pc[c] = "tillerWait" => Before(3) \subseteq addons'
  BY DEF CreateInvOf, Stable
<1>6. pc[c] = "file" => Addons \subseteq addons'
  BY DEF CreateInvOf, Stable
<1> QED
  BY <1>1, <1>2, <1>3, <1>4, <1>5, <1>6 DEF CreateInvOf, Late, Later, CreateStep, Addons, Before, Addon

\* A shell that is not at a step of a create has nothing to rely on.
LEMMA IdleKeeps ==
    ASSUME NEW c \in Command, pc[c] \notin CreateStep
    PROVE  CreateInvOf(c)
BY AddonOrder, AddonSet DEF CreateInvOf, CreateStep, Late, Later, Addons

\* Every step of a create is stable, and so is what happens outside meanwhile.
LEMMA CreateIsStable ==
    ASSUME EksInv, goal # "delete",
           \/ \E c \in Command : CreateEksCluster(c) \/ Crash(c)
           \/ Aws \/ TillerReady \/ SyeService \/ UNCHANGED vars
    PROVE  Stable
<1> USE DEF Stable, Goto, End, cloudVars, kubeVars
<1>1. ASSUME NEW c \in Command, CreateEksCluster(c) PROVE Stable
  <2>1. CASE CreateVpc(c)
    BY <2>1 DEF CreateVpc, Create
  <2>2. CASE CreateCluster(c)
    BY <2>2 DEF CreateCluster
  <2>3. CASE CreateWorkers(c)
    BY <2>3 DEF CreateWorkers, Create
  <2>4. CASE CreateKubeconfig(c)
    BY <2>4 DEF CreateKubeconfig
  <2>5. CASE VpcWait(c) \/ ClusterWait(c) \/ WorkersWait(c)
    BY <2>5 DEF VpcWait, ClusterWait, WorkersWait
  <2>6. CASE EnableWorkers(c) \/ WaitForTiller(c) \/ CreateDone(c)
    BY <2>6 DEF EnableWorkers, WaitForTiller, CreateDone
  <2>7. CASE Install(c)
    BY <2>7 DEF Install
  <2> QED
    BY <1>1, <2>1, <2>2, <2>3, <2>4, <2>5, <2>6, <2>7 DEF CreateEksCluster
<1>2. ASSUME NEW c \in Command, Crash(c) PROVE Stable
  BY <1>2 DEF Crash
<1>3. CASE Aws
  <2>1. vpc # "deleting" /\ workers # "deleting" /\ cluster # "deleting"
    BY DEF EksInv, NotDeleting
  <2>2. CASE VpcReady \/ WorkersReady \/ ClusterReady
    BY <2>2 DEF VpcReady, WorkersReady, ClusterReady
  <2>3. CASE WorkersDeleted \/ ClusterDeleted \/ VpcDeleted
    BY <2>1, <2>3 DEF WorkersDeleted, ClusterDeleted, VpcDeleted
  <2> QED
    BY <1>3, <2>2, <2>3 DEF Aws
<1>4. CASE TillerReady
  BY <1>4 DEF TillerReady
<1>5. CASE SyeService
  BY <1>5 DEF SyeService
<1>6. CASE UNCHANGED vars
  BY <1>6 DEF vars
<1> QED
  BY <1>1, <1>2, <1>3, <1>4, <1>5, <1>6

\* A step of a create up to the workers gives its shell what it relies on next.
LEMMA CreateCloud ==
    ASSUME EksInv, NEW c \in Command, Stable,
           \/ CreateVpc(c) \/ VpcWait(c) \/ CreateCluster(c) \/ ClusterWait(c)
           \/ CreateWorkers(c) \/ WorkersWait(c) \/ CreateKubeconfig(c)
    PROVE  CreateInvOf(c)'
<1> USE DEF Goto, End, cloudVars, kubeVars
<1>0. pc \in [Command -> {"idle"} \cup CreateStep \cup DeleteStep]
  BY DEF EksInv, TypeOK
<1>1. ASSUME pc'[c] \in {"idle", "vpcWait", "cluster"} PROVE CreateInvOf(c)'
  <2>1. pc'[c] \in CreateStep => pc'[c] \in {"vpcWait", "cluster"}
    BY <1>1, StepsDiffer
  <2>2. \A i \in 1..7 : pc'[c] # Addon[i]
    BY <1>1, AddonOrder
  <2>3. pc'[c] \notin {"tillerWait", "file"} /\ pc'[c] \notin Late /\ pc'[c] \notin Later
    BY <1>1, AddonOrder, AddonSet DEF Late, Later
  <2> QED
    BY <2>1, <2>2, <2>3 DEF CreateInvOf
<1>2. ASSUME pc'[c] \in {"clusterWait", "workers", "workersWait", "kubeconfig", "authorize"},
             vpc' = "complete"
      PROVE  CreateInvOf(c)'
  BY <1>2, AddonOrder, AddonSet DEF CreateInvOf, Late, Later, Addons
<1>3. CreateInvOf(c)
  BY DEF EksInv, CreateInv
<1>4. CASE CreateVpc(c)
  BY <1>0, <1>1, <1>4 DEF CreateVpc
<1>5. CASE VpcWait(c)
  BY <1>0, <1>1, <1>5 DEF VpcWait
<1>6. CASE CreateCluster(c)
  <2>1. goal # "delete"
    BY <1>6 DEF CreateCluster, CreateStep, EksInv, ShellsInv
  <2>2. HasOutputs(vpc) => vpc = "complete"
    BY <2>1 DEF HasOutputs, EksInv, NotDeleting
  <2> QED
    BY <1>0, <1>1, <1>2, <1>6, <2>2 DEF CreateCluster
<1>7. CASE ClusterWait(c) \/ CreateWorkers(c) \/ WorkersWait(c) \/ CreateKubeconfig(c)
  <2>1. pc[c] \in {"clusterWait", "workers", "workersWait", "kubeconfig"}
    BY <1>7 DEF ClusterWait, CreateWorkers, WorkersWait, CreateKubeconfig
  <2>2. vpc' = "complete"
    BY <1>3, <2>1 DEF CreateInvOf, CreateStep, Stable
  <2>3. pc'[c] \in {"idle", "workers", "workersWait", "kubeconfig", "authorize"}
    BY <1>0, <1>7 DEF ClusterWait, CreateWorkers, WorkersWait, CreateKubeconfig
  <2> QED
    BY <1>1, <1>2, <2>2, <2>3
<1> QED
  BY <1>4, <1>5, <1>6, <1>7

\* So does a step of a create from there to its end.
LEMMA CreateKubernetes ==
    ASSUME EksInv, NEW c \in Command, Stable,
           EnableWorkers(c) \/ Install(c) \/ WaitForTiller(c) \/ CreateDone(c)
    PROVE  CreateInvOf(c)'
<1> USE DEF Goto, End, cloudVars, kubeVars
<1>0. pc \in [Command -> {"idle"} \cup CreateStep \cup DeleteStep]
  BY DEF EksInv, TypeOK
<1>1. ASSUME pc'[c] = "idle" PROVE CreateInvOf(c)'
  BY <1>1, AddonOrder, AddonSet DEF CreateInvOf, CreateStep, Late, Later, Addons
<1>2. CreateInvOf(c)
  BY DEF EksInv, CreateInv
<1>3. CASE EnableWorkers(c)
  <2>1. goal # "delete" /\ vpc = "complete"
    BY <1>2, <1>3 DEF EnableWorkers, CreateStep, EksInv, ShellsInv, CreateInvOf
  <2>2. HasOutputs(workers) => workers = "complete"
    BY <2>1 DEF HasOutputs, EksInv, NotDeleting
  <2>3. CASE pc'[c] = "rbac"
    <3>1. vpc' = "complete" /\ workers' = "complete" /\ cluster' = "active" /\ kubeconfig' /\ authorized'
      BY <1>0, <1>3, <2>1, <2>2, <2>3 DEF EnableWorkers, Reachable
    <3>2. \A i \in 1..7 : Addon[i] = "rbac" => Before(i) = {}
      BY AddonOrder, BeforeEnds
    <3> QED
      BY <2>3, <3>1, <3>2, AddonOrder DEF CreateInvOf, Later, Late
  <2> QED
    BY <1>0, <1>1, <1>3, <2>3, AddonOrder DEF EnableWorkers
<1>4. CASE Install(c)
  <2>1. PICK i \in 1..7 :
            /\ pc[c] = Addon[i]
            /\ \/ /\ MayInstall(Addon[i])
                  /\ addons' = addons \cup {Addon[i]}
                  /\ Goto(c, IF Addon[i] = "tiller" THEN "tillerWait"
                             ELSE IF i = 7 THEN "file" ELSE Addon[i + 1])
               \/ End(c)
    BY <1>4, AddonOrder DEF Install
  <2>2. CASE pc'[c] = "idle"
    BY <1>1, <2>2
  <2>3. CASE pc'[c] # "idle"
    <3>1. /\ MayInstall(Addon[i]) /\ addons' = addons \cup {Addon[i]}
          /\ pc'[c] = IF Addon[i] = "tiller" THEN "tillerWait"
                      ELSE IF i = 7 THEN "file" ELSE Addon[i + 1]
      BY <1>0, <2>1, <2>3
    <3>2. Addon[i] \in Addons
      BY AddonOrder DEF Addons
    <3>3. vpc' = "complete" /\ workers' = "complete" /\ cluster' = "active" /\ kubeconfig' /\ authorized'
      <4>1. pc[c] \in Late /\ pc[c] \in CreateStep
        BY <2>1, <3>2 DEF Late, CreateStep
      <4>2. pc[c] \notin {"vpcWait", "cluster"}
        BY <2>1, AddonOrder
      <4>3. vpc = "complete" /\ workers = "complete" /\ cluster = "active" /\ kubeconfig /\ authorized
        BY <1>2, <4>1, <4>2 DEF CreateInvOf
      <4> QED
        BY <4>3 DEF Stable
    <3>4. Before(i + 1) \subseteq addons'
      BY <1>2, <2>1, <3>1, BeforeNext DEF CreateInvOf
    <3>5. CASE i = 7
      <4>1. pc'[c] = "file" /\ Addons \subseteq addons'
        BY <3>1, <3>4, <3>5, AddonOrder, BeforeEnds
      <4>2. tiller'
        BY <3>1, <3>5, AddonOrder DEF MayInstall, Stable
      <4> QED
        BY <3>3, <4>1, <4>2, AddonOrder DEF CreateInvOf
    <3>6. CASE i = 2
      <4>1. pc'[c] = "tillerWait" /\ Before(3) \subseteq addons'
        BY <3>1, <3>4, <3>6, AddonOrder
      <4> QED
        BY <3>3, <4>1, AddonOrder DEF CreateInvOf, Later
    <3>7. CASE i \notin {2, 7}
      <4>1. pc'[c] = Addon[i + 1] /\ i + 1 \in 1..7
        BY <3>1, <3>7, AddonOrder
      <4>2. \A j \in 1..7 : Addon[j] = Addon[i + 1] => j = i + 1
        BY <4>1, AddonOrder
      <4>3. Addon[i + 1] \in Later => tiller'
        <5>1. CASE i = 1
          BY <5>1, AddonOrder DEF Later
        <5>2. CASE i = 6
          BY <1>2, <2>1, <5>2, AddonOrder, AddonSet DEF CreateInvOf, Later, Late, Stable
        <5>3. CASE i \in {3, 4, 5}
          BY <3>1, <5>3, AddonOrder DEF MayInstall, Stable
        <5> QED
          BY <3>7, <5>1, <5>2, <5>3
      <4> QED
        BY <3>3, <3>4, <4>1, <4>2, <4>3, AddonOrder DEF CreateInvOf
    <3> QED
      BY <3>5, <3>6, <3>7
  <2> QED
    BY <2>2, <2>3
<1>5. CASE WaitForTiller(c)
  <2>1. CASE pc'[c] = "nginx"
    <3>1. tiller'
      BY <1>0, <1>5, <2>1 DEF WaitForTiller, Stable
    <3>2. /\ vpc' = "complete" /\ workers' = "complete" /\ cluster' = "active" /\ kubeconfig' /\ authorized'
          /\ Before(3) \subseteq addons'
      BY <1>2, <1>5 DEF WaitForTiller, CreateInvOf, CreateStep, Late, Stable
    <3>3. \A j \in 1..7 : Addon[j] = "nginx" => j = 3
      BY AddonOrder
    <3> QED
      BY <2>1, <3>1, <3>2, <3>3, AddonOrder DEF CreateInvOf
  <2> QED
    BY <1>0, <1>1, <1>5, <2>1 DEF WaitForTiller
<1>6. CASE CreateDone(c)
  BY <1>0, <1>1, <1>6 DEF CreateDone
<1> QED
  BY <1>3, <1>4, <1>5, <1>6

\* What creates rely on is not taken away from them.
LEMMA CreateInvStep ==
    ASSUME EksInv, [Next]_vars, ShellsInv'
    PROVE  CreateInv'
<1>0. pc \in [Command -> {"idle"} \cup CreateStep \cup DeleteStep]
  BY DEF EksInv, TypeOK
<1>1. ASSUME \A c \in Command : pc'[c] \notin CreateStep PROVE CreateInv'
  BY <1>1, AddonOrder, AddonSet DEF CreateInv, CreateInvOf, CreateStep, Late, Later, Addons
<1>2. CASE goal' = "delete"
  BY <1>1, <1>2 DEF ShellsInv
<1>3. CASE goal' # "delete"
  <2>1. ASSUME NEW c \in Command, CreateEksCluster(c) PROVE CreateInv'
    <3>1. Stable
      BY <2>1, CreateMoves, CreateIsStable
    <3>2. \A d \in Command \ {c} : pc'[d] = pc[d]
      BY <1>0, <2>1, CreateMoves
    <3>3. CreateInvOf(c)'
      BY <2>1, <3>1, CreateCloud, CreateKubernetes DEF CreateEksCluster
    <3>4. ASSUME NEW d \in Command, d # c PROVE CreateInvOf(d)'
      BY <3>1, <3>2, <3>4, StableKeeps DEF EksInv, CreateInv
    <3> QED
      BY <3>3, <3>4 DEF CreateInv
  <2>2. ASSUME NEW c \in Command, DeleteEksCluster(c) PROVE CreateInv'
    <3>1. ~DeleteStart(c)
      BY <1>3 DEF DeleteStart
    <3>2. goal = "delete"
      BY <2>2, <3>1, DeleteMoves DEF EksInv, ShellsInv
    <3>3. \A d \in Command : pc'[d] \notin CreateStep
      BY <1>0, <2>2, <3>1, <3>2, DeleteMoves, NoCreator, StepsDiffer
    <3> QED
      BY <1>1, <3>3
  <2>3. ASSUME NEW c \in Command, Crash(c) PROVE CreateInv'
    <3>1. Stable
      BY <1>3, <2>3, CreateIsStable DEF Crash
    <3>2. pc' = [pc EXCEPT ![c] = "idle"]
      BY <2>3 DEF Crash, End, Goto
    <3>3. ASSUME NEW d \in Command, pc'[d] = pc[d] PROVE CreateInvOf(d)'
      BY <3>1, <3>3, StableKeeps DEF EksInv, CreateInv
    <3>4. ASSUME NEW d \in Command, pc'[d] = "idle" PROVE CreateInvOf(d)'
      BY <3>4, AddonOrder, AddonSet DEF CreateInvOf, CreateStep, Late, Later, Addons
    <3> QED
      BY <1>0, <3>2, <3>3, <3>4 DEF CreateInv
  <2>4. CASE Aws \/ TillerReady \/ SyeService \/ UNCHANGED vars
    <3>1. Stable /\ pc' = pc
      BY <1>3, <2>4, WorldMoves, CreateIsStable
    <3> QED
      BY <3>1, StableKeeps DEF EksInv, CreateInv
  <2>5. CASE Settled
    BY <1>1, <2>5, StepsDiffer DEF Settled, Idle
  <2> QED
    BY <2>1, <2>2, <2>3, <2>4, <2>5 DEF Next
<1> QED
  BY <1>2, <1>3

\* The invariant is inductive.
LEMMA EksInvariant == Spec => []EksInv
<1>1. EksInv /\ [Next]_vars => EksInv'
  <2> SUFFICES ASSUME EksInv, [Next]_vars PROVE EksInv'
    OBVIOUS
  <2>1. TypeOK' /\ ShellsInv' /\ NotDeleting'
    BY TypeStep, ShellsStep, NotDeletingStep DEF EksInv
  <2> QED
    BY <2>1, DeleteInvStep, CreateInvStep DEF EksInv
<1> QED
  BY <1>1, EksInit, PTL DEF Spec

-------------------------------------------------------------------------------
(* The theorems. *)

\* cluster-delete removes every load balancer before it touches the cluster.
THEOREM NoOrphanedBalancer == Spec => []BalancerInv
<1>1. EksInv => NoOrphans
  BY DEF EksInv, DeleteInv
<1>2. TypeOK /\ NoOrphans => BalancerInv
  BY DEF BalancerInv
<1> QED
  BY <1>1, <1>2, TypeCorrect, EksInvariant, PTL

\* A cluster-create that succeeds has a complete cluster, although it takes
\* whatever already exists for granted.
THEOREM CreateIsComplete == Spec => CreatedMeansReady
<1>1. EksInv /\ [Next]_vars =>
          [\A c \in Command : CreateDone(c) =>
              /\ vpc = "complete" /\ workers = "complete" /\ cluster = "active"
              /\ kubeconfig /\ authorized /\ tiller /\ addons = Addons]_vars
  <2> SUFFICES ASSUME EksInv, NEW c \in Command, CreateDone(c)
               PROVE  /\ vpc = "complete" /\ workers = "complete" /\ cluster = "active"
                      /\ kubeconfig /\ authorized /\ tiller /\ addons = Addons
    OBVIOUS
  <2>1. pc[c] = "file" /\ CreateInvOf(c)
    BY DEF CreateDone, EksInv, CreateInv
  <2>2. "file" \in Later /\ "file" \in Late /\ "file" \in CreateStep
    BY AddonSet DEF Later, Late, CreateStep
  <2> QED
    BY <2>1, <2>2 DEF CreateInvOf, EksInv, TypeOK
<1> QED
  BY <1>1, EksInvariant, PTL DEF Spec, CreatedMeansReady

\* A cluster-delete that succeeds has left no stack and no cluster behind.
THEOREM DeleteIsComplete == Spec => DeletedMeansGone
<1>1. EksInv /\ [Next]_vars =>
          [\A c \in Command : DeleteDone(c) =>
              vpc = "none" /\ workers = "none" /\ cluster = "none"]_vars
  <2> SUFFICES ASSUME EksInv, NEW c \in Command, DeleteDone(c)
               PROVE  vpc = "none" /\ workers = "none" /\ cluster = "none"
    OBVIOUS
  <2>1. pc[c] = "vpcGoneWait"
    BY DEF DeleteDone
  <2> QED
    BY <2>1 DEF DeleteDone, EksInv, DeleteInv
<1> QED
  BY <1>1, EksInvariant, PTL DEF Spec, DeletedMeansGone
================================================================================
