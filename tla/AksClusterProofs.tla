--------------------------- MODULE AksClusterProofs ---------------------------
(***************************************************************************)
(* Proofs about AksCluster, for any number of shells, node pools and       *)
(* passwords and any number of faults.                                     *)
(***************************************************************************)
EXTENDS AksCluster, TLAPS

-------------------------------------------------------------------------------
(* What a command may rely on. *)

\* Other shells than the owner's only look after node pools.
Shells ==
    \A c \in Command :
        /\ ~Idle(c) /\ c \in Owner => job[c].whole
        /\ c \notin Owner => ~job[c].whole /\ job[c].step \in {"idle", "list", "patch", "upgrade"}

\* The owner's commands do not overlap.
OneOwner == \A c, d \in Owner : ~Idle(c) /\ ~Idle(d) => c = d

\* region-prepare and cluster-create rely on what they have found or made.
Prepared ==
    \A c \in Command :
        /\ At(c, "vnet") => "group" \in region
        /\ At(c, "contributor") => listed
        /\ At(c, "cluster") => password # None

\* The password that cluster-create is given is that of the service principal, and so is
\* the one that the cluster has, unless something does not match.
PasswordsMatch ==
    ~mismatch => /\ sp \in {None, password}
                 /\ cluster # "none" => secret = sp

\* The principal goes after the cluster.
GroupGoneFirst ==
    \A c \in Command : job[c].step \in {"spGone", "appGone"} => cluster = "none" \/ mismatch

\* The inductive invariant of the passwords.
SecretIInv == TypeOK /\ Shells /\ OneOwner /\ Prepared /\ PasswordsMatch /\ GroupGoneFirst

\* A command that deletes and was not refused has removed all that it is past of.
DeleteProgress ==
    \A c \in Command : ~job[c].refused =>
        /\ At(c, "subnetGone") => cluster = "none"
        /\ At(c, "deleted") => cluster = "none" /\ ~subnet
        /\ job[c].step \in {"spGone", "appGone"} => cluster = "none" /\ region \subseteq {"app"}

\* The addons that cluster-create has installed before it comes to a step.
Before == [tiller |-> {"rbac"}, tillerWait |-> {"rbac", "tiller"}, nginx |-> {"rbac", "tiller"},
           operator |-> {"rbac", "tiller", "nginx"},
           prometheus |-> {"rbac", "tiller", "nginx", "operator"},
           adapter |-> {"rbac", "tiller", "nginx", "operator", "prometheus"},
           created |-> {"rbac", "tiller", "nginx", "operator", "prometheus", "adapter"}]

AfterPorts == {"download", "rbac"} \cup DOMAIN Before
AfterIps == {"ssp", "broker", "ssh"} \cup AfterPorts
AfterRoles == {"list", "patch", "upgrade"} \cup AfterIps

\* A cluster that is neither gone nor going has all that cluster-create is past of,
\* although it may have been found in any state; from the first addon on it is ready.
CreateProgress ==
    \A c \in Owner :
        /\ job[c].step \in AfterRoles => "subnet" \in roles
        /\ cluster \in {"creating", "ready", "failed"} =>
               /\ job[c].step \in {"subnetRole"} \cup AfterRoles => "nodes" \in roles
               /\ job[c].step \in {"broker", "ssh"} \cup AfterPorts => "ssp" \in ports
               /\ job[c].step \in {"ssh"} \cup AfterPorts => "broker" \in ports
        /\ job[c].step \in DOMAIN Before =>
               /\ cluster = "ready" /\ kubeconfig /\ Before[job[c].step] \subseteq addons
               /\ job[c].step \notin {"tiller", "tillerWait"} => tiller

\* Whoever has taken a pool from what is left to do has changed its scale set.
PatchProgress ==
    \A c \in Command :
        /\ job[c].of \subseteq pools
        /\ job[c].step \in {"patch", "upgrade"} => job[c].of \ job[c].todo \subseteq config

\* Where a scale set has been changed, somebody upgrades the VMs, or died before.
BareUpgraded ==
    \A p \in (bare \cap config) \ lost : \E d \in Command : At(d, "upgrade") /\ job[d].pool = p

\* The inductive invariant.
AksInv ==
    SecretIInv /\ DeleteProgress /\ CreateProgress /\ PatchProgress /\ BareUpgraded

-------------------------------------------------------------------------------
(* Lemmas about the steps of commands. *)

\* The steps of all commands.
Step == {"idle"} \cup RegionStep \cup ClusterStep \cup DeleteStep

\* What a shell does, as in TypeOK.
Job == [step : Step, whole : BOOLEAN, of : SUBSET Pool, todo : SUBSET Pool,
        pool : Pool \cup {None}, refused : BOOLEAN]

\* The rest of TypeOK.
World ==
    /\ region \subseteq {"group", "vnet", "app"} /\ ("vnet" \in region => "group" \in region)
    /\ sp \in Password \cup {None} /\ password \in Password \cup {None}
    /\ listed \in BOOLEAN /\ (listed => sp # None)
    /\ roles \subseteq {"group", "nodes", "subnet"} /\ (roles # {} => listed)
    /\ subnet \in BOOLEAN /\ (subnet => "vnet" \in region)
    /\ cluster \in {"none", "creating", "ready", "failed", "deleting"}
    /\ (cluster # "none" => subnet)
    /\ secret \in Password \cup {None} /\ (secret = None <=> cluster = "none")
    /\ nsg \in BOOLEAN /\ ports \subseteq {"ssp", "broker", "ssh"}
    /\ pools \subseteq Pool /\ config \subseteq pools /\ bare \subseteq pools /\ lost \subseteq bare
    /\ kubeconfig \in BOOLEAN /\ addons \subseteq Addons /\ tiller \in BOOLEAN
    /\ mismatch \in BOOLEAN
    /\ goal \in {"none", "create", "delete"}
    /\ faults \in 0..MaxFaults

\* The addons, as a set.
LEMMA AddonSet ==
    /\ DOMAIN Addon = 1..6 /\ Len(Addon) = 6
    /\ Addon[1] = "rbac" /\ Addon[2] = "tiller" /\ Addon[3] = "nginx"
    /\ Addon[4] = "operator" /\ Addon[5] = "prometheus" /\ Addon[6] = "adapter"
    /\ Addons = {"rbac", "tiller", "nginx", "operator", "prometheus", "adapter"}
<1>1. DOMAIN Addon = 1..6 /\ Len(Addon) = 6
  BY DEF Addon
<1>2. /\ Addon[1] = "rbac" /\ Addon[2] = "tiller" /\ Addon[3] = "nginx"
      /\ Addon[4] = "operator" /\ Addon[5] = "prometheus" /\ Addon[6] = "adapter"
  BY DEF Addon
<1>3. Addons = {Addon[i] : i \in 1..6}
  BY <1>1 DEF Addons, ToSet
<1> QED
  BY <1>1, <1>2, <1>3

\* The steps by name.
LEMMA StepNames ==
    Step = {"idle", "group", "vnet", "app", "sp", "appear", "contributor",
            "groupGone", "spGone", "appGone",
            "cluster", "provision", "nodeRole", "subnetRole", "list", "patch", "upgrade",
            "ssp", "broker", "ssh", "download", "tillerWait", "created",
            "rbac", "tiller", "nginx", "operator", "prometheus", "adapter",
            "clusterGone", "subnetGone", "deleted"}
BY AddonSet DEF Step, RegionStep, ClusterStep, DeleteStep

\* A shell that does nothing has a job too, and so has one that begins.
LEMMA NoJobType ==
    /\ NoJob \in Job
    /\ \A step \in Step, whole \in BOOLEAN : [NoJob EXCEPT !.step = step, !.whole = whole] \in Job
<1>1. NoJob \in Job
  BY StepNames DEF Job, NoJob
<1>2. ASSUME NEW step \in Step, NEW whole \in BOOLEAN
      PROVE  [NoJob EXCEPT !.step = step, !.whole = whole] \in Job
  BY <1>2, <1>1 DEF Job
<1> QED
  BY <1>1, <1>2

\* The operators that give a shell its next step keep the jobs jobs.
LEMMA NextJob ==
    ASSUME job \in [Command -> Job], NEW c \in Command, NEW step \in Step
    PROVE  /\ End(c) => job' \in [Command -> Job]
           /\ Goto(c, step) => job' \in [Command -> Job]
           /\ c \in Owner /\ Begin(c, step) => job' \in [Command -> Job]
           /\ Refused(c, step) => job' \in [Command -> Job]
<1>1. End(c) => job' \in [Command -> Job]
  BY NoJobType DEF End
<1>2. Goto(c, step) => job' \in [Command -> Job]
  BY DEF Goto, Job
<1>3. c \in Owner /\ Begin(c, step) => job' \in [Command -> Job]
  <2>1. [NoJob EXCEPT !.step = step, !.whole = TRUE] \in Job
    BY NoJobType DEF Job
  <2>2. c \in Owner /\ Begin(c, step) =>
            job' = [job EXCEPT ![c] = [NoJob EXCEPT !.step = step, !.whole = TRUE]]
    BY DEF Begin
  <2> QED
    BY <2>1, <2>2
<1>4. Refused(c, step) => job' \in [Command -> Job]
  <2>1. [job[c] EXCEPT !.step = step, !.refused = TRUE] \in Job
    BY DEF Job
  <2>2. Refused(c, step) => job' = [job EXCEPT ![c] = [job[c] EXCEPT !.step = step, !.refused = TRUE]]
    BY DEF Refused, Job
  <2> QED
    BY <2>1, <2>2
<1> QED
  BY <1>1, <1>2, <1>3, <1>4

\* Pools that are gone are forgotten, and nothing else.
LEMMA ForgetJob ==
    ASSUME NEW gone, NEW next \in [Command -> Job], Forget(gone, next)
    PROVE  /\ job' \in [Command -> Job]
           /\ \A d \in Command :
                  /\ job'[d].step = next[d].step /\ job'[d].whole = next[d].whole
                  /\ job'[d].todo = next[d].todo /\ job'[d].pool = next[d].pool
                  /\ job'[d].refused = next[d].refused
                  /\ job'[d].of = next[d].of \ gone
BY DEF Forget, Job

\* Every shell keeps a job.
LEMMA JobStep == TypeOK /\ [Next]_vars => job' \in [Command -> Job]
<1> SUFFICES ASSUME TypeOK, [Next]_vars PROVE job' \in [Command -> Job]
  OBVIOUS
<1>a. job \in [Command -> Job]
  BY DEF TypeOK, Job, Step
<1>b. /\ {"idle", "vnet", "app", "sp", "appear", "contributor", "groupGone", "spGone", "appGone"} \subseteq Step
      /\ {"cluster", "provision", "nodeRole", "subnetRole", "list", "patch", "upgrade"} \subseteq Step
      /\ {"ssp", "broker", "ssh", "download", "tillerWait", "created"} \subseteq Step
      /\ {"rbac", "tiller", "nginx", "operator", "prometheus", "adapter"} \subseteq Step
      /\ {"clusterGone", "subnetGone", "deleted"} \subseteq Step
  BY StepNames
<1>c. pools \subseteq Pool
  BY DEF TypeOK
<1>1. ASSUME NEW c \in Command, PrepareStart(c) PROVE job' \in [Command -> Job]
  BY <1>1, <1>a, <1>b, <1>c, NextJob DEF PrepareStart, OwnerIdle
<1>2. ASSUME NEW c \in Command, CreateVnet(c) PROVE job' \in [Command -> Job]
  BY <1>2, <1>a, <1>b, <1>c, NextJob DEF CreateVnet
<1>3. ASSUME NEW c \in Command, CreateAdApplication(c) PROVE job' \in [Command -> Job]
  BY <1>3, <1>a, <1>b, <1>c, NextJob DEF CreateAdApplication
<1>4. ASSUME NEW c \in Command, CreateServicePrincipal(c) PROVE job' \in [Command -> Job]
  BY <1>4, <1>a, <1>b, <1>c, NextJob DEF CreateServicePrincipal
<1>5. ASSUME NEW c \in Command, ServicePrincipalAppeared(c) PROVE job' \in [Command -> Job]
  BY <1>5, <1>a, <1>b, <1>c, NextJob DEF ServicePrincipalAppeared
<1>6. ASSUME NEW c \in Command, PrepareDone(c) PROVE job' \in [Command -> Job]
  BY <1>6, <1>a, <1>b, <1>c, NextJob DEF PrepareDone
<1>7. ASSUME NEW c \in Command, CleanupStart(c) PROVE job' \in [Command -> Job]
  BY <1>7, <1>a, <1>b, <1>c, NextJob DEF CleanupStart, OwnerIdle
<1>8. ASSUME NEW c \in Command, DeleteResourceGroup(c) PROVE job' \in [Command -> Job]
  <2>1. CASE Refused(c, "spGone")
    BY <2>1, <1>a, <1>b, NextJob
  <2>2. CASE Forget(pools, [job EXCEPT ![c].step = "spGone"])
    <3> DEFINE next == [job EXCEPT ![c].step = "spGone"]
    <3>1. next \in [Command -> Job]
      BY <1>a, <1>b DEF Job
    <3> HIDE DEF next
    <3> QED
      BY <2>2, <3>1, ForgetJob DEF next
  <2> QED
    BY <1>8, <2>1, <2>2 DEF DeleteResourceGroup
<1>9. ASSUME NEW c \in Command, DeleteServicePrincipal(c) PROVE job' \in [Command -> Job]
  BY <1>9, <1>a, <1>b, <1>c, NextJob DEF DeleteServicePrincipal
<1>10. ASSUME NEW c \in Command, CleanupDone(c) PROVE job' \in [Command -> Job]
  BY <1>10, <1>a, <1>b, <1>c, NextJob DEF CleanupDone
<1>11. ASSUME NEW c \in Command, CreateSubnet(c) PROVE job' \in [Command -> Job]
  BY <1>11, <1>a, <1>b, <1>c, NextJob DEF CreateSubnet, OwnerIdle
<1>12. ASSUME NEW c \in Command, CreateCluster(c) PROVE job' \in [Command -> Job]
  BY <1>12, <1>a, <1>b, <1>c, NextJob DEF CreateCluster
<1>13. ASSUME NEW c \in Command, Provisioned(c) PROVE job' \in [Command -> Job]
  BY <1>13, <1>a, <1>b, <1>c, NextJob DEF Provisioned, GotoIf
<1>14. ASSUME NEW c \in Command, AddCredentials(c) PROVE job' \in [Command -> Job]
  BY <1>14, <1>a, <1>b, <1>c, NextJob DEF AddCredentials, GotoIf
<1>15. ASSUME NEW c \in Command, OpenPortInNsg(c) PROVE job' \in [Command -> Job]
  BY <1>15, <1>a, <1>b, <1>c, NextJob DEF OpenPortInNsg
<1>16. ASSUME NEW c \in Command, DownloadCredentials(c) PROVE job' \in [Command -> Job]
  BY <1>16, <1>a, <1>b, <1>c, NextJob, AddonSet DEF DownloadCredentials, GotoIf
<1>17. ASSUME NEW c \in Command, Install(c) PROVE job' \in [Command -> Job]
  <2>1. PICK i \in 1..6 :
              GotoIf(c, MayInstall(Addon[i]),
                     IF Addon[i] = "tiller" THEN "tillerWait"
                     ELSE IF i = 6 THEN "created" ELSE Addon[i + 1])
    BY <1>17, AddonSet DEF Install
  <2>2. (IF Addon[i] = "tiller" THEN "tillerWait"
        ELSE IF i = 6 THEN "created" ELSE Addon[i + 1]) \in Step
    BY AddonSet, <1>b
  <2> QED
    BY <2>1, <2>2, <1>a, <1>b, NextJob DEF GotoIf
<1>18. ASSUME NEW c \in Command, WaitForTiller(c) PROVE job' \in [Command -> Job]
  BY <1>18, <1>a, <1>b, <1>c, NextJob DEF WaitForTiller, GotoIf
<1>19. ASSUME NEW c \in Command, CreateDone(c) PROVE job' \in [Command -> Job]
  BY <1>19, <1>a, <1>b, <1>c, NextJob DEF CreateDone
<1>20. ASSUME NEW c \in Command, DeleteStart(c) PROVE job' \in [Command -> Job]
  BY <1>20, <1>a, <1>b, <1>c, NextJob DEF DeleteStart, OwnerIdle
<1>21. ASSUME NEW c \in Command, DeleteCluster(c) PROVE job' \in [Command -> Job]
  BY <1>21, <1>a, <1>b, <1>c, NextJob DEF DeleteCluster
<1>22. ASSUME NEW c \in Command, DeleteSubnet(c) PROVE job' \in [Command -> Job]
  BY <1>22, <1>a, <1>b, <1>c, NextJob DEF DeleteSubnet
<1>23. ASSUME NEW c \in Command, DeleteDone(c) PROVE job' \in [Command -> Job]
  BY <1>23, <1>a, <1>b, <1>c, NextJob DEF DeleteDone
<1>24. ASSUME NEW c \in Command, c \notin Owner, AddNodePool(c) PROVE job' \in [Command -> Job]
  BY <1>24, <1>a, <1>b, <1>c DEF AddNodePool, NoJob, Job
<1>25. ASSUME NEW c \in Command, c \notin Owner, DeleteNodePool(c) PROVE job' \in [Command -> Job]
  <2>1. PICK p \in pools : Forget({p}, job)
    BY <1>25 DEF DeleteNodePool
  <2> QED
    BY <2>1, <1>a, ForgetJob
<1>26. ASSUME NEW c \in Command, c \notin Owner, EnsurePublicIp(c) PROVE job' \in [Command -> Job]
  BY <1>26, <1>a, <1>b, <1>c DEF EnsurePublicIp, NoJob, Job
<1>27. ASSUME NEW c \in Command, ListVmss(c) PROVE job' \in [Command -> Job]
  <2>1. CASE End(c)
    BY <2>1, <1>a, <1>b, NextJob
  <2>2. CASE job' = [job EXCEPT ![c].step = "patch", ![c].of = pools, ![c].todo = pools \ config]
    <3>1. pools \subseteq Pool /\ pools \ config \subseteq Pool
      BY <1>c
    <3>2. [job[c] EXCEPT !.step = "patch", !.of = pools, !.todo = pools \ config] \in Job
      BY <3>1, <1>a, <1>b DEF Job
    <3>3. job' = [job EXCEPT ![c] =
                      [job[c] EXCEPT !.step = "patch", !.of = pools, !.todo = pools \ config]]
      BY <2>2, <1>a DEF Job
    <3> QED
      BY <2>2, <3>1, <3>2, <3>3, <1>a
  <2> QED
    BY <1>27, <2>1, <2>2 DEF ListVmss
<1>28. ASSUME NEW c \in Command, PatchVmss(c) PROVE job' \in [Command -> Job]
  <2>1. CASE End(c)
    BY <2>1, <1>a, <1>b, NextJob
  <2>2. ASSUME NEW p \in pools,
               job' = [job EXCEPT ![c].step = "upgrade", ![c].pool = p, ![c].todo = @ \ {p}]
        PROVE  job' \in [Command -> Job]
    <3>1. [job[c] EXCEPT !.step = "upgrade", !.pool = p, !.todo = @ \ {p}] \in Job
      BY <2>2, <1>a, <1>b, <1>c DEF Job
    <3>2. job' = [job EXCEPT ![c] =
                      [job[c] EXCEPT !.step = "upgrade", !.pool = p, !.todo = @ \ {p}]]
      BY <2>2, <1>a DEF Job
    <3> QED
      BY <3>1, <3>2, <1>a
  <2> QED
    BY <1>28, <2>1, <2>2 DEF PatchVmss
<1>29. ASSUME NEW c \in Command, UpgradeVms(c) PROVE job' \in [Command -> Job]
  BY <1>29, <1>a, <1>b, <1>c, NextJob DEF UpgradeVms, GotoIf
<1>30. ASSUME NEW c \in Command, PublicIpsDone(c) PROVE job' \in [Command -> Job]
  BY <1>30, <1>a, <1>b, <1>c, NextJob DEF PublicIpsDone, GotoIf
<1>31. ASSUME NEW c \in Command, Crash(c) PROVE job' \in [Command -> Job]
  BY <1>31, <1>a, <1>b, <1>c, NextJob DEF Crash
<1>32. CASE ServicePrincipalListed
  BY <1>32, <1>a, <1>b, <1>c DEF ServicePrincipalListed
<1>33. CASE NodesMade
  BY <1>33, <1>a, <1>b, <1>c DEF NodesMade
<1>34. CASE ClusterProvisioned
  BY <1>34, <1>a, <1>b, <1>c DEF ClusterProvisioned
<1>35. CASE ClusterDeleted
  BY <1>35, <1>a, ForgetJob DEF ClusterDeleted
<1>36. CASE TillerReady
  BY <1>36, <1>a, <1>b, <1>c DEF TillerReady
<1>37. CASE UNCHANGED vars
  BY <1>37, <1>a, <1>b, <1>c DEF vars
<1> QED
  BY <1>1, <1>2, <1>3, <1>4, <1>5, <1>6, <1>7, <1>8, <1>9, <1>10, <1>11, <1>12, <1>13, <1>14,
     <1>15, <1>16, <1>17, <1>18, <1>19, <1>20, <1>21, <1>22, <1>23, <1>24, <1>25, <1>26, <1>27,
     <1>28, <1>29, <1>30, <1>31, <1>32, <1>33, <1>34, <1>35, <1>36, <1>37 DEF Next, Start,
       Proceed, EnableVmssPublicIps, Azure

\* Whatever exists hangs together: subnets need the VNET, clusters a subnet, roles a listed
\* principal.
LEMMA WorldStep == SecretIInv /\ [Next]_vars => World'
<1> SUFFICES ASSUME SecretIInv, [Next]_vars PROVE World'
  OBVIOUS
<1> USE DEF World, regionVars, clusterVars, nodeVars, kubeVars
<1>a. World
  BY DEF SecretIInv, TypeOK, World
<1>b. Prepared
  BY DEF SecretIInv
<1>1. ASSUME NEW c \in Command, PrepareStart(c) PROVE World'
  BY <1>1, <1>a, <1>b, AksAssumption DEF PrepareStart
<1>2. ASSUME NEW c \in Command, CreateVnet(c) PROVE World'
  BY <1>2, <1>a, <1>b, AksAssumption DEF CreateVnet, At, Prepared
<1>3. ASSUME NEW c \in Command, CreateAdApplication(c) PROVE World'
  BY <1>3, <1>a, <1>b, AksAssumption DEF CreateAdApplication
<1>4. ASSUME NEW c \in Command, CreateServicePrincipal(c) PROVE World'
  BY <1>4, <1>a, <1>b, AksAssumption DEF CreateServicePrincipal
<1>5. ASSUME NEW c \in Command, ServicePrincipalAppeared(c) PROVE World'
  BY <1>5, <1>a, <1>b, AksAssumption DEF ServicePrincipalAppeared
<1>6. ASSUME NEW c \in Command, PrepareDone(c) PROVE World'
  BY <1>6, <1>a, <1>b, AksAssumption DEF PrepareDone, At, Prepared
<1>7. ASSUME NEW c \in Command, CleanupStart(c) PROVE World'
  BY <1>7, <1>a, <1>b, AksAssumption DEF CleanupStart
<1>8. ASSUME NEW c \in Command, DeleteResourceGroup(c) PROVE World'
  <2>1. CASE Refused(c, "spGone") /\ UNCHANGED <<region, roles, clusterVars>>
    <3>1. faults' \in 0..MaxFaults
      BY <2>1, <1>a, AksAssumption DEF Refused, Fault
    <3>2. mismatch' \in BOOLEAN
      BY <1>8, <1>a, Zenon DEF DeleteResourceGroup
    <3>3. UNCHANGED <<sp, listed, password, goal>>
      BY <1>8 DEF DeleteResourceGroup
    <3> QED
      BY <3>1, <3>2, <3>3, <2>1, <1>a
  <2>2. CASE /\ region' = region \ {"group", "vnet"} /\ roles' = {} /\ subnet' = FALSE
             /\ ClusterRemoved /\ UNCHANGED <<mismatch, faults>>
    BY <1>8, <2>2, <1>a, AksAssumption DEF DeleteResourceGroup, ClusterRemoved
  <2> QED
    BY <1>8, <2>1, <2>2 DEF DeleteResourceGroup
<1>9. ASSUME NEW c \in Command, DeleteServicePrincipal(c) PROVE World'
  BY <1>9, <1>a, <1>b, AksAssumption DEF DeleteServicePrincipal, StillMismatch
<1>10. ASSUME NEW c \in Command, CleanupDone(c) PROVE World'
  BY <1>10, <1>a, <1>b, AksAssumption DEF CleanupDone, StillMismatch
<1>11. ASSUME NEW c \in Command, CreateSubnet(c) PROVE World'
  BY <1>11, <1>a, <1>b, AksAssumption DEF CreateSubnet
<1>12. ASSUME NEW c \in Command, CreateCluster(c) PROVE World'
  BY <1>12, <1>a, <1>b, AksAssumption DEF CreateCluster, At, Prepared
<1>13. ASSUME NEW c \in Command, Provisioned(c) PROVE World'
  BY <1>13, <1>a, <1>b, AksAssumption DEF Provisioned
<1>14. ASSUME NEW c \in Command, AddCredentials(c) PROVE World'
  <2>1. /\ roles' \in {roles, roles \cup {"nodes"}, roles \cup {"subnet"}}
        /\ roles' # roles => listed
    BY <1>14 DEF AddCredentials
  <2>2. UNCHANGED <<region, sp, listed, password, mismatch, clusterVars, goal, faults>>
    BY <1>14 DEF AddCredentials
  <2> QED
    BY <1>a, <2>1, <2>2
<1>15. ASSUME NEW c \in Command, OpenPortInNsg(c) PROVE World'
  <2>1. ports' \in {ports, ports \cup {job[c].step}} /\ job[c].step \in {"ssp", "broker", "ssh"}
    BY <1>15 DEF OpenPortInNsg
  <2>2. UNCHANGED <<regionVars, subnet, cluster, secret, nsg, pools, config, bare, lost, kubeVars,
                    goal, faults>>
    BY <1>15 DEF OpenPortInNsg
  <2> QED
    BY <1>a, <2>1, <2>2
<1>16. ASSUME NEW c \in Command, DownloadCredentials(c) PROVE World'
  BY <1>16, <1>a, <1>b, AksAssumption DEF DownloadCredentials
<1>17. ASSUME NEW c \in Command, Install(c) PROVE World'
  <2>0. PICK i \in 1..6 : addons' = IF MayInstall(Addon[i]) THEN addons \cup {Addon[i]} ELSE addons
    BY <1>17, AddonSet DEF Install
  <2>1. addons' \subseteq Addons
    <3>1. Addon[i] \in Addons
      BY AddonSet
    <3>2. addons' = addons \/ addons' = addons \cup {Addon[i]}
      BY <2>0, Zenon
    <3> QED
      BY <3>1, <3>2, <1>a
  <2>2. UNCHANGED <<regionVars, subnet, cluster, secret, nodeVars, kubeconfig, tiller, goal, faults>>
    BY <1>17 DEF Install
  <2> QED
    BY <2>1, <2>2, <1>a
<1>18. ASSUME NEW c \in Command, WaitForTiller(c) PROVE World'
  BY <1>18, <1>a, <1>b, AksAssumption DEF WaitForTiller
<1>19. ASSUME NEW c \in Command, CreateDone(c) PROVE World'
  BY <1>19, <1>a, <1>b, AksAssumption DEF CreateDone
<1>20. ASSUME NEW c \in Command, DeleteStart(c) PROVE World'
  BY <1>20, <1>a, <1>b, AksAssumption DEF DeleteStart
<1>21. ASSUME NEW c \in Command, DeleteCluster(c) PROVE World'
  BY <1>21, <1>a, <1>b, AksAssumption DEF DeleteCluster, Refused, Fault
<1>22. ASSUME NEW c \in Command, DeleteSubnet(c) PROVE World'
  <2>1. faults' \in 0..MaxFaults
    BY <1>22, <1>a, AksAssumption DEF DeleteSubnet, Refused, Fault
  <2>2. CASE UNCHANGED <<subnet, roles>>
    BY <1>22, <2>1, <2>2, <1>a DEF DeleteSubnet
  <2>3. CASE /\ subnet' = (subnet /\ cluster # "none")
             /\ roles' = IF subnet' THEN roles ELSE roles \ {"subnet"}
    BY <1>22, <2>1, <2>3, <1>a DEF DeleteSubnet
  <2> QED
    BY <1>22, <2>2, <2>3 DEF DeleteSubnet
<1>23. ASSUME NEW c \in Command, DeleteDone(c) PROVE World'
  BY <1>23, <1>a, <1>b, AksAssumption DEF DeleteDone
<1>24. ASSUME NEW c \in Command, c \notin Owner, AddNodePool(c) PROVE World'
  BY <1>24, <1>a, <1>b, AksAssumption DEF AddNodePool
<1>25. ASSUME NEW c \in Command, c \notin Owner, DeleteNodePool(c) PROVE World'
  BY <1>25, <1>a, <1>b, AksAssumption DEF DeleteNodePool
<1>26. ASSUME NEW c \in Command, c \notin Owner, EnsurePublicIp(c) PROVE World'
  BY <1>26, <1>a, <1>b, AksAssumption DEF EnsurePublicIp
<1>27. ASSUME NEW c \in Command, ListVmss(c) PROVE World'
  BY <1>27, <1>a, <1>b, AksAssumption DEF ListVmss
<1>28. ASSUME NEW c \in Command, PatchVmss(c) PROVE World'
  BY <1>28, <1>a, <1>b, AksAssumption DEF PatchVmss
<1>29. ASSUME NEW c \in Command, UpgradeVms(c) PROVE World'
  BY <1>29, <1>a, <1>b, AksAssumption DEF UpgradeVms
<1>30. ASSUME NEW c \in Command, PublicIpsDone(c) PROVE World'
  BY <1>30, <1>a, <1>b, AksAssumption DEF PublicIpsDone
<1>31. ASSUME NEW c \in Command, Crash(c) PROVE World'
  BY <1>31, <1>a, <1>b, AksAssumption DEF Crash, Fault
<1>32. CASE ServicePrincipalListed
  BY <1>32, <1>a, <1>b, AksAssumption DEF ServicePrincipalListed
<1>33. CASE NodesMade
  BY <1>33, <1>a, <1>b, AksAssumption DEF NodesMade
<1>34. CASE ClusterProvisioned
  BY <1>34, <1>a, <1>b, AksAssumption DEF ClusterProvisioned, Fault
<1>35. CASE ClusterDeleted
  BY <1>35, <1>a, <1>b, AksAssumption DEF ClusterDeleted, ClusterRemoved
<1>36. CASE TillerReady
  BY <1>36, <1>a, <1>b, AksAssumption DEF TillerReady
<1>37. CASE UNCHANGED vars
  BY <1>37, <1>a, <1>b DEF vars
<1> QED
  BY <1>1, <1>2, <1>3, <1>4, <1>5, <1>6, <1>7, <1>8, <1>9, <1>10, <1>11, <1>12, <1>13, <1>14,
     <1>15, <1>16, <1>17, <1>18, <1>19, <1>20, <1>21, <1>22, <1>23, <1>24, <1>25, <1>26, <1>27,
     <1>28, <1>29, <1>30, <1>31, <1>32, <1>33, <1>34, <1>35, <1>36, <1>37 DEF Next, Start,
       Proceed, EnableVmssPublicIps, Azure

\* What they are and leave of the jobs.
LEMMA NextSteps ==
    ASSUME job \in [Command -> Job], NEW c \in Command, NEW step
    PROVE  /\ End(c) => /\ job'[c].step = "idle" /\ ~job'[c].whole /\ job'[c].of = {}
                        /\ \A d \in Command \ {c} : job'[d] = job[d]
           /\ Goto(c, step) => /\ job'[c].step = step
                               /\ job'[c].whole = job[c].whole /\ job'[c].refused = job[c].refused
                               /\ job'[c].of = job[c].of /\ job'[c].todo = job[c].todo
                               /\ \A d \in Command \ {c} : job'[d] = job[d]
           /\ c \in Owner /\ Begin(c, step) => /\ job'[c].step = step
                                /\ job'[c].whole /\ ~job'[c].refused /\ job'[c].of = {}
                                /\ \A d \in Command \ {c} : job'[d] = job[d]
           /\ Refused(c, step) => /\ job'[c].step = step /\ job'[c].refused
                                  /\ job'[c].whole = job[c].whole
                                  /\ job'[c].of = job[c].of
                                  /\ \A d \in Command \ {c} : job'[d] = job[d]
<1>1. End(c) => /\ job'[c].step = "idle" /\ ~job'[c].whole /\ job'[c].of = {}
                /\ \A d \in Command \ {c} : job'[d] = job[d]
  BY DEF End, NoJob
<1>2. Goto(c, step) => /\ job'[c].step = step
                       /\ job'[c].whole = job[c].whole /\ job'[c].refused = job[c].refused
                       /\ job'[c].of = job[c].of /\ job'[c].todo = job[c].todo
                       /\ \A d \in Command \ {c} : job'[d] = job[d]
  BY DEF Goto, Job
<1>3. c \in Owner /\ Begin(c, step) => /\ job'[c].step = step
                        /\ job'[c].whole /\ ~job'[c].refused /\ job'[c].of = {}
                        /\ \A d \in Command \ {c} : job'[d] = job[d]
  BY DEF Begin, NoJob
<1>4. Refused(c, step) => /\ job'[c].step = step /\ job'[c].refused
                          /\ job'[c].whole = job[c].whole /\ job'[c].of = job[c].of
                          /\ \A d \in Command \ {c} : job'[d] = job[d]
  BY DEF Refused, Job
<1> QED
  BY <1>1, <1>2, <1>3, <1>4

\* What DeleteResourceGroup does to the jobs and the cluster.
LEMMA GroupDeleted ==
    ASSUME job \in [Command -> Job], NEW c \in Command, DeleteResourceGroup(c)
    PROVE  /\ At(c, "groupGone") /\ job' \in [Command -> Job]
           /\ job'[c].step = "spGone" /\ job'[c].whole = job[c].whole
           /\ \A d \in Command \ {c} :
                  /\ job'[d].step = job[d].step /\ job'[d].whole = job[d].whole
                  /\ job'[d].refused = job[d].refused
           /\ \/ /\ job'[c].refused = job[c].refused
                 /\ region' = region \ {"group", "vnet"} /\ subnet' = FALSE
                 /\ ClusterRemoved /\ UNCHANGED mismatch
                 /\ \A d \in Command :
                        /\ job'[d].todo = job[d].todo /\ job'[d].pool = job[d].pool
                        /\ job'[d].of = job[d].of \ pools
              \/ /\ job'[c].refused /\ mismatch' = TRUE
                 /\ UNCHANGED <<region, subnet, clusterVars>>
                 /\ \A d \in Command :
                        /\ job'[d].todo = job[d].todo /\ job'[d].pool = job[d].pool
                        /\ job'[d].of = job[d].of
<1>1. CASE Refused(c, "spGone") /\ mismatch' = TRUE /\ UNCHANGED <<region, roles, clusterVars>>
  <2>1. At(c, "groupGone")
    BY DEF DeleteResourceGroup
  <2>2. /\ job'[c] = [job[c] EXCEPT !.step = "spGone", !.refused = TRUE]
        /\ [job[c] EXCEPT !.step = "spGone", !.refused = TRUE] \in Job
        /\ \A d \in Command \ {c} : job'[d] = job[d]
    <3>1. [job[c] EXCEPT !.step = "spGone", !.refused = TRUE] \in Job
      <4>1. job[c] \in Job
        OBVIOUS
      <4> QED
        BY <4>1, StepNames DEF Job
    <3>2. job' = [job EXCEPT ![c] = [job[c] EXCEPT !.step = "spGone", !.refused = TRUE]]
      BY <1>1 DEF Refused, Job
    <3> QED
      BY <3>1, <3>2
  <2>3. job' \in [Command -> Job]
    BY <1>1, StepNames, NextJob
  <2> QED
    BY <1>1, <2>1, <2>2, <2>3 DEF clusterVars, Job
<1>2. CASE /\ Forget(pools, [job EXCEPT ![c].step = "spGone"])
           /\ region' = region \ {"group", "vnet"} /\ subnet' = FALSE
           /\ ClusterRemoved /\ UNCHANGED mismatch
  <2> DEFINE next == [job EXCEPT ![c].step = "spGone"]
  <2>1. /\ next \in [Command -> Job]
        /\ \A d \in Command :
               /\ next[d].step = IF d = c THEN "spGone" ELSE job[d].step
               /\ next[d].whole = job[d].whole /\ next[d].refused = job[d].refused
               /\ next[d].of = job[d].of /\ next[d].todo = job[d].todo /\ next[d].pool = job[d].pool
    BY StepNames DEF Job
  <2>2. Forget(pools, next)
    BY <1>2
  <2>3. At(c, "groupGone")
    BY DEF DeleteResourceGroup
  <2> HIDE DEF next
  <2>4. /\ job' \in [Command -> Job]
        /\ \A d \in Command :
               /\ job'[d].step = next[d].step /\ job'[d].whole = next[d].whole
               /\ job'[d].todo = next[d].todo /\ job'[d].pool = next[d].pool
               /\ job'[d].refused = next[d].refused
               /\ job'[d].of = next[d].of \ pools
    BY <2>1, <2>2, ForgetJob
  <2> QED
    BY <1>2, <2>1, <2>3, <2>4
<1> QED
  BY <1>1, <1>2 DEF DeleteResourceGroup


\* The owner does one thing at a time, and other shells look after node pools only.
LEMMA ShellsStep == SecretIInv /\ [Next]_vars => Shells' /\ OneOwner'
<1> SUFFICES ASSUME SecretIInv, [Next]_vars PROVE Shells' /\ OneOwner'
  OBVIOUS
<1> USE DEF Shells, OneOwner, Idle, At, GotoIf, OwnerIdle
<1>a. /\ job \in [Command -> Job]
      /\ Shells /\ OneOwner
  BY DEF SecretIInv, TypeOK, Job, Step
<1>b. Owner \subseteq Command
  BY AksAssumption
<1>1. ASSUME NEW c \in Command, PrepareStart(c) PROVE Shells' /\ OneOwner'
  BY <1>1, <1>a, <1>b, NextSteps DEF PrepareStart
<1>2. ASSUME NEW c \in Command, CreateVnet(c) PROVE Shells' /\ OneOwner'
  BY <1>2, <1>a, <1>b, NextSteps DEF CreateVnet
<1>3. ASSUME NEW c \in Command, CreateAdApplication(c) PROVE Shells' /\ OneOwner'
  BY <1>3, <1>a, <1>b, NextSteps DEF CreateAdApplication
<1>4. ASSUME NEW c \in Command, CreateServicePrincipal(c) PROVE Shells' /\ OneOwner'
  BY <1>4, <1>a, <1>b, NextSteps DEF CreateServicePrincipal
<1>5. ASSUME NEW c \in Command, ServicePrincipalAppeared(c) PROVE Shells' /\ OneOwner'
  BY <1>5, <1>a, <1>b, NextSteps DEF ServicePrincipalAppeared
<1>6. ASSUME NEW c \in Command, PrepareDone(c) PROVE Shells' /\ OneOwner'
  BY <1>6, <1>a, <1>b, NextSteps DEF PrepareDone
<1>7. ASSUME NEW c \in Command, CleanupStart(c) PROVE Shells' /\ OneOwner'
  BY <1>7, <1>a, <1>b, NextSteps DEF CleanupStart
<1>8. ASSUME NEW c \in Command, DeleteResourceGroup(c) PROVE Shells' /\ OneOwner'
  <2>1. /\ job[c].step = "groupGone" /\ job'[c].step = "spGone" /\ job'[c].whole = job[c].whole
        /\ \A d \in Command \ {c} : job'[d].step = job[d].step /\ job'[d].whole = job[d].whole
    BY <1>8, <1>a, GroupDeleted DEF At
  <2> QED
    BY <2>1, <1>a, <1>b
<1>9. ASSUME NEW c \in Command, DeleteServicePrincipal(c) PROVE Shells' /\ OneOwner'
  BY <1>9, <1>a, <1>b, NextSteps DEF DeleteServicePrincipal
<1>10. ASSUME NEW c \in Command, CleanupDone(c) PROVE Shells' /\ OneOwner'
  BY <1>10, <1>a, <1>b, NextSteps DEF CleanupDone
<1>11. ASSUME NEW c \in Command, CreateSubnet(c) PROVE Shells' /\ OneOwner'
  BY <1>11, <1>a, <1>b, NextSteps DEF CreateSubnet
<1>12. ASSUME NEW c \in Command, CreateCluster(c) PROVE Shells' /\ OneOwner'
  BY <1>12, <1>a, <1>b, NextSteps DEF CreateCluster
<1>13. ASSUME NEW c \in Command, Provisioned(c) PROVE Shells' /\ OneOwner'
  BY <1>13, <1>a, <1>b, NextSteps DEF Provisioned
<1>14. ASSUME NEW c \in Command, AddCredentials(c) PROVE Shells' /\ OneOwner'
  BY <1>14, <1>a, <1>b, NextSteps DEF AddCredentials
<1>15. ASSUME NEW c \in Command, OpenPortInNsg(c) PROVE Shells' /\ OneOwner'
  BY <1>15, <1>a, <1>b, NextSteps DEF OpenPortInNsg
<1>16. ASSUME NEW c \in Command, DownloadCredentials(c) PROVE Shells' /\ OneOwner'
  BY <1>16, <1>a, <1>b, NextSteps DEF DownloadCredentials
<1>17. ASSUME NEW c \in Command, Install(c) PROVE Shells' /\ OneOwner'
  <2>1. PICK step \in DOMAIN Before : Goto(c, step) \/ End(c)
    BY <1>17, AddonSet DEF Install, Before
  <2>2. job[c].step \in Addons
    BY <1>17, AddonSet DEF Install
  <2>3. step \notin {"idle"} /\ Addons \cap {"idle", "list", "patch", "upgrade"} = {}
    BY AddonSet DEF Before
  <2>4. CASE Goto(c, step)
    BY <2>2, <2>3, <2>4, <1>a, <1>b, NextSteps
  <2>5. CASE End(c)
    BY <2>2, <2>3, <2>5, <1>a, <1>b, NextSteps
  <2> QED
    BY <2>1, <2>4, <2>5
<1>18. ASSUME NEW c \in Command, WaitForTiller(c) PROVE Shells' /\ OneOwner'
  BY <1>18, <1>a, <1>b, NextSteps DEF WaitForTiller
<1>19. ASSUME NEW c \in Command, CreateDone(c) PROVE Shells' /\ OneOwner'
  BY <1>19, <1>a, <1>b, NextSteps DEF CreateDone
<1>20. ASSUME NEW c \in Command, DeleteStart(c) PROVE Shells' /\ OneOwner'
  BY <1>20, <1>a, <1>b, NextSteps DEF DeleteStart
<1>21. ASSUME NEW c \in Command, DeleteCluster(c) PROVE Shells' /\ OneOwner'
  BY <1>21, <1>a, <1>b, NextSteps DEF DeleteCluster
<1>22. ASSUME NEW c \in Command, DeleteSubnet(c) PROVE Shells' /\ OneOwner'
  BY <1>22, <1>a, <1>b, NextSteps DEF DeleteSubnet
<1>23. ASSUME NEW c \in Command, DeleteDone(c) PROVE Shells' /\ OneOwner'
  BY <1>23, <1>a, <1>b, NextSteps DEF DeleteDone
<1>24. ASSUME NEW c \in Command, c \notin Owner, AddNodePool(c) PROVE Shells' /\ OneOwner'
  BY <1>24, <1>a, <1>b, NextSteps DEF AddNodePool, NoJob
<1>25. ASSUME NEW c \in Command, c \notin Owner, DeleteNodePool(c) PROVE Shells' /\ OneOwner'
  <2>1. /\ job' \in [Command -> Job]
        /\ \A d \in Command : job'[d].step = job[d].step /\ job'[d].whole = job[d].whole
    BY <1>25, <1>a, ForgetJob DEF DeleteNodePool
  <2> QED
    BY <2>1, <1>a, <1>b
<1>26. ASSUME NEW c \in Command, c \notin Owner, EnsurePublicIp(c) PROVE Shells' /\ OneOwner'
  BY <1>26, <1>a, <1>b, NextSteps DEF EnsurePublicIp, NoJob
<1>27. ASSUME NEW c \in Command, ListVmss(c) PROVE Shells' /\ OneOwner'
  <2>1. CASE End(c)
    BY <1>27, <2>1, <1>a, <1>b, NextSteps DEF ListVmss
  <2>2. CASE job' = [job EXCEPT ![c].step = "patch", ![c].of = pools, ![c].todo = pools \ config]
    <3>1. /\ job'[c].step = "patch" /\ job'[c].whole = job[c].whole
          /\ \A d \in Command \ {c} : job'[d] = job[d]
      BY <2>2, <1>a DEF Job
    <3> QED
      BY <1>27, <3>1, <1>a, <1>b DEF ListVmss
  <2> QED
    BY <1>27, <2>1, <2>2 DEF ListVmss
<1>28. ASSUME NEW c \in Command, PatchVmss(c) PROVE Shells' /\ OneOwner'
  <2>1. CASE End(c)
    BY <1>28, <2>1, <1>a, <1>b, NextSteps DEF PatchVmss
  <2>2. ASSUME NEW p \in pools,
               job' = [job EXCEPT ![c].step = "upgrade", ![c].pool = p, ![c].todo = @ \ {p}]
        PROVE  Shells' /\ OneOwner'
    <3>1. /\ job'[c].step = "upgrade" /\ job'[c].whole = job[c].whole
          /\ \A d \in Command \ {c} : job'[d] = job[d]
      BY <2>2, <1>a DEF Job
    <3> QED
      BY <1>28, <3>1, <1>a, <1>b DEF PatchVmss
  <2> QED
    BY <1>28, <2>1, <2>2 DEF PatchVmss
<1>29. ASSUME NEW c \in Command, UpgradeVms(c) PROVE Shells' /\ OneOwner'
  BY <1>29, <1>a, <1>b, NextSteps DEF UpgradeVms
<1>30. ASSUME NEW c \in Command, PublicIpsDone(c) PROVE Shells' /\ OneOwner'
  BY <1>30, <1>a, <1>b, NextSteps DEF PublicIpsDone
<1>31. ASSUME NEW c \in Command, Crash(c) PROVE Shells' /\ OneOwner'
  BY <1>31, <1>a, <1>b, NextSteps DEF Crash
<1>32. CASE ServicePrincipalListed
  BY <1>32, <1>a, <1>b, NextSteps DEF ServicePrincipalListed
<1>33. CASE NodesMade
  BY <1>33, <1>a, <1>b, NextSteps DEF NodesMade
<1>34. CASE ClusterProvisioned
  BY <1>34, <1>a, <1>b, NextSteps DEF ClusterProvisioned
<1>35. CASE ClusterDeleted
  <2>1. /\ job' \in [Command -> Job]
        /\ \A d \in Command : job'[d].step = job[d].step /\ job'[d].whole = job[d].whole
    BY <1>35, <1>a, ForgetJob DEF ClusterDeleted
  <2> QED
    BY <2>1, <1>a, <1>b
<1>36. CASE TillerReady
  BY <1>36, <1>a, <1>b, NextSteps DEF TillerReady
<1>37. CASE UNCHANGED vars
  BY <1>37, <1>a, <1>b DEF vars
<1> QED
  BY <1>1, <1>2, <1>3, <1>4, <1>5, <1>6, <1>7, <1>8, <1>9, <1>10, <1>11, <1>12, <1>13, <1>14,
     <1>15, <1>16, <1>17, <1>18, <1>19, <1>20, <1>21, <1>22, <1>23, <1>24, <1>25, <1>26, <1>27,
     <1>28, <1>29, <1>30, <1>31, <1>32, <1>33, <1>34, <1>35, <1>36, <1>37 DEF Next, Start,
       Proceed, EnableVmssPublicIps, Azure

\* Two shells are not both at a step of the owner's.
LEMMA OwnerAlone ==
    ASSUME SecretIInv, NEW c \in Command, NEW d \in Command,
           job[c].step \notin {"idle", "list", "patch", "upgrade"},
           job[d].step \notin {"idle", "list", "patch", "upgrade"}
    PROVE  c = d
BY DEF SecretIInv, Shells, OneOwner, Idle, At

\* When the owner begins nobody is at one.
LEMMA OwnerBegins ==
    ASSUME SecretIInv, NEW c \in Command, OwnerIdle(c)
    PROVE  \A d \in Command : job[d].step \in {"idle", "list", "patch", "upgrade"}
BY DEF SecretIInv, Shells, OwnerIdle, Idle, At

\* The installation of a chart leads to the next one, or to an end.
LEMMA InstallJob ==
    ASSUME job \in [Command -> Job], NEW c \in Command, Install(c)
    PROVE  /\ job[c].step \in Addons
           /\ job'[c].step \in {"idle"} \cup DOMAIN Before
           /\ job'[c].of \subseteq job[c].of
           /\ job'[c].step # "idle" => job'[c].refused = job[c].refused
           /\ \A d \in Command \ {c} : job'[d] = job[d]
<1>1. PICK step \in DOMAIN Before : Goto(c, step) \/ End(c)
  BY AddonSet DEF Install, Before, GotoIf
<1>2. job[c].step \in Addons
  BY AddonSet DEF Install, At
<1> QED
  BY <1>1, <1>2, NextSteps

\* Looking after node pools leads to no other step, and leaves other shells alone.
LEMMA PoolJobs ==
    ASSUME job \in [Command -> Job], NEW c \in Command,
           AddNodePool(c) \/ EnsurePublicIp(c) \/ ListVmss(c) \/ PatchVmss(c)
    PROVE  /\ job[c].step \in {"idle", "list", "patch"}
           /\ job'[c].step \in {"idle", "list", "patch", "upgrade"}
           /\ \A d \in Command \ {c} : job'[d] = job[d]
<1>1. CASE AddNodePool(c) \/ EnsurePublicIp(c)
  BY <1>1 DEF AddNodePool, EnsurePublicIp, NoJob, Idle, At
<1>2. CASE ListVmss(c)
  <2>1. CASE End(c)
    BY <1>2, <2>1, NextSteps DEF ListVmss, At
  <2>2. CASE job' = [job EXCEPT ![c].step = "patch", ![c].of = pools, ![c].todo = pools \ config]
    BY <1>2, <2>2 DEF ListVmss, At, Job
  <2> QED
    BY <1>2, <2>1, <2>2 DEF ListVmss
<1>3. CASE PatchVmss(c)
  <2>1. CASE End(c)
    BY <1>3, <2>1, NextSteps DEF PatchVmss, At
  <2>2. ASSUME NEW p \in pools,
               job' = [job EXCEPT ![c].step = "upgrade", ![c].pool = p, ![c].todo = @ \ {p}]
        PROVE  /\ job'[c].step \in {"idle", "list", "patch", "upgrade"}
               /\ \A d \in Command \ {c} : job'[d] = job[d]
    BY <2>2 DEF Job
  <2>3. job[c].step = "patch"
    BY <1>3 DEF PatchVmss, At
  <2> QED
    BY <1>3, <2>1, <2>2, <2>3 DEF PatchVmss
<1> QED
  BY <1>1, <1>2, <1>3

\* What is deleted changes no step of a command.
LEMMA GoneJobs ==
    ASSUME job \in [Command -> Job], ClusterDeleted \/ \E c \in Command : DeleteNodePool(c)
    PROVE  \A d \in Command :
               /\ job'[d].step = job[d].step /\ job'[d].refused = job[d].refused
               /\ job'[d].todo = job[d].todo /\ job'[d].pool = job[d].pool
<1>1. PICK gone : Forget(gone, job)
  BY DEF ClusterDeleted, DeleteNodePool
<1> QED
  BY <1>1, ForgetJob

\* A command has what it relies on until it is done: nobody else deletes beside it.
LEMMA PreparedStep == SecretIInv /\ [Next]_vars => Prepared'
<1> SUFFICES ASSUME SecretIInv, [Next]_vars PROVE Prepared'
  OBVIOUS
<1> USE DEF Prepared, At, Idle, GotoIf, OwnerIdle, regionVars, clusterVars, nodeVars, kubeVars
<1>a. job \in [Command -> Job] /\ World
  BY DEF SecretIInv, TypeOK, World, Job, Step
<1>b. Prepared
  BY DEF SecretIInv
<1>1. ASSUME NEW c \in Command, PrepareStart(c) PROVE Prepared'
  BY <1>1, <1>a, <1>b, NextSteps, OwnerAlone DEF PrepareStart
<1>2. ASSUME NEW c \in Command, CreateVnet(c) PROVE Prepared'
  BY <1>2, <1>a, <1>b, NextSteps, OwnerAlone DEF CreateVnet
<1>3. ASSUME NEW c \in Command, CreateAdApplication(c) PROVE Prepared'
  BY <1>3, <1>a, <1>b, NextSteps, OwnerAlone DEF CreateAdApplication
<1>4. ASSUME NEW c \in Command, CreateServicePrincipal(c) PROVE Prepared'
  BY <1>4, <1>a, <1>b, NextSteps, OwnerAlone DEF CreateServicePrincipal, World
<1>5. ASSUME NEW c \in Command, ServicePrincipalAppeared(c) PROVE Prepared'
  BY <1>5, <1>a, <1>b, NextSteps, OwnerAlone DEF ServicePrincipalAppeared
<1>6. ASSUME NEW c \in Command, PrepareDone(c) PROVE Prepared'
  BY <1>6, <1>a, <1>b, NextSteps, OwnerAlone DEF PrepareDone
<1>7. ASSUME NEW c \in Command, CleanupStart(c) PROVE Prepared'
  BY <1>7, <1>a, <1>b, NextSteps, OwnerAlone DEF CleanupStart
<1>8. ASSUME NEW c \in Command, DeleteResourceGroup(c) PROVE Prepared'
  BY <1>8, <1>a, <1>b, NextSteps, OwnerAlone, GroupDeleted DEF DeleteResourceGroup
<1>9. ASSUME NEW c \in Command, DeleteServicePrincipal(c) PROVE Prepared'
  BY <1>9, <1>a, <1>b, NextSteps, OwnerAlone DEF DeleteServicePrincipal
<1>10. ASSUME NEW c \in Command, CleanupDone(c) PROVE Prepared'
  BY <1>10, <1>a, <1>b, NextSteps, OwnerAlone DEF CleanupDone
<1>11. ASSUME NEW c \in Command, CreateSubnet(c) PROVE Prepared'
  BY <1>11, <1>a, <1>b, NextSteps, OwnerAlone DEF CreateSubnet, World
<1>12. ASSUME NEW c \in Command, CreateCluster(c) PROVE Prepared'
  BY <1>12, <1>a, <1>b, NextSteps, OwnerAlone DEF CreateCluster
<1>13. ASSUME NEW c \in Command, Provisioned(c) PROVE Prepared'
  BY <1>13, <1>a, <1>b, NextSteps, OwnerAlone DEF Provisioned
<1>14. ASSUME NEW c \in Command, AddCredentials(c) PROVE Prepared'
  BY <1>14, <1>a, <1>b, NextSteps, OwnerAlone DEF AddCredentials
<1>15. ASSUME NEW c \in Command, OpenPortInNsg(c) PROVE Prepared'
  BY <1>15, <1>a, <1>b, NextSteps, OwnerAlone DEF OpenPortInNsg
<1>16. ASSUME NEW c \in Command, DownloadCredentials(c) PROVE Prepared'
  BY <1>16, <1>a, <1>b, NextSteps, OwnerAlone, AddonSet DEF DownloadCredentials
<1>17. ASSUME NEW c \in Command, Install(c) PROVE Prepared'
  BY <1>17, <1>a, <1>b, NextSteps, OwnerAlone, InstallJob, AddonSet DEF Install
<1>18. ASSUME NEW c \in Command, WaitForTiller(c) PROVE Prepared'
  <2>1. job[c].step = "tillerWait" /\ UNCHANGED <<region, listed, password>>
    BY <1>18 DEF WaitForTiller
  <2>2. job'[c].step \in {"idle", "nginx"} /\ \A d \in Command \ {c} : job'[d] = job[d]
    BY <1>18, <1>a, NextSteps DEF WaitForTiller
  <2> QED
    BY <1>b, <2>1, <2>2
<1>19. ASSUME NEW c \in Command, CreateDone(c) PROVE Prepared'
  BY <1>19, <1>a, <1>b, NextSteps, OwnerAlone DEF CreateDone
<1>20. ASSUME NEW c \in Command, DeleteStart(c) PROVE Prepared'
  BY <1>20, <1>a, <1>b, NextSteps, OwnerAlone DEF DeleteStart
<1>21. ASSUME NEW c \in Command, DeleteCluster(c) PROVE Prepared'
  BY <1>21, <1>a, <1>b, NextSteps, OwnerAlone DEF DeleteCluster
<1>22. ASSUME NEW c \in Command, DeleteSubnet(c) PROVE Prepared'
  BY <1>22, <1>a, <1>b, NextSteps, OwnerAlone DEF DeleteSubnet
<1>23. ASSUME NEW c \in Command, DeleteDone(c) PROVE Prepared'
  BY <1>23, <1>a, <1>b, NextSteps, OwnerAlone DEF DeleteDone
<1>24. ASSUME NEW c \in Command, c \notin Owner, AddNodePool(c) PROVE Prepared'
  <2>1. /\ job[c].step \in {"idle", "list", "patch"}
        /\ job'[c].step \in {"idle", "list", "patch", "upgrade"}
        /\ \A d \in Command \ {c} : job'[d] = job[d]
    BY <1>24, <1>a, PoolJobs
  <2> QED
    BY <1>24, <2>1, <1>a, <1>b DEF AddNodePool
<1>25. ASSUME NEW c \in Command, c \notin Owner, DeleteNodePool(c) PROVE Prepared'
  <2>1. \A d \in Command : job'[d].step = job[d].step /\ job'[d].refused = job[d].refused
    BY <1>25, <1>a, GoneJobs
  <2> QED
    BY <1>25, <2>1, <1>a, <1>b DEF DeleteNodePool
<1>26. ASSUME NEW c \in Command, c \notin Owner, EnsurePublicIp(c) PROVE Prepared'
  <2>1. /\ job[c].step \in {"idle", "list", "patch"}
        /\ job'[c].step \in {"idle", "list", "patch", "upgrade"}
        /\ \A d \in Command \ {c} : job'[d] = job[d]
    BY <1>26, <1>a, PoolJobs
  <2> QED
    BY <1>26, <2>1, <1>a, <1>b DEF EnsurePublicIp
<1>27. ASSUME NEW c \in Command, ListVmss(c) PROVE Prepared'
  <2>1. /\ job[c].step \in {"idle", "list", "patch"}
        /\ job'[c].step \in {"idle", "list", "patch", "upgrade"}
        /\ \A d \in Command \ {c} : job'[d] = job[d]
    BY <1>27, <1>a, PoolJobs
  <2> QED
    BY <1>27, <2>1, <1>a, <1>b DEF ListVmss
<1>28. ASSUME NEW c \in Command, PatchVmss(c) PROVE Prepared'
  <2>1. /\ job[c].step \in {"idle", "list", "patch"}
        /\ job'[c].step \in {"idle", "list", "patch", "upgrade"}
        /\ \A d \in Command \ {c} : job'[d] = job[d]
    BY <1>28, <1>a, PoolJobs
  <2> QED
    BY <1>28, <2>1, <1>a, <1>b DEF PatchVmss
<1>29. ASSUME NEW c \in Command, UpgradeVms(c) PROVE Prepared'
  BY <1>29, <1>a, <1>b, NextSteps, OwnerAlone DEF UpgradeVms
<1>30. ASSUME NEW c \in Command, PublicIpsDone(c) PROVE Prepared'
  BY <1>30, <1>a, <1>b, NextSteps, OwnerAlone DEF PublicIpsDone
<1>31. ASSUME NEW c \in Command, Crash(c) PROVE Prepared'
  <2>1. /\ job'[c].step = "idle" /\ \A d \in Command \ {c} : job'[d] = job[d]
    BY <1>31, <1>a, NextSteps DEF Crash
  <2> QED
    BY <1>31, <2>1, <1>a, <1>b DEF Crash
<1>32. CASE ServicePrincipalListed
  BY <1>32, <1>a, <1>b, NextSteps, OwnerAlone DEF ServicePrincipalListed
<1>33. CASE NodesMade
  BY <1>33, <1>a, <1>b, NextSteps, OwnerAlone DEF NodesMade
<1>34. CASE ClusterProvisioned
  BY <1>34, <1>a, <1>b, NextSteps, OwnerAlone DEF ClusterProvisioned
<1>35. CASE ClusterDeleted
  <2>1. \A d \in Command : job'[d].step = job[d].step /\ job'[d].refused = job[d].refused
    BY <1>35, <1>a, GoneJobs
  <2> QED
    BY <1>35, <2>1, <1>a, <1>b DEF ClusterDeleted, ClusterRemoved
<1>36. CASE TillerReady
  BY <1>36, <1>a, <1>b, NextSteps, OwnerAlone DEF TillerReady
<1>37. CASE UNCHANGED vars
  BY <1>37, <1>a, <1>b DEF vars
<1> QED
  BY <1>1, <1>2, <1>3, <1>4, <1>5, <1>6, <1>7, <1>8, <1>9, <1>10, <1>11, <1>12, <1>13, <1>14,
     <1>15, <1>16, <1>17, <1>18, <1>19, <1>20, <1>21, <1>22, <1>23, <1>24, <1>25, <1>26, <1>27,
     <1>28, <1>29, <1>30, <1>31, <1>32, <1>33, <1>34, <1>35, <1>36, <1>37 DEF Next, Start,
       Proceed, EnableVmssPublicIps, Azure

\* Who makes a cluster gives it the password of the principal.
LEMMA PasswordsStep == SecretIInv /\ [Next]_vars => PasswordsMatch'
<1> SUFFICES ASSUME SecretIInv, [Next]_vars PROVE PasswordsMatch'
  OBVIOUS
<1> USE DEF PasswordsMatch, regionVars, clusterVars, nodeVars, kubeVars
<1>a. job \in [Command -> Job] /\ World
  BY DEF SecretIInv, TypeOK, World, Job, Step
<1>b. PasswordsMatch /\ GroupGoneFirst
  BY DEF SecretIInv
<1>1. ASSUME NEW c \in Command, PrepareStart(c) PROVE PasswordsMatch'
  BY <1>1, <1>a, <1>b DEF PrepareStart
<1>2. ASSUME NEW c \in Command, CreateVnet(c) PROVE PasswordsMatch'
  BY <1>2, <1>a, <1>b DEF CreateVnet
<1>3. ASSUME NEW c \in Command, CreateAdApplication(c) PROVE PasswordsMatch'
  BY <1>3, <1>a, <1>b DEF CreateAdApplication
<1>4. ASSUME NEW c \in Command, CreateServicePrincipal(c) PROVE PasswordsMatch'
  BY <1>4, <1>a, <1>b DEF CreateServicePrincipal, World
<1>5. ASSUME NEW c \in Command, ServicePrincipalAppeared(c) PROVE PasswordsMatch'
  BY <1>5, <1>a, <1>b DEF ServicePrincipalAppeared
<1>6. ASSUME NEW c \in Command, PrepareDone(c) PROVE PasswordsMatch'
  BY <1>6, <1>a, <1>b DEF PrepareDone
<1>7. ASSUME NEW c \in Command, CleanupStart(c) PROVE PasswordsMatch'
  BY <1>7, <1>a, <1>b DEF CleanupStart
<1>8. ASSUME NEW c \in Command, DeleteResourceGroup(c) PROVE PasswordsMatch'
  BY <1>8, <1>a, <1>b DEF DeleteResourceGroup, ClusterRemoved
<1>9. ASSUME NEW c \in Command, DeleteServicePrincipal(c) PROVE PasswordsMatch'
  BY <1>9, <1>b DEF DeleteServicePrincipal, StillMismatch, At, GroupGoneFirst
<1>10. ASSUME NEW c \in Command, CleanupDone(c) PROVE PasswordsMatch'
  BY <1>10, <1>b DEF CleanupDone, StillMismatch, At, GroupGoneFirst
<1>11. ASSUME NEW c \in Command, CreateSubnet(c) PROVE PasswordsMatch'
  BY <1>11, <1>a, <1>b DEF CreateSubnet
<1>12. ASSUME NEW c \in Command, CreateCluster(c) PROVE PasswordsMatch'
  BY <1>12, <1>a, <1>b DEF CreateCluster, World
<1>13. ASSUME NEW c \in Command, Provisioned(c) PROVE PasswordsMatch'
  BY <1>13, <1>a, <1>b DEF Provisioned
<1>14. ASSUME NEW c \in Command, AddCredentials(c) PROVE PasswordsMatch'
  BY <1>14, <1>a, <1>b DEF AddCredentials
<1>15. ASSUME NEW c \in Command, OpenPortInNsg(c) PROVE PasswordsMatch'
  BY <1>15, <1>a, <1>b DEF OpenPortInNsg
<1>16. ASSUME NEW c \in Command, DownloadCredentials(c) PROVE PasswordsMatch'
  BY <1>16, <1>a, <1>b DEF DownloadCredentials
<1>17. ASSUME NEW c \in Command, Install(c) PROVE PasswordsMatch'
  BY <1>17, <1>a, <1>b DEF Install
<1>18. ASSUME NEW c \in Command, WaitForTiller(c) PROVE PasswordsMatch'
  BY <1>18, <1>a, <1>b DEF WaitForTiller
<1>19. ASSUME NEW c \in Command, CreateDone(c) PROVE PasswordsMatch'
  BY <1>19, <1>a, <1>b DEF CreateDone
<1>20. ASSUME NEW c \in Command, DeleteStart(c) PROVE PasswordsMatch'
  BY <1>20, <1>a, <1>b DEF DeleteStart
<1>21. ASSUME NEW c \in Command, DeleteCluster(c) PROVE PasswordsMatch'
  BY <1>21, <1>a, <1>b DEF DeleteCluster
<1>22. ASSUME NEW c \in Command, DeleteSubnet(c) PROVE PasswordsMatch'
  BY <1>22, <1>a, <1>b DEF DeleteSubnet
<1>23. ASSUME NEW c \in Command, DeleteDone(c) PROVE PasswordsMatch'
  BY <1>23, <1>a, <1>b DEF DeleteDone
<1>24. ASSUME NEW c \in Command, c \notin Owner, AddNodePool(c) PROVE PasswordsMatch'
  BY <1>24, <1>a, <1>b DEF AddNodePool
<1>25. ASSUME NEW c \in Command, c \notin Owner, DeleteNodePool(c) PROVE PasswordsMatch'
  BY <1>25, <1>a, <1>b DEF DeleteNodePool
<1>26. ASSUME NEW c \in Command, c \notin Owner, EnsurePublicIp(c) PROVE PasswordsMatch'
  BY <1>26, <1>a, <1>b DEF EnsurePublicIp
<1>27. ASSUME NEW c \in Command, ListVmss(c) PROVE PasswordsMatch'
  BY <1>27, <1>a, <1>b DEF ListVmss
<1>28. ASSUME NEW c \in Command, PatchVmss(c) PROVE PasswordsMatch'
  BY <1>28, <1>a, <1>b DEF PatchVmss
<1>29. ASSUME NEW c \in Command, UpgradeVms(c) PROVE PasswordsMatch'
  BY <1>29, <1>a, <1>b DEF UpgradeVms
<1>30. ASSUME NEW c \in Command, PublicIpsDone(c) PROVE PasswordsMatch'
  BY <1>30, <1>a, <1>b DEF PublicIpsDone
<1>31. ASSUME NEW c \in Command, Crash(c) PROVE PasswordsMatch'
  BY <1>31, <1>a, <1>b DEF Crash
<1>32. CASE ServicePrincipalListed
  BY <1>32, <1>a, <1>b DEF ServicePrincipalListed
<1>33. CASE NodesMade
  BY <1>33, <1>a, <1>b DEF NodesMade
<1>34. CASE ClusterProvisioned
  BY <1>34, <1>a, <1>b DEF ClusterProvisioned
<1>35. CASE ClusterDeleted
  BY <1>35, <1>a, <1>b DEF ClusterDeleted, ClusterRemoved
<1>36. CASE TillerReady
  BY <1>36, <1>a, <1>b DEF TillerReady
<1>37. CASE UNCHANGED vars
  BY <1>37, <1>a, <1>b DEF vars
<1> QED
  BY <1>1, <1>2, <1>3, <1>4, <1>5, <1>6, <1>7, <1>8, <1>9, <1>10, <1>11, <1>12, <1>13, <1>14,
     <1>15, <1>16, <1>17, <1>18, <1>19, <1>20, <1>21, <1>22, <1>23, <1>24, <1>25, <1>26, <1>27,
     <1>28, <1>29, <1>30, <1>31, <1>32, <1>33, <1>34, <1>35, <1>36, <1>37 DEF Next, Start,
       Proceed, EnableVmssPublicIps, Azure

\* No cluster is made while the principal is deleted.
LEMMA GroupGoneStep == SecretIInv /\ [Next]_vars => GroupGoneFirst'
<1> SUFFICES ASSUME SecretIInv, [Next]_vars PROVE GroupGoneFirst'
  OBVIOUS
<1> USE DEF GroupGoneFirst, At, Idle, GotoIf, OwnerIdle, regionVars, clusterVars, nodeVars,
      kubeVars
<1>a. job \in [Command -> Job] /\ World
  BY DEF SecretIInv, TypeOK, World, Job, Step
<1>b. GroupGoneFirst
  BY DEF SecretIInv
<1>1. ASSUME NEW c \in Command, PrepareStart(c) PROVE GroupGoneFirst'
  BY <1>1, <1>a, <1>b, NextSteps, OwnerAlone DEF PrepareStart
<1>2. ASSUME NEW c \in Command, CreateVnet(c) PROVE GroupGoneFirst'
  BY <1>2, <1>a, <1>b, NextSteps, OwnerAlone DEF CreateVnet
<1>3. ASSUME NEW c \in Command, CreateAdApplication(c) PROVE GroupGoneFirst'
  BY <1>3, <1>a, <1>b, NextSteps, OwnerAlone DEF CreateAdApplication
<1>4. ASSUME NEW c \in Command, CreateServicePrincipal(c) PROVE GroupGoneFirst'
  BY <1>4, <1>a, <1>b, NextSteps, OwnerAlone DEF CreateServicePrincipal
<1>5. ASSUME NEW c \in Command, ServicePrincipalAppeared(c) PROVE GroupGoneFirst'
  BY <1>5, <1>a, <1>b, NextSteps, OwnerAlone DEF ServicePrincipalAppeared
<1>6. ASSUME NEW c \in Command, PrepareDone(c) PROVE GroupGoneFirst'
  BY <1>6, <1>a, <1>b, NextSteps, OwnerAlone DEF PrepareDone
<1>7. ASSUME NEW c \in Command, CleanupStart(c) PROVE GroupGoneFirst'
  BY <1>7, <1>a, <1>b, NextSteps, OwnerAlone DEF CleanupStart
<1>8. ASSUME NEW c \in Command, DeleteResourceGroup(c) PROVE GroupGoneFirst'
  BY <1>8, <1>a, <1>b, NextSteps, OwnerAlone, GroupDeleted DEF DeleteResourceGroup,
       ClusterRemoved
<1>9. ASSUME NEW c \in Command, DeleteServicePrincipal(c) PROVE GroupGoneFirst'
  BY <1>9, <1>a, <1>b, NextSteps, OwnerAlone DEF DeleteServicePrincipal, StillMismatch, World
<1>10. ASSUME NEW c \in Command, CleanupDone(c) PROVE GroupGoneFirst'
  BY <1>10, <1>a, <1>b, NextSteps, OwnerAlone DEF CleanupDone, StillMismatch, World
<1>11. ASSUME NEW c \in Command, CreateSubnet(c) PROVE GroupGoneFirst'
  BY <1>11, <1>a, <1>b, NextSteps, OwnerAlone DEF CreateSubnet
<1>12. ASSUME NEW c \in Command, CreateCluster(c) PROVE GroupGoneFirst'
  BY <1>12, <1>a, <1>b, NextSteps, OwnerAlone DEF CreateCluster
<1>13. ASSUME NEW c \in Command, Provisioned(c) PROVE GroupGoneFirst'
  BY <1>13, <1>a, <1>b, NextSteps, OwnerAlone DEF Provisioned
<1>14. ASSUME NEW c \in Command, AddCredentials(c) PROVE GroupGoneFirst'
  BY <1>14, <1>a, <1>b, NextSteps, OwnerAlone DEF AddCredentials
<1>15. ASSUME NEW c \in Command, OpenPortInNsg(c) PROVE GroupGoneFirst'
  BY <1>15, <1>a, <1>b, NextSteps, OwnerAlone DEF OpenPortInNsg
<1>16. ASSUME NEW c \in Command, DownloadCredentials(c) PROVE GroupGoneFirst'
  BY <1>16, <1>a, <1>b, NextSteps, OwnerAlone, AddonSet DEF DownloadCredentials
<1>17. ASSUME NEW c \in Command, Install(c) PROVE GroupGoneFirst'
  BY <1>17, <1>a, <1>b, NextSteps, OwnerAlone, InstallJob, AddonSet DEF Install
<1>18. ASSUME NEW c \in Command, WaitForTiller(c) PROVE GroupGoneFirst'
  BY <1>18, <1>a, <1>b, NextSteps, OwnerAlone DEF WaitForTiller
<1>19. ASSUME NEW c \in Command, CreateDone(c) PROVE GroupGoneFirst'
  BY <1>19, <1>a, <1>b, NextSteps, OwnerAlone DEF CreateDone
<1>20. ASSUME NEW c \in Command, DeleteStart(c) PROVE GroupGoneFirst'
  BY <1>20, <1>a, <1>b, NextSteps, OwnerAlone DEF DeleteStart
<1>21. ASSUME NEW c \in Command, DeleteCluster(c) PROVE GroupGoneFirst'
  BY <1>21, <1>a, <1>b, NextSteps, OwnerAlone DEF DeleteCluster
<1>22. ASSUME NEW c \in Command, DeleteSubnet(c) PROVE GroupGoneFirst'
  BY <1>22, <1>a, <1>b, NextSteps, OwnerAlone DEF DeleteSubnet
<1>23. ASSUME NEW c \in Command, DeleteDone(c) PROVE GroupGoneFirst'
  BY <1>23, <1>a, <1>b, NextSteps, OwnerAlone DEF DeleteDone
<1>24. ASSUME NEW c \in Command, c \notin Owner, AddNodePool(c) PROVE GroupGoneFirst'
  <2>1. /\ job[c].step \in {"idle", "list", "patch"}
        /\ job'[c].step \in {"idle", "list", "patch", "upgrade"}
        /\ \A d \in Command \ {c} : job'[d] = job[d]
    BY <1>24, <1>a, PoolJobs
  <2> QED
    BY <1>24, <2>1, <1>a, <1>b DEF AddNodePool
<1>25. ASSUME NEW c \in Command, c \notin Owner, DeleteNodePool(c) PROVE GroupGoneFirst'
  <2>1. \A d \in Command : job'[d].step = job[d].step /\ job'[d].refused = job[d].refused
    BY <1>25, <1>a, GoneJobs
  <2> QED
    BY <1>25, <2>1, <1>a, <1>b DEF DeleteNodePool
<1>26. ASSUME NEW c \in Command, c \notin Owner, EnsurePublicIp(c) PROVE GroupGoneFirst'
  <2>1. /\ job[c].step \in {"idle", "list", "patch"}
        /\ job'[c].step \in {"idle", "list", "patch", "upgrade"}
        /\ \A d \in Command \ {c} : job'[d] = job[d]
    BY <1>26, <1>a, PoolJobs
  <2> QED
    BY <1>26, <2>1, <1>a, <1>b DEF EnsurePublicIp
<1>27. ASSUME NEW c \in Command, ListVmss(c) PROVE GroupGoneFirst'
  <2>1. /\ job[c].step \in {"idle", "list", "patch"}
        /\ job'[c].step \in {"idle", "list", "patch", "upgrade"}
        /\ \A d \in Command \ {c} : job'[d] = job[d]
    BY <1>27, <1>a, PoolJobs
  <2> QED
    BY <1>27, <2>1, <1>a, <1>b DEF ListVmss
<1>28. ASSUME NEW c \in Command, PatchVmss(c) PROVE GroupGoneFirst'
  <2>1. /\ job[c].step \in {"idle", "list", "patch"}
        /\ job'[c].step \in {"idle", "list", "patch", "upgrade"}
        /\ \A d \in Command \ {c} : job'[d] = job[d]
    BY <1>28, <1>a, PoolJobs
  <2> QED
    BY <1>28, <2>1, <1>a, <1>b DEF PatchVmss
<1>29. ASSUME NEW c \in Command, UpgradeVms(c) PROVE GroupGoneFirst'
  BY <1>29, <1>a, <1>b, NextSteps, OwnerAlone DEF UpgradeVms
<1>30. ASSUME NEW c \in Command, PublicIpsDone(c) PROVE GroupGoneFirst'
  BY <1>30, <1>a, <1>b, NextSteps, OwnerAlone DEF PublicIpsDone
<1>31. ASSUME NEW c \in Command, Crash(c) PROVE GroupGoneFirst'
  <2>1. /\ job'[c].step = "idle" /\ \A d \in Command \ {c} : job'[d] = job[d]
    BY <1>31, <1>a, NextSteps DEF Crash
  <2> QED
    BY <1>31, <2>1, <1>a, <1>b DEF Crash
<1>32. CASE ServicePrincipalListed
  BY <1>32, <1>a, <1>b, NextSteps, OwnerAlone DEF ServicePrincipalListed
<1>33. CASE NodesMade
  BY <1>33, <1>a, <1>b, NextSteps, OwnerAlone DEF NodesMade
<1>34. CASE ClusterProvisioned
  BY <1>34, <1>a, <1>b, NextSteps, OwnerAlone DEF ClusterProvisioned
<1>35. CASE ClusterDeleted
  <2>1. \A d \in Command : job'[d].step = job[d].step /\ job'[d].refused = job[d].refused
    BY <1>35, <1>a, GoneJobs
  <2> QED
    BY <1>35, <2>1, <1>a, <1>b DEF ClusterDeleted, ClusterRemoved
<1>36. CASE TillerReady
  BY <1>36, <1>a, <1>b, NextSteps, OwnerAlone DEF TillerReady
<1>37. CASE UNCHANGED vars
  BY <1>37, <1>a, <1>b DEF vars
<1> QED
  BY <1>1, <1>2, <1>3, <1>4, <1>5, <1>6, <1>7, <1>8, <1>9, <1>10, <1>11, <1>12, <1>13, <1>14,
     <1>15, <1>16, <1>17, <1>18, <1>19, <1>20, <1>21, <1>22, <1>23, <1>24, <1>25, <1>26, <1>27,
     <1>28, <1>29, <1>30, <1>31, <1>32, <1>33, <1>34, <1>35, <1>36, <1>37 DEF Next, Start,
       Proceed, EnableVmssPublicIps, Azure

\* A command that deletes and was never refused leaves nothing behind it.
LEMMA DeleteProgressStep == AksInv /\ [Next]_vars => DeleteProgress'
<1> SUFFICES ASSUME AksInv, [Next]_vars PROVE DeleteProgress'
  OBVIOUS
<1> USE DEF DeleteProgress, At, Idle, GotoIf, OwnerIdle, regionVars, clusterVars, nodeVars,
      kubeVars
<1>a. job \in [Command -> Job] /\ World
  BY DEF AksInv, SecretIInv, TypeOK, World, Job, Step
<1>b. SecretIInv /\ DeleteProgress
  BY DEF AksInv
<1>1. ASSUME NEW c \in Command, PrepareStart(c) PROVE DeleteProgress'
  <2>1. \A d \in Command : job[d].step \in {"idle", "list", "patch", "upgrade"}
    BY <1>1, <1>b, OwnerBegins DEF PrepareStart
  <2> QED
    BY <1>1, <2>1, <1>a, <1>b, NextSteps DEF PrepareStart
<1>2. ASSUME NEW c \in Command, CreateVnet(c) PROVE DeleteProgress'
  BY <1>2, <1>a, <1>b, NextSteps, OwnerAlone DEF CreateVnet
<1>3. ASSUME NEW c \in Command, CreateAdApplication(c) PROVE DeleteProgress'
  BY <1>3, <1>a, <1>b, NextSteps, OwnerAlone DEF CreateAdApplication
<1>4. ASSUME NEW c \in Command, CreateServicePrincipal(c) PROVE DeleteProgress'
  BY <1>4, <1>a, <1>b, NextSteps, OwnerAlone DEF CreateServicePrincipal
<1>5. ASSUME NEW c \in Command, ServicePrincipalAppeared(c) PROVE DeleteProgress'
  BY <1>5, <1>a, <1>b, NextSteps, OwnerAlone DEF ServicePrincipalAppeared
<1>6. ASSUME NEW c \in Command, PrepareDone(c) PROVE DeleteProgress'
  BY <1>6, <1>a, <1>b, NextSteps, OwnerAlone DEF PrepareDone
<1>7. ASSUME NEW c \in Command, CleanupStart(c) PROVE DeleteProgress'
  BY <1>7, <1>a, <1>b, NextSteps, OwnerAlone DEF CleanupStart
<1>8. ASSUME NEW c \in Command, DeleteResourceGroup(c) PROVE DeleteProgress'
  <2>1. /\ job[c].step = "groupGone" /\ job'[c].step = "spGone"
        /\ \A d \in Command \ {c} : job'[d].step = job[d].step /\ job'[d].refused = job[d].refused
    BY <1>8, <1>a, GroupDeleted DEF At
  <2>2. ASSUME NEW d \in Command \ {c} PROVE job[d].step \in {"idle", "list", "patch", "upgrade"}
    BY <2>1, <1>b, OwnerAlone
  <2>3. job'[c].refused \/ (region' = region \ {"group", "vnet"} /\ cluster' = "none")
    BY <1>8, <1>a, GroupDeleted DEF ClusterRemoved
  <2> QED
    BY <2>1, <2>2, <2>3, <1>a DEF World
<1>9. ASSUME NEW c \in Command, DeleteServicePrincipal(c) PROVE DeleteProgress'
  BY <1>9, <1>a, <1>b, NextSteps, OwnerAlone DEF DeleteServicePrincipal, World
<1>10. ASSUME NEW c \in Command, CleanupDone(c) PROVE DeleteProgress'
  BY <1>10, <1>a, <1>b, NextSteps, OwnerAlone DEF CleanupDone, World
<1>11. ASSUME NEW c \in Command, CreateSubnet(c) PROVE DeleteProgress'
  <2>1. \A d \in Command : job[d].step \in {"idle", "list", "patch", "upgrade"}
    BY <1>11, <1>b, OwnerBegins DEF CreateSubnet
  <2> QED
    BY <1>11, <2>1, <1>a, <1>b, NextSteps DEF CreateSubnet
<1>12. ASSUME NEW c \in Command, CreateCluster(c) PROVE DeleteProgress'
  BY <1>12, <1>a, <1>b, NextSteps, OwnerAlone DEF CreateCluster
<1>13. ASSUME NEW c \in Command, Provisioned(c) PROVE DeleteProgress'
  BY <1>13, <1>a, <1>b, NextSteps, OwnerAlone DEF Provisioned
<1>14. ASSUME NEW c \in Command, AddCredentials(c) PROVE DeleteProgress'
  BY <1>14, <1>a, <1>b, NextSteps, OwnerAlone DEF AddCredentials
<1>15. ASSUME NEW c \in Command, OpenPortInNsg(c) PROVE DeleteProgress'
  BY <1>15, <1>a, <1>b, NextSteps, OwnerAlone DEF OpenPortInNsg
<1>16. ASSUME NEW c \in Command, DownloadCredentials(c) PROVE DeleteProgress'
  BY <1>16, <1>a, <1>b, NextSteps, OwnerAlone, AddonSet DEF DownloadCredentials
<1>17. ASSUME NEW c \in Command, Install(c) PROVE DeleteProgress'
  BY <1>17, <1>a, <1>b, NextSteps, OwnerAlone, InstallJob, AddonSet DEF Install
<1>18. ASSUME NEW c \in Command, WaitForTiller(c) PROVE DeleteProgress'
  BY <1>18, <1>a, <1>b, NextSteps, OwnerAlone DEF WaitForTiller
<1>19. ASSUME NEW c \in Command, CreateDone(c) PROVE DeleteProgress'
  BY <1>19, <1>a, <1>b, NextSteps, OwnerAlone DEF CreateDone
<1>20. ASSUME NEW c \in Command, DeleteStart(c) PROVE DeleteProgress'
  BY <1>20, <1>a, <1>b, NextSteps, OwnerAlone DEF DeleteStart
<1>21. ASSUME NEW c \in Command, DeleteCluster(c) PROVE DeleteProgress'
  BY <1>21, <1>a, <1>b, NextSteps, OwnerAlone DEF DeleteCluster
<1>22. ASSUME NEW c \in Command, DeleteSubnet(c) PROVE DeleteProgress'
  <2>1. CASE Refused(c, "deleted") /\ UNCHANGED <<subnet, roles>>
    BY <1>22, <2>1, <1>a, <1>b, NextSteps, OwnerAlone DEF DeleteSubnet
  <2>2. CASE Goto(c, "deleted") /\ subnet' = (subnet /\ cluster # "none")
    <3>1. \A d \in Command \ {c} : job'[d] = job[d]
      BY <2>2, <1>a, NextSteps
    <3>2. job'[c].step = "deleted" /\ job'[c].refused = job[c].refused
      BY <2>2, <1>a, NextSteps
    <3> QED
      BY <1>22, <2>2, <3>1, <3>2, <1>a, <1>b, OwnerAlone DEF DeleteSubnet
  <2> QED
    BY <1>22, <2>1, <2>2 DEF DeleteSubnet
<1>23. ASSUME NEW c \in Command, DeleteDone(c) PROVE DeleteProgress'
  BY <1>23, <1>a, <1>b, NextSteps, OwnerAlone DEF DeleteDone
<1>24. ASSUME NEW c \in Command, c \notin Owner, AddNodePool(c) PROVE DeleteProgress'
  <2>1. /\ job[c].step \in {"idle", "list", "patch"}
        /\ job'[c].step \in {"idle", "list", "patch", "upgrade"}
        /\ \A d \in Command \ {c} : job'[d] = job[d]
    BY <1>24, <1>a, PoolJobs
  <2> QED
    BY <1>24, <2>1, <1>a, <1>b DEF AddNodePool
<1>25. ASSUME NEW c \in Command, c \notin Owner, DeleteNodePool(c) PROVE DeleteProgress'
  <2>1. \A d \in Command : job'[d].step = job[d].step /\ job'[d].refused = job[d].refused
    BY <1>25, <1>a, GoneJobs
  <2> QED
    BY <1>25, <2>1, <1>a, <1>b DEF DeleteNodePool
<1>26. ASSUME NEW c \in Command, c \notin Owner, EnsurePublicIp(c) PROVE DeleteProgress'
  <2>1. /\ job[c].step \in {"idle", "list", "patch"}
        /\ job'[c].step \in {"idle", "list", "patch", "upgrade"}
        /\ \A d \in Command \ {c} : job'[d] = job[d]
    BY <1>26, <1>a, PoolJobs
  <2> QED
    BY <1>26, <2>1, <1>a, <1>b DEF EnsurePublicIp
<1>27. ASSUME NEW c \in Command, ListVmss(c) PROVE DeleteProgress'
  <2>1. /\ job[c].step \in {"idle", "list", "patch"}
        /\ job'[c].step \in {"idle", "list", "patch", "upgrade"}
        /\ \A d \in Command \ {c} : job'[d] = job[d]
    BY <1>27, <1>a, PoolJobs
  <2> QED
    BY <1>27, <2>1, <1>a, <1>b DEF ListVmss
<1>28. ASSUME NEW c \in Command, PatchVmss(c) PROVE DeleteProgress'
  <2>1. /\ job[c].step \in {"idle", "list", "patch"}
        /\ job'[c].step \in {"idle", "list", "patch", "upgrade"}
        /\ \A d \in Command \ {c} : job'[d] = job[d]
    BY <1>28, <1>a, PoolJobs
  <2> QED
    BY <1>28, <2>1, <1>a, <1>b DEF PatchVmss
<1>29. ASSUME NEW c \in Command, UpgradeVms(c) PROVE DeleteProgress'
  BY <1>29, <1>a, <1>b, NextSteps, OwnerAlone DEF UpgradeVms
<1>30. ASSUME NEW c \in Command, PublicIpsDone(c) PROVE DeleteProgress'
  BY <1>30, <1>a, <1>b, NextSteps, OwnerAlone DEF PublicIpsDone
<1>31. ASSUME NEW c \in Command, Crash(c) PROVE DeleteProgress'
  <2>1. /\ job'[c].step = "idle" /\ \A d \in Command \ {c} : job'[d] = job[d]
    BY <1>31, <1>a, NextSteps DEF Crash
  <2> QED
    BY <1>31, <2>1, <1>a, <1>b DEF Crash
<1>32. CASE ServicePrincipalListed
  BY <1>32, <1>a, <1>b, NextSteps, OwnerAlone DEF ServicePrincipalListed
<1>33. CASE NodesMade
  BY <1>33, <1>a, <1>b, NextSteps, OwnerAlone DEF NodesMade
<1>34. CASE ClusterProvisioned
  BY <1>34, <1>a, <1>b, NextSteps, OwnerAlone DEF ClusterProvisioned
<1>35. CASE ClusterDeleted
  <2>1. \A d \in Command : job'[d].step = job[d].step /\ job'[d].refused = job[d].refused
    BY <1>35, <1>a, GoneJobs
  <2> QED
    BY <1>35, <2>1, <1>a, <1>b DEF ClusterDeleted, ClusterRemoved
<1>36. CASE TillerReady
  BY <1>36, <1>a, <1>b, NextSteps, OwnerAlone DEF TillerReady
<1>37. CASE UNCHANGED vars
  BY <1>37, <1>a, <1>b DEF vars
<1> QED
  BY <1>1, <1>2, <1>3, <1>4, <1>5, <1>6, <1>7, <1>8, <1>9, <1>10, <1>11, <1>12, <1>13, <1>14,
     <1>15, <1>16, <1>17, <1>18, <1>19, <1>20, <1>21, <1>22, <1>23, <1>24, <1>25, <1>26, <1>27,
     <1>28, <1>29, <1>30, <1>31, <1>32, <1>33, <1>34, <1>35, <1>36, <1>37 DEF Next, Start,
       Proceed, EnableVmssPublicIps, Azure

\* What a cluster-create has set up stays while its cluster does, and from the first addon on
\* the cluster is ready.
LEMMA CreateProgressStep == AksInv /\ [Next]_vars => CreateProgress'
<1> SUFFICES ASSUME AksInv, [Next]_vars PROVE CreateProgress'
  OBVIOUS
<1> USE DEF CreateProgress, At, Idle, GotoIf, OwnerIdle, AfterRoles, AfterIps, AfterPorts,
      Before, regionVars, clusterVars, nodeVars, kubeVars
<1>a. job \in [Command -> Job] /\ World
  BY DEF AksInv, SecretIInv, TypeOK, World, Job, Step
<1>b. CreateProgress
  BY DEF AksInv
<1>c. Owner \subseteq Command
  BY AksAssumption
<1>d. /\ \A c, d \in Owner : job[c].step # "idle" /\ job[d].step # "idle" => c = d
      /\ \A c \in Command : c \notin Owner => job[c].step \in {"idle", "list", "patch", "upgrade"}
  BY DEF AksInv, SecretIInv, Shells, OneOwner
<1>1. ASSUME NEW c \in Command, PrepareStart(c) PROVE CreateProgress'
  BY <1>1, <1>a, <1>b, <1>c, <1>d, NextSteps DEF PrepareStart
<1>2. ASSUME NEW c \in Command, CreateVnet(c) PROVE CreateProgress'
  <2>1. job[c].step = "vnet"
    BY <1>2 DEF CreateVnet
  <2>2. \A d \in Owner \ {c} : job[d].step = "idle"
    BY <2>1, <1>a, <1>b, <1>c, <1>d
  <2>3. job'[c].step \in {"idle", "app", "appGone", "deleted"} /\ \A d \in Command \ {c} : job'[d] = job[d]
    BY <1>2, <1>a, NextSteps DEF CreateVnet
  <2> QED
    BY <2>2, <2>3, <1>c
<1>3. ASSUME NEW c \in Command, CreateAdApplication(c) PROVE CreateProgress'
  BY <1>3, <1>a, <1>b, <1>c, <1>d, NextSteps DEF CreateAdApplication
<1>4. ASSUME NEW c \in Command, CreateServicePrincipal(c) PROVE CreateProgress'
  BY <1>4, <1>a, <1>b, <1>c, <1>d, NextSteps DEF CreateServicePrincipal
<1>5. ASSUME NEW c \in Command, ServicePrincipalAppeared(c) PROVE CreateProgress'
  BY <1>5, <1>a, <1>b, <1>c, <1>d, NextSteps DEF ServicePrincipalAppeared
<1>6. ASSUME NEW c \in Command, PrepareDone(c) PROVE CreateProgress'
  BY <1>6, <1>a, <1>b, <1>c, <1>d, NextSteps DEF PrepareDone
<1>7. ASSUME NEW c \in Command, CleanupStart(c) PROVE CreateProgress'
  BY <1>7, <1>a, <1>b, <1>c, <1>d, NextSteps DEF CleanupStart
<1>8. ASSUME NEW c \in Command, DeleteResourceGroup(c) PROVE CreateProgress'
  <2>1. /\ job[c].step = "groupGone" /\ job'[c].step = "spGone"
        /\ \A d \in Command \ {c} : job'[d].step = job[d].step
    BY <1>8, <1>a, GroupDeleted DEF At
  <2>2. \A d \in Owner \ {c} : job[d].step = "idle"
    BY <2>1, <1>a, <1>b, <1>c, <1>d
  <2> QED
    BY <2>1, <2>2, <1>c
<1>9. ASSUME NEW c \in Command, DeleteServicePrincipal(c) PROVE CreateProgress'
  <2>1. job[c].step = "spGone"
    BY <1>9 DEF DeleteServicePrincipal
  <2>2. \A d \in Owner \ {c} : job[d].step = "idle"
    BY <2>1, <1>a, <1>b, <1>c, <1>d
  <2>3. job'[c].step \in {"idle", "app", "appGone", "deleted"} /\ \A d \in Command \ {c} : job'[d] = job[d]
    BY <1>9, <1>a, NextSteps DEF DeleteServicePrincipal
  <2> QED
    BY <2>2, <2>3, <1>c
<1>10. ASSUME NEW c \in Command, CleanupDone(c) PROVE CreateProgress'
  <2>1. job[c].step = "appGone"
    BY <1>10 DEF CleanupDone
  <2>2. \A d \in Owner \ {c} : job[d].step = "idle"
    BY <2>1, <1>a, <1>b, <1>c, <1>d
  <2>3. job'[c].step \in {"idle", "app", "appGone", "deleted"} /\ \A d \in Command \ {c} : job'[d] = job[d]
    BY <1>10, <1>a, NextSteps DEF CleanupDone
  <2> QED
    BY <2>2, <2>3, <1>c
<1>11. ASSUME NEW c \in Command, CreateSubnet(c) PROVE CreateProgress'
  BY <1>11, <1>a, <1>b, <1>c, <1>d, NextSteps DEF CreateSubnet
<1>12. ASSUME NEW c \in Command, CreateCluster(c) PROVE CreateProgress'
  BY <1>12, <1>a, <1>b, <1>c, <1>d, NextSteps DEF CreateCluster
<1>13. ASSUME NEW c \in Command, Provisioned(c) PROVE CreateProgress'
  BY <1>13, <1>a, <1>b, <1>c, <1>d, NextSteps DEF Provisioned
<1>14. ASSUME NEW c \in Command, AddCredentials(c) PROVE CreateProgress'
  BY <1>14, <1>a, <1>b, <1>c, <1>d, NextSteps DEF AddCredentials
<1>15. ASSUME NEW c \in Command, OpenPortInNsg(c) PROVE CreateProgress'
  BY <1>15, <1>a, <1>b, <1>c, <1>d, NextSteps DEF OpenPortInNsg
<1>16. ASSUME NEW c \in Command, DownloadCredentials(c) PROVE CreateProgress'
  BY <1>16, <1>a, <1>b, <1>c, <1>d, NextSteps, AddonSet DEF DownloadCredentials
<1>17. ASSUME NEW c \in Command, Install(c) PROVE CreateProgress'
  <2>1. PICK i \in 1..6 :
            /\ job[c].step = Addon[i]
            /\ GotoIf(c, MayInstall(Addon[i]),
                      IF Addon[i] = "tiller" THEN "tillerWait"
                      ELSE IF i = 6 THEN "created" ELSE Addon[i + 1])
            /\ addons' = IF MayInstall(Addon[i]) THEN addons \cup {Addon[i]} ELSE addons
            /\ UNCHANGED <<regionVars, subnet, cluster, secret, nodeVars, kubeconfig, tiller>>
    BY <1>17, AddonSet DEF Install
  <2>2. CASE ~MayInstall(Addon[i])
    <3>1. End(c) /\ addons' = addons
      BY <2>1, <2>2 DEF GotoIf
    <3>2. job'[c].step = "idle" /\ \A d \in Command \ {c} : job'[d] = job[d]
      BY <3>1, <1>a, NextSteps
    <3> QED
      BY <2>1, <3>1, <3>2, <1>a, <1>b, <1>c, <1>d
  <2>3. CASE MayInstall(Addon[i])
    <3> DEFINE next == IF Addon[i] = "tiller" THEN "tillerWait"
                       ELSE IF i = 6 THEN "created" ELSE Addon[i + 1]
    <3>1. Goto(c, next) /\ addons' = addons \cup {Addon[i]}
      BY <2>1, <2>3 DEF GotoIf
    <3>2. /\ next \in DOMAIN Before
          /\ i # 1 => job[c].step \in DOMAIN Before
          /\ i = 1 => next = "tiller" /\ Before[next] \subseteq {Addon[i]}
          /\ i # 1 => Before[next] \subseteq Before[job[c].step] \cup {Addon[i]}
          /\ i > 2 => job[c].step \notin {"tiller", "tillerWait"}
          /\ i = 2 => next = "tillerWait"
      BY <2>1, AddonSet
    <3> HIDE DEF next
    <3>3. kubeconfig /\ cluster = "ready"
      BY <2>3 DEF MayInstall
    <3>4. job'[c].step = next /\ \A d \in Command \ {c} : job'[d] = job[d]
      BY <3>1, <1>a, NextSteps
    <3>5. c \in Owner
      BY <2>1, AddonSet, <1>d
    <3>6. Before[next] \subseteq addons'
      BY <3>1, <3>2, <3>5, <1>b
    <3>7. next \notin {"tiller", "tillerWait"} => tiller
      BY <3>2, <3>5, <1>b
    <3>8. job[c].step \in {"rbac"} \cup DOMAIN Before
      BY <2>1, <3>2, AddonSet
    <3>9. \A d \in Owner \ {c} : job'[d].step = "idle"
      BY <3>4, <3>5, <3>8, <1>c, <1>d
    <3> QED
      BY <2>1, <3>2, <3>3, <3>4, <3>5, <3>7, <3>8, <3>9, <3>6, <1>b
  <2> QED
    BY <2>2, <2>3
<1>18. ASSUME NEW c \in Command, WaitForTiller(c) PROVE CreateProgress'
  BY <1>18, <1>a, <1>b, <1>c, <1>d, NextSteps DEF WaitForTiller
<1>19. ASSUME NEW c \in Command, CreateDone(c) PROVE CreateProgress'
  BY <1>19, <1>a, <1>b, <1>c, <1>d, NextSteps DEF CreateDone
<1>20. ASSUME NEW c \in Command, DeleteStart(c) PROVE CreateProgress'
  BY <1>20, <1>a, <1>b, <1>c, <1>d, NextSteps DEF DeleteStart
<1>21. ASSUME NEW c \in Command, DeleteCluster(c) PROVE CreateProgress'
  BY <1>21, <1>a, <1>b, <1>c, <1>d, NextSteps DEF DeleteCluster
<1>22. ASSUME NEW c \in Command, DeleteSubnet(c) PROVE CreateProgress'
  <2>1. job[c].step = "subnetGone"
    BY <1>22 DEF DeleteSubnet
  <2>2. \A d \in Owner \ {c} : job[d].step = "idle"
    BY <2>1, <1>a, <1>b, <1>c, <1>d
  <2>3. job'[c].step \in {"idle", "app", "appGone", "deleted"} /\ \A d \in Command \ {c} : job'[d] = job[d]
    BY <1>22, <1>a, NextSteps DEF DeleteSubnet
  <2> QED
    BY <2>2, <2>3, <1>c
<1>23. ASSUME NEW c \in Command, DeleteDone(c) PROVE CreateProgress'
  BY <1>23, <1>a, <1>b, <1>c, <1>d, NextSteps DEF DeleteDone
<1>24. ASSUME NEW c \in Command, c \notin Owner, AddNodePool(c) PROVE CreateProgress'
  <2>1. /\ job[c].step \in {"idle", "list", "patch"}
        /\ job'[c].step \in {"idle", "list", "patch", "upgrade"}
        /\ \A d \in Command \ {c} : job'[d] = job[d]
    BY <1>24, <1>a, PoolJobs
  <2> QED
    BY <1>24, <2>1, <1>a, <1>b, <1>c, <1>d DEF AddNodePool
<1>25. ASSUME NEW c \in Command, c \notin Owner, DeleteNodePool(c) PROVE CreateProgress'
  <2>1. \A d \in Command : job'[d].step = job[d].step
    BY <1>25, <1>a, GoneJobs
  <2> QED
    BY <1>25, <2>1, <1>a, <1>b, <1>c, <1>d DEF DeleteNodePool
<1>26. ASSUME NEW c \in Command, c \notin Owner, EnsurePublicIp(c) PROVE CreateProgress'
  <2>1. /\ job[c].step \in {"idle", "list", "patch"}
        /\ job'[c].step \in {"idle", "list", "patch", "upgrade"}
        /\ \A d \in Command \ {c} : job'[d] = job[d]
    BY <1>26, <1>a, PoolJobs
  <2> QED
    BY <1>26, <2>1, <1>a, <1>b, <1>c, <1>d DEF EnsurePublicIp
<1>27. ASSUME NEW c \in Command, ListVmss(c) PROVE CreateProgress'
  <2>1. /\ job[c].step = "list" /\ job'[c].step \in {"idle", "list", "patch", "upgrade"}
        /\ \A d \in Command \ {c} : job'[d] = job[d]
    BY <1>27, <1>a, PoolJobs DEF ListVmss
  <2> QED
    BY <1>27, <2>1, <1>a, <1>b, <1>c, <1>d DEF ListVmss
<1>28. ASSUME NEW c \in Command, PatchVmss(c) PROVE CreateProgress'
  <2>1. /\ job[c].step = "patch" /\ job'[c].step \in {"idle", "list", "patch", "upgrade"}
        /\ \A d \in Command \ {c} : job'[d] = job[d]
    BY <1>28, <1>a, PoolJobs DEF PatchVmss
  <2> QED
    BY <1>28, <2>1, <1>a, <1>b, <1>c, <1>d DEF PatchVmss
<1>29. ASSUME NEW c \in Command, UpgradeVms(c) PROVE CreateProgress'
  BY <1>29, <1>a, <1>b, <1>c, <1>d, NextSteps DEF UpgradeVms
<1>30. ASSUME NEW c \in Command, PublicIpsDone(c) PROVE CreateProgress'
  BY <1>30, <1>a, <1>b, <1>c, <1>d, NextSteps DEF PublicIpsDone
<1>31. ASSUME NEW c \in Command, Crash(c) PROVE CreateProgress'
  <2>1. job'[c].step = "idle" /\ \A d \in Command \ {c} : job'[d] = job[d]
    BY <1>31, <1>a, NextSteps DEF Crash
  <2> QED
    BY <1>31, <2>1, <1>a, <1>b, <1>c, <1>d DEF Crash
<1>32. CASE ServicePrincipalListed
  BY <1>32, <1>a, <1>b, <1>c, <1>d, NextSteps DEF ServicePrincipalListed
<1>33. CASE NodesMade
  BY <1>33, <1>a, <1>b, <1>c, <1>d, NextSteps DEF NodesMade
<1>34. CASE ClusterProvisioned
  BY <1>34, <1>a, <1>b, <1>c, <1>d, NextSteps DEF ClusterProvisioned
<1>35. CASE ClusterDeleted
  <2>1. \A d \in Command : job'[d].step = job[d].step
    BY <1>35, <1>a, GoneJobs
  <2> QED
    BY <1>35, <2>1, <1>a, <1>b, <1>c, <1>d DEF ClusterDeleted, ClusterRemoved
<1>36. CASE TillerReady
  BY <1>36, <1>a, <1>b, <1>c, <1>d, NextSteps DEF TillerReady
<1>37. CASE UNCHANGED vars
  BY <1>37, <1>a, <1>b, <1>c, <1>d DEF vars
<1> QED
  BY <1>1, <1>2, <1>3, <1>4, <1>5, <1>6, <1>7, <1>8, <1>9, <1>10, <1>11, <1>12, <1>13, <1>14,
     <1>15, <1>16, <1>17, <1>18, <1>19, <1>20, <1>21, <1>22, <1>23, <1>24, <1>25, <1>26, <1>27,
     <1>28, <1>29, <1>30, <1>31, <1>32, <1>33, <1>34, <1>35, <1>36, <1>37 DEF Next, Start,
       Proceed, EnableVmssPublicIps, Azure

\* A command that has taken a pool up has changed its scale set, and pools that are gone are
\* forgotten.
LEMMA PatchProgressStep == AksInv /\ [Next]_vars => PatchProgress'
<1> SUFFICES ASSUME AksInv, [Next]_vars PROVE PatchProgress'
  OBVIOUS
<1> USE DEF PatchProgress, At, Idle, GotoIf, OwnerIdle, regionVars, clusterVars, nodeVars,
      kubeVars
<1>a. job \in [Command -> Job] /\ World
  BY DEF AksInv, SecretIInv, TypeOK, World, Job, Step
<1>b. PatchProgress
  BY DEF AksInv
<1>1. ASSUME NEW c \in Command, PrepareStart(c) PROVE PatchProgress'
  BY <1>1, <1>a, <1>b, NextSteps DEF PrepareStart
<1>2. ASSUME NEW c \in Command, CreateVnet(c) PROVE PatchProgress'
  BY <1>2, <1>a, <1>b, NextSteps DEF CreateVnet
<1>3. ASSUME NEW c \in Command, CreateAdApplication(c) PROVE PatchProgress'
  BY <1>3, <1>a, <1>b, NextSteps DEF CreateAdApplication
<1>4. ASSUME NEW c \in Command, CreateServicePrincipal(c) PROVE PatchProgress'
  BY <1>4, <1>a, <1>b, NextSteps DEF CreateServicePrincipal
<1>5. ASSUME NEW c \in Command, ServicePrincipalAppeared(c) PROVE PatchProgress'
  BY <1>5, <1>a, <1>b, NextSteps DEF ServicePrincipalAppeared
<1>6. ASSUME NEW c \in Command, PrepareDone(c) PROVE PatchProgress'
  BY <1>6, <1>a, <1>b, NextSteps DEF PrepareDone
<1>7. ASSUME NEW c \in Command, CleanupStart(c) PROVE PatchProgress'
  BY <1>7, <1>a, <1>b, NextSteps DEF CleanupStart
<1>8. ASSUME NEW c \in Command, DeleteResourceGroup(c) PROVE PatchProgress'
  <2>1. /\ job'[c].step = "spGone"
        /\ \A d \in Command : job'[d].todo = job[d].todo
        /\ \A d \in Command \ {c} : job'[d].step = job[d].step
        /\ \/ /\ ClusterRemoved
              /\ \A d \in Command : job'[d].of = job[d].of \ pools
           \/ /\ UNCHANGED clusterVars
              /\ \A d \in Command : job'[d].of = job[d].of
    BY <1>8, <1>a, GroupDeleted
  <2>2. CASE ClusterRemoved /\ \A d \in Command : job'[d].of = job[d].of \ pools
    BY <2>1, <2>2, <1>b DEF ClusterRemoved
  <2>3. CASE UNCHANGED clusterVars /\ \A d \in Command : job'[d].of = job[d].of
    BY <2>1, <2>3, <1>b
  <2> QED
    BY <2>1, <2>2, <2>3
<1>9. ASSUME NEW c \in Command, DeleteServicePrincipal(c) PROVE PatchProgress'
  BY <1>9, <1>a, <1>b, NextSteps DEF DeleteServicePrincipal
<1>10. ASSUME NEW c \in Command, CleanupDone(c) PROVE PatchProgress'
  BY <1>10, <1>a, <1>b, NextSteps DEF CleanupDone
<1>11. ASSUME NEW c \in Command, CreateSubnet(c) PROVE PatchProgress'
  BY <1>11, <1>a, <1>b, NextSteps DEF CreateSubnet
<1>12. ASSUME NEW c \in Command, CreateCluster(c) PROVE PatchProgress'
  BY <1>12, <1>a, <1>b, NextSteps DEF CreateCluster
<1>13. ASSUME NEW c \in Command, Provisioned(c) PROVE PatchProgress'
  BY <1>13, <1>a, <1>b, NextSteps DEF Provisioned
<1>14. ASSUME NEW c \in Command, AddCredentials(c) PROVE PatchProgress'
  BY <1>14, <1>a, <1>b, NextSteps DEF AddCredentials
<1>15. ASSUME NEW c \in Command, OpenPortInNsg(c) PROVE PatchProgress'
  BY <1>15, <1>a, <1>b, NextSteps DEF OpenPortInNsg
<1>16. ASSUME NEW c \in Command, DownloadCredentials(c) PROVE PatchProgress'
  BY <1>16, <1>a, <1>b, NextSteps, AddonSet DEF DownloadCredentials
<1>17. ASSUME NEW c \in Command, Install(c) PROVE PatchProgress'
  BY <1>17, <1>a, <1>b, NextSteps, InstallJob, AddonSet DEF Install
<1>18. ASSUME NEW c \in Command, WaitForTiller(c) PROVE PatchProgress'
  BY <1>18, <1>a, <1>b, NextSteps DEF WaitForTiller
<1>19. ASSUME NEW c \in Command, CreateDone(c) PROVE PatchProgress'
  BY <1>19, <1>a, <1>b, NextSteps DEF CreateDone
<1>20. ASSUME NEW c \in Command, DeleteStart(c) PROVE PatchProgress'
  BY <1>20, <1>a, <1>b, NextSteps DEF DeleteStart
<1>21. ASSUME NEW c \in Command, DeleteCluster(c) PROVE PatchProgress'
  BY <1>21, <1>a, <1>b, NextSteps DEF DeleteCluster
<1>22. ASSUME NEW c \in Command, DeleteSubnet(c) PROVE PatchProgress'
  BY <1>22, <1>a, <1>b, NextSteps DEF DeleteSubnet
<1>23. ASSUME NEW c \in Command, DeleteDone(c) PROVE PatchProgress'
  BY <1>23, <1>a, <1>b, NextSteps DEF DeleteDone
<1>24. ASSUME NEW c \in Command, c \notin Owner, AddNodePool(c) PROVE PatchProgress'
  <2>1. /\ job'[c].of = {}
        /\ \A d \in Command \ {c} : job'[d] = job[d]
    BY <1>24, <1>a DEF AddNodePool, NoJob
  <2> QED
    BY <1>24, <2>1, <1>a, <1>b DEF AddNodePool
<1>25. ASSUME NEW c \in Command, c \notin Owner, DeleteNodePool(c) PROVE PatchProgress'
  <2>1. PICK p \in pools : /\ pools' = pools \ {p} /\ config' = config \ {p}
                            /\ Forget({p}, job)
    BY <1>25 DEF DeleteNodePool
  <2>2. \A d \in Command : /\ job'[d].step = job[d].step /\ job'[d].todo = job[d].todo
                           /\ job'[d].of = job[d].of \ {p}
    BY <2>1, <1>a, ForgetJob
  <2> QED
    BY <2>1, <2>2, <1>b
<1>26. ASSUME NEW c \in Command, c \notin Owner, EnsurePublicIp(c) PROVE PatchProgress'
  <2>1. /\ job'[c].of = {}
        /\ \A d \in Command \ {c} : job'[d] = job[d]
    BY <1>26, <1>a DEF EnsurePublicIp, NoJob
  <2> QED
    BY <1>26, <2>1, <1>a, <1>b DEF EnsurePublicIp
<1>27. ASSUME NEW c \in Command, ListVmss(c) PROVE PatchProgress'
  <2>1. CASE End(c)
    BY <1>27, <2>1, <1>a, <1>b, NextSteps DEF ListVmss
  <2>2. CASE job' = [job EXCEPT ![c].step = "patch", ![c].of = pools, ![c].todo = pools \ config]
    <3>1. /\ job'[c].of = pools /\ job'[c].todo = pools \ config
          /\ \A d \in Command \ {c} : job'[d] = job[d]
      BY <2>2, <1>a DEF Job
    <3> QED
      BY <1>27, <3>1, <1>a, <1>b DEF ListVmss
  <2> QED
    BY <1>27, <2>1, <2>2 DEF ListVmss
<1>28. ASSUME NEW c \in Command, PatchVmss(c) PROVE PatchProgress'
  <2>1. CASE End(c)
    BY <1>28, <2>1, <1>a, <1>b, NextSteps DEF PatchVmss
  <2>2. ASSUME NEW p \in pools, config' = config \cup {p},
               job' = [job EXCEPT ![c].step = "upgrade", ![c].pool = p, ![c].todo = @ \ {p}]
        PROVE  PatchProgress'
    <3>1. /\ job'[c].of = job[c].of /\ job'[c].todo = job[c].todo \ {p}
          /\ \A d \in Command \ {c} : job'[d] = job[d]
      BY <2>2, <1>a DEF Job
    <3>2. job[c].step = "patch" /\ UNCHANGED pools
      BY <1>28 DEF PatchVmss
    <3> QED
      BY <2>2, <3>1, <3>2, <1>a, <1>b
  <2>3. PICK p \in job[c].todo :
             /\ config' = config \cup ({p} \cap pools)
             /\ IF p \in pools
                THEN job' = [job EXCEPT ![c].step = "upgrade", ![c].pool = p, ![c].todo = @ \ {p}]
                ELSE End(c)
    BY <1>28 DEF PatchVmss
  <2>4. CASE p \in pools
    <3>1. config' = config \cup {p}
      BY <2>3, <2>4
    <3> QED
      BY <2>2, <2>3, <2>4, <3>1
  <2> QED
    BY <2>1, <2>3, <2>4
<1>29. ASSUME NEW c \in Command, UpgradeVms(c) PROVE PatchProgress'
  BY <1>29, <1>a, <1>b, NextSteps DEF UpgradeVms
<1>30. ASSUME NEW c \in Command, PublicIpsDone(c) PROVE PatchProgress'
  BY <1>30, <1>a, <1>b, NextSteps DEF PublicIpsDone
<1>31. ASSUME NEW c \in Command, Crash(c) PROVE PatchProgress'
  BY <1>31, <1>a, <1>b, NextSteps DEF Crash
<1>32. CASE ServicePrincipalListed
  BY <1>32, <1>a, <1>b, NextSteps DEF ServicePrincipalListed
<1>33. CASE NodesMade
  BY <1>33, <1>a, <1>b, NextSteps DEF NodesMade
<1>34. CASE ClusterProvisioned
  BY <1>34, <1>a, <1>b, NextSteps DEF ClusterProvisioned
<1>35. CASE ClusterDeleted
  <2>1. \A d \in Command : /\ job'[d].step = job[d].step /\ job'[d].todo = job[d].todo
                           /\ job'[d].of = job[d].of \ pools
    BY <1>35, <1>a, ForgetJob DEF ClusterDeleted
  <2> QED
    BY <1>35, <2>1, <1>b DEF ClusterDeleted, ClusterRemoved
<1>36. CASE TillerReady
  BY <1>36, <1>a, <1>b, NextSteps DEF TillerReady
<1>37. CASE UNCHANGED vars
  BY <1>37, <1>a, <1>b DEF vars
<1> QED
  BY <1>1, <1>2, <1>3, <1>4, <1>5, <1>6, <1>7, <1>8, <1>9, <1>10, <1>11, <1>12, <1>13, <1>14,
     <1>15, <1>16, <1>17, <1>18, <1>19, <1>20, <1>21, <1>22, <1>23, <1>24, <1>25, <1>26, <1>27,
     <1>28, <1>29, <1>30, <1>31, <1>32, <1>33, <1>34, <1>35, <1>36, <1>37 DEF Next, Start,
       Proceed, EnableVmssPublicIps, Azure

\* Nobody leaves a scale set that it has changed without its VMs, as long as those who
\* upgrade go on.
LEMMA BareKept ==
    ASSUME BareUpgraded, (bare' \cap config') \ lost' \subseteq (bare \cap config) \ lost,
           \A d \in Command : job[d].step = "upgrade" =>
               job'[d].step = "upgrade" /\ job'[d].pool = job[d].pool
    PROVE  BareUpgraded'
BY DEF BareUpgraded, At


\* Where a scale set has been changed somebody upgrades the VMs, or died.
LEMMA BareUpgradedStep == AksInv /\ [Next]_vars => BareUpgraded'
<1> SUFFICES ASSUME AksInv, [Next]_vars PROVE BareUpgraded'
  OBVIOUS
<1> USE DEF At, Idle, GotoIf, OwnerIdle, regionVars, clusterVars, nodeVars, kubeVars
<1>a. job \in [Command -> Job] /\ World
  BY DEF AksInv, SecretIInv, TypeOK, World, Job, Step
<1>b. BareUpgraded
  BY DEF AksInv
<1>1. ASSUME NEW c \in Command, PrepareStart(c) PROVE BareUpgraded'
  <2>1. \A d \in Command : job[d].step = "upgrade" =>
            job'[d].step = "upgrade" /\ job'[d].pool = job[d].pool
    BY <1>1, <1>a, NextSteps DEF PrepareStart
  <2>2. (bare' \cap config') \ lost' \subseteq (bare \cap config) \ lost
    BY <1>1, <1>a DEF PrepareStart
  <2> QED
    BY <2>1, <2>2, <1>b, BareKept
<1>2. ASSUME NEW c \in Command, CreateVnet(c) PROVE BareUpgraded'
  <2>1. \A d \in Command : job[d].step = "upgrade" =>
            job'[d].step = "upgrade" /\ job'[d].pool = job[d].pool
    BY <1>2, <1>a, NextSteps DEF CreateVnet
  <2>2. (bare' \cap config') \ lost' \subseteq (bare \cap config) \ lost
    BY <1>2, <1>a DEF CreateVnet
  <2> QED
    BY <2>1, <2>2, <1>b, BareKept
<1>3. ASSUME NEW c \in Command, CreateAdApplication(c) PROVE BareUpgraded'
  <2>1. \A d \in Command : job[d].step = "upgrade" =>
            job'[d].step = "upgrade" /\ job'[d].pool = job[d].pool
    BY <1>3, <1>a, NextSteps DEF CreateAdApplication
  <2>2. (bare' \cap config') \ lost' \subseteq (bare \cap config) \ lost
    BY <1>3, <1>a DEF CreateAdApplication
  <2> QED
    BY <2>1, <2>2, <1>b, BareKept
<1>4. ASSUME NEW c \in Command, CreateServicePrincipal(c) PROVE BareUpgraded'
  <2>1. \A d \in Command : job[d].step = "upgrade" =>
            job'[d].step = "upgrade" /\ job'[d].pool = job[d].pool
    BY <1>4, <1>a, NextSteps DEF CreateServicePrincipal
  <2>2. (bare' \cap config') \ lost' \subseteq (bare \cap config) \ lost
    BY <1>4, <1>a DEF CreateServicePrincipal
  <2> QED
    BY <2>1, <2>2, <1>b, BareKept
<1>5. ASSUME NEW c \in Command, ServicePrincipalAppeared(c) PROVE BareUpgraded'
  <2>1. \A d \in Command : job[d].step = "upgrade" =>
            job'[d].step = "upgrade" /\ job'[d].pool = job[d].pool
    BY <1>5, <1>a, NextSteps DEF ServicePrincipalAppeared
  <2>2. (bare' \cap config') \ lost' \subseteq (bare \cap config) \ lost
    BY <1>5, <1>a DEF ServicePrincipalAppeared
  <2> QED
    BY <2>1, <2>2, <1>b, BareKept
<1>6. ASSUME NEW c \in Command, PrepareDone(c) PROVE BareUpgraded'
  <2>1. \A d \in Command : job[d].step = "upgrade" =>
            job'[d].step = "upgrade" /\ job'[d].pool = job[d].pool
    BY <1>6, <1>a, NextSteps DEF PrepareDone
  <2>2. (bare' \cap config') \ lost' \subseteq (bare \cap config) \ lost
    BY <1>6, <1>a DEF PrepareDone
  <2> QED
    BY <2>1, <2>2, <1>b, BareKept
<1>7. ASSUME NEW c \in Command, CleanupStart(c) PROVE BareUpgraded'
  <2>1. \A d \in Command : job[d].step = "upgrade" =>
            job'[d].step = "upgrade" /\ job'[d].pool = job[d].pool
    BY <1>7, <1>a, NextSteps DEF CleanupStart
  <2>2. (bare' \cap config') \ lost' \subseteq (bare \cap config) \ lost
    BY <1>7, <1>a DEF CleanupStart
  <2> QED
    BY <2>1, <2>2, <1>b, BareKept
<1>8. ASSUME NEW c \in Command, DeleteResourceGroup(c) PROVE BareUpgraded'
  <2>1. \A d \in Command : job[d].step = "upgrade" =>
            job'[d].step = "upgrade" /\ job'[d].pool = job[d].pool
    BY <1>8, <1>a, GroupDeleted
  <2>2. (bare' \cap config') \ lost' \subseteq (bare \cap config) \ lost
    BY <1>8, <1>a DEF DeleteResourceGroup, ClusterRemoved
  <2> QED
    BY <2>1, <2>2, <1>b, BareKept
<1>9. ASSUME NEW c \in Command, DeleteServicePrincipal(c) PROVE BareUpgraded'
  <2>1. \A d \in Command : job[d].step = "upgrade" =>
            job'[d].step = "upgrade" /\ job'[d].pool = job[d].pool
    BY <1>9, <1>a, NextSteps DEF DeleteServicePrincipal
  <2>2. (bare' \cap config') \ lost' \subseteq (bare \cap config) \ lost
    BY <1>9, <1>a DEF DeleteServicePrincipal
  <2> QED
    BY <2>1, <2>2, <1>b, BareKept
<1>10. ASSUME NEW c \in Command, CleanupDone(c) PROVE BareUpgraded'
  <2>1. \A d \in Command : job[d].step = "upgrade" =>
            job'[d].step = "upgrade" /\ job'[d].pool = job[d].pool
    BY <1>10, <1>a, NextSteps DEF CleanupDone
  <2>2. (bare' \cap config') \ lost' \subseteq (bare \cap config) \ lost
    BY <1>10, <1>a DEF CleanupDone
  <2> QED
    BY <2>1, <2>2, <1>b, BareKept
<1>11. ASSUME NEW c \in Command, CreateSubnet(c) PROVE BareUpgraded'
  <2>1. \A d \in Command : job[d].step = "upgrade" =>
            job'[d].step = "upgrade" /\ job'[d].pool = job[d].pool
    BY <1>11, <1>a, NextSteps DEF CreateSubnet
  <2>2. (bare' \cap config') \ lost' \subseteq (bare \cap config) \ lost
    BY <1>11, <1>a DEF CreateSubnet
  <2> QED
    BY <2>1, <2>2, <1>b, BareKept
<1>12. ASSUME NEW c \in Command, CreateCluster(c) PROVE BareUpgraded'
  <2>1. \A d \in Command : job[d].step = "upgrade" =>
            job'[d].step = "upgrade" /\ job'[d].pool = job[d].pool
    BY <1>12, <1>a, NextSteps DEF CreateCluster
  <2>2. (bare' \cap config') \ lost' \subseteq (bare \cap config) \ lost
    BY <1>12, <1>a DEF CreateCluster
  <2> QED
    BY <2>1, <2>2, <1>b, BareKept
<1>13. ASSUME NEW c \in Command, Provisioned(c) PROVE BareUpgraded'
  <2>1. \A d \in Command : job[d].step = "upgrade" =>
            job'[d].step = "upgrade" /\ job'[d].pool = job[d].pool
    BY <1>13, <1>a, NextSteps DEF Provisioned
  <2>2. (bare' \cap config') \ lost' \subseteq (bare \cap config) \ lost
    BY <1>13, <1>a DEF Provisioned
  <2> QED
    BY <2>1, <2>2, <1>b, BareKept
<1>14. ASSUME NEW c \in Command, AddCredentials(c) PROVE BareUpgraded'
  <2>1. \A d \in Command : job[d].step = "upgrade" =>
            job'[d].step = "upgrade" /\ job'[d].pool = job[d].pool
    BY <1>14, <1>a, NextSteps DEF AddCredentials
  <2>2. (bare' \cap config') \ lost' \subseteq (bare \cap config) \ lost
    BY <1>14, <1>a DEF AddCredentials
  <2> QED
    BY <2>1, <2>2, <1>b, BareKept
<1>15. ASSUME NEW c \in Command, OpenPortInNsg(c) PROVE BareUpgraded'
  <2>1. \A d \in Command : job[d].step = "upgrade" =>
            job'[d].step = "upgrade" /\ job'[d].pool = job[d].pool
    BY <1>15, <1>a, NextSteps DEF OpenPortInNsg
  <2>2. (bare' \cap config') \ lost' \subseteq (bare \cap config) \ lost
    BY <1>15, <1>a DEF OpenPortInNsg
  <2> QED
    BY <2>1, <2>2, <1>b, BareKept
<1>16. ASSUME NEW c \in Command, DownloadCredentials(c) PROVE BareUpgraded'
  <2>1. \A d \in Command : job[d].step = "upgrade" =>
            job'[d].step = "upgrade" /\ job'[d].pool = job[d].pool
    BY <1>16, <1>a, NextSteps DEF DownloadCredentials
  <2>2. (bare' \cap config') \ lost' \subseteq (bare \cap config) \ lost
    BY <1>16, <1>a DEF DownloadCredentials
  <2> QED
    BY <2>1, <2>2, <1>b, BareKept
<1>17. ASSUME NEW c \in Command, Install(c) PROVE BareUpgraded'
  <2>1. \A d \in Command : job[d].step = "upgrade" =>
            job'[d].step = "upgrade" /\ job'[d].pool = job[d].pool
    BY <1>17, <1>a, InstallJob, AddonSet
  <2>2. (bare' \cap config') \ lost' \subseteq (bare \cap config) \ lost
    BY <1>17, <1>a DEF Install
  <2> QED
    BY <2>1, <2>2, <1>b, BareKept
<1>18. ASSUME NEW c \in Command, WaitForTiller(c) PROVE BareUpgraded'
  <2>1. \A d \in Command : job[d].step = "upgrade" =>
            job'[d].step = "upgrade" /\ job'[d].pool = job[d].pool
    BY <1>18, <1>a, NextSteps DEF WaitForTiller
  <2>2. (bare' \cap config') \ lost' \subseteq (bare \cap config) \ lost
    BY <1>18, <1>a DEF WaitForTiller
  <2> QED
    BY <2>1, <2>2, <1>b, BareKept
<1>19. ASSUME NEW c \in Command, CreateDone(c) PROVE BareUpgraded'
  <2>1. \A d \in Command : job[d].step = "upgrade" =>
            job'[d].step = "upgrade" /\ job'[d].pool = job[d].pool
    BY <1>19, <1>a, NextSteps DEF CreateDone
  <2>2. (bare' \cap config') \ lost' \subseteq (bare \cap config) \ lost
    BY <1>19, <1>a DEF CreateDone
  <2> QED
    BY <2>1, <2>2, <1>b, BareKept
<1>20. ASSUME NEW c \in Command, DeleteStart(c) PROVE BareUpgraded'
  <2>1. \A d \in Command : job[d].step = "upgrade" =>
            job'[d].step = "upgrade" /\ job'[d].pool = job[d].pool
    BY <1>20, <1>a, NextSteps DEF DeleteStart
  <2>2. (bare' \cap config') \ lost' \subseteq (bare \cap config) \ lost
    BY <1>20, <1>a DEF DeleteStart
  <2> QED
    BY <2>1, <2>2, <1>b, BareKept
<1>21. ASSUME NEW c \in Command, DeleteCluster(c) PROVE BareUpgraded'
  <2>1. \A d \in Command : job[d].step = "upgrade" =>
            job'[d].step = "upgrade" /\ job'[d].pool = job[d].pool
    BY <1>21, <1>a, NextSteps DEF DeleteCluster
  <2>2. (bare' \cap config') \ lost' \subseteq (bare \cap config) \ lost
    BY <1>21, <1>a DEF DeleteCluster
  <2> QED
    BY <2>1, <2>2, <1>b, BareKept
<1>22. ASSUME NEW c \in Command, DeleteSubnet(c) PROVE BareUpgraded'
  <2>1. \A d \in Command : job[d].step = "upgrade" =>
            job'[d].step = "upgrade" /\ job'[d].pool = job[d].pool
    BY <1>22, <1>a, NextSteps DEF DeleteSubnet
  <2>2. (bare' \cap config') \ lost' \subseteq (bare \cap config) \ lost
    BY <1>22, <1>a DEF DeleteSubnet
  <2> QED
    BY <2>1, <2>2, <1>b, BareKept
<1>23. ASSUME NEW c \in Command, DeleteDone(c) PROVE BareUpgraded'
  <2>1. \A d \in Command : job[d].step = "upgrade" =>
            job'[d].step = "upgrade" /\ job'[d].pool = job[d].pool
    BY <1>23, <1>a, NextSteps DEF DeleteDone
  <2>2. (bare' \cap config') \ lost' \subseteq (bare \cap config) \ lost
    BY <1>23, <1>a DEF DeleteDone
  <2> QED
    BY <2>1, <2>2, <1>b, BareKept
<1>24. ASSUME NEW c \in Command, c \notin Owner, AddNodePool(c) PROVE BareUpgraded'
  <2>1. \A d \in Command : job[d].step = "upgrade" =>
            job'[d].step = "upgrade" /\ job'[d].pool = job[d].pool
    BY <1>24, <1>a, PoolJobs
  <2>2. (bare' \cap config') \ lost' \subseteq (bare \cap config) \ lost
    BY <1>24, <1>a DEF AddNodePool, World
  <2> QED
    BY <2>1, <2>2, <1>b, BareKept
<1>25. ASSUME NEW c \in Command, c \notin Owner, DeleteNodePool(c) PROVE BareUpgraded'
  <2>1. \A d \in Command : job[d].step = "upgrade" =>
            job'[d].step = "upgrade" /\ job'[d].pool = job[d].pool
    BY <1>25, <1>a, GoneJobs
  <2>2. (bare' \cap config') \ lost' \subseteq (bare \cap config) \ lost
    BY <1>25, <1>a DEF DeleteNodePool
  <2> QED
    BY <2>1, <2>2, <1>b, BareKept
<1>26. ASSUME NEW c \in Command, c \notin Owner, EnsurePublicIp(c) PROVE BareUpgraded'
  <2>1. \A d \in Command : job[d].step = "upgrade" =>
            job'[d].step = "upgrade" /\ job'[d].pool = job[d].pool
    BY <1>26, <1>a, PoolJobs
  <2>2. (bare' \cap config') \ lost' \subseteq (bare \cap config) \ lost
    BY <1>26, <1>a DEF EnsurePublicIp
  <2> QED
    BY <2>1, <2>2, <1>b, BareKept
<1>27. ASSUME NEW c \in Command, ListVmss(c) PROVE BareUpgraded'
  <2>1. \A d \in Command : job[d].step = "upgrade" =>
            job'[d].step = "upgrade" /\ job'[d].pool = job[d].pool
    BY <1>27, <1>a, PoolJobs
  <2>2. (bare' \cap config') \ lost' \subseteq (bare \cap config) \ lost
    BY <1>27, <1>a DEF ListVmss
  <2> QED
    BY <2>1, <2>2, <1>b, BareKept
<1>28. ASSUME NEW c \in Command, PatchVmss(c) PROVE BareUpgraded'
  <2>1. job[c].step = "patch" /\ \A d \in Command \ {c} : job'[d] = job[d]
    BY <1>28, <1>a, PoolJobs DEF PatchVmss
  <2>2. CASE config' = config
    BY <1>28, <2>1, <2>2, <1>b, BareKept DEF PatchVmss
  <2>3. ASSUME NEW p \in pools, config' = config \cup {p},
               job' = [job EXCEPT ![c].step = "upgrade", ![c].pool = p, ![c].todo = @ \ {p}]
        PROVE  BareUpgraded'
    <3>1. job'[c].step = "upgrade" /\ job'[c].pool = p
      BY <2>3, <1>a DEF Job
    <3>2. UNCHANGED <<bare, lost>>
      BY <1>28 DEF PatchVmss
    <3> SUFFICES ASSUME NEW q \in (bare' \cap config') \ lost'
                    PROVE  \E d \in Command : job'[d].step = "upgrade" /\ job'[d].pool = q
      BY DEF BareUpgraded
    <3>3. CASE q = p
      BY <3>1, <3>3
    <3>4. CASE q # p
      <4>1. PICK d \in Command : job[d].step = "upgrade" /\ job[d].pool = q
        BY <2>3, <3>2, <3>4, <1>b DEF BareUpgraded
      <4> QED
        BY <2>1, <4>1
    <3> QED
      BY <3>3, <3>4
  <2> QED
    <3>1. PICK p \in job[c].todo :
              /\ config' = config \cup ({p} \cap pools)
              /\ p \in pools =>
                     job' = [job EXCEPT ![c].step = "upgrade", ![c].pool = p, ![c].todo = @ \ {p}]
      BY <1>28 DEF PatchVmss
    <3>2. CASE p \in pools
      BY <2>3, <3>1, <3>2
    <3>3. CASE p \notin pools
      BY <2>2, <3>1, <3>3
    <3> QED
      BY <3>2, <3>3
<1>29. ASSUME NEW c \in Command, UpgradeVms(c) PROVE BareUpgraded'
  <2> DEFINE p == job[c].pool
  <2>1. \A d \in Command \ {c} : job'[d] = job[d]
    BY <1>29, <1>a, NextSteps DEF UpgradeVms
  <2>2. (bare' \cap config') \ lost' \subseteq ((bare \cap config) \ lost) \ {p}
    BY <1>29, <1>a DEF UpgradeVms, World
  <2> QED
    BY <2>1, <2>2, <1>b DEF BareUpgraded
<1>30. ASSUME NEW c \in Command, PublicIpsDone(c) PROVE BareUpgraded'
  <2>1. \A d \in Command : job[d].step = "upgrade" =>
            job'[d].step = "upgrade" /\ job'[d].pool = job[d].pool
    BY <1>30, <1>a, NextSteps DEF PublicIpsDone
  <2>2. (bare' \cap config') \ lost' \subseteq (bare \cap config) \ lost
    BY <1>30, <1>a DEF PublicIpsDone
  <2> QED
    BY <2>1, <2>2, <1>b, BareKept
<1>31. ASSUME NEW c \in Command, Crash(c) PROVE BareUpgraded'
  <2>1. \A d \in Command \ {c} : job'[d] = job[d]
    BY <1>31, <1>a, NextSteps DEF Crash
  <2>2. UNCHANGED <<bare, config>>
    BY <1>31 DEF Crash
  <2>3. CASE job[c].step = "upgrade"
    <3>1. lost' = lost \cup (bare \cap {job[c].pool})
      BY <1>31, <2>3 DEF Crash
    <3> QED
      BY <2>1, <2>2, <3>1, <1>b DEF BareUpgraded
  <2>4. CASE job[c].step # "upgrade"
    BY <1>31, <2>1, <2>2, <2>4, <1>b DEF Crash, BareUpgraded
  <2> QED
    BY <2>3, <2>4
<1>32. CASE ServicePrincipalListed
  <2>1. \A d \in Command : job[d].step = "upgrade" =>
            job'[d].step = "upgrade" /\ job'[d].pool = job[d].pool
    BY <1>32, <1>a, Zenon DEF ServicePrincipalListed
  <2>2. (bare' \cap config') \ lost' \subseteq (bare \cap config) \ lost
    BY <1>32, <1>a DEF ServicePrincipalListed
  <2> QED
    BY <2>1, <2>2, <1>b, BareKept
<1>33. CASE NodesMade
  <2>1. \A d \in Command : job[d].step = "upgrade" =>
            job'[d].step = "upgrade" /\ job'[d].pool = job[d].pool
    BY <1>33, <1>a, Zenon DEF NodesMade
  <2>2. (bare' \cap config') \ lost' \subseteq (bare \cap config) \ lost
    BY <1>33, <1>a DEF NodesMade, World
  <2> QED
    BY <2>1, <2>2, <1>b, BareKept
<1>34. CASE ClusterProvisioned
  <2>1. \A d \in Command : job[d].step = "upgrade" =>
            job'[d].step = "upgrade" /\ job'[d].pool = job[d].pool
    BY <1>34, <1>a, Zenon DEF ClusterProvisioned
  <2>2. (bare' \cap config') \ lost' \subseteq (bare \cap config) \ lost
    BY <1>34, <1>a DEF ClusterProvisioned
  <2> QED
    BY <2>1, <2>2, <1>b, BareKept
<1>35. CASE ClusterDeleted
  <2>1. \A d \in Command : job[d].step = "upgrade" =>
            job'[d].step = "upgrade" /\ job'[d].pool = job[d].pool
    BY <1>35, <1>a, GoneJobs
  <2>2. (bare' \cap config') \ lost' \subseteq (bare \cap config) \ lost
    BY <1>35, <1>a DEF ClusterDeleted, ClusterRemoved
  <2> QED
    BY <2>1, <2>2, <1>b, BareKept
<1>36. CASE TillerReady
  <2>1. \A d \in Command : job[d].step = "upgrade" =>
            job'[d].step = "upgrade" /\ job'[d].pool = job[d].pool
    BY <1>36, <1>a, Zenon DEF TillerReady
  <2>2. (bare' \cap config') \ lost' \subseteq (bare \cap config) \ lost
    BY <1>36, <1>a DEF TillerReady
  <2> QED
    BY <2>1, <2>2, <1>b, BareKept
<1>37. CASE UNCHANGED vars
  BY <1>37, <1>a, <1>b DEF vars, BareUpgraded
<1> QED
  BY <1>1, <1>2, <1>3, <1>4, <1>5, <1>6, <1>7, <1>8, <1>9, <1>10, <1>11, <1>12, <1>13, <1>14,
     <1>15, <1>16, <1>17, <1>18, <1>19, <1>20, <1>21, <1>22, <1>23, <1>24, <1>25, <1>26, <1>27,
     <1>28, <1>29, <1>30, <1>31, <1>32, <1>33, <1>34, <1>35, <1>36, <1>37 DEF Next, Start,
       Proceed, EnableVmssPublicIps, Azure

-------------------------------------------------------------------------------
(* The theorems. *)

\* The invariants hold of a subscription without anything.
LEMMA AksInit == Init => AksInv
<1> SUFFICES ASSUME Init PROVE AksInv
  OBVIOUS
<1>1. /\ listed \in BOOLEAN /\ mismatch \in BOOLEAN /\ subnet \in BOOLEAN
      /\ nsg \in BOOLEAN /\ kubeconfig \in BOOLEAN /\ tiller \in BOOLEAN
  BY Zenon DEF Init
<1>2. job \in [Command -> Job] /\ faults \in 0..MaxFaults
  <2>1. faults \in 0..MaxFaults
    BY AksAssumption DEF Init
  <2>2. job = [c \in Command |-> NoJob]
    BY DEF Init
  <2> QED
    BY <2>1, <2>2, NoJobType
<1>3. ~listed /\ ~subnet /\ ~mismatch
  BY Zenon DEF Init
<1>4. World
  BY <1>1, <1>2, <1>3 DEF Init, World
<1>5. TypeOK
  BY <1>2, <1>4 DEF TypeOK, World, Job, Step
<1>6. \A c \in Command : job[c].step = "idle" /\ ~job[c].whole /\ job[c].of = {}
  BY DEF Init, NoJob
<1>7. Shells /\ OneOwner /\ Prepared /\ GroupGoneFirst
  BY <1>6, AksAssumption DEF Shells, OneOwner, Prepared, GroupGoneFirst, Idle, At
<1>8. PasswordsMatch
  BY <1>3 DEF Init, PasswordsMatch
<1>9. DeleteProgress /\ CreateProgress /\ PatchProgress
  BY <1>6, AksAssumption
     DEF DeleteProgress, CreateProgress, PatchProgress, At, AfterRoles, AfterIps, AfterPorts,
         Before
<1>10. BareUpgraded
  BY DEF Init, BareUpgraded
<1> QED
  BY <1>5, <1>7, <1>8, <1>9, <1>10 DEF AksInv, SecretIInv

\* Every step keeps them.
LEMMA AksNext == AksInv /\ [Next]_vars => AksInv'
<1> SUFFICES ASSUME AksInv, [Next]_vars PROVE AksInv'
  OBVIOUS
<1>1. SecretIInv /\ TypeOK
  BY DEF AksInv, SecretIInv
<1>2. TypeOK'
  <2>1. World' /\ job' \in [Command -> Job]
    BY <1>1, JobStep, WorldStep
  <2> QED
    BY <2>1 DEF TypeOK, World, Job, Step
<1>3. SecretIInv'
  BY <1>1, <1>2, ShellsStep, PreparedStep, PasswordsStep, GroupGoneStep DEF SecretIInv
<1> QED
  BY <1>3, DeleteProgressStep, CreateProgressStep, PatchProgressStep, BareUpgradedStep DEF AksInv

\* So they hold of every run.
LEMMA AksInvariant == Spec => []AksInv
BY AksInit, AksNext, PTL DEF Spec

\* A cluster that works has the password of the service principal, whatever was prepared,
\* created, deleted and cleaned up before in whatever order and with whatever faults, unless
\* region-prepare was given another password or a group was not deleted.
THEOREM ClustersKnowThePassword == Spec => []SecretInv
<1>1. AksInv => SecretInv
  BY DEF AksInv, SecretIInv, SecretInv, SecretWorks, PasswordsMatch
<1> QED
  BY <1>1, AksInvariant, PTL

\* A cluster-create that succeeds has set up all that Sye requires of the cluster, in
\* whatever state it has found what existed.
THEOREM CreateIsComplete == Spec => CreatedMeansReady
<1>1. AksInv /\ [Next]_vars =>
          [\A c \in Command : CreateDone(c) =>
              /\ cluster = "ready" /\ {"nodes", "subnet"} \subseteq roles
              /\ {"ssp", "broker"} \subseteq ports
              /\ kubeconfig /\ tiller /\ addons = Addons]_vars
  <2> SUFFICES ASSUME AksInv, NEW c \in Command, CreateDone(c)
               PROVE  /\ cluster = "ready" /\ {"nodes", "subnet"} \subseteq roles
                      /\ {"ssp", "broker"} \subseteq ports
                      /\ kubeconfig /\ tiller /\ addons = Addons
    OBVIOUS
  <2>1. job[c].step = "created"
    BY DEF CreateDone, At
  <2>2. c \in Owner
    BY <2>1 DEF AksInv, SecretIInv, Shells
  <2>3. addons \subseteq Addons /\ Before["created"] = Addons
    BY AddonSet DEF AksInv, SecretIInv, TypeOK, Before
  <2>4. "created" \in DOMAIN Before
    BY DEF Before
  <2> QED
    BY <2>1, <2>2, <2>3, <2>4 DEF AksInv, CreateProgress
<1> QED
  BY <1>1, AksInvariant, PTL DEF Spec, CreatedMeansReady

\* A command that has been through the pools it found leaves no VM without a public
\* address, unless another one is at it or died, however many shells add, delete and mend
\* pools together.
THEOREM NoPoolIsPassedOver == Spec => PublicAddresses
<1>1. AksInv /\ [Next]_vars =>
          [\A c \in Command : PublicIpsDone(c) =>
              \A p \in (bare \cap job[c].of) \ lost :
                  \E d \in Command : At(d, "upgrade") /\ job[d].pool = p]_vars
  <2> SUFFICES ASSUME AksInv, NEW c \in Command, PublicIpsDone(c),
                      NEW p \in (bare \cap job[c].of) \ lost
               PROVE  \E d \in Command : At(d, "upgrade") /\ job[d].pool = p
    OBVIOUS
  <2>1. job[c].step = "patch" /\ job[c].todo = {}
    BY DEF PublicIpsDone, At
  <2>2. p \in config
    BY <2>1 DEF AksInv, PatchProgress
  <2> QED
    BY <2>2 DEF AksInv, BareUpgraded
<1> QED
  BY <1>1, AksInvariant, PTL DEF Spec, PublicAddresses

\* A cluster-delete leaves neither the cluster nor its subnet, and a region-cleanup nothing,
\* although both take every error for success, unless a call of theirs was really refused.
THEOREM DeleteIsComplete == Spec => DeletedMeansGone
<1>1. AksInv /\ [Next]_vars =>
          [\A c \in Command : ~job[c].refused =>
              /\ DeleteDone(c) => cluster = "none" /\ ~subnet
              /\ CleanupDone(c) => cluster = "none" /\ region' = {} /\ sp' = None]_vars
  <2> SUFFICES ASSUME AksInv, NEW c \in Command, ~job[c].refused
               PROVE  /\ DeleteDone(c) => cluster = "none" /\ ~subnet
                      /\ CleanupDone(c) => cluster = "none" /\ region' = {} /\ sp' = None
    OBVIOUS
  <2>1. DeleteDone(c) => cluster = "none" /\ ~subnet
    BY DEF DeleteDone, At, AksInv, DeleteProgress
  <2>2. CleanupDone(c) => cluster = "none" /\ region' = {} /\ sp' = None
    BY DEF CleanupDone, At, AksInv, DeleteProgress
  <2> QED
    BY <2>1, <2>2
<1> QED
  BY <1>1, AksInvariant, PTL DEF Spec, DeletedMeansGone
===============================================================================
