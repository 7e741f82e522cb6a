----------------------------- MODULE AzureMachine -----------------------------
(***************************************************************************)
(* sye azure machine-add, machine-delete, machine-redeploy, machine-edit   *)
(* and ensure-security-rules in one region of a cluster.  Each command is  *)
(* a chain of calls to the resource manager; a machine is a VM, a network  *)
(* interface (NIC), a public IP address and perhaps a data disk, and its   *)
(* firewall is one of seven security groups that all machines of the       *)
(* region share.  Every group must name the address of every machine.      *)
(*                                                                         *)
(* The resource manager is external: it refuses what refers to a missing   *)
(* resource, deletes what does not exist without complaint, and gives a VM *)
(* its dynamic address when it has created it.                             *)
(***************************************************************************)
EXTENDS Naturals, FiniteSets

CONSTANTS
    Command,     \* shells in which commands are run
    Name,        \* names of machines, a set of strings
    Address,     \* public IP addresses
    Type,        \* bound: the types of security groups, of SG_TYPES
    RoleChoice,  \* bound: the sets of roles given with --role, or edited to
    Management,  \* bound: the choices of --management, a set of Booleans
    Skip,        \* bound: the choices of --skip-security-rules
    Alone,       \* TRUE: the operator does not run commands beside each other that
                 \* rewrite the rules or work on the same machine
    MaxCrashes,  \* bound: commands that die half-way
    None

Role == {"pitcher", "log", "connect-broker", "management", "frontend-balancer"}

SG_TYPES == {"default", "single", "fb", "fbmgmt", "mgmt", "pitcher", "cb"}

ASSUME AzureAssumption ==
    /\ Type \subseteq SG_TYPES
    /\ RoleChoice \subseteq SUBSET Role
    /\ Management \subseteq BOOLEAN
    /\ Skip \subseteq BOOLEAN
    /\ Alone \in BOOLEAN
    /\ MaxCrashes \in Nat
    /\ None \notin Address \cup Name \cup Type

\* getNsgTypeForRoles: any other combination gets the most open group.
NsgType(roles) ==
    CASE roles = {}                                  -> "default"
      [] roles = {"pitcher"}                         -> "pitcher"
      [] roles = {"management"}                      -> "mgmt"
      [] roles = {"connect-broker"}                  -> "cb"
      [] roles = {"frontend-balancer"}               -> "fb"
      [] roles = {"management", "frontend-balancer"} -> "fbmgmt"
      [] OTHER                                       -> "single"

\* The roles whose ports the rules of a group open, in ensureMachineSecurityRules.
Serves(type) ==
    CASE type = "fb"      -> {"frontend-balancer"}
      [] type = "fbmgmt"  -> {"frontend-balancer", "management"}
      [] type = "mgmt"    -> {"management"}
      [] type = "pitcher" -> {"pitcher"}
      [] type = "cb"      -> {"connect-broker"}
      [] type = "single"  -> Role \ {"log"}
      [] OTHER            -> {}

VARIABLES
    vm,       \* "none", "creating", "running" or "off"
    tags,     \* the roles among its tags, "management" for the flag, too
    lun,      \* whether the data disk of the machine is attached to it
    disk,     \* whether that data disk exists
    nic,      \* the type of the group its NIC has, None without a NIC
    ip,       \* whether the public IP resource exists
    addr,     \* the address it has been given, None before
    group,    \* the addresses the group admits, NoGroup if it does not exist
    job,      \* what each shell is doing
    dirty,    \* history: addresses changed and no ensure has since succeeded
    unmatched, \* history: machines with tags that their group was not chosen for
    crashes

cloudVars == <<vm, tags, lun, disk, nic, ip, addr, group>>
historyVars == <<dirty, unmatched, crashes>>
vars == <<cloudVars, job, historyVars>>

NoGroup == {None}

NoJob == [cmd |-> "none", pc |-> "idle", nm |-> None, roles |-> {}, tags |-> {},
          storage |-> "none", skip |-> FALSE, fast |-> TRUE, lun |-> FALSE,
          todo |-> {}, ips |-> {}, write |-> {}]

TypeOK ==
    /\ vm \in [Name -> {"none", "creating", "running", "off"}]
    /\ tags \in [Name -> SUBSET Role]
    /\ lun \in [Name -> BOOLEAN]
    /\ disk \in [Name -> BOOLEAN]
    /\ nic \in [Name -> Type \cup {None}]
    /\ ip \in [Name -> BOOLEAN]
    /\ addr \in [Name -> Address \cup {None}]
    /\ group \in [Type -> (SUBSET Address) \cup {NoGroup}]
    /\ job \in [Command ->
           [cmd : {"none", "add", "delete", "redeploy", "edit", "ensure"},
            pc : {"idle", "nic", "vm", "slowNic", "creating", "off", "detach", "get", "vmGone",
                  "nicGone", "ipGone", "groupGone", "readd", "editNic", "editVm", "list", "ips", "write"},
            nm : Name \cup {None}, roles : SUBSET Role, tags : SUBSET Role,
            storage : {"none", "new", "attach"}, skip : BOOLEAN, fast : BOOLEAN, lun : BOOLEAN,
            todo : SUBSET Name, ips : SUBSET Address, write : SUBSET Type]]
    /\ dirty \in BOOLEAN
    /\ unmatched \subseteq Name
    /\ crashes \in 0..MaxCrashes

\* After cluster-create and region-add, whose groups have no rules yet.
Init ==
    /\ vm = [n \in Name |-> "none"]
    /\ tags = [n \in Name |-> {}]
    /\ lun = [n \in Name |-> FALSE]
    /\ disk = [n \in Name |-> FALSE]
    /\ nic = [n \in Name |-> None]
    /\ ip = [n \in Name |-> FALSE]
    /\ addr = [n \in Name |-> None]
    /\ group = [t \in Type |-> {}]
    /\ job = [c \in Command |-> NoJob]
    /\ dirty = FALSE
    /\ unmatched = {}
    /\ crashes = 0

-------------------------------------------------------------------------------

Goto(c, pc) == job' = [job EXCEPT ![c].pc = pc]

\* The command ends, after its last call or because a call failed.
End(c) == job' = [job EXCEPT ![c] = NoJob]

Exists(type) == type \in Type /\ group[type] # NoGroup

At(c, pc) == job[c].pc = pc

\* The rules are rewritten next, unless this was to be skipped.
EndOrEnsure(c) == IF job[c].skip THEN End(c) ELSE Goto(c, "list")

\* If Alone, a command that rewrites the rules runs by itself, and no machine is
\* worked on by two commands at once.
MayStart(c, n, rewrites) ==
    /\ At(c, "idle")
    /\ Alone => \A d \in Command :
           \/ job[d].cmd = "none"
           \/ ~rewrites /\ job[d].cmd # "redeploy" /\ job[d].skip /\ job[d].nm # n

-------------------------------------------------------------------------------
(* machineAdd *)

\* A machine of this name must not exist.  The public IP comes first.
AddBegin(c, record) ==
    /\ vm[record.nm] = "none"
    /\ ip' = [ip EXCEPT ![record.nm] = TRUE]
    /\ job' = [job EXCEPT ![c] = record]
    /\ UNCHANGED <<vm, tags, lun, disk, nic, addr, group, historyVars>>

AddStart(c) ==
    \E n \in Name, roles \in RoleChoice, management \in Management, skip \in Skip,
       storage \in {"none", "new"} :
        /\ MayStart(c, n, ~skip)
        /\ AddBegin(c, [NoJob EXCEPT !.cmd = "add", !.pc = "nic", !.nm = n, !.roles = roles,
               !.tags = roles \cup IF management THEN {"management"} ELSE {},
               !.storage = storage, !.skip = skip])

\* The group is that of the roles, not of the tags.
AddNic(c) ==
    /\ At(c, "nic")
    /\ LET n == job[c].nm
           type == NsgType(job[c].roles)
       IN  IF ip[n] /\ Exists(type)
           THEN nic' = [nic EXCEPT ![n] = type] /\ Goto(c, "vm")
           ELSE UNCHANGED nic /\ End(c)
    /\ UNCHANGED <<vm, tags, lun, disk, ip, addr, group, historyVars>>

\* A new disk must not exist, a disk to be attached must.
AddVm(c) ==
    /\ At(c, "vm")
    /\ LET n == job[c].nm
           storage == job[c].storage
       IN  IF /\ nic[n] # None
              /\ vm[n] = "none"
              /\ storage # "none" => disk[n] = (storage = "attach")
           THEN /\ vm' = [vm EXCEPT ![n] = "creating"]
                /\ tags' = [tags EXCEPT ![n] = job[c].tags]
                /\ lun' = [lun EXCEPT ![n] = storage # "none"]
                /\ disk' = [disk EXCEPT ![n] = @ \/ storage = "new"]
                /\ dirty' = TRUE
                /\ unmatched' = unmatched \cup
                       IF NsgType(job[c].tags) = NsgType(job[c].roles) THEN {} ELSE {n}
                /\ Goto(c, "creating")
           ELSE /\ UNCHANGED <<vm, tags, lun, disk, dirty, unmatched>>
                /\ End(c)
    /\ UNCHANGED <<nic, ip, addr, group, crashes>>

\* The VM size does not permit accelerated networking: the NIC is changed, and
\* the VM is tried once more.
AddRefused(c) ==
    /\ At(c, "vm") /\ job[c].fast
    /\ Goto(c, "slowNic")
    /\ UNCHANGED <<cloudVars, historyVars>>

AddSlowNic(c) ==
    /\ At(c, "slowNic")
    /\ nic' = [nic EXCEPT ![job[c].nm] = NsgType(job[c].roles)]
    /\ job' = [job EXCEPT ![c].pc = "vm", ![c].fast = FALSE]
    /\ UNCHANGED <<vm, tags, lun, disk, ip, addr, group, historyVars>>

AddCreated(c) ==
    /\ At(c, "creating")
    /\ vm[job[c].nm] # "creating"
    /\ IF vm[job[c].nm] = "none" THEN End(c) ELSE EndOrEnsure(c)
    /\ UNCHANGED <<cloudVars, historyVars>>

-------------------------------------------------------------------------------
(* machineDelete *)

DeleteStart(c) ==
    \E n \in Name, skip \in Skip :
        /\ MayStart(c, n, ~skip)
        /\ vm[n] # "none"
        /\ job' = [job EXCEPT ![c] = [NoJob EXCEPT !.cmd = "delete", !.pc = "get", !.nm = n, !.skip = skip]]
        /\ UNCHANGED <<cloudVars, historyVars>>

\* What is to be deleted after the VM is read from the VM.
DeleteGet(c) ==
    /\ At(c, "get")
    /\ IF vm[job[c].nm] = "none" THEN End(c)
       ELSE job' = [job EXCEPT ![c].pc = "vmGone", ![c].lun = lun[job[c].nm]]
    /\ UNCHANGED <<cloudVars, historyVars>>

\* A dynamic address goes with the VM.
DeleteVm(c) ==
    /\ At(c, "vmGone")
    /\ LET n == job[c].nm IN
           /\ vm' = [vm EXCEPT ![n] = "none"]
           /\ unmatched' = unmatched \ {n}
           /\ tags' = [tags EXCEPT ![n] = {}]
           /\ lun' = [lun EXCEPT ![n] = FALSE]
           /\ addr' = [addr EXCEPT ![n] = None]
    /\ dirty' = TRUE
    /\ Goto(c, "nicGone")
    /\ UNCHANGED <<disk, nic, ip, group, crashes>>

\* The NIC is read, which fails if it is gone, and deleted.
DeleteNic(c) ==
    /\ At(c, "nicGone")
    /\ LET n == job[c].nm IN
       IF nic[n] # None /\ vm[n] = "none"
       THEN nic' = [nic EXCEPT ![n] = None] /\ Goto(c, "ipGone")
       ELSE UNCHANGED nic /\ End(c)
    /\ UNCHANGED <<vm, tags, lun, disk, ip, addr, group, historyVars>>

\* The address and the data disk are deleted at the same time; neither goes
\* while it is in use again.
DeleteIp(c) ==
    /\ At(c, "ipGone") /\ ip[job[c].nm]
    /\ LET n == job[c].nm IN
       IF nic[n] = None
       THEN ip' = [ip EXCEPT ![n] = FALSE] /\ UNCHANGED job
       ELSE UNCHANGED ip /\ End(c)
    /\ UNCHANGED <<vm, tags, lun, disk, nic, addr, group, historyVars>>

DeleteDisk(c) ==
    /\ At(c, "ipGone") /\ job[c].lun
    /\ LET n == job[c].nm IN
       IF ~lun[n]
       THEN disk' = [disk EXCEPT ![n] = FALSE] /\ job' = [job EXCEPT ![c].lun = FALSE]
       ELSE UNCHANGED disk /\ End(c)
    /\ UNCHANGED <<vm, tags, lun, nic, ip, addr, group, historyVars>>

DeletedAll(c) ==
    /\ At(c, "ipGone") /\ ~ip[job[c].nm] /\ ~job[c].lun
    /\ Goto(c, "groupGone")
    /\ UNCHANGED <<cloudVars, historyVars>>

\* securityGroupName(clusterId, location, name of the machine): the group of
\* that type if the machine has the name of a type.  One in use cannot go.
DeleteGroup(c) ==
    /\ At(c, "groupGone")
    /\ LET n == job[c].nm IN
       IF n \in Type /\ \E m \in Name : nic[m] = n
       THEN UNCHANGED group /\ End(c)
       ELSE /\ group' = [t \in Type |-> IF t = n THEN NoGroup ELSE group[t]]
            /\ IF job[c].cmd = "redeploy" THEN Goto(c, "readd") ELSE EndOrEnsure(c)
    /\ UNCHANGED <<vm, tags, lun, disk, nic, ip, addr, historyVars>>
-------------------------------------------------------------------------------
(* machineRedeploy *)

RedeployStart(c) ==
    \E n \in Name :
        /\ MayStart(c, n, TRUE)
        /\ vm[n] # "none"
        /\ job' = [job EXCEPT ![c] = [NoJob EXCEPT !.cmd = "redeploy", !.pc = "off", !.nm = n,
               !.tags = tags[n], !.storage = IF lun[n] THEN "attach" ELSE "none"]]
        /\ UNCHANGED <<cloudVars, historyVars>>

\* Mutant of RedeployPowerOff: the data disk is not detached.
RedeployPowerOffKeepsDisk(c) ==
    /\ At(c, "off")
    /\ IF vm[job[c].nm] \in {"running", "off"}
       THEN /\ vm' = [vm EXCEPT ![job[c].nm] = "off"]
            /\ Goto(c, "get")
       ELSE UNCHANGED vm /\ End(c)
    /\ UNCHANGED <<tags, lun, disk, nic, ip, addr, group, historyVars>>

RedeployPowerOff(c) ==
    /\ At(c, "off")
    /\ IF vm[job[c].nm] \in {"running", "off"}
       THEN /\ vm' = [vm EXCEPT ![job[c].nm] = "off"]
            /\ Goto(c, IF job[c].storage = "attach" THEN "detach" ELSE "get")
       ELSE UNCHANGED vm /\ End(c)
    /\ UNCHANGED <<tags, lun, disk, nic, ip, addr, group, historyVars>>

RedeployDetach(c) ==
    /\ At(c, "detach")
    /\ IF vm[job[c].nm] # "none"
       THEN lun' = [lun EXCEPT ![job[c].nm] = FALSE] /\ Goto(c, "get")
       ELSE UNCHANGED lun /\ End(c)
    /\ UNCHANGED <<vm, tags, disk, nic, ip, addr, group, historyVars>>

\* Mutant of RedeployAdd: the data disks are not passed on to machineAdd.
RedeployAddNoDisk(c) ==
    /\ At(c, "readd")
    /\ IF vm[job[c].nm] = "none"
       THEN AddBegin(c, [job[c] EXCEPT !.pc = "nic", !.roles = job[c].tags, !.storage = "none"])
       ELSE End(c) /\ UNCHANGED <<cloudVars, historyVars>>

\* machineDelete without the rules, then machineAdd: the tags become the roles.
RedeployAdd(c) ==
    /\ At(c, "readd")
    /\ IF vm[job[c].nm] = "none"
       THEN AddBegin(c, [job[c] EXCEPT !.pc = "nic", !.roles = job[c].tags])
       ELSE End(c) /\ UNCHANGED <<cloudVars, historyVars>>

-------------------------------------------------------------------------------
(* machineEdit *)

\* The whole VM is read, and in the end written back with other tags.
EditStart(c) ==
    \E n \in Name, roles \in RoleChoice :
        /\ MayStart(c, n, FALSE)
        /\ vm[n] # "none"
        /\ job' = [job EXCEPT ![c] = [NoJob EXCEPT !.cmd = "edit", !.pc = "editNic", !.nm = n,
               !.tags = roles, !.lun = lun[n], !.skip = TRUE]]
        /\ UNCHANGED <<cloudVars, historyVars>>

\* Mutant of EditNic: the group is chosen before the tags are changed.
EditNicOldTags(c) ==
    /\ At(c, "editNic")
    /\ LET n == job[c].nm
           type == NsgType(tags[n])
       IN  IF nic[n] # None /\ Exists(type)
           THEN /\ nic' = [nic EXCEPT ![n] = type]
                /\ unmatched' = unmatched \cup {n}
                /\ Goto(c, "editVm")
           ELSE UNCHANGED <<nic, unmatched>> /\ End(c)
    /\ UNCHANGED <<vm, tags, lun, disk, ip, addr, group, dirty, crashes>>

EditNic(c) ==
    /\ At(c, "editNic")
    /\ LET n == job[c].nm
           type == NsgType(job[c].tags)
       IN  IF nic[n] # None /\ Exists(type)
           THEN /\ nic' = [nic EXCEPT ![n] = type]
                /\ unmatched' = unmatched \cup {n}
                /\ Goto(c, "editVm")
           ELSE UNCHANGED <<nic, unmatched>> /\ End(c)
    /\ UNCHANGED <<vm, tags, lun, disk, ip, addr, group, dirty, crashes>>

EditVm(c) ==
    /\ At(c, "editVm")
    /\ LET n == job[c].nm IN
       IF vm[n] # "none" /\ (job[c].lun => disk[n])
       THEN /\ tags' = [tags EXCEPT ![n] = job[c].tags]
            /\ lun' = [lun EXCEPT ![n] = job[c].lun]
            /\ unmatched' = unmatched \ {n}
       ELSE UNCHANGED <<tags, lun, unmatched>>
    /\ End(c)
    /\ UNCHANGED <<vm, disk, nic, ip, addr, group, dirty, crashes>>

-------------------------------------------------------------------------------
(* ensureMachineSecurityRules *)

EnsureStart(c) ==
    /\ MayStart(c, None, TRUE)
    /\ job' = [job EXCEPT ![c] = [NoJob EXCEPT !.cmd = "ensure", !.pc = "list"]]
    /\ UNCHANGED <<cloudVars, historyVars>>

\* getPublicIpsForCluster lists the VMs, then asks for one address after the
\* other, and gives up when there is none.
EnsureList(c) ==
    /\ At(c, "list")
    /\ job' = [job EXCEPT ![c].pc = "ips", ![c].todo = {n \in Name : vm[n] # "none"}]
    /\ UNCHANGED <<cloudVars, historyVars>>

\* Mutant of EnsureIp: a machine that has no address yet is passed over.
EnsureIpSkips(c) ==
    /\ At(c, "ips")
    /\ \E n \in job[c].todo :
           IF nic[n] # None
           THEN job' = [job EXCEPT ![c].todo = @ \ {n}, ![c].ips = @ \cup ({addr[n]} \ {None})]
           ELSE End(c)
    /\ UNCHANGED <<cloudVars, historyVars>>

EnsureIp(c) ==
    /\ At(c, "ips")
    /\ \E n \in job[c].todo :
           IF nic[n] # None /\ addr[n] # None
           THEN job' = [job EXCEPT ![c].todo = @ \ {n}, ![c].ips = @ \cup {addr[n]}]
           ELSE End(c)
    /\ UNCHANGED <<cloudVars, historyVars>>

EnsureGroups(c) ==
    /\ At(c, "ips") /\ job[c].todo = {}
    /\ job' = [job EXCEPT ![c].pc = "write", ![c].write = {t \in Type : Exists(t)}]
    /\ UNCHANGED <<cloudVars, historyVars>>

\* setSecurityRules of one group; all groups are written at the same time.
EnsureWrite(c) ==
    /\ At(c, "write")
    /\ \E t \in job[c].write :
           IF Exists(t)
           THEN /\ group' = [group EXCEPT ![t] = job[c].ips]
                /\ job' = [job EXCEPT ![c].write = @ \ {t}]
           ELSE UNCHANGED group /\ End(c)
    /\ UNCHANGED <<vm, tags, lun, disk, nic, ip, addr, historyVars>>

EnsureDone(c) ==
    /\ At(c, "write") /\ job[c].write = {}
    /\ dirty' = FALSE
    /\ End(c)
    /\ UNCHANGED <<cloudVars, unmatched, crashes>>

-------------------------------------------------------------------------------

\* The resource manager has created the VM, whether or not a command waits.
VmCreated(n) ==
    /\ vm[n] = "creating"
    /\ \E a \in Address \ {addr[m] : m \in Name} : addr' = [addr EXCEPT ![n] = a]
    /\ vm' = [vm EXCEPT ![n] = "running"]
    /\ UNCHANGED <<tags, lun, disk, nic, ip, group, job, historyVars>>

Crash(c) ==
    /\ ~At(c, "idle")
    /\ crashes < MaxCrashes
    /\ crashes' = crashes + 1
    /\ End(c)
    /\ UNCHANGED <<cloudVars, dirty, unmatched>>

Add(c)      == AddStart(c) \/ AddNic(c) \/ AddVm(c) \/ AddRefused(c) \/ AddSlowNic(c) \/ AddCreated(c)
Delete(c)   == \/ DeleteStart(c) \/ DeleteGet(c) \/ DeleteVm(c) \/ DeleteNic(c) \/ DeleteIp(c)
               \/ DeleteDisk(c) \/ DeletedAll(c) \/ DeleteGroup(c)
Redeploy(c) == RedeployStart(c) \/ RedeployPowerOff(c) \/ RedeployDetach(c) \/ RedeployAdd(c)
Edit(c)     == EditStart(c) \/ EditNic(c) \/ EditVm(c)
Ensure(c)   == EnsureStart(c) \/ EnsureList(c) \/ EnsureIp(c) \/ EnsureGroups(c)
               \/ EnsureWrite(c) \/ EnsureDone(c)

Next ==
    \/ \E c \in Command : Add(c) \/ Delete(c) \/ Redeploy(c) \/ Edit(c) \/ Ensure(c) \/ Crash(c)
    \/ \E n \in Name : VmCreated(n)

Spec == Init /\ [][Next]_vars

-------------------------------------------------------------------------------
(* Properties. *)

Quiet == \A c \in Command : At(c, "idle")

\* "All traffic is allowed from all cluster public IPs", and from no others: when
\* all is quiet and the rules have been ensured since the last change, every
\* group admits exactly the addresses of the machines.
RulesCurrent ==
    Quiet /\ ~dirty => \A t \in Type :
        group[t] \in {NoGroup, {addr[n] : n \in {m \in Name : vm[m] # "none"}}}

\* The same, with the types of all variables.
RulesInv == TypeOK /\ RulesCurrent

\* The group of a machine opens the ports of all its roles.
Served(n) == vm[n] = "running" => tags[n] \ {"log"} \subseteq Serves(nic[n])

\* "Machines with the management flag allow all TCP traffic to ports 81 and
\* 4433", and so on for the roles that serve a port.
RolesServed == \A n \in Name : Served(n)

\* The same, and exactly the machines for which it may fail: at every moment,
\* whatever is added, edited and redeployed and whatever dies half-way, the group
\* on the NIC opens the ports of the tags.  Excepted (unmatched) are a machine
\* that was added with --management and roles of another group, until it is
\* redeployed or edited, and one whose machine-edit has changed the NIC and not
\* yet the tags, or died there.
GroupsServeRoles == \A n \in Name \ unmatched : Served(n)

\* The data disk of a machine is deleted by machine-delete, and by nothing else:
\* neither a redeploy nor what a redeploy that died has left behind.
DiskOutlivesMachine ==
    [][\A n \in Name : disk[n] /\ ~disk'[n] =>
          \E c \in Command : job[c].cmd = "delete" /\ job[c].nm = n]_vars

\* machine-redeploy is to "delete a machine and attach its data volume to a new
\* machine": when it is through, the new machine has the data disk, if there is one.
KeepsDisk(c) ==
    job[c].cmd = "redeploy" /\ AddCreated(c) =>
        LET n == job[c].nm IN vm[n] = "running" => lun[n] = disk[n]

RedeployKeepsDisk == [][\A c \in Command : KeepsDisk(c)]_vars

\* The same, as long as no command has died half-way.
UninterruptedRedeployKeepsDisk == [][\A c \in Command : crashes = 0 => KeepsDisk(c)]_vars

\* The security groups of a region serve all its machines; deleting a machine
\* deletes none of them.
SharedGroupsStay == \A t \in Type : group[t] # NoGroup
================================================================================
