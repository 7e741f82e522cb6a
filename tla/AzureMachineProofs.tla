-------------------------- MODULE AzureMachineProofs --------------------------
(***************************************************************************)
(* Proofs about AzureMachine for an operator who does not run commands     *)
(* beside each other that rewrite the rules or work on the same machine,   *)
(* for any number of shells, machines, addresses and commands that die:    *)
(* what the groups admit, which group a machine has, and what becomes of   *)
(* its data disk.                                                          *)
(***************************************************************************)
EXTENDS AzureMachine, TLAPS

\* The history is always taken apart.
USE DEF historyVars

-------------------------------------------------------------------------------
(* What machines and commands have in common. *)

\* The steps of machineAdd before and after the VM exists, those of machineDelete, those
\* that only a redeploy has, those of machineEdit and those that rewrite the rules.
NewStep == {"nic", "vm", "slowNic"}
GoneStep == {"nicGone", "ipGone", "groupGone"}
LiveStep == {"creating", "get", "vmGone", "off", "detach", "editNic", "editVm"}
RuleStep == {"list", "ips", "write"}
PowerStep == {"off", "detach", "readd"}

\* The machines a command finds, and their addresses.
Live == {n \in Name : vm[n] # "none"}
Addresses == {addr[n] : n \in Live}

\* A VM that was created has an address and a NIC, and a disk that is attached exists.
MachineInv ==
    \A n \in Name :
        /\ addr[n] = None <=> vm[n] \in {"none", "creating"}
        /\ vm[n] # "none" => nic[n] # None
        /\ lun[n] => disk[n] /\ vm[n] # "none"

\* The commands by their steps.
Steps ==
    \A c \in Command :
        /\ job[c].pc = "idle" <=> job[c].cmd = "none"
        /\ job[c].pc \in NewStep \cup {"creating"} => job[c].cmd \in {"add", "redeploy"}
        /\ job[c].pc \in GoneStep \cup {"get", "vmGone"} => job[c].cmd \in {"delete", "redeploy"}
        /\ job[c].pc \in PowerStep => job[c].cmd = "redeploy"
        /\ job[c].pc \in {"editNic", "editVm"} => job[c].cmd = "edit"
        /\ job[c].pc \notin RuleStep \cup {"idle"} => job[c].nm \in Name
        /\ job[c].cmd = "redeploy" => ~job[c].skip /\ job[c].storage # "new"
        /\ job[c].pc \in RuleStep => ~job[c].skip
        /\ job[c].pc \notin {"ips", "write"} => job[c].ips = {}

\* Commands that run beside each other neither rewrite the rules nor redeploy, and work on
\* different machines.
Apart ==
    \A c, d \in Command :
        c # d /\ job[c].pc # "idle" /\ job[d].pc # "idle" =>
            job[c].skip /\ job[d].skip /\ job[c].nm # job[d].nm

\* What a command has found or made stays as it is until the command changes it.
Work ==
    \A c \in Command :
        LET n == job[c].nm IN
        /\ job[c].pc \in NewStep \cup GoneStep \cup {"readd"} => vm[n] = "none"
        /\ job[c].pc \in LiveStep => vm[n] # "none"
        /\ job[c].pc = "nic" => ip[n]
        /\ job[c].pc \in {"vm", "slowNic"} => nic[n] = NsgType(job[c].roles) /\ nic[n] \in Type
        /\ job[c].pc = "nicGone" => nic[n] # None
        /\ job[c].pc \in {"ipGone", "groupGone", "readd"} => nic[n] = None
        /\ job[c].pc \in {"vmGone", "editNic", "editVm"} => (job[c].lun <=> lun[n])

\* A redeploy takes the roles from the tags, and takes the disk off the old machine.
Redeploying ==
    \A c \in Command : job[c].cmd = "redeploy" =>
        LET n == job[c].nm IN
        /\ job[c].pc \in NewStep \cup {"creating"} => job[c].roles = job[c].tags
        /\ job[c].pc = "off" => (job[c].storage = "attach" <=> lun[n])
        /\ job[c].pc = "detach" => job[c].storage = "attach"
        /\ job[c].pc = "get" => ~lun[n]
        /\ job[c].pc \in GoneStep \cup {"vmGone"} => ~job[c].lun
        /\ job[c].storage = "attach"
               /\ job[c].pc \in LiveStep \cup GoneStep \cup NewStep \cup {"readd"} => disk[n]

\* The inductive invariant: machines and commands.
BaseInv == TypeOK /\ MachineInv /\ Steps /\ Apart /\ Work /\ Redeploying

-------------------------------------------------------------------------------
(* The rules. *)

\* The rules that are being collected are those of the machines there are.
Collecting ==
    \A c \in Command :
        /\ job[c].pc = "ips" =>
               /\ job[c].todo \subseteq Live
               /\ \A n \in Live \ job[c].todo : addr[n] # None
               /\ job[c].ips = {addr[n] : n \in Live \ job[c].todo}
        /\ job[c].pc = "write" =>
               /\ \A n \in Live : addr[n] # None
               /\ job[c].ips = Addresses
               /\ \A t \in Type \ job[c].write : group[t] \in {NoGroup, Addresses}

\* Once ensured the rules are current, also while a command runs that has changed nothing yet.
Settled ==
    ~dirty => /\ \A n \in Name : vm[n] # "creating"
              /\ \A t \in Type : group[t] \in {NoGroup, Addresses}

\* The inductive invariant of the rules.
RulesIInv == BaseInv /\ Collecting /\ Settled

-------------------------------------------------------------------------------
(* The roles. *)

\* The group of a machine is that of its tags, unless it is one of the exceptions, as
\* a machine is while its tags are edited.
GroupFollowsTags ==
    /\ \A c \in Command : job[c].pc = "editVm" =>
           /\ job[c].nm \in unmatched
           /\ nic[job[c].nm] = NsgType(job[c].tags)
    /\ \A n \in Name \ unmatched : vm[n] # "none" => nic[n] = NsgType(tags[n])

\* The inductive invariant of the roles.
RolesIInv == BaseInv /\ GroupFollowsTags

-------------------------------------------------------------------------------
(* The disk. *)

\* A step deletes no disk, unless it is a step of machine-delete.
OnlyDeleteTakes ==
    \A n \in Name : disk[n] /\ ~disk'[n] =>
        \E c \in Command : job[c].cmd = "delete" /\ job[c].nm = n

\* The sets of roles that machines can be tagged with.
GivenTags ==
    RoleChoice \cup {roles \cup (IF management THEN {"management"} ELSE {}) :
                         roles \in RoleChoice, management \in Management}

\* Machines have, and commands give them, such tags.
TagsGiven ==
    /\ \A n \in Name : vm[n] # "none" => tags[n] \in GivenTags
    /\ \A c \in Command : job[c].cmd \in {"add", "redeploy", "edit"} => job[c].tags \in GivenTags

\* A command that has the data disk in hand: a machine-delete that is going to delete it, or
\* a redeploy between the old machine and the new one.
Carries(c) ==
    \/ job[c].cmd = "delete" /\ job[c].pc \in {"nicGone", "ipGone"} /\ job[c].lun
    \/ /\ job[c].cmd = "redeploy" /\ job[c].storage = "attach"
       /\ job[c].pc \in {"get", "vmGone", "readd"} \cup GoneStep \cup NewStep

\* As long as no command has died, a command has the disk in hand that no machine has.
DiskOnItsWay ==
    crashes = 0 =>
        \A n \in Name : disk[n] /\ ~lun[n] => \E c \in Command : job[c].nm = n /\ Carries(c)

\* The inductive invariant of the disk.
DiskIInv == BaseInv /\ SharedGroupsStay /\ TagsGiven /\ DiskOnItsWay

-------------------------------------------------------------------------------
(* Lemmas about the jobs of the shells. *)

\* The steps of all commands.
Step == {"idle", "nic", "vm", "slowNic", "creating", "off", "detach", "get", "vmGone",
         "nicGone", "ipGone", "groupGone", "readd", "editNic", "editVm", "list", "ips", "write"}

\* What a shell does, as in TypeOK.
Jobs == [cmd : {"none", "add", "delete", "redeploy", "edit", "ensure"}, pc : Step,
         nm : Name \cup {None}, roles : SUBSET Role, tags : SUBSET Role,
         storage : {"none", "new", "attach"}, skip : BOOLEAN, fast : BOOLEAN, lun : BOOLEAN,
         todo : SUBSET Name, ips : SUBSET Address, write : SUBSET Type]

\* The rest of TypeOK.
World ==
    /\ vm \in [Name -> {"none", "creating", "running", "off"}]
    /\ tags \in [Name -> SUBSET Role]
    /\ lun \in [Name -> BOOLEAN]
    /\ disk \in [Name -> BOOLEAN]
    /\ nic \in [Name -> Type \cup {None}]
    /\ ip \in [Name -> BOOLEAN]
    /\ addr \in [Name -> Address \cup {None}]
    /\ group \in [Type -> (SUBSET Address) \cup {NoGroup}]
    /\ dirty \in BOOLEAN
    /\ unmatched \subseteq Name
    /\ crashes \in 0..MaxCrashes

\* Shell c goes on with its command at step p, with these local variables.
Goes(c, p, roles, l, todo, ips, write) ==
    /\ job' \in [Command -> Jobs]
    /\ job'[c].pc = p /\ job'[c].roles = roles /\ (job'[c].lun <=> l)
    /\ job'[c].todo = todo /\ job'[c].ips = ips /\ job'[c].write = write
    /\ job'[c].cmd = job[c].cmd /\ job'[c].nm = job[c].nm /\ job'[c].tags = job[c].tags
    /\ job'[c].storage = job[c].storage /\ (job'[c].skip <=> job[c].skip)
    /\ \A d \in Command \ {c} : job'[d] = job[d]

\* It goes on at step p with the same local variables.
Moves(c, p) == Goes(c, p, job[c].roles, job[c].lun, job[c].todo, job[c].ips, job[c].write)

\* Shell c begins a command.
Starts(c, cmd, p, n, roles, new, storage, skip, l) ==
    /\ job' \in [Command -> Jobs]
    /\ job'[c].cmd = cmd /\ job'[c].pc = p /\ job'[c].nm = n /\ job'[c].roles = roles
    /\ job'[c].tags = new /\ job'[c].storage = storage
    /\ (job'[c].skip <=> skip) /\ (job'[c].lun <=> l)
    /\ job'[c].ips = {}
    /\ \A d \in Command \ {c} : job'[d] = job[d]

\* Shell c has nothing more to do.
Rests(c) ==
    /\ job' \in [Command -> Jobs]
    /\ job'[c].cmd = "none" /\ job'[c].pc = "idle" /\ job'[c].ips = {}
    /\ \A d \in Command \ {c} : job'[d] = job[d]

\* TypeOK in two parts.
LEMMA TypeParts == TypeOK <=> World /\ job \in [Command -> Jobs]
BY DEF TypeOK, World, Jobs, Step

\* The same of the next state.
LEMMA TypePartsNext == TypeOK' <=> World' /\ job' \in [Command -> Jobs]
BY DEF TypeOK, World, Jobs, Step, NoGroup

\* The fields of a job.
LEMMA JobTypes ==
    ASSUME job \in [Command -> Jobs], NEW c \in Command
    PROVE  /\ job[c] \in Jobs
           /\ job[c].pc \in Step /\ job[c].nm \in Name \cup {None}
           /\ job[c].roles \in SUBSET Role /\ job[c].tags \in SUBSET Role
           /\ job[c].storage \in {"none", "new", "attach"}
           /\ job[c].skip \in BOOLEAN /\ job[c].lun \in BOOLEAN
           /\ job[c].todo \in SUBSET Name /\ job[c].ips \in SUBSET Address
           /\ job[c].write \in SUBSET Type
BY DEF Jobs

\* A shell that has nothing to do.
LEMMA NoJobType == NoJob \in Jobs
BY DEF NoJob, Jobs, Step

\* A command that ends leaves a shell that has nothing to do.
LEMMA Ended ==
    ASSUME job \in [Command -> Jobs], NEW c \in Command, End(c)
    PROVE  Rests(c)
<1>1. job' \in [Command -> Jobs]
  BY NoJobType DEF End
<1> QED
  BY <1>1 DEF End, NoJob, Rests

\* A command goes on.
LEMMA Gone ==
    ASSUME job \in [Command -> Jobs], NEW c \in Command, NEW p \in Step,
           job' = [job EXCEPT ![c].pc = p]
    PROVE  Moves(c, p)
<1>1. job[c] \in Jobs
  OBVIOUS
<1>2. /\ job'[c] = [job[c] EXCEPT !.pc = p]
      /\ \A d \in Command \ {c} : job'[d] = job[d]
  OBVIOUS
<1>3. job'[c] \in Jobs
  BY <1>1, <1>2 DEF Jobs
<1>4. job' = [job EXCEPT ![c] = job'[c]]
  BY <1>2
<1>5. job' \in [Command -> Jobs]
  BY <1>3, <1>4
<1> QED
  BY <1>1, <1>2, <1>5 DEF Goes, Moves, Jobs

\* The VM is tried again with a slower NIC.
LEMMA Slower ==
    ASSUME job \in [Command -> Jobs], NEW c \in Command, NEW p \in Step,
           job' = [job EXCEPT ![c].pc = p, ![c].fast = FALSE]
    PROVE  Moves(c, p)
<1>1. job[c] \in Jobs
  OBVIOUS
<1>2. /\ job'[c] = [job[c] EXCEPT !.pc = p, !.fast = FALSE]
      /\ \A d \in Command \ {c} : job'[d] = job[d]
  OBVIOUS
<1>3. job'[c] \in Jobs
  BY <1>1, <1>2 DEF Jobs
<1>4. job' = [job EXCEPT ![c] = job'[c]]
  BY <1>2
<1>5. job' \in [Command -> Jobs]
  BY <1>3, <1>4
<1> QED
  BY <1>1, <1>2, <1>5 DEF Goes, Moves, Jobs

\* A command remembers whether the machine has a disk.
LEMMA LunRead ==
    ASSUME job \in [Command -> Jobs], NEW c \in Command, NEW p \in Step, NEW l \in BOOLEAN,
           job' = [job EXCEPT ![c].pc = p, ![c].lun = l]
    PROVE  Goes(c, p, job[c].roles, l, job[c].todo, job[c].ips, job[c].write)
<1>1. job[c] \in Jobs
  OBVIOUS
<1>2. /\ job'[c] = [job[c] EXCEPT !.pc = p, !.lun = l]
      /\ \A d \in Command \ {c} : job'[d] = job[d]
  OBVIOUS
<1>3. job'[c] \in Jobs
  BY <1>1, <1>2 DEF Jobs
<1>4. job' = [job EXCEPT ![c] = job'[c]]
  BY <1>2
<1>5. job' \in [Command -> Jobs]
  BY <1>3, <1>4
<1> QED
  BY <1>1, <1>2, <1>5 DEF Goes, Moves, Jobs

\* The disk is done with.
LEMMA LunDone ==
    ASSUME job \in [Command -> Jobs], NEW c \in Command, NEW l \in BOOLEAN,
           job' = [job EXCEPT ![c].lun = l]
    PROVE  Goes(c, job[c].pc, job[c].roles, l, job[c].todo, job[c].ips, job[c].write)
<1>1. job[c] \in Jobs
  OBVIOUS
<1>2. /\ job'[c] = [job[c] EXCEPT !.lun = l]
      /\ \A d \in Command \ {c} : job'[d] = job[d]
  OBVIOUS
<1>3. job'[c] \in Jobs
  BY <1>1, <1>2 DEF Jobs
<1>4. job' = [job EXCEPT ![c] = job'[c]]
  BY <1>2
<1>5. job' \in [Command -> Jobs]
  BY <1>3, <1>4
<1> QED
  BY <1>1, <1>2, <1>5 DEF Goes, Moves, Jobs

\* The machines are listed.
LEMMA TodoRead ==
    ASSUME job \in [Command -> Jobs], NEW c \in Command, NEW p \in Step, NEW t \in SUBSET Name,
           job' = [job EXCEPT ![c].pc = p, ![c].todo = t]
    PROVE  Goes(c, p, job[c].roles, job[c].lun, t, job[c].ips, job[c].write)
<1>1. job[c] \in Jobs
  OBVIOUS
<1>2. /\ job'[c] = [job[c] EXCEPT !.pc = p, !.todo = t]
      /\ \A d \in Command \ {c} : job'[d] = job[d]
  OBVIOUS
<1>3. job'[c] \in Jobs
  BY <1>1, <1>2 DEF Jobs
<1>4. job' = [job EXCEPT ![c] = job'[c]]
  BY <1>2
<1>5. job' \in [Command -> Jobs]
  BY <1>3, <1>4
<1> QED
  BY <1>1, <1>2, <1>5 DEF Goes, Moves, Jobs

\* The groups are listed.
LEMMA GroupsRead ==
    ASSUME job \in [Command -> Jobs], NEW c \in Command, NEW p \in Step, NEW w \in SUBSET Type,
           job' = [job EXCEPT ![c].pc = p, ![c].write = w]
    PROVE  Goes(c, p, job[c].roles, job[c].lun, job[c].todo, job[c].ips, w)
<1>1. job[c] \in Jobs
  OBVIOUS
<1>2. /\ job'[c] = [job[c] EXCEPT !.pc = p, !.write = w]
      /\ \A d \in Command \ {c} : job'[d] = job[d]
  OBVIOUS
<1>3. job'[c] \in Jobs
  BY <1>1, <1>2 DEF Jobs
<1>4. job' = [job EXCEPT ![c] = job'[c]]
  BY <1>2
<1>5. job' \in [Command -> Jobs]
  BY <1>3, <1>4
<1> QED
  BY <1>1, <1>2, <1>5 DEF Goes, Moves, Jobs

\* The address of one machine is read.
LEMMA IpRead ==
    ASSUME job \in [Command -> Jobs], NEW c \in Command, NEW n \in Name, NEW a \in Address,
           job' = [job EXCEPT ![c].todo = @ \ {n}, ![c].ips = @ \cup {a}]
    PROVE  Goes(c, job[c].pc, job[c].roles, job[c].lun, job[c].todo \ {n},
                job[c].ips \cup {a}, job[c].write)
<1>1. job[c] \in Jobs
  OBVIOUS
<1>2. /\ job'[c] = [job[c] EXCEPT !.todo = @ \ {n}, !.ips = @ \cup {a}]
      /\ \A d \in Command \ {c} : job'[d] = job[d]
  OBVIOUS
<1>3. job'[c] \in Jobs
  BY <1>1, <1>2 DEF Jobs
<1>4. job' = [job EXCEPT ![c] = job'[c]]
  BY <1>2
<1>5. job' \in [Command -> Jobs]
  BY <1>3, <1>4
<1> QED
  BY <1>1, <1>2, <1>5 DEF Goes, Jobs

\* The rules of one group are written.
LEMMA Written ==
    ASSUME job \in [Command -> Jobs], NEW c \in Command, NEW t \in Type,
           job' = [job EXCEPT ![c].write = @ \ {t}]
    PROVE  Goes(c, job[c].pc, job[c].roles, job[c].lun, job[c].todo, job[c].ips,
                job[c].write \ {t})
<1>1. job[c] \in Jobs
  OBVIOUS
<1>2. /\ job'[c] = [job[c] EXCEPT !.write = @ \ {t}]
      /\ \A d \in Command \ {c} : job'[d] = job[d]
  OBVIOUS
<1>3. job'[c] \in Jobs
  BY <1>1, <1>2 DEF Jobs
<1>4. job' = [job EXCEPT ![c] = job'[c]]
  BY <1>2
<1>5. job' \in [Command -> Jobs]
  BY <1>3, <1>4
<1> QED
  BY <1>1, <1>2, <1>5 DEF Goes, Jobs

\* The tags become the roles.
LEMMA Readded ==
    ASSUME job \in [Command -> Jobs], NEW c \in Command, NEW p \in Step,
           job' = [job EXCEPT ![c] = [job[c] EXCEPT !.pc = p, !.roles = job[c].tags]]
    PROVE  Goes(c, p, job[c].tags, job[c].lun, job[c].todo, job[c].ips, job[c].write)
<1>1. job[c] \in Jobs
  OBVIOUS
<1>2. /\ job'[c] = [job[c] EXCEPT !.pc = p, !.roles = job[c].tags]
      /\ \A d \in Command \ {c} : job'[d] = job[d]
  OBVIOUS
<1>3. job'[c] \in Jobs
  BY <1>1, <1>2 DEF Jobs
<1>4. job' = [job EXCEPT ![c] = job'[c]]
  BY <1>2
<1>5. job' \in [Command -> Jobs]
  BY <1>3, <1>4
<1> QED
  BY <1>1, <1>2, <1>5 DEF Goes, Jobs

\* machineAdd begins.
LEMMA AddJob ==
    ASSUME job \in [Command -> Jobs], NEW c \in Command, NEW n \in Name,
           NEW roles \in SUBSET Role, NEW new \in SUBSET Role,
           NEW storage \in {"none", "new", "attach"}, NEW skip \in BOOLEAN, 
           job' = [job EXCEPT ![c] = [NoJob EXCEPT !.cmd = "add", !.pc = "nic", !.nm = n,
               !.roles = roles, !.tags = new, !.storage = storage, !.skip = skip]]
    PROVE  Starts(c, "add", "nic", n, roles, new, storage, skip, FALSE)
<1>1. NoJob \in Jobs
  BY NoJobType
<1>2. job'[c] = [NoJob EXCEPT !.cmd = "add", !.pc = "nic", !.nm = n,
               !.roles = roles, !.tags = new, !.storage = storage, !.skip = skip]
      /\ \A d \in Command \ {c} : job'[d] = job[d]
  OBVIOUS
<1>3. job'[c] \in Jobs
  <2>1. "nic" \in Step
    BY DEF Step
  <2> QED
    BY <1>1, <1>2, <2>1 DEF Jobs
<1>4. job' = [job EXCEPT ![c] = job'[c]]
  BY <1>2
<1>5. job' \in [Command -> Jobs]
  BY <1>3, <1>4
<1> QED
  BY <1>1, <1>2, <1>5 DEF Starts, NoJob

\* machineDelete begins.
LEMMA DeleteJob ==
    ASSUME job \in [Command -> Jobs], NEW c \in Command, NEW n \in Name, NEW skip \in BOOLEAN,
           job' = [job EXCEPT ![c] = [NoJob EXCEPT !.cmd = "delete", !.pc = "get", !.nm = n,
               !.skip = skip]]
    PROVE  Starts(c, "delete", "get", n, {}, {}, "none", skip, FALSE)
<1>1. NoJob \in Jobs
  BY NoJobType
<1>2. job'[c] = [NoJob EXCEPT !.cmd = "delete", !.pc = "get", !.nm = n,
               !.skip = skip]
      /\ \A d \in Command \ {c} : job'[d] = job[d]
  OBVIOUS
<1>3. job'[c] \in Jobs
  <2>1. "get" \in Step
    BY DEF Step
  <2> QED
    BY <1>1, <1>2, <2>1 DEF Jobs
<1>4. job' = [job EXCEPT ![c] = job'[c]]
  BY <1>2
<1>5. job' \in [Command -> Jobs]
  BY <1>3, <1>4
<1> QED
  BY <1>1, <1>2, <1>5 DEF Starts, NoJob

\* machineRedeploy begins.
LEMMA RedeployJob ==
    ASSUME job \in [Command -> Jobs], NEW c \in Command, NEW n \in Name,
           NEW new \in SUBSET Role, NEW storage \in {"none", "new", "attach"}, 
           job' = [job EXCEPT ![c] = [NoJob EXCEPT !.cmd = "redeploy", !.pc = "off", !.nm = n,
               !.tags = new, !.storage = storage]]
    PROVE  Starts(c, "redeploy", "off", n, {}, new, storage, FALSE, FALSE)
<1>1. NoJob \in Jobs
  BY NoJobType
<1>2. job'[c] = [NoJob EXCEPT !.cmd = "redeploy", !.pc = "off", !.nm = n,
               !.tags = new, !.storage = storage]
      /\ \A d \in Command \ {c} : job'[d] = job[d]
  OBVIOUS
<1>3. job'[c] \in Jobs
  <2>1. "off" \in Step
    BY DEF Step
  <2> QED
    BY <1>1, <1>2, <2>1 DEF Jobs
<1>4. job' = [job EXCEPT ![c] = job'[c]]
  BY <1>2
<1>5. job' \in [Command -> Jobs]
  BY <1>3, <1>4
<1> QED
  BY <1>1, <1>2, <1>5 DEF Starts, NoJob

\* machineEdit begins.
LEMMA EditJob ==
    ASSUME job \in [Command -> Jobs], NEW c \in Command, NEW n \in Name,
           NEW new \in SUBSET Role, NEW l \in BOOLEAN, 
           job' = [job EXCEPT ![c] = [NoJob EXCEPT !.cmd = "edit", !.pc = "editNic", !.nm = n,
               !.tags = new, !.lun = l, !.skip = TRUE]]
    PROVE  Starts(c, "edit", "editNic", n, {}, new, "none", TRUE, l)
<1>1. NoJob \in Jobs
  BY NoJobType
<1>2. job'[c] = [NoJob EXCEPT !.cmd = "edit", !.pc = "editNic", !.nm = n,
               !.tags = new, !.lun = l, !.skip = TRUE]
      /\ \A d \in Command \ {c} : job'[d] = job[d]
  OBVIOUS
<1>3. job'[c] \in Jobs
  <2>1. "editNic" \in Step
    BY DEF Step
  <2> QED
    BY <1>1, <1>2, <2>1 DEF Jobs
<1>4. job' = [job EXCEPT ![c] = job'[c]]
  BY <1>2
<1>5. job' \in [Command -> Jobs]
  BY <1>3, <1>4
<1> QED
  BY <1>1, <1>2, <1>5 DEF Starts, NoJob

\* ensureMachineSecurityRules begins.
LEMMA EnsureJob ==
    ASSUME job \in [Command -> Jobs], NEW c \in Command,
           job' = [job EXCEPT ![c] = [NoJob EXCEPT !.cmd = "ensure", !.pc = "list"]]
    PROVE  Starts(c, "ensure", "list", None, {}, {}, "none", FALSE, FALSE)
<1>1. NoJob \in Jobs
  BY NoJobType
<1>2. job'[c] = [NoJob EXCEPT !.cmd = "ensure", !.pc = "list"]
      /\ \A d \in Command \ {c} : job'[d] = job[d]
  OBVIOUS
<1>3. job'[c] \in Jobs
  BY <1>1, <1>2 DEF Jobs, Step
<1>4. job' = [job EXCEPT ![c] = job'[c]]
  BY <1>2
<1>5. job' \in [Command -> Jobs]
  BY <1>3, <1>4
<1> QED
  BY <1>1, <1>2, <1>5 DEF Starts, NoJob


-------------------------------------------------------------------------------
(* What the actions of the shells do. *)

\* machineAdd begins with a machine that does not exist.
LEMMA AddStartDoes ==
    ASSUME TypeOK, NEW c \in Command, AddStart(c)
    PROVE  \E n \in Name, roles \in RoleChoice, management \in Management, skip \in Skip,
              storage \in {"none", "new"} :
           /\ MayStart(c, n, ~skip) /\ vm[n] = "none"
           /\ Starts(c, "add", "nic", n, roles,
                     roles \cup (IF management THEN {"management"} ELSE {}), storage, skip, FALSE)
           /\ ip' = [ip EXCEPT ![n] = TRUE]
           /\ UNCHANGED <<vm, tags, lun, disk, nic, addr, group, dirty, unmatched, crashes>>
<1>1. World /\ job \in [Command -> Jobs]
  BY TypeParts
<1>2. PICK n \in Name, roles \in RoleChoice, management \in Management, skip \in Skip,
           storage \in {"none", "new"} :
          /\ MayStart(c, n, ~skip)
          /\ AddBegin(c, [NoJob EXCEPT !.cmd = "add", !.pc = "nic", !.nm = n, !.roles = roles,
                 !.tags = roles \cup IF management THEN {"management"} ELSE {},
                 !.storage = storage, !.skip = skip])
  BY DEF AddStart
<1> DEFINE new == roles \cup (IF management THEN {"management"} ELSE {})
           record == [NoJob EXCEPT !.cmd = "add", !.pc = "nic", !.nm = n, !.roles = roles,
                          !.tags = new, !.storage = storage, !.skip = skip]
<1>3. roles \in SUBSET Role /\ new \in SUBSET Role /\ skip \in BOOLEAN
  BY AzureAssumption DEF Role
<1>4. AddBegin(c, record)
  BY <1>2
<1>5. record.nm = n
  BY DEF NoJob
<1>6. /\ vm[n] = "none" /\ ip' = [ip EXCEPT ![n] = TRUE]
      /\ job' = [job EXCEPT ![c] = record]
      /\ UNCHANGED <<vm, tags, lun, disk, nic, addr, group, dirty, unmatched, crashes>>
  BY <1>4, <1>5 DEF AddBegin
<1> HIDE DEF new
<1>7. Starts(c, "add", "nic", n, roles, new, storage, skip, FALSE)
  BY <1>1, <1>3, <1>6, AddJob
<1> QED
  BY <1>2, <1>6, <1>7 DEF new

\* AddNic makes a NIC whose group is that of the roles.
LEMMA AddNicDoes ==
    ASSUME TypeOK, NEW c \in Command, AddNic(c)
    PROVE  /\ job[c].pc = "nic"
           /\ \/ /\ ip[job[c].nm] /\ Exists(NsgType(job[c].roles))
                 /\ nic' = [nic EXCEPT ![job[c].nm] = NsgType(job[c].roles)]
                 /\ Moves(c, "vm")
              \/ /\ ~(ip[job[c].nm] /\ Exists(NsgType(job[c].roles)))
                 /\ UNCHANGED nic /\ Rests(c)
           /\ UNCHANGED <<vm, tags, lun, disk, ip, addr, group, dirty, unmatched, crashes>>
<1>1. World /\ job \in [Command -> Jobs]
  BY TypeParts
<1>2. {"vm"} \subseteq Step
  BY DEF Step
<1> QED
  BY <1>1, <1>2, Gone, Ended DEF AddNic, At, Goto

\* AddVm makes a VM whose tags are those of the command.
LEMMA AddVmDoes ==
    ASSUME TypeOK, NEW c \in Command, AddVm(c)
    PROVE  /\ job[c].pc = "vm"
           /\ \/ /\ nic[job[c].nm] # None /\ vm[job[c].nm] = "none"
                 /\ job[c].storage # "none" => disk[job[c].nm] = (job[c].storage = "attach")
                 /\ vm' = [vm EXCEPT ![job[c].nm] = "creating"]
                 /\ tags' = [tags EXCEPT ![job[c].nm] = job[c].tags]
                 /\ lun' = [lun EXCEPT ![job[c].nm] = job[c].storage # "none"]
                 /\ disk' = [disk EXCEPT ![job[c].nm] = @ \/ job[c].storage = "new"]
                 /\ dirty'
                 /\ unmatched' = unmatched \cup
                        IF NsgType(job[c].tags) = NsgType(job[c].roles) THEN {} ELSE {job[c].nm}
                 /\ Moves(c, "creating")
              \/ /\ ~ /\ nic[job[c].nm] # None /\ vm[job[c].nm] = "none"
                      /\ job[c].storage # "none" => disk[job[c].nm] = (job[c].storage = "attach")
                 /\ UNCHANGED <<vm, tags, lun, disk, dirty, unmatched>> /\ Rests(c)
           /\ UNCHANGED <<nic, ip, addr, group, crashes>>
<1>1. World /\ job \in [Command -> Jobs]
  BY TypeParts
<1>2. {"creating"} \subseteq Step
  BY DEF Step
<1> QED
  BY <1>1, <1>2, Gone, Ended DEF AddVm, At, Goto

\* AddRefused goes on to change the NIC.
LEMMA AddRefusedDoes ==
    ASSUME TypeOK, NEW c \in Command, AddRefused(c)
    PROVE  /\ job[c].pc = "vm" /\ Moves(c, "slowNic")
           /\ UNCHANGED <<cloudVars, dirty, unmatched, crashes>>
<1>1. World /\ job \in [Command -> Jobs]
  BY TypeParts
<1>2. {"slowNic"} \subseteq Step
  BY DEF Step
<1> QED
  BY <1>1, <1>2, Gone DEF AddRefused, At, Goto

\* AddSlowNic gives the NIC the same group.
LEMMA AddSlowNicDoes ==
    ASSUME TypeOK, NEW c \in Command, AddSlowNic(c)
    PROVE  /\ job[c].pc = "slowNic" /\ Moves(c, "vm")
           /\ nic' = [nic EXCEPT ![job[c].nm] = NsgType(job[c].roles)]
           /\ UNCHANGED <<vm, tags, lun, disk, ip, addr, group, dirty, unmatched, crashes>>
<1>1. World /\ job \in [Command -> Jobs]
  BY TypeParts
<1>2. {"vm"} \subseteq Step
  BY DEF Step
<1> QED
  BY <1>1, <1>2, Slower DEF AddSlowNic, At

\* AddCreated ends the command or goes on to the rules.
LEMMA AddCreatedDoes ==
    ASSUME TypeOK, NEW c \in Command, AddCreated(c)
    PROVE  /\ job[c].pc = "creating"
           /\ \/ Rests(c)
              \/ ~job[c].skip /\ Moves(c, "list")
           /\ UNCHANGED <<cloudVars, dirty, unmatched, crashes>>
<1>1. World /\ job \in [Command -> Jobs]
  BY TypeParts
<1>2. {"list"} \subseteq Step
  BY DEF Step
<1>3. End(c) => Rests(c)
  BY <1>1, Ended
<1>4. Goto(c, "list") => Moves(c, "list")
  BY <1>1, <1>2, Gone DEF Goto
<1> QED
  BY <1>3, <1>4 DEF AddCreated, At, EndOrEnsure

\* machineDelete begins with a machine that exists.
LEMMA DeleteStartDoes ==
    ASSUME TypeOK, NEW c \in Command, DeleteStart(c)
    PROVE  \E n \in Name, skip \in Skip :
           /\ MayStart(c, n, ~skip) /\ vm[n] # "none"
           /\ Starts(c, "delete", "get", n, {}, {}, "none", skip, FALSE)
           /\ UNCHANGED <<cloudVars, dirty, unmatched, crashes>>
<1>1. World /\ job \in [Command -> Jobs]
  BY TypeParts
<1>2. Skip \subseteq BOOLEAN
  BY AzureAssumption
<1> QED
  BY <1>1, <1>2, DeleteJob DEF DeleteStart

\* DeleteGet reads the machine.
LEMMA DeleteGetDoes ==
    ASSUME TypeOK, Steps, NEW c \in Command, DeleteGet(c)
    PROVE  /\ job[c].pc = "get"
           /\ \/ vm[job[c].nm] = "none" /\ Rests(c)
              \/ Goes(c, "vmGone", job[c].roles, lun[job[c].nm], job[c].todo, job[c].ips,
                      job[c].write)
           /\ UNCHANGED <<cloudVars, dirty, unmatched, crashes>>
<1>1. World /\ job \in [Command -> Jobs]
  BY TypeParts
<1>2. {"vmGone"} \subseteq Step
  BY DEF Step
<1>3. CASE vm[job[c].nm] = "none"
  BY <1>1, <1>3, Ended DEF DeleteGet, At
<1>4. CASE vm[job[c].nm] # "none"
  <2>1. /\ job' = [job EXCEPT ![c].pc = "vmGone", ![c].lun = lun[job[c].nm]]
        /\ job[c].pc = "get" /\ UNCHANGED <<cloudVars, dirty, unmatched, crashes>>
    BY <1>4 DEF DeleteGet, At
  <2>2. lun[job[c].nm] \in BOOLEAN
    BY <1>1, <2>1 DEF World, Steps, RuleStep
  <2> QED
    BY <1>1, <1>2, <2>1, <2>2, LunRead
<1> QED
  BY <1>3, <1>4

\* DeleteVm deletes the VM.
LEMMA DeleteVmDoes ==
    ASSUME TypeOK, NEW c \in Command, DeleteVm(c)
    PROVE  /\ job[c].pc = "vmGone" /\ Moves(c, "nicGone")
           /\ vm' = [vm EXCEPT ![job[c].nm] = "none"]
           /\ tags' = [tags EXCEPT ![job[c].nm] = {}]
           /\ lun' = [lun EXCEPT ![job[c].nm] = FALSE]
           /\ addr' = [addr EXCEPT ![job[c].nm] = None]
           /\ dirty' /\ unmatched' = unmatched \ {job[c].nm}
           /\ UNCHANGED <<disk, nic, ip, group, crashes>>
<1>1. World /\ job \in [Command -> Jobs]
  BY TypeParts
<1>2. {"nicGone"} \subseteq Step
  BY DEF Step
<1> QED
  BY <1>1, <1>2, Gone DEF DeleteVm, At, Goto

\* DeleteNic deletes the NIC of a VM that is gone.
LEMMA DeleteNicDoes ==
    ASSUME TypeOK, NEW c \in Command, DeleteNic(c)
    PROVE  /\ job[c].pc = "nicGone"
           /\ \/ /\ nic[job[c].nm] # None /\ vm[job[c].nm] = "none"
                 /\ nic' = [nic EXCEPT ![job[c].nm] = None] /\ Moves(c, "ipGone")
              \/ /\ ~(nic[job[c].nm] # None /\ vm[job[c].nm] = "none")
                 /\ UNCHANGED nic /\ Rests(c)
           /\ UNCHANGED <<vm, tags, lun, disk, ip, addr, group, dirty, unmatched, crashes>>
<1>1. World /\ job \in [Command -> Jobs]
  BY TypeParts
<1>2. {"ipGone"} \subseteq Step
  BY DEF Step
<1> QED
  BY <1>1, <1>2, Gone, Ended DEF DeleteNic, At, Goto

\* DeleteIp deletes the address of a NIC that is gone.
LEMMA DeleteIpDoes ==
    ASSUME TypeOK, NEW c \in Command, DeleteIp(c)
    PROVE  /\ job[c].pc = "ipGone"
           /\ \/ ip' = [ip EXCEPT ![job[c].nm] = FALSE] /\ UNCHANGED job
              \/ nic[job[c].nm] # None /\ UNCHANGED ip /\ Rests(c)
           /\ UNCHANGED <<vm, tags, lun, disk, nic, addr, group, dirty, unmatched, crashes>>
<1>1. World /\ job \in [Command -> Jobs]
  BY TypeParts
<1> QED
  BY <1>1, Ended DEF DeleteIp, At

\* DeleteDisk deletes the disk that the VM had, unless it is in use.
LEMMA DeleteDiskDoes ==
    ASSUME TypeOK, NEW c \in Command, DeleteDisk(c)
    PROVE  /\ job[c].pc = "ipGone" /\ job[c].lun
           /\ \/ /\ ~lun[job[c].nm]
                 /\ disk' = [disk EXCEPT ![job[c].nm] = FALSE]
                 /\ Goes(c, "ipGone", job[c].roles, FALSE, job[c].todo, job[c].ips, job[c].write)
              \/ lun[job[c].nm] /\ UNCHANGED disk /\ Rests(c)
           /\ UNCHANGED <<vm, tags, lun, nic, ip, addr, group, dirty, unmatched, crashes>>
<1>1. World /\ job \in [Command -> Jobs]
  BY TypeParts
<1>2. FALSE \in BOOLEAN
  OBVIOUS
<1> QED
  BY <1>1, <1>2, LunDone, Ended DEF DeleteDisk, At

\* DeletedAll goes on to the group.
LEMMA DeletedAllDoes ==
    ASSUME TypeOK, NEW c \in Command, DeletedAll(c)
    PROVE  /\ job[c].pc = "ipGone" /\ ~job[c].lun /\ Moves(c, "groupGone")
           /\ UNCHANGED <<cloudVars, dirty, unmatched, crashes>>
<1>1. World /\ job \in [Command -> Jobs]
  BY TypeParts
<1>2. {"groupGone"} \subseteq Step
  BY DEF Step
<1> QED
  BY <1>1, <1>2, Gone DEF DeletedAll, At, Goto

\* DeleteGroup deletes the group that has the name of the machine.
LEMMA DeleteGroupDoes ==
    ASSUME TypeOK, NEW c \in Command, DeleteGroup(c)
    PROVE  /\ job[c].pc = "groupGone"
           /\ \/ /\ group' = [t \in Type |-> IF t = job[c].nm THEN NoGroup ELSE group[t]]
                 /\ \/ job[c].cmd = "redeploy" /\ Moves(c, "readd")
                    \/ job[c].cmd # "redeploy" /\ Rests(c)
                    \/ job[c].cmd # "redeploy" /\ ~job[c].skip /\ Moves(c, "list")
              \/ job[c].nm \in Type /\ UNCHANGED group /\ Rests(c)
           /\ UNCHANGED <<vm, tags, lun, disk, nic, ip, addr, dirty, unmatched, crashes>>
<1>1. World /\ job \in [Command -> Jobs]
  BY TypeParts
<1>2. {"readd", "list"} \subseteq Step
  BY DEF Step
<1> QED
  BY <1>1, <1>2, Gone, Ended DEF DeleteGroup, At, EndOrEnsure, Goto

\* machineRedeploy reads the tags and the disk of a machine that exists.
LEMMA RedeployStartDoes ==
    ASSUME TypeOK, NEW c \in Command, RedeployStart(c)
    PROVE  \E n \in Name :
           /\ MayStart(c, n, TRUE) /\ vm[n] # "none"
           /\ Starts(c, "redeploy", "off", n, {}, tags[n],
                     IF lun[n] THEN "attach" ELSE "none", FALSE, FALSE)
           /\ UNCHANGED <<cloudVars, dirty, unmatched, crashes>>
<1>1. World /\ job \in [Command -> Jobs]
  BY TypeParts
<1>2. PICK n \in Name :
          /\ MayStart(c, n, TRUE)
          /\ vm[n] # "none"
          /\ job' = [job EXCEPT ![c] = [NoJob EXCEPT !.cmd = "redeploy", !.pc = "off", !.nm = n,
                 !.tags = tags[n], !.storage = IF lun[n] THEN "attach" ELSE "none"]]
          /\ UNCHANGED <<cloudVars, dirty, unmatched, crashes>>
  BY DEF RedeployStart
<1> DEFINE storage == IF lun[n] THEN "attach" ELSE "none"
<1>3. tags[n] \in SUBSET Role /\ storage \in {"none", "new", "attach"}
  BY <1>1 DEF World
<1>4. job' = [job EXCEPT ![c] = [NoJob EXCEPT !.cmd = "redeploy", !.pc = "off", !.nm = n,
                 !.tags = tags[n], !.storage = storage]]
  BY <1>2
<1> HIDE DEF storage
<1>5. Starts(c, "redeploy", "off", n, {}, tags[n], storage, FALSE, FALSE)
  BY <1>1, <1>3, <1>4, RedeployJob
<1> QED
  BY <1>2, <1>5 DEF storage

\* RedeployPowerOff goes on if the VM runs or is off.
LEMMA RedeployPowerOffDoes ==
    ASSUME TypeOK, NEW c \in Command, RedeployPowerOff(c)
    PROVE  /\ job[c].pc = "off"
           /\ \/ /\ vm[job[c].nm] \in {"running", "off"}
                 /\ vm' = [vm EXCEPT ![job[c].nm] = "off"]
                 /\ \/ job[c].storage = "attach" /\ Moves(c, "detach")
                    \/ job[c].storage # "attach" /\ Moves(c, "get")
              \/ UNCHANGED vm /\ Rests(c)
           /\ UNCHANGED <<tags, lun, disk, nic, ip, addr, group, dirty, unmatched, crashes>>
<1>1. World /\ job \in [Command -> Jobs]
  BY TypeParts
<1>2. "detach" \in Step /\ "get" \in Step
  BY DEF Step
<1>3. End(c) => Rests(c)
  BY <1>1, Ended
<1>4. /\ Goto(c, "detach") => Moves(c, "detach")
      /\ Goto(c, "get") => Moves(c, "get")
  BY <1>1, <1>2, Gone DEF Goto
<1> QED
  BY <1>3, <1>4 DEF RedeployPowerOff, At

\* RedeployDetach detaches the disk.
LEMMA RedeployDetachDoes ==
    ASSUME TypeOK, NEW c \in Command, RedeployDetach(c)
    PROVE  /\ job[c].pc = "detach"
           /\ \/ /\ lun' = [lun EXCEPT ![job[c].nm] = FALSE] /\ Moves(c, "get")
              \/ vm[job[c].nm] = "none" /\ UNCHANGED lun /\ Rests(c)
           /\ UNCHANGED <<vm, tags, disk, nic, ip, addr, group, dirty, unmatched, crashes>>
<1>1. World /\ job \in [Command -> Jobs]
  BY TypeParts
<1>2. {"get"} \subseteq Step
  BY DEF Step
<1> QED
  BY <1>1, <1>2, Gone, Ended DEF RedeployDetach, At, Goto

\* RedeployAdd goes on as machineAdd with the tags for roles.
LEMMA RedeployAddDoes ==
    ASSUME TypeOK, NEW c \in Command, RedeployAdd(c)
    PROVE  /\ job[c].pc = "readd"
           /\ \/ /\ vm[job[c].nm] = "none"
                 /\ ip' = [ip EXCEPT ![job[c].nm] = TRUE]
                 /\ Goes(c, "nic", job[c].tags, job[c].lun, job[c].todo, job[c].ips, job[c].write)
              \/ vm[job[c].nm] # "none" /\ UNCHANGED ip /\ Rests(c)
           /\ UNCHANGED <<vm, tags, lun, disk, nic, addr, group, dirty, unmatched, crashes>>
<1>1. World /\ job \in [Command -> Jobs]
  BY TypeParts
<1>2. "nic" \in Step
  BY DEF Step
<1>3. CASE vm[job[c].nm] = "none"
  <2> DEFINE record == [job[c] EXCEPT !.pc = "nic", !.roles = job[c].tags]
  <2>1. job[c].pc = "readd" /\ AddBegin(c, record)
    BY <1>3 DEF RedeployAdd, At
  <2>2. record.nm = job[c].nm
    BY <1>1 DEF Jobs
  <2>3. /\ ip' = [ip EXCEPT ![job[c].nm] = TRUE] /\ job' = [job EXCEPT ![c] = record]
        /\ UNCHANGED <<vm, tags, lun, disk, nic, addr, group, dirty, unmatched, crashes>>
    BY <2>1, <2>2 DEF AddBegin
  <2>4. Goes(c, "nic", job[c].tags, job[c].lun, job[c].todo, job[c].ips, job[c].write)
    BY <1>1, <1>2, <2>3, Readded
  <2> QED
    BY <1>3, <2>1, <2>3, <2>4
<1>4. CASE vm[job[c].nm] # "none"
  BY <1>1, <1>4, Ended DEF RedeployAdd, At, cloudVars
<1> QED
  BY <1>3, <1>4

\* machineEdit reads a machine that exists.
LEMMA EditStartDoes ==
    ASSUME TypeOK, NEW c \in Command, EditStart(c)
    PROVE  \E n \in Name, roles \in RoleChoice :
           /\ MayStart(c, n, FALSE) /\ vm[n] # "none"
           /\ Starts(c, "edit", "editNic", n, {}, roles, "none", TRUE, lun[n])
           /\ UNCHANGED <<cloudVars, dirty, unmatched, crashes>>
<1>1. World /\ job \in [Command -> Jobs]
  BY TypeParts
<1>2. PICK n \in Name, roles \in RoleChoice :
          /\ MayStart(c, n, FALSE)
          /\ vm[n] # "none"
          /\ job' = [job EXCEPT ![c] = [NoJob EXCEPT !.cmd = "edit", !.pc = "editNic", !.nm = n,
                 !.tags = roles, !.lun = lun[n], !.skip = TRUE]]
          /\ UNCHANGED <<cloudVars, dirty, unmatched, crashes>>
  BY DEF EditStart
<1>3. roles \in SUBSET Role /\ lun[n] \in BOOLEAN
  BY <1>1, AzureAssumption DEF World
<1>4. Starts(c, "edit", "editNic", n, {}, roles, "none", TRUE, lun[n])
  BY <1>1, <1>2, <1>3, EditJob
<1> QED
  BY <1>2, <1>4

\* EditNic gives the NIC the group of the new tags.
LEMMA EditNicDoes ==
    ASSUME TypeOK, NEW c \in Command, EditNic(c)
    PROVE  /\ job[c].pc = "editNic"
           /\ \/ /\ Exists(NsgType(job[c].tags))
                 /\ nic' = [nic EXCEPT ![job[c].nm] = NsgType(job[c].tags)]
                 /\ unmatched' = unmatched \cup {job[c].nm}
                 /\ Moves(c, "editVm")
              \/ UNCHANGED <<nic, unmatched>> /\ Rests(c)
           /\ UNCHANGED <<vm, tags, lun, disk, ip, addr, group, dirty, crashes>>
<1>1. World /\ job \in [Command -> Jobs]
  BY TypeParts
<1>2. {"editVm"} \subseteq Step
  BY DEF Step
<1> QED
  BY <1>1, <1>2, Gone, Ended DEF EditNic, At, Goto

\* EditVm writes the VM back with the new tags.
LEMMA EditVmDoes ==
    ASSUME TypeOK, NEW c \in Command, EditVm(c)
    PROVE  /\ job[c].pc = "editVm" /\ Rests(c)
           /\ \/ /\ vm[job[c].nm] # "none" /\ (job[c].lun => disk[job[c].nm])
                 /\ tags' = [tags EXCEPT ![job[c].nm] = job[c].tags]
                 /\ lun' = [lun EXCEPT ![job[c].nm] = job[c].lun]
                 /\ unmatched' = unmatched \ {job[c].nm}
              \/ /\ ~(vm[job[c].nm] # "none" /\ (job[c].lun => disk[job[c].nm]))
                 /\ UNCHANGED <<tags, lun, unmatched>>
           /\ UNCHANGED <<vm, disk, nic, ip, addr, group, dirty, crashes>>
<1>1. World /\ job \in [Command -> Jobs]
  BY TypeParts
<1> QED
  BY <1>1, Ended DEF EditVm, At

\* ensureMachineSecurityRules begins.
LEMMA EnsureStartDoes ==
    ASSUME TypeOK, NEW c \in Command, EnsureStart(c)
    PROVE  /\ MayStart(c, None, TRUE)
           /\ Starts(c, "ensure", "list", None, {}, {}, "none", FALSE, FALSE)
           /\ UNCHANGED <<cloudVars, dirty, unmatched, crashes>>
<1>1. World /\ job \in [Command -> Jobs]
  BY TypeParts
<1> QED
  BY <1>1, EnsureJob DEF EnsureStart

\* EnsureList reads the machines there are.
LEMMA EnsureListDoes ==
    ASSUME TypeOK, NEW c \in Command, EnsureList(c)
    PROVE  /\ job[c].pc = "list"
           /\ Goes(c, "ips", job[c].roles, job[c].lun, Live, job[c].ips, job[c].write)
           /\ UNCHANGED <<cloudVars, dirty, unmatched, crashes>>
<1>1. World /\ job \in [Command -> Jobs]
  BY TypeParts
<1>2. "ips" \in Step /\ Live \in SUBSET Name
  BY DEF Step, Live
<1>3. job' = [job EXCEPT ![c].pc = "ips", ![c].todo = Live]
  BY DEF EnsureList, Live
<1>4. Goes(c, "ips", job[c].roles, job[c].lun, Live, job[c].ips, job[c].write)
  BY <1>1, <1>2, <1>3, TodoRead
<1> QED
  BY <1>4 DEF EnsureList, At

\* EnsureIp reads the address of one of the machines, or fails.
LEMMA EnsureIpDoes ==
    ASSUME TypeOK, NEW c \in Command, EnsureIp(c)
    PROVE  /\ job[c].pc = "ips"
           /\ \/ Rests(c)
              \/ \E n \in job[c].todo :
                     /\ addr[n] # None
                     /\ Goes(c, "ips", job[c].roles, job[c].lun, job[c].todo \ {n},
                             job[c].ips \cup {addr[n]}, job[c].write)
           /\ UNCHANGED <<cloudVars, dirty, unmatched, crashes>>
<1>1. World /\ job \in [Command -> Jobs]
  BY TypeParts
<1>2. job[c].pc = "ips" /\ UNCHANGED <<cloudVars, dirty, unmatched, crashes>>
  BY DEF EnsureIp, At
<1>3. PICK n \in job[c].todo :
          IF nic[n] # None /\ addr[n] # None
          THEN job' = [job EXCEPT ![c].todo = @ \ {n}, ![c].ips = @ \cup {addr[n]}]
          ELSE End(c)
  BY DEF EnsureIp
<1>4. CASE nic[n] # None /\ addr[n] # None
  <2>1. n \in Name
    BY <1>1, JobTypes
  <2>2. addr[n] \in Address
    BY <1>1, <1>4, <2>1 DEF World
  <2>3. Goes(c, job[c].pc, job[c].roles, job[c].lun, job[c].todo \ {n},
             job[c].ips \cup {addr[n]}, job[c].write)
    BY <1>1, <1>3, <1>4, <2>1, <2>2, IpRead
  <2> QED
    BY <1>2, <1>4, <2>3
<1>5. CASE ~(nic[n] # None /\ addr[n] # None)
  BY <1>1, <1>2, <1>3, <1>5, Ended
<1> QED
  BY <1>4, <1>5

\* EnsureGroups lists the groups when all addresses are read.
LEMMA EnsureGroupsDoes ==
    ASSUME TypeOK, NEW c \in Command, EnsureGroups(c)
    PROVE  /\ job[c].pc = "ips" /\ job[c].todo = {}
           /\ Goes(c, "write", job[c].roles, job[c].lun, job[c].todo, job[c].ips,
                   {t \in Type : group[t] # NoGroup})
           /\ UNCHANGED <<cloudVars, dirty, unmatched, crashes>>
<1>1. World /\ job \in [Command -> Jobs]
  BY TypeParts
<1> DEFINE there == {t \in Type : group[t] # NoGroup}
<1>2. "write" \in Step /\ there \in SUBSET Type
  BY DEF Step
<1>3. job' = [job EXCEPT ![c].pc = "write", ![c].write = there]
  BY DEF EnsureGroups, Exists
<1> HIDE DEF there
<1>4. Goes(c, "write", job[c].roles, job[c].lun, job[c].todo, job[c].ips, there)
  BY <1>1, <1>2, <1>3, GroupsRead
<1> QED
  BY <1>4 DEF EnsureGroups, At, there

\* EnsureWrite writes the rules of one group, or fails.
LEMMA EnsureWriteDoes ==
    ASSUME TypeOK, NEW c \in Command, EnsureWrite(c)
    PROVE  /\ job[c].pc = "write"
           /\ \/ UNCHANGED group /\ Rests(c)
              \/ \E t \in job[c].write :
                     /\ group' = [group EXCEPT ![t] = job[c].ips]
                     /\ Goes(c, "write", job[c].roles, job[c].lun, job[c].todo, job[c].ips,
                             job[c].write \ {t})
           /\ UNCHANGED <<vm, tags, lun, disk, nic, ip, addr, dirty, unmatched, crashes>>
<1>1. World /\ job \in [Command -> Jobs]
  BY TypeParts
<1>2. job[c].pc = "write" /\ UNCHANGED <<vm, tags, lun, disk, nic, ip, addr, dirty, unmatched, crashes>>
  BY DEF EnsureWrite, At
<1>3. PICK t \in job[c].write :
          IF Exists(t)
          THEN /\ group' = [group EXCEPT ![t] = job[c].ips]
               /\ job' = [job EXCEPT ![c].write = @ \ {t}]
          ELSE UNCHANGED group /\ End(c)
  BY DEF EnsureWrite
<1>4. CASE Exists(t)
  <2>1. t \in Type
    BY <1>1, JobTypes
  <2>2. Goes(c, job[c].pc, job[c].roles, job[c].lun, job[c].todo, job[c].ips, job[c].write \ {t})
    BY <1>1, <1>3, <1>4, <2>1, Written
  <2> QED
    BY <1>2, <1>3, <1>4, <2>2
<1>5. CASE ~Exists(t)
  BY <1>1, <1>2, <1>3, <1>5, Ended
<1> QED
  BY <1>4, <1>5

\* EnsureDone ends the command when all groups are written.
LEMMA EnsureDoneDoes ==
    ASSUME TypeOK, NEW c \in Command, EnsureDone(c)
    PROVE  /\ job[c].pc = "write" /\ job[c].write = {} /\ Rests(c)
           /\ ~dirty'
           /\ UNCHANGED <<cloudVars, unmatched, crashes>>
<1>1. World /\ job \in [Command -> Jobs]
  BY TypeParts
<1> QED
  BY <1>1, Ended DEF EnsureDone, At

\* Crash ends the command.
LEMMA CrashDoes ==
    ASSUME TypeOK, NEW c \in Command, Crash(c)
    PROVE  /\ Rests(c) /\ crashes < MaxCrashes /\ crashes' = crashes + 1
           /\ UNCHANGED <<cloudVars, dirty, unmatched>>
<1>1. World /\ job \in [Command -> Jobs]
  BY TypeParts
<1> QED
  BY <1>1, Ended DEF Crash

-------------------------------------------------------------------------------
(* Machines and commands. *)

\* The types of what a shell does.
LEMMA JobStep == BaseInv /\ [Next]_vars => job' \in [Command -> Jobs]
<1> SUFFICES ASSUME BaseInv, [Next]_vars PROVE job' \in [Command -> Jobs]
  OBVIOUS
<1> USE DEF cloudVars
<1>a. TypeOK /\ World /\ Steps /\ job \in [Command -> Jobs]
  BY TypeParts DEF BaseInv
<1>1. ASSUME NEW c \in Command, AddStart(c) PROVE job' \in [Command -> Jobs]
  BY <1>1, <1>a, AddStartDoes DEF Starts
<1>2. ASSUME NEW c \in Command, AddNic(c) PROVE job' \in [Command -> Jobs]
  BY <1>2, <1>a, AddNicDoes DEF Moves, Goes, Rests
<1>3. ASSUME NEW c \in Command, AddVm(c) PROVE job' \in [Command -> Jobs]
  BY <1>3, <1>a, AddVmDoes DEF Moves, Goes, Rests
<1>4. ASSUME NEW c \in Command, AddRefused(c) PROVE job' \in [Command -> Jobs]
  BY <1>4, <1>a, AddRefusedDoes DEF Moves, Goes
<1>5. ASSUME NEW c \in Command, AddSlowNic(c) PROVE job' \in [Command -> Jobs]
  BY <1>5, <1>a, AddSlowNicDoes DEF Moves, Goes
<1>6. ASSUME NEW c \in Command, AddCreated(c) PROVE job' \in [Command -> Jobs]
  BY <1>6, <1>a, AddCreatedDoes DEF Moves, Goes, Rests
<1>7. ASSUME NEW c \in Command, DeleteStart(c) PROVE job' \in [Command -> Jobs]
  BY <1>7, <1>a, DeleteStartDoes DEF Starts
<1>8. ASSUME NEW c \in Command, DeleteGet(c) PROVE job' \in [Command -> Jobs]
  BY <1>8, <1>a, DeleteGetDoes DEF Goes, Rests
<1>9. ASSUME NEW c \in Command, DeleteVm(c) PROVE job' \in [Command -> Jobs]
  BY <1>9, <1>a, DeleteVmDoes DEF Moves, Goes
<1>10. ASSUME NEW c \in Command, DeleteNic(c) PROVE job' \in [Command -> Jobs]
  BY <1>10, <1>a, DeleteNicDoes DEF Moves, Goes, Rests
<1>11. ASSUME NEW c \in Command, DeleteIp(c) PROVE job' \in [Command -> Jobs]
  BY <1>11, <1>a, DeleteIpDoes DEF Rests
<1>12. ASSUME NEW c \in Command, DeleteDisk(c) PROVE job' \in [Command -> Jobs]
  BY <1>12, <1>a, DeleteDiskDoes DEF Goes, Rests
<1>13. ASSUME NEW c \in Command, DeletedAll(c) PROVE job' \in [Command -> Jobs]
  BY <1>13, <1>a, DeletedAllDoes DEF Moves, Goes
<1>14. ASSUME NEW c \in Command, DeleteGroup(c) PROVE job' \in [Command -> Jobs]
  BY <1>14, <1>a, DeleteGroupDoes DEF Moves, Goes, Rests
<1>15. ASSUME NEW c \in Command, RedeployStart(c) PROVE job' \in [Command -> Jobs]
  BY <1>15, <1>a, RedeployStartDoes DEF Starts
<1>16. ASSUME NEW c \in Command, RedeployPowerOff(c) PROVE job' \in [Command -> Jobs]
  BY <1>16, <1>a, RedeployPowerOffDoes DEF Moves, Goes, Rests
<1>17. ASSUME NEW c \in Command, RedeployDetach(c) PROVE job' \in [Command -> Jobs]
  BY <1>17, <1>a, RedeployDetachDoes DEF Moves, Goes, Rests
<1>18. ASSUME NEW c \in Command, RedeployAdd(c) PROVE job' \in [Command -> Jobs]
  BY <1>18, <1>a, RedeployAddDoes DEF Goes, Rests
<1>19. ASSUME NEW c \in Command, EditStart(c) PROVE job' \in [Command -> Jobs]
  BY <1>19, <1>a, EditStartDoes DEF Starts
<1>20. ASSUME NEW c \in Command, EditNic(c) PROVE job' \in [Command -> Jobs]
  BY <1>20, <1>a, EditNicDoes DEF Moves, Goes, Rests
<1>21. ASSUME NEW c \in Command, EditVm(c) PROVE job' \in [Command -> Jobs]
  BY <1>21, <1>a, EditVmDoes DEF Rests
<1>22. ASSUME NEW c \in Command, EnsureStart(c) PROVE job' \in [Command -> Jobs]
  BY <1>22, <1>a, EnsureStartDoes DEF Starts
<1>23. ASSUME NEW c \in Command, EnsureList(c) PROVE job' \in [Command -> Jobs]
  BY <1>23, <1>a, EnsureListDoes DEF Goes
<1>24. ASSUME NEW c \in Command, EnsureIp(c) PROVE job' \in [Command -> Jobs]
  BY <1>24, <1>a, EnsureIpDoes DEF Goes, Rests
<1>25. ASSUME NEW c \in Command, EnsureGroups(c) PROVE job' \in [Command -> Jobs]
  BY <1>25, <1>a, EnsureGroupsDoes DEF Goes
<1>26. ASSUME NEW c \in Command, EnsureWrite(c) PROVE job' \in [Command -> Jobs]
  BY <1>26, <1>a, EnsureWriteDoes DEF Goes, Rests
<1>27. ASSUME NEW c \in Command, EnsureDone(c) PROVE job' \in [Command -> Jobs]
  BY <1>27, <1>a, EnsureDoneDoes DEF Rests
<1>28. ASSUME NEW c \in Command, Crash(c) PROVE job' \in [Command -> Jobs]
  BY <1>28, <1>a, CrashDoes DEF Rests
<1>29. ASSUME NEW n \in Name, VmCreated(n) PROVE job' \in [Command -> Jobs]
  BY <1>29, <1>a DEF VmCreated
<1>30. CASE UNCHANGED vars
  BY <1>30, <1>a DEF vars
<1> QED
  BY <1>1, <1>2, <1>3, <1>4, <1>5, <1>6, <1>7, <1>8, <1>9, <1>10, <1>11, <1>12, <1>13, <1>14,
     <1>15, <1>16, <1>17, <1>18, <1>19, <1>20, <1>21, <1>22, <1>23, <1>24, <1>25, <1>26, <1>27,
     <1>28, <1>29, <1>30 DEF Next, Add, Delete, Redeploy, Edit, Ensure

\* The types of everything else.
LEMMA WorldStep == BaseInv /\ [Next]_vars => World'
<1> SUFFICES ASSUME BaseInv, [Next]_vars PROVE World'
  OBVIOUS
<1> USE DEF cloudVars
<1>a. TypeOK /\ World /\ Steps /\ job \in [Command -> Jobs]
  BY TypeParts DEF BaseInv
<1>1. ASSUME NEW c \in Command, AddStart(c) PROVE World'
  BY <1>1, <1>a, AddStartDoes DEF World, NoGroup
<1>2. ASSUME NEW c \in Command, AddNic(c) PROVE World'
  <2>1. Exists(NsgType(job[c].roles)) => NsgType(job[c].roles) \in Type
    BY DEF Exists
  <2> QED
    BY <1>2, <1>a, <2>1, AddNicDoes DEF World
<1>3. ASSUME NEW c \in Command, AddVm(c) PROVE World'
  <2>1. CASE UNCHANGED <<vm, tags, lun, disk, dirty, unmatched>>
    BY <1>3, <1>a, <2>1, AddVmDoes DEF World
  <2>2. CASE /\ vm' = [vm EXCEPT ![job[c].nm] = "creating"]
             /\ tags' = [tags EXCEPT ![job[c].nm] = job[c].tags]
             /\ lun' = [lun EXCEPT ![job[c].nm] = job[c].storage # "none"]
             /\ disk' = [disk EXCEPT ![job[c].nm] = @ \/ job[c].storage = "new"]
             /\ dirty'
             /\ unmatched' = unmatched \cup
                    IF NsgType(job[c].tags) = NsgType(job[c].roles) THEN {} ELSE {job[c].nm}
    <3>1. lun \in [Name -> BOOLEAN] /\ disk \in [Name -> BOOLEAN]
      BY <1>a DEF World
    <3>2. (job[c].storage # "none") \in BOOLEAN
          /\ (disk[job[c].nm] \/ job[c].storage = "new") \in BOOLEAN
      OBVIOUS
    <3>3. lun' \in [Name -> BOOLEAN] /\ disk' \in [Name -> BOOLEAN]
      BY <2>2, <3>1, <3>2
    <3>4. /\ tags' \in [Name -> SUBSET Role]
          /\ vm' \in [Name -> {"none", "creating", "running", "off"}]
      BY <1>a, <2>2, JobTypes DEF World
    <3>5. job[c].nm \in Name
      BY <1>3, <1>a, AddVmDoes DEF Steps, RuleStep
    <3>6. unmatched' \subseteq Name
      <4>1. unmatched' \subseteq unmatched \cup {job[c].nm}
        BY <2>2
      <4> QED
        BY <1>a, <3>5, <4>1 DEF World
    <3> QED
      BY <1>3, <1>a, <2>2, <3>3, <3>4, <3>6, AddVmDoes DEF World
  <2> QED
    BY <1>3, <1>a, <2>1, <2>2, AddVmDoes
<1>4. ASSUME NEW c \in Command, AddRefused(c) PROVE World'
  BY <1>4, <1>a, AddRefusedDoes DEF World, NoGroup
<1>5. ASSUME NEW c \in Command, AddSlowNic(c) PROVE World'
  <2>1. NsgType(job[c].roles) \in Type
    BY <1>5, <1>a, AddSlowNicDoes DEF BaseInv, Work
  <2> QED
    BY <1>5, <1>a, <2>1, AddSlowNicDoes DEF World
<1>6. ASSUME NEW c \in Command, AddCreated(c) PROVE World'
  BY <1>6, <1>a, AddCreatedDoes DEF World, NoGroup
<1>7. ASSUME NEW c \in Command, DeleteStart(c) PROVE World'
  BY <1>7, <1>a, DeleteStartDoes DEF World, NoGroup
<1>8. ASSUME NEW c \in Command, DeleteGet(c) PROVE World'
  BY <1>8, <1>a, DeleteGetDoes DEF World, NoGroup
<1>9. ASSUME NEW c \in Command, DeleteVm(c) PROVE World'
  BY <1>9, <1>a, DeleteVmDoes DEF World, NoGroup
<1>10. ASSUME NEW c \in Command, DeleteNic(c) PROVE World'
  BY <1>10, <1>a, DeleteNicDoes DEF World, NoGroup
<1>11. ASSUME NEW c \in Command, DeleteIp(c) PROVE World'
  BY <1>11, <1>a, DeleteIpDoes DEF World, NoGroup
<1>12. ASSUME NEW c \in Command, DeleteDisk(c) PROVE World'
  BY <1>12, <1>a, DeleteDiskDoes DEF World, NoGroup
<1>13. ASSUME NEW c \in Command, DeletedAll(c) PROVE World'
  BY <1>13, <1>a, DeletedAllDoes DEF World, NoGroup
<1>14. ASSUME NEW c \in Command, DeleteGroup(c) PROVE World'
  <2>1. [t \in Type |-> IF t = job[c].nm THEN NoGroup ELSE group[t]]
            \in [Type -> (SUBSET Address) \cup {NoGroup}]
    BY <1>a DEF World
  <2> QED
    BY <1>14, <1>a, <2>1, DeleteGroupDoes DEF World, NoGroup
<1>15. ASSUME NEW c \in Command, RedeployStart(c) PROVE World'
  BY <1>15, <1>a, RedeployStartDoes DEF World, NoGroup
<1>16. ASSUME NEW c \in Command, RedeployPowerOff(c) PROVE World'
  BY <1>16, <1>a, RedeployPowerOffDoes DEF World, NoGroup
<1>17. ASSUME NEW c \in Command, RedeployDetach(c) PROVE World'
  BY <1>17, <1>a, RedeployDetachDoes DEF World, NoGroup
<1>18. ASSUME NEW c \in Command, RedeployAdd(c) PROVE World'
  BY <1>18, <1>a, RedeployAddDoes DEF World, NoGroup
<1>19. ASSUME NEW c \in Command, EditStart(c) PROVE World'
  BY <1>19, <1>a, EditStartDoes DEF World, NoGroup
<1>20. ASSUME NEW c \in Command, EditNic(c) PROVE World'
  <2>1. Exists(NsgType(job[c].tags)) => NsgType(job[c].tags) \in Type
    BY DEF Exists
  <2>2. job[c].nm \in Name
    BY <1>20, <1>a, EditNicDoes DEF Steps, RuleStep
  <2> QED
    BY <1>20, <1>a, <2>1, <2>2, EditNicDoes DEF World
<1>21. ASSUME NEW c \in Command, EditVm(c) PROVE World'
  <2>1. job[c].tags \in SUBSET Role /\ job[c].lun \in BOOLEAN
    BY <1>a, JobTypes
  <2> QED
    BY <1>21, <1>a, <2>1, EditVmDoes DEF World
<1>22. ASSUME NEW c \in Command, EnsureStart(c) PROVE World'
  BY <1>22, <1>a, EnsureStartDoes DEF World, NoGroup
<1>23. ASSUME NEW c \in Command, EnsureList(c) PROVE World'
  BY <1>23, <1>a, EnsureListDoes DEF World, NoGroup
<1>24. ASSUME NEW c \in Command, EnsureIp(c) PROVE World'
  BY <1>24, <1>a, EnsureIpDoes DEF World, NoGroup
<1>25. ASSUME NEW c \in Command, EnsureGroups(c) PROVE World'
  BY <1>25, <1>a, EnsureGroupsDoes DEF World, NoGroup
<1>26. ASSUME NEW c \in Command, EnsureWrite(c) PROVE World'
  <2>1. CASE UNCHANGED group
    BY <1>26, <1>a, <2>1, EnsureWriteDoes DEF World
  <2>2. CASE \E t \in job[c].write : group' = [group EXCEPT ![t] = job[c].ips]
    <3>1. job[c].ips \in SUBSET Address
      BY <1>a, JobTypes
    <3>2. group' \in [Type -> (SUBSET Address) \cup {NoGroup}]
      BY <1>a, <2>2, <3>1 DEF World
    <3> QED
      BY <1>26, <1>a, <3>2, EnsureWriteDoes DEF World, NoGroup
  <2> QED
    BY <1>26, <1>a, <2>1, <2>2, EnsureWriteDoes
<1>27. ASSUME NEW c \in Command, EnsureDone(c) PROVE World'
  BY <1>27, <1>a DEF EnsureDone, World
<1>28. ASSUME NEW c \in Command, Crash(c) PROVE World'
  <2>1. crashes' \in 0..MaxCrashes
    BY <1>28, <1>a, AzureAssumption, CrashDoes DEF World
  <2> QED
    BY <1>28, <1>a, <2>1, CrashDoes DEF World
<1>29. ASSUME NEW n \in Name, VmCreated(n) PROVE World'
  BY <1>29, <1>a DEF VmCreated, World
<1>30. CASE UNCHANGED vars
  BY <1>30, <1>a DEF vars, World, NoGroup
<1> QED
  BY <1>1, <1>2, <1>3, <1>4, <1>5, <1>6, <1>7, <1>8, <1>9, <1>10, <1>11, <1>12, <1>13, <1>14,
     <1>15, <1>16, <1>17, <1>18, <1>19, <1>20, <1>21, <1>22, <1>23, <1>24, <1>25, <1>26, <1>27,
     <1>28, <1>29, <1>30 DEF Next, Add, Delete, Redeploy, Edit, Ensure

\* The types of all variables.
LEMMA TypeStep == BaseInv /\ [Next]_vars => TypeOK'
<1> SUFFICES ASSUME BaseInv, [Next]_vars PROVE TypeOK'
  OBVIOUS
<1>1. World'
  BY WorldStep
<1>2. job' \in [Command -> Jobs]
  BY JobStep
<1> QED
  BY <1>1, <1>2, TypePartsNext

\* Commands and their steps.
LEMMA StepsStep == BaseInv /\ [Next]_vars => Steps'
<1> SUFFICES ASSUME BaseInv, [Next]_vars PROVE Steps'
  OBVIOUS
<1> USE DEF Steps, NewStep, GoneStep, LiveStep, RuleStep, PowerStep
<1>a. TypeOK /\ World /\ Steps /\ job \in [Command -> Jobs]
  BY TypeParts DEF BaseInv
<1>b. \A d \in Command :
           /\ job[d] \in Jobs /\ job[d].pc \in Step /\ job[d].nm \in Name \cup {None}
           /\ job[d].roles \subseteq Role /\ job[d].tags \subseteq Role
           /\ job[d].todo \subseteq Name /\ job[d].ips \subseteq Address
           /\ job[d].write \subseteq Type
  BY <1>a, JobTypes
<1>c. None \notin Address \cup Name \cup Type
  BY AzureAssumption
<1>1. ASSUME NEW c \in Command, AddStart(c) PROVE Steps'
  BY <1>1, <1>a, <1>b, AddStartDoes DEF Starts
<1>2. ASSUME NEW c \in Command, AddNic(c) PROVE Steps'
  BY <1>2, <1>a, <1>b, AddNicDoes DEF Moves, Goes, Rests
<1>3. ASSUME NEW c \in Command, AddVm(c) PROVE Steps'
  <2>1. job[c].pc = "vm" /\ (Moves(c, "creating") \/ Rests(c))
    BY <1>3, <1>a, AddVmDoes
  <2> QED
    BY <1>a, <1>b, <2>1 DEF Moves, Goes, Rests
<1>4. ASSUME NEW c \in Command, AddRefused(c) PROVE Steps'
  BY <1>4, <1>a, <1>b, AddRefusedDoes DEF Moves, Goes
<1>5. ASSUME NEW c \in Command, AddSlowNic(c) PROVE Steps'
  BY <1>5, <1>a, <1>b, AddSlowNicDoes DEF Moves, Goes
<1>6. ASSUME NEW c \in Command, AddCreated(c) PROVE Steps'
  BY <1>6, <1>a, <1>b, AddCreatedDoes DEF Moves, Goes, Rests
<1>7. ASSUME NEW c \in Command, DeleteStart(c) PROVE Steps'
  <2>1. \E n \in Name, skip \in Skip : Starts(c, "delete", "get", n, {}, {}, "none", skip, FALSE)
    BY <1>7, <1>a, DeleteStartDoes
  <2> QED
    BY <1>a, <1>b, <2>1 DEF Starts
<1>8. ASSUME NEW c \in Command, DeleteGet(c) PROVE Steps'
  BY <1>8, <1>a, <1>b, DeleteGetDoes DEF Goes, Rests
<1>9. ASSUME NEW c \in Command, DeleteVm(c) PROVE Steps'
  <2>1. job[c].pc = "vmGone" /\ Moves(c, "nicGone")
    BY <1>9, <1>a, DeleteVmDoes
  <2> QED
    BY <1>a, <1>b, <2>1 DEF Moves, Goes
<1>10. ASSUME NEW c \in Command, DeleteNic(c) PROVE Steps'
  BY <1>10, <1>a, <1>b, DeleteNicDoes DEF Moves, Goes, Rests
<1>11. ASSUME NEW c \in Command, DeleteIp(c) PROVE Steps'
  BY <1>11, <1>a, <1>b, DeleteIpDoes DEF Rests
<1>12. ASSUME NEW c \in Command, DeleteDisk(c) PROVE Steps'
  <2>1. /\ job[c].pc = "ipGone"
        /\ \/ Goes(c, "ipGone", job[c].roles, FALSE, job[c].todo, job[c].ips, job[c].write)
           \/ Rests(c)
    BY <1>12, <1>a, DeleteDiskDoes
  <2> QED
    BY <1>a, <1>b, <2>1 DEF Goes, Rests
<1>13. ASSUME NEW c \in Command, DeletedAll(c) PROVE Steps'
  BY <1>13, <1>a, <1>b, DeletedAllDoes DEF Moves, Goes
<1>14. ASSUME NEW c \in Command, DeleteGroup(c) PROVE Steps'
  BY <1>14, <1>a, <1>b, DeleteGroupDoes DEF Moves, Goes, Rests
<1>15. ASSUME NEW c \in Command, RedeployStart(c) PROVE Steps'
  <2>1. \E n \in Name :
            Starts(c, "redeploy", "off", n, {}, tags[n],
                   IF lun[n] THEN "attach" ELSE "none", FALSE, FALSE)
    BY <1>15, <1>a, RedeployStartDoes
  <2> QED
    BY <1>a, <1>b, <2>1 DEF Starts
<1>16. ASSUME NEW c \in Command, RedeployPowerOff(c) PROVE Steps'
  BY <1>16, <1>a, <1>b, RedeployPowerOffDoes DEF Moves, Goes, Rests
<1>17. ASSUME NEW c \in Command, RedeployDetach(c) PROVE Steps'
  BY <1>17, <1>a, <1>b, RedeployDetachDoes DEF Moves, Goes, Rests
<1>18. ASSUME NEW c \in Command, RedeployAdd(c) PROVE Steps'
  BY <1>18, <1>a, <1>b, RedeployAddDoes DEF Goes, Rests
<1>19. ASSUME NEW c \in Command, EditStart(c) PROVE Steps'
  <2>1. \E n \in Name, roles \in RoleChoice :
            Starts(c, "edit", "editNic", n, {}, roles, "none", TRUE, lun[n])
    BY <1>19, <1>a, EditStartDoes
  <2> QED
    BY <1>a, <1>b, <2>1 DEF Starts
<1>20. ASSUME NEW c \in Command, EditNic(c) PROVE Steps'
  BY <1>20, <1>a, <1>b, EditNicDoes DEF Moves, Goes, Rests
<1>21. ASSUME NEW c \in Command, EditVm(c) PROVE Steps'
  BY <1>21, <1>a, <1>b, EditVmDoes DEF Rests
<1>22. ASSUME NEW c \in Command, EnsureStart(c) PROVE Steps'
  <2>1. Starts(c, "ensure", "list", None, {}, {}, "none", FALSE, FALSE)
    BY <1>22, <1>a, EnsureStartDoes
  <2> QED
    BY <1>a, <1>b, <2>1 DEF Starts
<1>23. ASSUME NEW c \in Command, EnsureList(c) PROVE Steps'
  BY <1>23, <1>a, <1>b, EnsureListDoes DEF Goes
<1>24. ASSUME NEW c \in Command, EnsureIp(c) PROVE Steps'
  BY <1>24, <1>a, <1>b, EnsureIpDoes DEF Goes, Rests
<1>25. ASSUME NEW c \in Command, EnsureGroups(c) PROVE Steps'
  BY <1>25, <1>a, <1>b, EnsureGroupsDoes DEF Goes
<1>26. ASSUME NEW c \in Command, EnsureWrite(c) PROVE Steps'
  BY <1>26, <1>a, <1>b, EnsureWriteDoes DEF Goes, Rests
<1>27. ASSUME NEW c \in Command, EnsureDone(c) PROVE Steps'
  BY <1>27, <1>a, <1>b, EnsureDoneDoes DEF Rests
<1>28. ASSUME NEW c \in Command, Crash(c) PROVE Steps'
  BY <1>28, <1>a, <1>b, CrashDoes DEF Rests
<1>29. ASSUME NEW n \in Name, VmCreated(n) PROVE Steps'
  BY <1>29, <1>a, <1>b DEF VmCreated
<1>30. CASE UNCHANGED vars
  BY <1>30, <1>a, <1>b, <1>c DEF vars
<1> QED
  BY <1>1, <1>2, <1>3, <1>4, <1>5, <1>6, <1>7, <1>8, <1>9, <1>10, <1>11, <1>12, <1>13, <1>14,
     <1>15, <1>16, <1>17, <1>18, <1>19, <1>20, <1>21, <1>22, <1>23, <1>24, <1>25, <1>26, <1>27,
     <1>28, <1>29, <1>30 DEF Next, Add, Delete, Redeploy, Edit, Ensure

\* Machines.
LEMMA MachineStep == BaseInv /\ [Next]_vars => MachineInv'
<1> SUFFICES ASSUME BaseInv, [Next]_vars PROVE MachineInv'
  OBVIOUS
<1> USE DEF cloudVars, BaseInv, MachineInv, Steps, Work, World, NewStep, GoneStep, LiveStep,
      RuleStep, PowerStep
<1>a. TypeOK /\ World /\ Steps /\ job \in [Command -> Jobs]
  BY TypeParts DEF BaseInv
<1>b. \A d \in Command :
           /\ job[d] \in Jobs /\ job[d].pc \in Step /\ job[d].nm \in Name \cup {None}
           /\ job[d].roles \subseteq Role /\ job[d].tags \subseteq Role
           /\ job[d].todo \subseteq Name /\ job[d].ips \subseteq Address
           /\ job[d].write \subseteq Type
  BY <1>a, JobTypes
<1>c. None \notin Address \cup Name \cup Type
  BY AzureAssumption
<1>1. ASSUME NEW c \in Command, AddStart(c) PROVE MachineInv'
  <2>1. UNCHANGED <<vm, lun, disk, nic, addr>>
    BY <1>1, <1>a, AddStartDoes
  <2> QED
    BY <2>1
<1>2. ASSUME NEW c \in Command, AddNic(c) PROVE MachineInv'
  BY <1>2, <1>a, <1>b, AddNicDoes DEF Moves, Goes, Rests
<1>3. ASSUME NEW c \in Command, AddVm(c) PROVE MachineInv'
  <2>1. CASE UNCHANGED <<vm, tags, lun, disk, dirty>>
    BY <1>3, <1>a, <2>1, AddVmDoes
  <2>2. CASE ~UNCHANGED <<vm, tags, lun, disk, dirty>>
    <3>1. job[c].nm \in Name /\ job[c].storage \in {"none", "new", "attach"}
      BY <1>3, <1>a, AddVmDoes, JobTypes
    <3>2. /\ nic[job[c].nm] # None /\ vm[job[c].nm] = "none"
          /\ job[c].storage # "none" => disk[job[c].nm] = (job[c].storage = "attach")
          /\ vm' = [vm EXCEPT ![job[c].nm] = "creating"]
          /\ lun' = [lun EXCEPT ![job[c].nm] = job[c].storage # "none"]
          /\ disk' = [disk EXCEPT ![job[c].nm] = @ \/ job[c].storage = "new"]
          /\ UNCHANGED <<nic, ip, addr, group, crashes>>
      BY <1>3, <1>a, <2>2, AddVmDoes
    <3>3. \A n \in Name \ {job[c].nm} : lun'[n] = lun[n] /\ disk'[n] = disk[n] /\ vm'[n] = vm[n]
      BY <1>a, <3>2
    <3>4. vm'[job[c].nm] = "creating"
      BY <1>a, <3>1, <3>2
    <3>5. lun'[job[c].nm] => job[c].storage # "none"
      BY <1>a, <3>1, <3>2
    <3>6. disk'[job[c].nm] <=> \/ disk[job[c].nm]
                               \/ job[c].storage = "new"
      BY <1>a, <3>1, <3>2
    <3>7. job[c].storage = "attach" => disk[job[c].nm]
      BY <3>2
    <3> QED
      BY <1>a, <3>1, <3>2, <3>3, <3>4, <3>5, <3>6, <3>7
  <2> QED
    BY <2>1, <2>2
<1>4. ASSUME NEW c \in Command, AddRefused(c) PROVE MachineInv'
  BY <1>4, <1>a, <1>b, AddRefusedDoes DEF Moves, Goes
<1>5. ASSUME NEW c \in Command, AddSlowNic(c) PROVE MachineInv'
  BY <1>5, <1>a, <1>b, AddSlowNicDoes DEF Moves, Goes
<1>6. ASSUME NEW c \in Command, AddCreated(c) PROVE MachineInv'
  BY <1>6, <1>a, <1>b, AddCreatedDoes DEF Moves, Goes, Rests
<1>7. ASSUME NEW c \in Command, DeleteStart(c) PROVE MachineInv'
  <2>1. UNCHANGED <<vm, lun, disk, nic, addr>>
    BY <1>7, <1>a, DeleteStartDoes
  <2> QED
    BY <2>1
<1>8. ASSUME NEW c \in Command, DeleteGet(c) PROVE MachineInv'
  BY <1>8, <1>a, <1>b, DeleteGetDoes DEF Goes, Rests
<1>9. ASSUME NEW c \in Command, DeleteVm(c) PROVE MachineInv'
  BY <1>9, <1>a, <1>b, DeleteVmDoes DEF Moves, Goes
<1>10. ASSUME NEW c \in Command, DeleteNic(c) PROVE MachineInv'
  BY <1>10, <1>a, <1>b, DeleteNicDoes DEF Moves, Goes, Rests
<1>11. ASSUME NEW c \in Command, DeleteIp(c) PROVE MachineInv'
  BY <1>11, <1>a, <1>b, DeleteIpDoes DEF Rests
<1>12. ASSUME NEW c \in Command, DeleteDisk(c) PROVE MachineInv'
  BY <1>12, <1>a, <1>b, DeleteDiskDoes DEF Goes, Rests
<1>13. ASSUME NEW c \in Command, DeletedAll(c) PROVE MachineInv'
  BY <1>13, <1>a, <1>b, DeletedAllDoes DEF Moves, Goes
<1>14. ASSUME NEW c \in Command, DeleteGroup(c) PROVE MachineInv'
  BY <1>14, <1>a, <1>b, DeleteGroupDoes DEF Moves, Goes, Rests
<1>15. ASSUME NEW c \in Command, RedeployStart(c) PROVE MachineInv'
  <2>1. UNCHANGED <<vm, lun, disk, nic, addr>>
    BY <1>15, <1>a, RedeployStartDoes
  <2> QED
    BY <2>1
<1>16. ASSUME NEW c \in Command, RedeployPowerOff(c) PROVE MachineInv'
  BY <1>16, <1>a, <1>b, RedeployPowerOffDoes DEF Moves, Goes, Rests
<1>17. ASSUME NEW c \in Command, RedeployDetach(c) PROVE MachineInv'
  BY <1>17, <1>a, <1>b, RedeployDetachDoes DEF Moves, Goes, Rests
<1>18. ASSUME NEW c \in Command, RedeployAdd(c) PROVE MachineInv'
  BY <1>18, <1>a, <1>b, RedeployAddDoes DEF Goes, Rests
<1>19. ASSUME NEW c \in Command, EditStart(c) PROVE MachineInv'
  <2>1. UNCHANGED <<vm, lun, disk, nic, addr>>
    BY <1>19, <1>a, EditStartDoes
  <2> QED
    BY <2>1
<1>20. ASSUME NEW c \in Command, EditNic(c) PROVE MachineInv'
  <2>1. job[c].nm \in Name /\ (Exists(NsgType(job[c].tags)) => NsgType(job[c].tags) # None)
    BY <1>20, <1>a, <1>c, EditNicDoes DEF Exists
  <2> HIDE DEF MachineInv
  <2>2. MachineInv
    BY DEF BaseInv
  <2>3. UNCHANGED <<vm, lun, disk, addr>> /\ \A n \in Name : nic[n] # None => nic'[n] # None
    BY <1>20, <1>a, <2>1, EditNicDoes
  <2> QED
    BY <2>2, <2>3 DEF MachineInv
<1>21. ASSUME NEW c \in Command, EditVm(c) PROVE MachineInv'
  BY <1>21, <1>a, <1>b, EditVmDoes DEF Rests
<1>22. ASSUME NEW c \in Command, EnsureStart(c) PROVE MachineInv'
  <2>1. UNCHANGED <<vm, lun, disk, nic, addr>>
    BY <1>22, <1>a, EnsureStartDoes
  <2> QED
    BY <2>1
<1>23. ASSUME NEW c \in Command, EnsureList(c) PROVE MachineInv'
  BY <1>23, <1>a, <1>b, EnsureListDoes DEF Goes
<1>24. ASSUME NEW c \in Command, EnsureIp(c) PROVE MachineInv'
  BY <1>24, <1>a, <1>b, EnsureIpDoes DEF Goes, Rests
<1>25. ASSUME NEW c \in Command, EnsureGroups(c) PROVE MachineInv'
  BY <1>25, <1>a, <1>b, EnsureGroupsDoes DEF Goes
<1>26. ASSUME NEW c \in Command, EnsureWrite(c) PROVE MachineInv'
  BY <1>26, <1>a, <1>b, EnsureWriteDoes DEF Goes, Rests
<1>27. ASSUME NEW c \in Command, EnsureDone(c) PROVE MachineInv'
  BY <1>27, <1>a, <1>b, EnsureDoneDoes DEF Rests
<1>28. ASSUME NEW c \in Command, Crash(c) PROVE MachineInv'
  BY <1>28, <1>a, <1>b, CrashDoes DEF Rests
<1>29. ASSUME NEW n \in Name, VmCreated(n) PROVE MachineInv'
  BY <1>29, <1>a, <1>b DEF VmCreated
<1>30. CASE UNCHANGED vars
  BY <1>30, <1>a, <1>b, <1>c DEF vars
<1> QED
  BY <1>1, <1>2, <1>3, <1>4, <1>5, <1>6, <1>7, <1>8, <1>9, <1>10, <1>11, <1>12, <1>13, <1>14,
     <1>15, <1>16, <1>17, <1>18, <1>19, <1>20, <1>21, <1>22, <1>23, <1>24, <1>25, <1>26, <1>27,
     <1>28, <1>29, <1>30 DEF Next, Add, Delete, Redeploy, Edit, Ensure

\* Commands that run beside each other.
LEMMA ApartStep == Alone /\ BaseInv /\ [Next]_vars => Apart'
<1> SUFFICES ASSUME Alone, BaseInv, [Next]_vars PROVE Apart'
  OBVIOUS
<1> USE DEF BaseInv, Apart, Steps, NewStep, GoneStep, LiveStep, RuleStep, PowerStep
<1>a. TypeOK /\ World /\ Steps /\ job \in [Command -> Jobs]
  BY TypeParts DEF BaseInv
<1>b. \A d \in Command :
           /\ job[d] \in Jobs /\ job[d].pc \in Step /\ job[d].nm \in Name \cup {None}
           /\ job[d].roles \subseteq Role /\ job[d].tags \subseteq Role
           /\ job[d].todo \subseteq Name /\ job[d].ips \subseteq Address
           /\ job[d].write \subseteq Type
  BY <1>a, JobTypes
<1>c. None \notin Address \cup Name \cup Type
  BY AzureAssumption
<1>1. ASSUME NEW c \in Command, AddStart(c) PROVE Apart'
  BY <1>1, <1>a, <1>b, AddStartDoes DEF Starts, MayStart, At
<1>2. ASSUME NEW c \in Command, AddNic(c) PROVE Apart'
  BY <1>2, <1>a, <1>b, AddNicDoes DEF Moves, Goes, Rests
<1>3. ASSUME NEW c \in Command, AddVm(c) PROVE Apart'
  BY <1>3, <1>a, <1>b, AddVmDoes DEF Moves, Goes, Rests
<1>4. ASSUME NEW c \in Command, AddRefused(c) PROVE Apart'
  BY <1>4, <1>a, <1>b, AddRefusedDoes DEF Moves, Goes
<1>5. ASSUME NEW c \in Command, AddSlowNic(c) PROVE Apart'
  BY <1>5, <1>a, <1>b, AddSlowNicDoes DEF Moves, Goes
<1>6. ASSUME NEW c \in Command, AddCreated(c) PROVE Apart'
  BY <1>6, <1>a, <1>b, AddCreatedDoes DEF Moves, Goes, Rests
<1>7. ASSUME NEW c \in Command, DeleteStart(c) PROVE Apart'
  BY <1>7, <1>a, <1>b, DeleteStartDoes DEF Starts, MayStart, At
<1>8. ASSUME NEW c \in Command, DeleteGet(c) PROVE Apart'
  BY <1>8, <1>a, <1>b, DeleteGetDoes DEF Goes, Rests
<1>9. ASSUME NEW c \in Command, DeleteVm(c) PROVE Apart'
  BY <1>9, <1>a, <1>b, DeleteVmDoes DEF Moves, Goes
<1>10. ASSUME NEW c \in Command, DeleteNic(c) PROVE Apart'
  BY <1>10, <1>a, <1>b, DeleteNicDoes DEF Moves, Goes, Rests
<1>11. ASSUME NEW c \in Command, DeleteIp(c) PROVE Apart'
  BY <1>11, <1>a, <1>b, DeleteIpDoes DEF Rests
<1>12. ASSUME NEW c \in Command, DeleteDisk(c) PROVE Apart'
  BY <1>12, <1>a, <1>b, DeleteDiskDoes DEF Goes, Rests
<1>13. ASSUME NEW c \in Command, DeletedAll(c) PROVE Apart'
  BY <1>13, <1>a, <1>b, DeletedAllDoes DEF Moves, Goes
<1>14. ASSUME NEW c \in Command, DeleteGroup(c) PROVE Apart'
  BY <1>14, <1>a, <1>b, DeleteGroupDoes DEF Moves, Goes, Rests
<1>15. ASSUME NEW c \in Command, RedeployStart(c) PROVE Apart'
  BY <1>15, <1>a, <1>b, RedeployStartDoes DEF Starts, MayStart, At
<1>16. ASSUME NEW c \in Command, RedeployPowerOff(c) PROVE Apart'
  BY <1>16, <1>a, <1>b, RedeployPowerOffDoes DEF Moves, Goes, Rests
<1>17. ASSUME NEW c \in Command, RedeployDetach(c) PROVE Apart'
  BY <1>17, <1>a, <1>b, RedeployDetachDoes DEF Moves, Goes, Rests
<1>18. ASSUME NEW c \in Command, RedeployAdd(c) PROVE Apart'
  BY <1>18, <1>a, <1>b, RedeployAddDoes DEF Goes, Rests
<1>19. ASSUME NEW c \in Command, EditStart(c) PROVE Apart'
  BY <1>19, <1>a, <1>b, EditStartDoes DEF Starts, MayStart, At
<1>20. ASSUME NEW c \in Command, EditNic(c) PROVE Apart'
  BY <1>20, <1>a, <1>b, EditNicDoes DEF Moves, Goes, Rests
<1>21. ASSUME NEW c \in Command, EditVm(c) PROVE Apart'
  BY <1>21, <1>a, <1>b, EditVmDoes DEF Rests
<1>22. ASSUME NEW c \in Command, EnsureStart(c) PROVE Apart'
  BY <1>22, <1>a, <1>b, EnsureStartDoes DEF Starts, MayStart, At
<1>23. ASSUME NEW c \in Command, EnsureList(c) PROVE Apart'
  BY <1>23, <1>a, <1>b, EnsureListDoes DEF Goes
<1>24. ASSUME NEW c \in Command, EnsureIp(c) PROVE Apart'
  BY <1>24, <1>a, <1>b, EnsureIpDoes DEF Goes, Rests
<1>25. ASSUME NEW c \in Command, EnsureGroups(c) PROVE Apart'
  BY <1>25, <1>a, <1>b, EnsureGroupsDoes DEF Goes
<1>26. ASSUME NEW c \in Command, EnsureWrite(c) PROVE Apart'
  BY <1>26, <1>a, <1>b, EnsureWriteDoes DEF Goes, Rests
<1>27. ASSUME NEW c \in Command, EnsureDone(c) PROVE Apart'
  BY <1>27, <1>a, <1>b, EnsureDoneDoes DEF Rests
<1>28. ASSUME NEW c \in Command, Crash(c) PROVE Apart'
  BY <1>28, <1>a, <1>b, CrashDoes DEF Rests
<1>29. ASSUME NEW n \in Name, VmCreated(n) PROVE Apart'
  BY <1>29, <1>a, <1>b DEF VmCreated
<1>30. CASE UNCHANGED vars
  BY <1>30, <1>a, <1>b, <1>c DEF vars
<1> QED
  BY <1>1, <1>2, <1>3, <1>4, <1>5, <1>6, <1>7, <1>8, <1>9, <1>10, <1>11, <1>12, <1>13, <1>14,
     <1>15, <1>16, <1>17, <1>18, <1>19, <1>20, <1>21, <1>22, <1>23, <1>24, <1>25, <1>26, <1>27,
     <1>28, <1>29, <1>30 DEF Next, Add, Delete, Redeploy, Edit, Ensure

\* What a command has found or made stays.
LEMMA WorkStep == Alone /\ BaseInv /\ [Next]_vars => Work'
<1> SUFFICES ASSUME Alone, BaseInv, [Next]_vars PROVE Work'
  OBVIOUS
<1> USE DEF cloudVars, BaseInv, MachineInv, Steps, Apart, Work, World, NewStep, GoneStep,
      LiveStep, RuleStep, PowerStep
<1>a. TypeOK /\ World /\ Steps /\ job \in [Command -> Jobs]
  BY TypeParts DEF BaseInv
<1>b. \A d \in Command :
           /\ job[d] \in Jobs /\ job[d].pc \in Step /\ job[d].nm \in Name \cup {None}
           /\ job[d].roles \subseteq Role /\ job[d].tags \subseteq Role
           /\ job[d].todo \subseteq Name /\ job[d].ips \subseteq Address
           /\ job[d].write \subseteq Type
  BY <1>a, JobTypes
<1>c. None \notin Address \cup Name \cup Type
  BY AzureAssumption
<1>1. ASSUME NEW c \in Command, AddStart(c) PROVE Work'
  BY <1>1, <1>a, <1>b, AddStartDoes DEF Starts
<1>2. ASSUME NEW c \in Command, AddNic(c) PROVE Work'
  <2>1. job[c].pc = "nic" /\ (Moves(c, "vm") \/ Rests(c))
    BY <1>2, <1>a, AddNicDoes
  <2>2. /\ UNCHANGED <<vm, tags, lun, disk, ip, addr, group, dirty, unmatched, crashes>>
        /\ \A n \in Name \ {job[c].nm} : nic'[n] = nic[n]
    BY <1>2, <1>a, AddNicDoes
  <2>3. \A d \in Command \ {c} :
            job[d].pc \notin RuleStep \cup {"idle"} => job[d].nm \in Name \ {job[c].nm}
    BY <2>1
  <2>4. \A d \in Command \ {c} : job'[d] = job[d]
    BY <2>1 DEF Moves, Goes, Rests
  <2>5. /\ job'[c].pc \in {"idle", "vm"}
        /\ job'[c].pc = "vm" => job'[c].nm = job[c].nm /\ job'[c].roles = job[c].roles
    BY <2>1 DEF Moves, Goes, Rests
  <2>6. job'[c].pc = "vm" => /\ nic'[job[c].nm] = NsgType(job[c].roles)
                             /\ NsgType(job[c].roles) \in Type
    BY <1>2, <1>a, <2>1, AddNicDoes DEF Rests, Exists
  <2> QED
    BY <1>b, <2>1, <2>2, <2>3, <2>4, <2>5, <2>6
<1>3. ASSUME NEW c \in Command, AddVm(c) PROVE Work'
  BY <1>3, <1>a, <1>b, AddVmDoes DEF Moves, Goes, Rests
<1>4. ASSUME NEW c \in Command, AddRefused(c) PROVE Work'
  BY <1>4, <1>a, <1>b, AddRefusedDoes DEF Moves, Goes
<1>5. ASSUME NEW c \in Command, AddSlowNic(c) PROVE Work'
  BY <1>5, <1>a, <1>b, AddSlowNicDoes DEF Moves, Goes
<1>6. ASSUME NEW c \in Command, AddCreated(c) PROVE Work'
  BY <1>6, <1>a, <1>b, AddCreatedDoes DEF Moves, Goes, Rests
<1>7. ASSUME NEW c \in Command, DeleteStart(c) PROVE Work'
  BY <1>7, <1>a, <1>b, DeleteStartDoes DEF Starts
<1>8. ASSUME NEW c \in Command, DeleteGet(c) PROVE Work'
  <2>1. /\ job[c].pc = "get"
        /\ \/ Goes(c, "vmGone", job[c].roles, lun[job[c].nm], job[c].todo, job[c].ips, job[c].write)
           \/ Rests(c)
    BY <1>8, <1>a, DeleteGetDoes
  <2>2. UNCHANGED <<vm, lun, disk, nic, ip>>
    BY <1>8, <1>a, DeleteGetDoes
  <2>3. \A d \in Command \ {c} : job'[d] = job[d]
    BY <2>1 DEF Goes, Rests
  <2>4. /\ job'[c].pc \in {"idle", "vmGone"}
        /\ job'[c].pc = "vmGone" => job'[c].nm = job[c].nm /\ (job'[c].lun <=> lun[job[c].nm])
    BY <2>1 DEF Goes, Rests
  <2> QED
    BY <1>b, <2>1, <2>2, <2>3, <2>4
<1>9. ASSUME NEW c \in Command, DeleteVm(c) PROVE Work'
  BY <1>9, <1>a, <1>b, DeleteVmDoes DEF Moves, Goes
<1>10. ASSUME NEW c \in Command, DeleteNic(c) PROVE Work'
  BY <1>10, <1>a, <1>b, DeleteNicDoes DEF Moves, Goes, Rests
<1>11. ASSUME NEW c \in Command, DeleteIp(c) PROVE Work'
  BY <1>11, <1>a, <1>b, DeleteIpDoes DEF Rests
<1>12. ASSUME NEW c \in Command, DeleteDisk(c) PROVE Work'
  BY <1>12, <1>a, <1>b, DeleteDiskDoes DEF Goes, Rests
<1>13. ASSUME NEW c \in Command, DeletedAll(c) PROVE Work'
  BY <1>13, <1>a, <1>b, DeletedAllDoes DEF Moves, Goes
<1>14. ASSUME NEW c \in Command, DeleteGroup(c) PROVE Work'
  BY <1>14, <1>a, <1>b, DeleteGroupDoes DEF Moves, Goes, Rests
<1>15. ASSUME NEW c \in Command, RedeployStart(c) PROVE Work'
  <2>1. UNCHANGED <<vm, lun, disk, nic, ip>>
    BY <1>15, <1>a, RedeployStartDoes
  <2>2. \E n \in Name : /\ vm[n] # "none"
                       /\ Starts(c, "redeploy", "off", n, {}, tags[n],
                                 IF lun[n] THEN "attach" ELSE "none", FALSE, FALSE)
    BY <1>15, <1>a, RedeployStartDoes
  <2>3. \A d \in Command \ {c} : job'[d] = job[d]
    BY <2>2 DEF Starts
  <2>4. job'[c].pc = "off" /\ vm[job'[c].nm] # "none"
    BY <1>b, <2>2 DEF Starts
  <2> HIDE DEF BaseInv, MachineInv, Steps, Apart
  <2>5. Work
    BY DEF BaseInv
  <2> QED
    BY <2>1, <2>3, <2>4, <2>5
<1>16. ASSUME NEW c \in Command, RedeployPowerOff(c) PROVE Work'
  BY <1>16, <1>a, <1>b, RedeployPowerOffDoes DEF Moves, Goes, Rests
<1>17. ASSUME NEW c \in Command, RedeployDetach(c) PROVE Work'
  BY <1>17, <1>a, <1>b, RedeployDetachDoes DEF Moves, Goes, Rests
<1>18. ASSUME NEW c \in Command, RedeployAdd(c) PROVE Work'
  BY <1>18, <1>a, <1>b, RedeployAddDoes DEF Goes, Rests
<1>19. ASSUME NEW c \in Command, EditStart(c) PROVE Work'
  <2>1. UNCHANGED <<vm, lun, disk, nic, ip>>
    BY <1>19, <1>a, EditStartDoes
  <2>2. \E n \in Name, roles \in RoleChoice :
            vm[n] # "none" /\ Starts(c, "edit", "editNic", n, {}, roles, "none", TRUE, lun[n])
    BY <1>19, <1>a, EditStartDoes
  <2>3. \A d \in Command \ {c} : job'[d] = job[d]
    BY <2>2 DEF Starts
  <2>4. /\ job'[c].pc = "editNic" /\ vm[job'[c].nm] # "none"
        /\ job'[c].lun <=> lun[job'[c].nm]
    BY <1>b, <2>2 DEF Starts
  <2> HIDE DEF BaseInv, MachineInv, Steps, Apart
  <2>5. Work
    BY DEF BaseInv
  <2> QED
    BY <2>1, <2>3, <2>4, <2>5
<1>20. ASSUME NEW c \in Command, EditNic(c) PROVE Work'
  <2>1. job[c].pc = "editNic" /\ (Moves(c, "editVm") \/ Rests(c))
    BY <1>20, <1>a, EditNicDoes
  <2>2. /\ UNCHANGED <<vm, tags, lun, disk, ip, addr, group, dirty, crashes>>
        /\ \A n \in Name \ {job[c].nm} : nic'[n] = nic[n]
    BY <1>20, <1>a, EditNicDoes
  <2>3. \A d \in Command \ {c} :
            job[d].pc \notin RuleStep \cup {"idle"} => job[d].nm \in Name \ {job[c].nm}
    BY <2>1
  <2>4. \A d \in Command \ {c} : job'[d] = job[d]
    BY <2>1 DEF Moves, Goes, Rests
  <2>5. /\ job'[c].pc \in {"idle", "editVm"}
        /\ job'[c].pc = "editVm" => job'[c].nm = job[c].nm /\ (job'[c].lun <=> job[c].lun)
    BY <2>1 DEF Moves, Goes, Rests
  <2> QED
    BY <1>b, <2>1, <2>2, <2>3, <2>4, <2>5
<1>21. ASSUME NEW c \in Command, EditVm(c) PROVE Work'
  BY <1>21, <1>a, <1>b, EditVmDoes DEF Rests
<1>22. ASSUME NEW c \in Command, EnsureStart(c) PROVE Work'
  <2>1. UNCHANGED <<vm, lun, disk, nic, ip>>
    BY <1>22, <1>a, EnsureStartDoes
  <2>2. Starts(c, "ensure", "list", None, {}, {}, "none", FALSE, FALSE)
    BY <1>22, <1>a, EnsureStartDoes
  <2>3. \A d \in Command \ {c} : job'[d] = job[d]
    BY <2>2 DEF Starts
  <2>4. job'[c].pc = "list"
    BY <1>b, <2>2 DEF Starts
  <2> HIDE DEF BaseInv, MachineInv, Steps, Apart
  <2>5. Work
    BY DEF BaseInv
  <2> QED
    BY <2>1, <2>3, <2>4, <2>5
<1>23. ASSUME NEW c \in Command, EnsureList(c) PROVE Work'
  BY <1>23, <1>a, <1>b, EnsureListDoes DEF Goes
<1>24. ASSUME NEW c \in Command, EnsureIp(c) PROVE Work'
  BY <1>24, <1>a, <1>b, EnsureIpDoes DEF Goes, Rests
<1>25. ASSUME NEW c \in Command, EnsureGroups(c) PROVE Work'
  BY <1>25, <1>a, <1>b, EnsureGroupsDoes DEF Goes
<1>26. ASSUME NEW c \in Command, EnsureWrite(c) PROVE Work'
  BY <1>26, <1>a, <1>b, EnsureWriteDoes DEF Goes, Rests
<1>27. ASSUME NEW c \in Command, EnsureDone(c) PROVE Work'
  BY <1>27, <1>a, <1>b, EnsureDoneDoes DEF Rests
<1>28. ASSUME NEW c \in Command, Crash(c) PROVE Work'
  BY <1>28, <1>a, <1>b, CrashDoes DEF Rests
<1>29. ASSUME NEW n \in Name, VmCreated(n) PROVE Work'
  BY <1>29, <1>a, <1>b DEF VmCreated
<1>30. CASE UNCHANGED vars
  BY <1>30, <1>a, <1>b, <1>c DEF vars
<1> QED
  BY <1>1, <1>2, <1>3, <1>4, <1>5, <1>6, <1>7, <1>8, <1>9, <1>10, <1>11, <1>12, <1>13, <1>14,
     <1>15, <1>16, <1>17, <1>18, <1>19, <1>20, <1>21, <1>22, <1>23, <1>24, <1>25, <1>26, <1>27,
     <1>28, <1>29, <1>30 DEF Next, Add, Delete, Redeploy, Edit, Ensure

\* What a redeploy has read stays.
LEMMA RedeployingStep == Alone /\ BaseInv /\ [Next]_vars => Redeploying'
<1> SUFFICES ASSUME Alone, BaseInv, [Next]_vars PROVE Redeploying'
  OBVIOUS
<1> USE DEF cloudVars, BaseInv, MachineInv, Steps, Apart, Work, World, NewStep, GoneStep,
      LiveStep, RuleStep, PowerStep, Redeploying
<1>a. TypeOK /\ World /\ Steps /\ job \in [Command -> Jobs]
  BY TypeParts DEF BaseInv
<1>b. \A d \in Command :
           /\ job[d] \in Jobs /\ job[d].pc \in Step /\ job[d].nm \in Name \cup {None}
           /\ job[d].roles \subseteq Role /\ job[d].tags \subseteq Role
           /\ job[d].todo \subseteq Name /\ job[d].ips \subseteq Address
           /\ job[d].write \subseteq Type
  BY <1>a, JobTypes
<1>c. None \notin Address \cup Name \cup Type
  BY AzureAssumption
<1>1. ASSUME NEW c \in Command, AddStart(c) PROVE Redeploying'
  BY <1>1, <1>a, <1>b, AddStartDoes DEF Starts
<1>2. ASSUME NEW c \in Command, AddNic(c) PROVE Redeploying'
  BY <1>2, <1>a, <1>b, AddNicDoes DEF Moves, Goes, Rests
<1>3. ASSUME NEW c \in Command, AddVm(c) PROVE Redeploying'
  BY <1>3, <1>a, <1>b, AddVmDoes DEF Moves, Goes, Rests
<1>4. ASSUME NEW c \in Command, AddRefused(c) PROVE Redeploying'
  BY <1>4, <1>a, <1>b, AddRefusedDoes DEF Moves, Goes
<1>5. ASSUME NEW c \in Command, AddSlowNic(c) PROVE Redeploying'
  BY <1>5, <1>a, <1>b, AddSlowNicDoes DEF Moves, Goes
<1>6. ASSUME NEW c \in Command, AddCreated(c) PROVE Redeploying'
  BY <1>6, <1>a, <1>b, AddCreatedDoes DEF Moves, Goes, Rests
<1>7. ASSUME NEW c \in Command, DeleteStart(c) PROVE Redeploying'
  BY <1>7, <1>a, <1>b, DeleteStartDoes DEF Starts
<1>8. ASSUME NEW c \in Command, DeleteGet(c) PROVE Redeploying'
  BY <1>8, <1>a, <1>b, DeleteGetDoes DEF Goes, Rests
<1>9. ASSUME NEW c \in Command, DeleteVm(c) PROVE Redeploying'
  BY <1>9, <1>a, <1>b, DeleteVmDoes DEF Moves, Goes
<1>10. ASSUME NEW c \in Command, DeleteNic(c) PROVE Redeploying'
  BY <1>10, <1>a, <1>b, DeleteNicDoes DEF Moves, Goes, Rests
<1>11. ASSUME NEW c \in Command, DeleteIp(c) PROVE Redeploying'
  BY <1>11, <1>a, <1>b, DeleteIpDoes DEF Rests
<1>12. ASSUME NEW c \in Command, DeleteDisk(c) PROVE Redeploying'
  BY <1>12, <1>a, <1>b, DeleteDiskDoes DEF Goes, Rests
<1>13. ASSUME NEW c \in Command, DeletedAll(c) PROVE Redeploying'
  BY <1>13, <1>a, <1>b, DeletedAllDoes DEF Moves, Goes
<1>14. ASSUME NEW c \in Command, DeleteGroup(c) PROVE Redeploying'
  BY <1>14, <1>a, <1>b, DeleteGroupDoes DEF Moves, Goes, Rests
<1>15. ASSUME NEW c \in Command, RedeployStart(c) PROVE Redeploying'
  <2>1. UNCHANGED <<vm, lun, disk, nic, ip>>
    BY <1>15, <1>a, RedeployStartDoes
  <2>2. PICK n \in Name :
            Starts(c, "redeploy", "off", n, {}, tags[n],
                   IF lun[n] THEN "attach" ELSE "none", FALSE, FALSE)
    BY <1>15, <1>a, RedeployStartDoes
  <2>3. /\ job'[c].pc = "off" /\ job'[c].nm = n
        /\ job'[c].storage = IF lun[n] THEN "attach" ELSE "none"
        /\ \A d \in Command \ {c} : job'[d] = job[d]
    BY <2>2 DEF Starts
  <2>4. lun[n] => disk[n]
    BY <2>2
  <2> HIDE DEF BaseInv, MachineInv, Steps, Apart, Work
  <2>5. Redeploying
    BY DEF BaseInv
  <2> QED
    BY <2>1, <2>3, <2>4, <2>5
<1>16. ASSUME NEW c \in Command, RedeployPowerOff(c) PROVE Redeploying'
  BY <1>16, <1>a, <1>b, RedeployPowerOffDoes DEF Moves, Goes, Rests
<1>17. ASSUME NEW c \in Command, RedeployDetach(c) PROVE Redeploying'
  BY <1>17, <1>a, <1>b, RedeployDetachDoes DEF Moves, Goes, Rests
<1>18. ASSUME NEW c \in Command, RedeployAdd(c) PROVE Redeploying'
  BY <1>18, <1>a, <1>b, RedeployAddDoes DEF Goes, Rests
<1>19. ASSUME NEW c \in Command, EditStart(c) PROVE Redeploying'
  <2>1. UNCHANGED <<vm, lun, disk, nic, ip>>
    BY <1>19, <1>a, EditStartDoes
  <2>2. \E n \in Name, roles \in RoleChoice :
            vm[n] # "none" /\ Starts(c, "edit", "editNic", n, {}, roles, "none", TRUE, lun[n])
    BY <1>19, <1>a, EditStartDoes
  <2>3. \A d \in Command \ {c} : job'[d] = job[d]
    BY <2>2 DEF Starts
  <2>4. job'[c].cmd = "edit"
    BY <1>b, <2>2 DEF Starts
  <2> HIDE DEF BaseInv, MachineInv, Steps, Apart, Work
  <2>5. Redeploying
    BY DEF BaseInv
  <2> QED
    BY <2>1, <2>3, <2>4, <2>5
<1>20. ASSUME NEW c \in Command, EditNic(c) PROVE Redeploying'
  BY <1>20, <1>a, <1>b, EditNicDoes DEF Moves, Goes, Rests
<1>21. ASSUME NEW c \in Command, EditVm(c) PROVE Redeploying'
  BY <1>21, <1>a, <1>b, EditVmDoes DEF Rests
<1>22. ASSUME NEW c \in Command, EnsureStart(c) PROVE Redeploying'
  <2>1. UNCHANGED <<vm, lun, disk, nic, ip>>
    BY <1>22, <1>a, EnsureStartDoes
  <2>2. Starts(c, "ensure", "list", None, {}, {}, "none", FALSE, FALSE)
    BY <1>22, <1>a, EnsureStartDoes
  <2>3. \A d \in Command \ {c} : job'[d] = job[d]
    BY <2>2 DEF Starts
  <2>4. job'[c].cmd = "ensure"
    BY <1>b, <2>2 DEF Starts
  <2> HIDE DEF BaseInv, MachineInv, Steps, Apart, Work
  <2>5. Redeploying
    BY DEF BaseInv
  <2> QED
    BY <2>1, <2>3, <2>4, <2>5
<1>23. ASSUME NEW c \in Command, EnsureList(c) PROVE Redeploying'
  BY <1>23, <1>a, <1>b, EnsureListDoes DEF Goes
<1>24. ASSUME NEW c \in Command, EnsureIp(c) PROVE Redeploying'
  BY <1>24, <1>a, <1>b, EnsureIpDoes DEF Goes, Rests
<1>25. ASSUME NEW c \in Command, EnsureGroups(c) PROVE Redeploying'
  BY <1>25, <1>a, <1>b, EnsureGroupsDoes DEF Goes
<1>26. ASSUME NEW c \in Command, EnsureWrite(c) PROVE Redeploying'
  BY <1>26, <1>a, <1>b, EnsureWriteDoes DEF Goes, Rests
<1>27. ASSUME NEW c \in Command, EnsureDone(c) PROVE Redeploying'
  BY <1>27, <1>a, <1>b, EnsureDoneDoes DEF Rests
<1>28. ASSUME NEW c \in Command, Crash(c) PROVE Redeploying'
  BY <1>28, <1>a, <1>b, CrashDoes DEF Rests
<1>29. ASSUME NEW n \in Name, VmCreated(n) PROVE Redeploying'
  BY <1>29, <1>a, <1>b DEF VmCreated
<1>30. CASE UNCHANGED vars
  BY <1>30, <1>a, <1>b, <1>c DEF vars
<1> QED
  BY <1>1, <1>2, <1>3, <1>4, <1>5, <1>6, <1>7, <1>8, <1>9, <1>10, <1>11, <1>12, <1>13, <1>14,
     <1>15, <1>16, <1>17, <1>18, <1>19, <1>20, <1>21, <1>22, <1>23, <1>24, <1>25, <1>26, <1>27,
     <1>28, <1>29, <1>30 DEF Next, Add, Delete, Redeploy, Edit, Ensure

\* The invariant of machines and commands holds at the start.
LEMMA BaseInit == Init => BaseInv
<1> SUFFICES ASSUME Init PROVE BaseInv
  OBVIOUS
<1> USE DEF Init
<1>1. job \in [Command -> Jobs]
  BY NoJobType
<1>2. /\ lun \in [Name -> BOOLEAN] /\ disk \in [Name -> BOOLEAN] /\ ip \in [Name -> BOOLEAN]
      /\ dirty \in BOOLEAN
  BY Zenon
<1>3. /\ vm \in [Name -> {"none", "creating", "running", "off"}]
      /\ tags \in [Name -> SUBSET Role]
      /\ nic \in [Name -> Type \cup {None}]
      /\ addr \in [Name -> Address \cup {None}]
      /\ group \in [Type -> (SUBSET Address) \cup {NoGroup}]
      /\ unmatched \subseteq Name
      /\ crashes \in 0..MaxCrashes
  BY AzureAssumption DEF NoGroup
<1>4. TypeOK
  BY <1>1, <1>2, <1>3, TypeParts DEF World
<1>5. MachineInv
  <2>1. \A n \in Name : ~lun[n]
    BY Zenon
  <2> QED
    BY <2>1 DEF MachineInv
<1>6. \A c \in Command : job[c].pc = "idle" /\ job[c].cmd = "none" /\ job[c].ips = {}
  BY DEF NoJob
<1> QED
  BY <1>4, <1>5, <1>6
     DEF BaseInv, Steps, Apart, Work, Redeploying, NewStep, GoneStep, LiveStep, RuleStep,
         PowerStep

\* Every step of an operator who heeds the rule preserves it.
LEMMA BaseStep == Alone /\ BaseInv /\ [Next]_vars => BaseInv'
BY TypeStep, MachineStep, StepsStep, ApartStep, WorkStep, RedeployingStep DEF BaseInv

-------------------------------------------------------------------------------
(* The rules. *)

\* What is collected are the addresses of the machines there are.
LEMMA CollectingStep == Alone /\ BaseInv /\ Collecting /\ Settled /\ [Next]_vars => Collecting'
<1> SUFFICES ASSUME Alone, BaseInv, Collecting, Settled, [Next]_vars PROVE Collecting'
  OBVIOUS
<1> USE DEF cloudVars, BaseInv, MachineInv, Steps, Apart, World, Live, Addresses, Collecting,
      NewStep, GoneStep, LiveStep, RuleStep, PowerStep
<1>a. TypeOK /\ World /\ Steps /\ job \in [Command -> Jobs]
  BY TypeParts DEF BaseInv
<1>b. \A d \in Command :
           /\ job[d] \in Jobs /\ job[d].pc \in Step /\ job[d].nm \in Name \cup {None}
           /\ job[d].roles \subseteq Role /\ job[d].tags \subseteq Role
           /\ job[d].todo \subseteq Name /\ job[d].ips \subseteq Address
           /\ job[d].write \subseteq Type
  BY <1>a, JobTypes
<1>c. None \notin Address \cup Name \cup Type
  BY AzureAssumption
<1>1. ASSUME NEW c \in Command, AddStart(c) PROVE Collecting'
  BY <1>1, <1>a, <1>b, AddStartDoes DEF Starts, MayStart, At
<1>2. ASSUME NEW c \in Command, AddNic(c) PROVE Collecting'
  BY <1>2, <1>a, <1>b, AddNicDoes DEF Moves, Goes, Rests
<1>3. ASSUME NEW c \in Command, AddVm(c) PROVE Collecting'
  BY <1>3, <1>a, <1>b, AddVmDoes DEF Moves, Goes, Rests
<1>4. ASSUME NEW c \in Command, AddRefused(c) PROVE Collecting'
  BY <1>4, <1>a, <1>b, AddRefusedDoes DEF Moves, Goes
<1>5. ASSUME NEW c \in Command, AddSlowNic(c) PROVE Collecting'
  BY <1>5, <1>a, <1>b, AddSlowNicDoes DEF Moves, Goes
<1>6. ASSUME NEW c \in Command, AddCreated(c) PROVE Collecting'
  BY <1>6, <1>a, <1>b, AddCreatedDoes DEF Moves, Goes, Rests
<1>7. ASSUME NEW c \in Command, DeleteStart(c) PROVE Collecting'
  BY <1>7, <1>a, <1>b, DeleteStartDoes DEF Starts, MayStart, At
<1>8. ASSUME NEW c \in Command, DeleteGet(c) PROVE Collecting'
  BY <1>8, <1>a, <1>b, DeleteGetDoes DEF Goes, Rests
<1>9. ASSUME NEW c \in Command, DeleteVm(c) PROVE Collecting'
  BY <1>9, <1>a, <1>b, DeleteVmDoes DEF Moves, Goes
<1>10. ASSUME NEW c \in Command, DeleteNic(c) PROVE Collecting'
  BY <1>10, <1>a, <1>b, DeleteNicDoes DEF Moves, Goes, Rests
<1>11. ASSUME NEW c \in Command, DeleteIp(c) PROVE Collecting'
  BY <1>11, <1>a, <1>b, DeleteIpDoes DEF Rests
<1>12. ASSUME NEW c \in Command, DeleteDisk(c) PROVE Collecting'
  BY <1>12, <1>a, <1>b, DeleteDiskDoes DEF Goes, Rests
<1>13. ASSUME NEW c \in Command, DeletedAll(c) PROVE Collecting'
  BY <1>13, <1>a, <1>b, DeletedAllDoes DEF Moves, Goes
<1>14. ASSUME NEW c \in Command, DeleteGroup(c) PROVE Collecting'
  BY <1>14, <1>a, <1>b, DeleteGroupDoes DEF Moves, Goes, Rests
<1>15. ASSUME NEW c \in Command, RedeployStart(c) PROVE Collecting'
  BY <1>15, <1>a, <1>b, RedeployStartDoes DEF Starts, MayStart, At
<1>16. ASSUME NEW c \in Command, RedeployPowerOff(c) PROVE Collecting'
  BY <1>16, <1>a, <1>b, RedeployPowerOffDoes DEF Moves, Goes, Rests
<1>17. ASSUME NEW c \in Command, RedeployDetach(c) PROVE Collecting'
  BY <1>17, <1>a, <1>b, RedeployDetachDoes DEF Moves, Goes, Rests
<1>18. ASSUME NEW c \in Command, RedeployAdd(c) PROVE Collecting'
  BY <1>18, <1>a, <1>b, RedeployAddDoes DEF Goes, Rests
<1>19. ASSUME NEW c \in Command, EditStart(c) PROVE Collecting'
  BY <1>19, <1>a, <1>b, EditStartDoes DEF Starts, MayStart, At
<1>20. ASSUME NEW c \in Command, EditNic(c) PROVE Collecting'
  BY <1>20, <1>a, <1>b, EditNicDoes DEF Moves, Goes, Rests
<1>21. ASSUME NEW c \in Command, EditVm(c) PROVE Collecting'
  BY <1>21, <1>a, <1>b, EditVmDoes DEF Rests
<1>22. ASSUME NEW c \in Command, EnsureStart(c) PROVE Collecting'
  BY <1>22, <1>a, <1>b, EnsureStartDoes DEF Starts, MayStart, At
<1>23. ASSUME NEW c \in Command, EnsureList(c) PROVE Collecting'
  BY <1>23, <1>a, <1>b, EnsureListDoes DEF Goes
<1>24. ASSUME NEW c \in Command, EnsureIp(c) PROVE Collecting'
  BY <1>24, <1>a, <1>b, EnsureIpDoes DEF Goes, Rests
<1>25. ASSUME NEW c \in Command, EnsureGroups(c) PROVE Collecting'
  BY <1>25, <1>a, <1>b, EnsureGroupsDoes DEF Goes
<1>26. ASSUME NEW c \in Command, EnsureWrite(c) PROVE Collecting'
  BY <1>26, <1>a, <1>b, EnsureWriteDoes DEF Goes, Rests
<1>27. ASSUME NEW c \in Command, EnsureDone(c) PROVE Collecting'
  BY <1>27, <1>a, <1>b, EnsureDoneDoes DEF Rests
<1>28. ASSUME NEW c \in Command, Crash(c) PROVE Collecting'
  BY <1>28, <1>a, <1>b, CrashDoes DEF Rests
<1>29. ASSUME NEW n \in Name, VmCreated(n) PROVE Collecting'
  BY <1>29, <1>a, <1>b DEF VmCreated
<1>30. CASE UNCHANGED vars
  BY <1>30, <1>a, <1>b, <1>c DEF vars
<1> QED
  BY <1>1, <1>2, <1>3, <1>4, <1>5, <1>6, <1>7, <1>8, <1>9, <1>10, <1>11, <1>12, <1>13, <1>14,
     <1>15, <1>16, <1>17, <1>18, <1>19, <1>20, <1>21, <1>22, <1>23, <1>24, <1>25, <1>26, <1>27,
     <1>28, <1>29, <1>30 DEF Next, Add, Delete, Redeploy, Edit, Ensure

\* Once ensured the rules are current.
LEMMA SettledStep == Alone /\ BaseInv /\ Collecting /\ Settled /\ [Next]_vars => Settled'
<1> SUFFICES ASSUME Alone, BaseInv, Collecting, Settled, [Next]_vars PROVE Settled'
  OBVIOUS
<1> USE DEF cloudVars, BaseInv, MachineInv, Steps, Apart, World, Live, Addresses, Collecting,
      NewStep, GoneStep, LiveStep, RuleStep, PowerStep, Settled
<1>a. TypeOK /\ World /\ Steps /\ job \in [Command -> Jobs]
  BY TypeParts DEF BaseInv
<1>b. \A d \in Command :
           /\ job[d] \in Jobs /\ job[d].pc \in Step /\ job[d].nm \in Name \cup {None}
           /\ job[d].roles \subseteq Role /\ job[d].tags \subseteq Role
           /\ job[d].todo \subseteq Name /\ job[d].ips \subseteq Address
           /\ job[d].write \subseteq Type
  BY <1>a, JobTypes
<1>c. None \notin Address \cup Name \cup Type
  BY AzureAssumption
<1>1. ASSUME NEW c \in Command, AddStart(c) PROVE Settled'
  <2>1. UNCHANGED <<vm, addr, group, dirty>>
    BY <1>1, AddStartDoes, <1>a
  <2> QED
    BY <2>1
<1>2. ASSUME NEW c \in Command, AddNic(c) PROVE Settled'
  BY <1>2, <1>a, <1>b, AddNicDoes DEF Moves, Goes, Rests
<1>3. ASSUME NEW c \in Command, AddVm(c) PROVE Settled'
  BY <1>3, <1>a, <1>b, AddVmDoes DEF Moves, Goes, Rests
<1>4. ASSUME NEW c \in Command, AddRefused(c) PROVE Settled'
  BY <1>4, <1>a, <1>b, AddRefusedDoes DEF Moves, Goes
<1>5. ASSUME NEW c \in Command, AddSlowNic(c) PROVE Settled'
  BY <1>5, <1>a, <1>b, AddSlowNicDoes DEF Moves, Goes
<1>6. ASSUME NEW c \in Command, AddCreated(c) PROVE Settled'
  BY <1>6, <1>a, <1>b, AddCreatedDoes DEF Moves, Goes, Rests
<1>7. ASSUME NEW c \in Command, DeleteStart(c) PROVE Settled'
  <2>1. UNCHANGED <<vm, addr, group, dirty>>
    BY <1>7, DeleteStartDoes, <1>a
  <2> QED
    BY <2>1
<1>8. ASSUME NEW c \in Command, DeleteGet(c) PROVE Settled'
  BY <1>8, <1>a, <1>b, DeleteGetDoes DEF Goes, Rests
<1>9. ASSUME NEW c \in Command, DeleteVm(c) PROVE Settled'
  BY <1>9, <1>a, <1>b, DeleteVmDoes DEF Moves, Goes
<1>10. ASSUME NEW c \in Command, DeleteNic(c) PROVE Settled'
  BY <1>10, <1>a, <1>b, DeleteNicDoes DEF Moves, Goes, Rests
<1>11. ASSUME NEW c \in Command, DeleteIp(c) PROVE Settled'
  BY <1>11, <1>a, <1>b, DeleteIpDoes DEF Rests
<1>12. ASSUME NEW c \in Command, DeleteDisk(c) PROVE Settled'
  BY <1>12, <1>a, <1>b, DeleteDiskDoes DEF Goes, Rests
<1>13. ASSUME NEW c \in Command, DeletedAll(c) PROVE Settled'
  BY <1>13, <1>a, <1>b, DeletedAllDoes DEF Moves, Goes
<1>14. ASSUME NEW c \in Command, DeleteGroup(c) PROVE Settled'
  BY <1>14, <1>a, <1>b, DeleteGroupDoes DEF Moves, Goes, Rests
<1>15. ASSUME NEW c \in Command, RedeployStart(c) PROVE Settled'
  <2>1. UNCHANGED <<vm, addr, group, dirty>>
    BY <1>15, RedeployStartDoes, <1>a
  <2> QED
    BY <2>1
<1>16. ASSUME NEW c \in Command, RedeployPowerOff(c) PROVE Settled'
  BY <1>16, <1>a, <1>b, RedeployPowerOffDoes DEF Moves, Goes, Rests
<1>17. ASSUME NEW c \in Command, RedeployDetach(c) PROVE Settled'
  BY <1>17, <1>a, <1>b, RedeployDetachDoes DEF Moves, Goes, Rests
<1>18. ASSUME NEW c \in Command, RedeployAdd(c) PROVE Settled'
  BY <1>18, <1>a, <1>b, RedeployAddDoes DEF Goes, Rests
<1>19. ASSUME NEW c \in Command, EditStart(c) PROVE Settled'
  <2>1. UNCHANGED <<vm, addr, group, dirty>>
    BY <1>19, EditStartDoes, <1>a
  <2> QED
    BY <2>1
<1>20. ASSUME NEW c \in Command, EditNic(c) PROVE Settled'
  BY <1>20, <1>a, <1>b, EditNicDoes DEF Moves, Goes, Rests
<1>21. ASSUME NEW c \in Command, EditVm(c) PROVE Settled'
  BY <1>21, <1>a, <1>b, EditVmDoes DEF Rests
<1>22. ASSUME NEW c \in Command, EnsureStart(c) PROVE Settled'
  <2>1. UNCHANGED <<vm, addr, group, dirty>>
    BY <1>22, EnsureStartDoes, <1>a
  <2> QED
    BY <2>1
<1>23. ASSUME NEW c \in Command, EnsureList(c) PROVE Settled'
  BY <1>23, <1>a, <1>b, EnsureListDoes DEF Goes
<1>24. ASSUME NEW c \in Command, EnsureIp(c) PROVE Settled'
  BY <1>24, <1>a, <1>b, EnsureIpDoes DEF Goes, Rests
<1>25. ASSUME NEW c \in Command, EnsureGroups(c) PROVE Settled'
  BY <1>25, <1>a, <1>b, EnsureGroupsDoes DEF Goes
<1>26. ASSUME NEW c \in Command, EnsureWrite(c) PROVE Settled'
  BY <1>26, <1>a, <1>b, EnsureWriteDoes DEF Goes, Rests
<1>27. ASSUME NEW c \in Command, EnsureDone(c) PROVE Settled'
  BY <1>27, <1>a, <1>b, EnsureDoneDoes DEF Rests
<1>28. ASSUME NEW c \in Command, Crash(c) PROVE Settled'
  BY <1>28, <1>a, <1>b, CrashDoes DEF Rests
<1>29. ASSUME NEW n \in Name, VmCreated(n) PROVE Settled'
  BY <1>29, <1>a, <1>b DEF VmCreated
<1>30. CASE UNCHANGED vars
  BY <1>30, <1>a, <1>b, <1>c DEF vars
<1> QED
  BY <1>1, <1>2, <1>3, <1>4, <1>5, <1>6, <1>7, <1>8, <1>9, <1>10, <1>11, <1>12, <1>13, <1>14,
     <1>15, <1>16, <1>17, <1>18, <1>19, <1>20, <1>21, <1>22, <1>23, <1>24, <1>25, <1>26, <1>27,
     <1>28, <1>29, <1>30 DEF Next, Add, Delete, Redeploy, Edit, Ensure

\* Nothing but the operator's rule is assumed: any command may die at any step, a machine may
\* be left half-made, and rules may be skipped.  When all is quiet and the rules have been
\* ensured since the last change, every group admits the addresses of all machines and no others.
THEOREM RulesAreCurrent ==
    ASSUME Alone
    PROVE  Spec => []RulesInv
<1>1. Init => RulesIInv
  <2> SUFFICES ASSUME Init PROVE RulesIInv
    OBVIOUS
  <2>1. BaseInv
    BY BaseInit
  <2>2. \A c \in Command : job[c].pc = "idle"
    BY DEF Init, NoJob
  <2>3. /\ \A n \in Name : vm[n] = "none"
        /\ \A t \in Type : group[t] = {}
    BY DEF Init
  <2>4. Live = {} /\ Addresses = {}
    BY <2>3 DEF Live, Addresses
  <2> QED
    BY <2>1, <2>2, <2>3, <2>4 DEF RulesIInv, Collecting, Settled
<1>2. RulesIInv /\ [Next]_vars => RulesIInv'
  BY BaseStep, CollectingStep, SettledStep DEF RulesIInv
<1>3. RulesIInv => RulesInv
  BY DEF RulesIInv, BaseInv, RulesInv, RulesCurrent, Settled, Addresses, Live
<1> QED
  BY <1>1, <1>2, <1>3, PTL DEF Spec

-------------------------------------------------------------------------------
(* The roles. *)

\* The group of a combination of roles opens the ports of all of them.
LEMMA GroupServesRoles ==
    ASSUME NEW roles \in SUBSET Role
    PROVE  roles \ {"log"} \subseteq Serves(NsgType(roles))
<1>1. CASE roles \in {{}, {"pitcher"}, {"management"}, {"connect-broker"}, {"frontend-balancer"},
                      {"management", "frontend-balancer"}}
  BY <1>1 DEF NsgType, Serves
<1>2. CASE roles \notin {{}, {"pitcher"}, {"management"}, {"connect-broker"}, {"frontend-balancer"},
                         {"management", "frontend-balancer"}}
  <2>1. NsgType(roles) = "single"
    BY <1>2 DEF NsgType
  <2>2. Serves("single") = Role \ {"log"}
    BY DEF Serves
  <2> QED
    BY <2>1, <2>2
<1> QED
  BY <1>1, <1>2

\* The group of a machine is that of its tags.
LEMMA GroupFollowsTagsStep ==
    BaseInv /\ GroupFollowsTags /\ [Next]_vars => GroupFollowsTags'
<1> SUFFICES ASSUME BaseInv, GroupFollowsTags, [Next]_vars PROVE GroupFollowsTags'
  OBVIOUS
<1> USE DEF cloudVars, BaseInv, GroupFollowsTags, Steps, Apart, Work, World,
      MachineInv, NewStep, GoneStep, LiveStep, RuleStep, PowerStep
<1>a. TypeOK /\ World /\ Steps /\ job \in [Command -> Jobs]
  BY TypeParts DEF BaseInv
<1>b. \A d \in Command :
           /\ job[d] \in Jobs /\ job[d].pc \in Step /\ job[d].nm \in Name \cup {None}
           /\ job[d].roles \subseteq Role /\ job[d].tags \subseteq Role
           /\ job[d].todo \subseteq Name /\ job[d].ips \subseteq Address
           /\ job[d].write \subseteq Type
  BY <1>a, JobTypes
<1>c. None \notin Address \cup Name \cup Type
  BY AzureAssumption
<1>1. ASSUME NEW c \in Command, AddStart(c) PROVE GroupFollowsTags'
  <2>1. UNCHANGED <<vm, tags, nic, unmatched>>
    BY <1>1, <1>a, AddStartDoes
  <2>2. /\ job[c].pc = "idle" /\ job'[c].pc # "editVm"
        /\ \A d \in Command \ {c} : job'[d] = job[d]
    BY <1>1, <1>a, AddStartDoes DEF MayStart, At, Starts
  <2> HIDE DEF BaseInv, Steps, Apart, Work, World, MachineInv
  <2> QED
    BY <2>1, <2>2
<1>2. ASSUME NEW c \in Command, AddNic(c) PROVE GroupFollowsTags'
  BY <1>2, <1>a, <1>b, AddNicDoes DEF Moves, Goes, Rests
<1>3. ASSUME NEW c \in Command, AddVm(c) PROVE GroupFollowsTags'
  BY <1>3, <1>a, <1>b, AddVmDoes DEF Moves, Goes, Rests
<1>4. ASSUME NEW c \in Command, AddRefused(c) PROVE GroupFollowsTags'
  BY <1>4, <1>a, <1>b, AddRefusedDoes DEF Moves, Goes
<1>5. ASSUME NEW c \in Command, AddSlowNic(c) PROVE GroupFollowsTags'
  BY <1>5, <1>a, <1>b, AddSlowNicDoes DEF Moves, Goes
<1>6. ASSUME NEW c \in Command, AddCreated(c) PROVE GroupFollowsTags'
  BY <1>6, <1>a, <1>b, AddCreatedDoes DEF Moves, Goes, Rests
<1>7. ASSUME NEW c \in Command, DeleteStart(c) PROVE GroupFollowsTags'
  <2>1. UNCHANGED <<vm, tags, nic, unmatched>>
    BY <1>7, <1>a, DeleteStartDoes
  <2>2. /\ job[c].pc = "idle" /\ job'[c].pc # "editVm"
        /\ \A d \in Command \ {c} : job'[d] = job[d]
    BY <1>7, <1>a, DeleteStartDoes DEF MayStart, At, Starts
  <2> HIDE DEF BaseInv, Steps, Apart, Work, World, MachineInv
  <2> QED
    BY <2>1, <2>2
<1>8. ASSUME NEW c \in Command, DeleteGet(c) PROVE GroupFollowsTags'
  BY <1>8, <1>a, <1>b, DeleteGetDoes DEF Goes, Rests
<1>9. ASSUME NEW c \in Command, DeleteVm(c) PROVE GroupFollowsTags'
  BY <1>9, <1>a, <1>b, DeleteVmDoes DEF Moves, Goes
<1>10. ASSUME NEW c \in Command, DeleteNic(c) PROVE GroupFollowsTags'
  BY <1>10, <1>a, <1>b, DeleteNicDoes DEF Moves, Goes, Rests
<1>11. ASSUME NEW c \in Command, DeleteIp(c) PROVE GroupFollowsTags'
  BY <1>11, <1>a, <1>b, DeleteIpDoes DEF Rests
<1>12. ASSUME NEW c \in Command, DeleteDisk(c) PROVE GroupFollowsTags'
  BY <1>12, <1>a, <1>b, DeleteDiskDoes DEF Goes, Rests
<1>13. ASSUME NEW c \in Command, DeletedAll(c) PROVE GroupFollowsTags'
  BY <1>13, <1>a, <1>b, DeletedAllDoes DEF Moves, Goes
<1>14. ASSUME NEW c \in Command, DeleteGroup(c) PROVE GroupFollowsTags'
  BY <1>14, <1>a, <1>b, DeleteGroupDoes DEF Moves, Goes, Rests
<1>15. ASSUME NEW c \in Command, RedeployStart(c) PROVE GroupFollowsTags'
  <2>1. UNCHANGED <<vm, tags, nic, unmatched>>
    BY <1>15, <1>a, RedeployStartDoes
  <2>2. /\ job[c].pc = "idle" /\ job'[c].pc # "editVm"
        /\ \A d \in Command \ {c} : job'[d] = job[d]
    BY <1>15, <1>a, RedeployStartDoes DEF MayStart, At, Starts
  <2> HIDE DEF BaseInv, Steps, Apart, Work, World, MachineInv
  <2> QED
    BY <2>1, <2>2
<1>16. ASSUME NEW c \in Command, RedeployPowerOff(c) PROVE GroupFollowsTags'
  BY <1>16, <1>a, <1>b, RedeployPowerOffDoes DEF Moves, Goes, Rests
<1>17. ASSUME NEW c \in Command, RedeployDetach(c) PROVE GroupFollowsTags'
  BY <1>17, <1>a, <1>b, RedeployDetachDoes DEF Moves, Goes, Rests
<1>18. ASSUME NEW c \in Command, RedeployAdd(c) PROVE GroupFollowsTags'
  BY <1>18, <1>a, <1>b, RedeployAddDoes DEF Goes, Rests
<1>19. ASSUME NEW c \in Command, EditStart(c) PROVE GroupFollowsTags'
  <2>1. UNCHANGED <<vm, tags, nic, unmatched>>
    BY <1>19, <1>a, EditStartDoes
  <2>2. /\ job[c].pc = "idle" /\ job'[c].pc # "editVm"
        /\ \A d \in Command \ {c} : job'[d] = job[d]
    BY <1>19, <1>a, EditStartDoes DEF MayStart, At, Starts
  <2> HIDE DEF BaseInv, Steps, Apart, Work, World, MachineInv
  <2> QED
    BY <2>1, <2>2
<1>20. ASSUME NEW c \in Command, EditNic(c) PROVE GroupFollowsTags'
  BY <1>20, <1>a, <1>b, EditNicDoes DEF Moves, Goes, Rests
<1>21. ASSUME NEW c \in Command, EditVm(c) PROVE GroupFollowsTags'
  <2>1. /\ job[c].pc = "editVm" /\ Rests(c)
        /\ UNCHANGED <<vm, disk, nic, ip, addr, group, dirty, crashes>>
    BY <1>21, <1>a, EditVmDoes
  <2>2. job[c].nm \in Name /\ vm[job[c].nm] # "none" /\ (job[c].lun => disk[job[c].nm])
    BY <2>1
  <2>3. tags' = [tags EXCEPT ![job[c].nm] = job[c].tags]
    BY <1>21, <1>a, <2>2, EditVmDoes
  <2>4. tags'[job[c].nm] = job[c].tags /\ \A n \in Name \ {job[c].nm} : tags'[n] = tags[n]
    BY <1>a, <2>2, <2>3
  <2>5. \A d \in Command \ {c} : job'[d] = job[d]
    BY <2>1 DEF Rests
  <2>6. \A d \in Command \ {c} : job[d].pc = "editVm" => job[d].nm # job[c].nm
    BY <2>1
  <2>7. nic[job[c].nm] = NsgType(job[c].tags)
    BY <2>1
  <2>8. unmatched' = unmatched \ {job[c].nm}
    BY <1>21, <1>a, <2>2, EditVmDoes
  <2>9. job'[c].pc # "editVm"
    BY <2>1 DEF Rests
  <2> HIDE DEF BaseInv, Steps, Apart, Work, World, MachineInv
  <2>10. ASSUME NEW d \in Command \ {c}, job'[d].pc = "editVm"
         PROVE  job'[d].nm \in unmatched' /\ nic[job'[d].nm] = NsgType(job'[d].tags)
    BY <2>5, <2>6, <2>8, <2>10
  <2>11. ASSUME NEW n \in Name \ unmatched', vm[n] # "none" PROVE nic[n] = NsgType(tags'[n])
    BY <2>4, <2>7, <2>8, <2>11
  <2> QED
    BY <2>1, <2>9, <2>10, <2>11
<1>22. ASSUME NEW c \in Command, EnsureStart(c) PROVE GroupFollowsTags'
  <2>1. UNCHANGED <<vm, tags, nic, unmatched>>
    BY <1>22, <1>a, EnsureStartDoes
  <2>2. /\ job[c].pc = "idle" /\ job'[c].pc # "editVm"
        /\ \A d \in Command \ {c} : job'[d] = job[d]
    BY <1>22, <1>a, EnsureStartDoes DEF MayStart, At, Starts
  <2> HIDE DEF BaseInv, Steps, Apart, Work, World, MachineInv
  <2> QED
    BY <2>1, <2>2
<1>23. ASSUME NEW c \in Command, EnsureList(c) PROVE GroupFollowsTags'
  BY <1>23, <1>a, <1>b, EnsureListDoes DEF Goes
<1>24. ASSUME NEW c \in Command, EnsureIp(c) PROVE GroupFollowsTags'
  BY <1>24, <1>a, <1>b, EnsureIpDoes DEF Goes, Rests
<1>25. ASSUME NEW c \in Command, EnsureGroups(c) PROVE GroupFollowsTags'
  BY <1>25, <1>a, <1>b, EnsureGroupsDoes DEF Goes
<1>26. ASSUME NEW c \in Command, EnsureWrite(c) PROVE GroupFollowsTags'
  BY <1>26, <1>a, <1>b, EnsureWriteDoes DEF Goes, Rests
<1>27. ASSUME NEW c \in Command, EnsureDone(c) PROVE GroupFollowsTags'
  BY <1>27, <1>a, <1>b, EnsureDoneDoes DEF Rests
<1>28. ASSUME NEW c \in Command, Crash(c) PROVE GroupFollowsTags'
  BY <1>28, <1>a, <1>b, CrashDoes DEF Rests
<1>29. ASSUME NEW n \in Name, VmCreated(n) PROVE GroupFollowsTags'
  BY <1>29, <1>a, <1>b DEF VmCreated
<1>30. CASE UNCHANGED vars
  BY <1>30, <1>a, <1>b, <1>c DEF vars
<1> QED
  BY <1>1, <1>2, <1>3, <1>4, <1>5, <1>6, <1>7, <1>8, <1>9, <1>10, <1>11, <1>12, <1>13, <1>14,
     <1>15, <1>16, <1>17, <1>18, <1>19, <1>20, <1>21, <1>22, <1>23, <1>24, <1>25, <1>26, <1>27,
     <1>28, <1>29, <1>30 DEF Next, Add, Delete, Redeploy, Edit, Ensure

\* Whatever an operator who heeds the rule adds, edits and redeploys, with the management
\* flag or without, and wherever commands die: at every moment the group of every machine
\* opens the ports of all its roles, except for the machines that were added with a flag
\* their group was not chosen for, and those whose edit is not through.
THEOREM RolesAreServed ==
    ASSUME Alone
    PROVE  Spec => []GroupsServeRoles
<1>1. Init => RolesIInv
  <2> SUFFICES ASSUME Init PROVE RolesIInv
    OBVIOUS
  <2>1. BaseInv
    BY BaseInit
  <2>2. \A c \in Command : job[c].pc = "idle"
    BY DEF Init, NoJob
  <2>3. \A n \in Name : vm[n] = "none"
    BY DEF Init
  <2> QED
    BY <2>1, <2>2, <2>3 DEF RolesIInv, GroupFollowsTags
<1>2. RolesIInv /\ [Next]_vars => RolesIInv'
  BY BaseStep, GroupFollowsTagsStep DEF RolesIInv
<1>3. RolesIInv => GroupsServeRoles
  <2> SUFFICES ASSUME RolesIInv, NEW n \in Name \ unmatched, vm[n] = "running"
               PROVE  tags[n] \ {"log"} \subseteq Serves(nic[n])
    BY DEF GroupsServeRoles, Served
  <2>1. nic[n] = NsgType(tags[n])
    BY DEF RolesIInv, GroupFollowsTags
  <2>2. tags[n] \in SUBSET Role
    BY DEF RolesIInv, BaseInv, TypeOK
  <2> QED
    BY <2>1, <2>2, GroupServesRoles
<1> QED
  BY <1>1, <1>2, <1>3, PTL DEF Spec

-------------------------------------------------------------------------------
(* The disk. *)

\* Only machine-delete deletes a disk.
LEMMA DiskGoes == BaseInv /\ [Next]_vars => OnlyDeleteTakes
<1> SUFFICES ASSUME BaseInv, [Next]_vars PROVE OnlyDeleteTakes
  OBVIOUS
<1> USE DEF cloudVars, OnlyDeleteTakes
<1>a. TypeOK /\ World /\ Steps /\ job \in [Command -> Jobs]
  BY TypeParts DEF BaseInv
<1>b. \A d \in Command :
           /\ job[d] \in Jobs /\ job[d].pc \in Step /\ job[d].nm \in Name \cup {None}
           /\ job[d].roles \subseteq Role /\ job[d].tags \subseteq Role
           /\ job[d].todo \subseteq Name /\ job[d].ips \subseteq Address
           /\ job[d].write \subseteq Type
  BY <1>a, JobTypes
<1>c. None \notin Address \cup Name \cup Type
  BY AzureAssumption
<1>1. ASSUME NEW c \in Command, AddStart(c) PROVE OnlyDeleteTakes
  <2>1. UNCHANGED disk
    BY <1>1, <1>a, AddStartDoes
  <2> QED
    BY <2>1
<1>2. ASSUME NEW c \in Command, AddNic(c) PROVE OnlyDeleteTakes
  BY <1>2, <1>a, <1>b, AddNicDoes DEF Moves, Goes, Rests
<1>3. ASSUME NEW c \in Command, AddVm(c) PROVE OnlyDeleteTakes
  <2>1. job[c].nm \in Name /\ disk \in [Name -> BOOLEAN]
    BY <1>3, <1>a, AddVmDoes DEF World, Steps, RuleStep
  <2>2. CASE disk' = [disk EXCEPT ![job[c].nm] = @ \/ job[c].storage = "new"]
    BY <2>1, <2>2
  <2>3. CASE UNCHANGED disk
    BY <2>3
  <2> QED
    BY <1>3, <1>a, <2>2, <2>3, AddVmDoes
<1>4. ASSUME NEW c \in Command, AddRefused(c) PROVE OnlyDeleteTakes
  BY <1>4, <1>a, <1>b, AddRefusedDoes DEF Moves, Goes
<1>5. ASSUME NEW c \in Command, AddSlowNic(c) PROVE OnlyDeleteTakes
  BY <1>5, <1>a, <1>b, AddSlowNicDoes DEF Moves, Goes
<1>6. ASSUME NEW c \in Command, AddCreated(c) PROVE OnlyDeleteTakes
  BY <1>6, <1>a, <1>b, AddCreatedDoes DEF Moves, Goes, Rests
<1>7. ASSUME NEW c \in Command, DeleteStart(c) PROVE OnlyDeleteTakes
  <2>1. UNCHANGED disk
    BY <1>7, <1>a, DeleteStartDoes
  <2> QED
    BY <2>1
<1>8. ASSUME NEW c \in Command, DeleteGet(c) PROVE OnlyDeleteTakes
  BY <1>8, <1>a, <1>b, DeleteGetDoes DEF Goes, Rests
<1>9. ASSUME NEW c \in Command, DeleteVm(c) PROVE OnlyDeleteTakes
  BY <1>9, <1>a, <1>b, DeleteVmDoes DEF Moves, Goes
<1>10. ASSUME NEW c \in Command, DeleteNic(c) PROVE OnlyDeleteTakes
  BY <1>10, <1>a, <1>b, DeleteNicDoes DEF Moves, Goes, Rests
<1>11. ASSUME NEW c \in Command, DeleteIp(c) PROVE OnlyDeleteTakes
  BY <1>11, <1>a, <1>b, DeleteIpDoes DEF Rests
<1>12. ASSUME NEW c \in Command, DeleteDisk(c) PROVE OnlyDeleteTakes
  <2>1. /\ job[c].pc = "ipGone" /\ job[c].lun
        /\ \A n \in Name \ {job[c].nm} : disk'[n] = disk[n]
    BY <1>12, <1>a, DeleteDiskDoes DEF World
  <2>2. job[c].cmd = "delete"
    BY <2>1 DEF BaseInv, Steps, Redeploying, GoneStep
  <2> QED
    BY <2>1, <2>2
<1>13. ASSUME NEW c \in Command, DeletedAll(c) PROVE OnlyDeleteTakes
  BY <1>13, <1>a, <1>b, DeletedAllDoes DEF Moves, Goes
<1>14. ASSUME NEW c \in Command, DeleteGroup(c) PROVE OnlyDeleteTakes
  BY <1>14, <1>a, <1>b, DeleteGroupDoes DEF Moves, Goes, Rests
<1>15. ASSUME NEW c \in Command, RedeployStart(c) PROVE OnlyDeleteTakes
  <2>1. UNCHANGED disk
    BY <1>15, <1>a, RedeployStartDoes
  <2> QED
    BY <2>1
<1>16. ASSUME NEW c \in Command, RedeployPowerOff(c) PROVE OnlyDeleteTakes
  BY <1>16, <1>a, <1>b, RedeployPowerOffDoes DEF Moves, Goes, Rests
<1>17. ASSUME NEW c \in Command, RedeployDetach(c) PROVE OnlyDeleteTakes
  BY <1>17, <1>a, <1>b, RedeployDetachDoes DEF Moves, Goes, Rests
<1>18. ASSUME NEW c \in Command, RedeployAdd(c) PROVE OnlyDeleteTakes
  BY <1>18, <1>a, <1>b, RedeployAddDoes DEF Goes, Rests
<1>19. ASSUME NEW c \in Command, EditStart(c) PROVE OnlyDeleteTakes
  <2>1. UNCHANGED disk
    BY <1>19, <1>a, EditStartDoes
  <2> QED
    BY <2>1
<1>20. ASSUME NEW c \in Command, EditNic(c) PROVE OnlyDeleteTakes
  BY <1>20, <1>a, <1>b, EditNicDoes DEF Moves, Goes, Rests
<1>21. ASSUME NEW c \in Command, EditVm(c) PROVE OnlyDeleteTakes
  BY <1>21, <1>a, <1>b, EditVmDoes DEF Rests
<1>22. ASSUME NEW c \in Command, EnsureStart(c) PROVE OnlyDeleteTakes
  <2>1. UNCHANGED disk
    BY <1>22, <1>a, EnsureStartDoes
  <2> QED
    BY <2>1
<1>23. ASSUME NEW c \in Command, EnsureList(c) PROVE OnlyDeleteTakes
  BY <1>23, <1>a, <1>b, EnsureListDoes DEF Goes
<1>24. ASSUME NEW c \in Command, EnsureIp(c) PROVE OnlyDeleteTakes
  BY <1>24, <1>a, <1>b, EnsureIpDoes DEF Goes, Rests
<1>25. ASSUME NEW c \in Command, EnsureGroups(c) PROVE OnlyDeleteTakes
  BY <1>25, <1>a, <1>b, EnsureGroupsDoes DEF Goes
<1>26. ASSUME NEW c \in Command, EnsureWrite(c) PROVE OnlyDeleteTakes
  BY <1>26, <1>a, <1>b, EnsureWriteDoes DEF Goes, Rests
<1>27. ASSUME NEW c \in Command, EnsureDone(c) PROVE OnlyDeleteTakes
  BY <1>27, <1>a, <1>b, EnsureDoneDoes DEF Rests
<1>28. ASSUME NEW c \in Command, Crash(c) PROVE OnlyDeleteTakes
  BY <1>28, <1>a, <1>b, CrashDoes DEF Rests
<1>29. ASSUME NEW n \in Name, VmCreated(n) PROVE OnlyDeleteTakes
  BY <1>29, <1>a, <1>b DEF VmCreated
<1>30. CASE UNCHANGED vars
  BY <1>30, <1>a, <1>b, <1>c DEF vars
<1> QED
  BY <1>1, <1>2, <1>3, <1>4, <1>5, <1>6, <1>7, <1>8, <1>9, <1>10, <1>11, <1>12, <1>13, <1>14,
     <1>15, <1>16, <1>17, <1>18, <1>19, <1>20, <1>21, <1>22, <1>23, <1>24, <1>25, <1>26, <1>27,
     <1>28, <1>29, <1>30 DEF Next, Add, Delete, Redeploy, Edit, Ensure

\* Whichever commands have died before, and whatever a redeploy has left behind: the data disk
\* of a machine is deleted by machine-delete and by nothing else.
THEOREM OnlyDeleteDeletesTheDisk ==
    ASSUME Alone
    PROVE  Spec => DiskOutlivesMachine
<1>1. Init => BaseInv
  BY BaseInit
<1>2. BaseInv /\ [Next]_vars => BaseInv'
  BY BaseStep
<1>3. BaseInv /\ [Next]_vars =>
          [\A n \in Name : disk[n] /\ ~disk'[n] =>
              \E c \in Command : job[c].cmd = "delete" /\ job[c].nm = n]_vars
  BY DiskGoes DEF OnlyDeleteTakes
<1> QED
  BY <1>1, <1>2, <1>3, PTL DEF Spec, DiskOutlivesMachine

\* Deleting a machine that does not have the name of a group deletes no group.
LEMMA GroupsStayStep ==
    Name \cap Type = {} /\ BaseInv /\ SharedGroupsStay /\ [Next]_vars
        => SharedGroupsStay'
<1> SUFFICES ASSUME Name \cap Type = {}, BaseInv, SharedGroupsStay, [Next]_vars
             PROVE  SharedGroupsStay'
  OBVIOUS
<1> USE DEF cloudVars, SharedGroupsStay
<1>a. TypeOK /\ World /\ Steps /\ job \in [Command -> Jobs]
  BY TypeParts DEF BaseInv
<1>b. \A d \in Command :
           /\ job[d] \in Jobs /\ job[d].pc \in Step /\ job[d].nm \in Name \cup {None}
           /\ job[d].roles \subseteq Role /\ job[d].tags \subseteq Role
           /\ job[d].todo \subseteq Name /\ job[d].ips \subseteq Address
           /\ job[d].write \subseteq Type
  BY <1>a, JobTypes
<1>c. None \notin Address \cup Name \cup Type
  BY AzureAssumption
<1>1. ASSUME NEW c \in Command, AddStart(c) PROVE SharedGroupsStay'
  <2>1. UNCHANGED group
    BY <1>1, <1>a, AddStartDoes
  <2> QED
    BY <2>1
<1>2. ASSUME NEW c \in Command, AddNic(c) PROVE SharedGroupsStay'
  BY <1>2, <1>a, <1>b, AddNicDoes DEF Moves, Goes, Rests
<1>3. ASSUME NEW c \in Command, AddVm(c) PROVE SharedGroupsStay'
  BY <1>3, <1>a, <1>b, AddVmDoes DEF Moves, Goes, Rests
<1>4. ASSUME NEW c \in Command, AddRefused(c) PROVE SharedGroupsStay'
  BY <1>4, <1>a, <1>b, AddRefusedDoes DEF Moves, Goes
<1>5. ASSUME NEW c \in Command, AddSlowNic(c) PROVE SharedGroupsStay'
  BY <1>5, <1>a, <1>b, AddSlowNicDoes DEF Moves, Goes
<1>6. ASSUME NEW c \in Command, AddCreated(c) PROVE SharedGroupsStay'
  BY <1>6, <1>a, <1>b, AddCreatedDoes DEF Moves, Goes, Rests
<1>7. ASSUME NEW c \in Command, DeleteStart(c) PROVE SharedGroupsStay'
  <2>1. UNCHANGED group
    BY <1>7, <1>a, DeleteStartDoes
  <2> QED
    BY <2>1
<1>8. ASSUME NEW c \in Command, DeleteGet(c) PROVE SharedGroupsStay'
  BY <1>8, <1>a, <1>b, DeleteGetDoes DEF Goes, Rests
<1>9. ASSUME NEW c \in Command, DeleteVm(c) PROVE SharedGroupsStay'
  BY <1>9, <1>a, <1>b, DeleteVmDoes DEF Moves, Goes
<1>10. ASSUME NEW c \in Command, DeleteNic(c) PROVE SharedGroupsStay'
  BY <1>10, <1>a, <1>b, DeleteNicDoes DEF Moves, Goes, Rests
<1>11. ASSUME NEW c \in Command, DeleteIp(c) PROVE SharedGroupsStay'
  BY <1>11, <1>a, <1>b, DeleteIpDoes DEF Rests
<1>12. ASSUME NEW c \in Command, DeleteDisk(c) PROVE SharedGroupsStay'
  BY <1>12, <1>a, <1>b, DeleteDiskDoes DEF Goes, Rests
<1>13. ASSUME NEW c \in Command, DeletedAll(c) PROVE SharedGroupsStay'
  BY <1>13, <1>a, <1>b, DeletedAllDoes DEF Moves, Goes
<1>14. ASSUME NEW c \in Command, DeleteGroup(c) PROVE SharedGroupsStay'
  <2>1. job[c].nm \notin Type
    BY <1>14, <1>a, DeleteGroupDoes DEF Steps, RuleStep
  <2>2. \A t \in Type : group'[t] = group[t]
    BY <1>14, <1>a, <2>1, DeleteGroupDoes
  <2> QED
    BY <2>2
<1>15. ASSUME NEW c \in Command, RedeployStart(c) PROVE SharedGroupsStay'
  <2>1. UNCHANGED group
    BY <1>15, <1>a, RedeployStartDoes
  <2> QED
    BY <2>1
<1>16. ASSUME NEW c \in Command, RedeployPowerOff(c) PROVE SharedGroupsStay'
  BY <1>16, <1>a, <1>b, RedeployPowerOffDoes DEF Moves, Goes, Rests
<1>17. ASSUME NEW c \in Command, RedeployDetach(c) PROVE SharedGroupsStay'
  BY <1>17, <1>a, <1>b, RedeployDetachDoes DEF Moves, Goes, Rests
<1>18. ASSUME NEW c \in Command, RedeployAdd(c) PROVE SharedGroupsStay'
  BY <1>18, <1>a, <1>b, RedeployAddDoes DEF Goes, Rests
<1>19. ASSUME NEW c \in Command, EditStart(c) PROVE SharedGroupsStay'
  <2>1. UNCHANGED group
    BY <1>19, <1>a, EditStartDoes
  <2> QED
    BY <2>1
<1>20. ASSUME NEW c \in Command, EditNic(c) PROVE SharedGroupsStay'
  BY <1>20, <1>a, <1>b, EditNicDoes DEF Moves, Goes, Rests
<1>21. ASSUME NEW c \in Command, EditVm(c) PROVE SharedGroupsStay'
  BY <1>21, <1>a, <1>b, EditVmDoes DEF Rests
<1>22. ASSUME NEW c \in Command, EnsureStart(c) PROVE SharedGroupsStay'
  <2>1. UNCHANGED group
    BY <1>22, <1>a, EnsureStartDoes
  <2> QED
    BY <2>1
<1>23. ASSUME NEW c \in Command, EnsureList(c) PROVE SharedGroupsStay'
  BY <1>23, <1>a, <1>b, EnsureListDoes DEF Goes
<1>24. ASSUME NEW c \in Command, EnsureIp(c) PROVE SharedGroupsStay'
  BY <1>24, <1>a, <1>b, EnsureIpDoes DEF Goes, Rests
<1>25. ASSUME NEW c \in Command, EnsureGroups(c) PROVE SharedGroupsStay'
  BY <1>25, <1>a, <1>b, EnsureGroupsDoes DEF Goes
<1>26. ASSUME NEW c \in Command, EnsureWrite(c) PROVE SharedGroupsStay'
  <2>1. job[c].ips # NoGroup
    BY <1>b, <1>c DEF NoGroup
  <2> QED
    BY <1>26, <1>a, <2>1, EnsureWriteDoes DEF World
<1>27. ASSUME NEW c \in Command, EnsureDone(c) PROVE SharedGroupsStay'
  BY <1>27, <1>a, <1>b, EnsureDoneDoes DEF Rests
<1>28. ASSUME NEW c \in Command, Crash(c) PROVE SharedGroupsStay'
  BY <1>28, <1>a, <1>b, CrashDoes DEF Rests
<1>29. ASSUME NEW n \in Name, VmCreated(n) PROVE SharedGroupsStay'
  BY <1>29, <1>a, <1>b DEF VmCreated
<1>30. CASE UNCHANGED vars
  BY <1>30, <1>a, <1>b, <1>c DEF vars
<1> QED
  BY <1>1, <1>2, <1>3, <1>4, <1>5, <1>6, <1>7, <1>8, <1>9, <1>10, <1>11, <1>12, <1>13, <1>14,
     <1>15, <1>16, <1>17, <1>18, <1>19, <1>20, <1>21, <1>22, <1>23, <1>24, <1>25, <1>26, <1>27,
     <1>28, <1>29, <1>30 DEF Next, Add, Delete, Redeploy, Edit, Ensure

\* The tags of machines are among those that are given.
LEMMA TagsGivenStep == BaseInv /\ TagsGiven /\ [Next]_vars => TagsGiven'
<1> SUFFICES ASSUME BaseInv, TagsGiven, [Next]_vars PROVE TagsGiven'
  OBVIOUS
<1> USE DEF cloudVars, TagsGiven
<1>a. TypeOK /\ World /\ Steps /\ job \in [Command -> Jobs]
  BY TypeParts DEF BaseInv
<1>b. \A d \in Command :
           /\ job[d] \in Jobs /\ job[d].pc \in Step /\ job[d].nm \in Name \cup {None}
           /\ job[d].roles \subseteq Role /\ job[d].tags \subseteq Role
           /\ job[d].todo \subseteq Name /\ job[d].ips \subseteq Address
           /\ job[d].write \subseteq Type
  BY <1>a, JobTypes
<1>c. None \notin Address \cup Name \cup Type
  BY AzureAssumption
<1>1. ASSUME NEW c \in Command, AddStart(c) PROVE TagsGiven'
  <2>1. PICK n \in Name, roles \in RoleChoice, management \in Management, skip \in Skip,
             storage \in {"none", "new"} :
            /\ MayStart(c, n, ~skip) /\ vm[n] = "none"
            /\ Starts(c, "add", "nic", n, roles,
                      roles \cup (IF management THEN {"management"} ELSE {}), storage, skip, FALSE)
            /\ ip' = [ip EXCEPT ![n] = TRUE]
            /\ UNCHANGED <<vm, tags, lun, disk, nic, addr, group, dirty, unmatched, crashes>>
    BY <1>1, <1>a, AddStartDoes
  <2>2. /\ job'[c].tags = roles \cup (IF management THEN {"management"} ELSE {})
        /\ \A d \in Command \ {c} : job'[d] = job[d]
    BY <2>1 DEF Starts
  <2>3. job'[c].tags \in GivenTags
    BY <2>2 DEF GivenTags
  <2> QED
    BY <2>1, <2>2, <2>3
<1>2. ASSUME NEW c \in Command, AddNic(c) PROVE TagsGiven'
  BY <1>2, <1>a, <1>b, AddNicDoes DEF Moves, Goes, Rests
<1>3. ASSUME NEW c \in Command, AddVm(c) PROVE TagsGiven'
  BY <1>3, <1>a, AddVmDoes DEF Moves, Goes, Rests, World, Steps, NewStep
<1>4. ASSUME NEW c \in Command, AddRefused(c) PROVE TagsGiven'
  BY <1>4, <1>a, <1>b, AddRefusedDoes DEF Moves, Goes
<1>5. ASSUME NEW c \in Command, AddSlowNic(c) PROVE TagsGiven'
  BY <1>5, <1>a, <1>b, AddSlowNicDoes DEF Moves, Goes
<1>6. ASSUME NEW c \in Command, AddCreated(c) PROVE TagsGiven'
  BY <1>6, <1>a, <1>b, AddCreatedDoes DEF Moves, Goes, Rests
<1>7. ASSUME NEW c \in Command, DeleteStart(c) PROVE TagsGiven'
  <2>1. \E n \in Name, skip \in Skip : Starts(c, "delete", "get", n, {}, {}, "none", skip, FALSE)
    BY <1>7, <1>a, DeleteStartDoes
  <2>2. UNCHANGED <<vm, tags>>
    BY <1>7, <1>a, DeleteStartDoes
  <2>3. job'[c].cmd \in {"delete", "ensure"} /\ \A d \in Command \ {c} : job'[d] = job[d]
    BY <2>1 DEF Starts
  <2> QED
    BY <2>2, <2>3
<1>8. ASSUME NEW c \in Command, DeleteGet(c) PROVE TagsGiven'
  BY <1>8, <1>a, <1>b, DeleteGetDoes DEF Goes, Rests
<1>9. ASSUME NEW c \in Command, DeleteVm(c) PROVE TagsGiven'
  BY <1>9, <1>a, <1>b, DeleteVmDoes DEF Moves, Goes, World
<1>10. ASSUME NEW c \in Command, DeleteNic(c) PROVE TagsGiven'
  BY <1>10, <1>a, <1>b, DeleteNicDoes DEF Moves, Goes, Rests
<1>11. ASSUME NEW c \in Command, DeleteIp(c) PROVE TagsGiven'
  BY <1>11, <1>a, <1>b, DeleteIpDoes DEF Rests
<1>12. ASSUME NEW c \in Command, DeleteDisk(c) PROVE TagsGiven'
  BY <1>12, <1>a, <1>b, DeleteDiskDoes DEF Goes, Rests
<1>13. ASSUME NEW c \in Command, DeletedAll(c) PROVE TagsGiven'
  BY <1>13, <1>a, <1>b, DeletedAllDoes DEF Moves, Goes
<1>14. ASSUME NEW c \in Command, DeleteGroup(c) PROVE TagsGiven'
  BY <1>14, <1>a, <1>b, DeleteGroupDoes DEF Moves, Goes, Rests
<1>15. ASSUME NEW c \in Command, RedeployStart(c) PROVE TagsGiven'
  <2>1. PICK n \in Name :
            /\ vm[n] # "none"
            /\ Starts(c, "redeploy", "off", n, {}, tags[n],
                       IF lun[n] THEN "attach" ELSE "none", FALSE, FALSE)
    BY <1>15, <1>a, RedeployStartDoes
  <2>2. UNCHANGED <<vm, tags>>
    BY <1>15, <1>a, RedeployStartDoes
  <2>3. job'[c].tags = tags[n]
        /\ \A d \in Command \ {c} : job'[d] = job[d]
    BY <2>1 DEF Starts
  <2> QED
    BY <2>1, <2>2, <2>3 DEF GivenTags
<1>16. ASSUME NEW c \in Command, RedeployPowerOff(c) PROVE TagsGiven'
  BY <1>16, <1>a, <1>b, RedeployPowerOffDoes DEF Moves, Goes, Rests, World
<1>17. ASSUME NEW c \in Command, RedeployDetach(c) PROVE TagsGiven'
  BY <1>17, <1>a, <1>b, RedeployDetachDoes DEF Moves, Goes, Rests
<1>18. ASSUME NEW c \in Command, RedeployAdd(c) PROVE TagsGiven'
  BY <1>18, <1>a, <1>b, RedeployAddDoes DEF Goes, Rests
<1>19. ASSUME NEW c \in Command, EditStart(c) PROVE TagsGiven'
  <2>1. PICK n \in Name, roles \in RoleChoice :
            Starts(c, "edit", "editNic", n, {}, roles, "none", TRUE, lun[n])
    BY <1>19, <1>a, EditStartDoes
  <2>2. UNCHANGED <<vm, tags>>
    BY <1>19, <1>a, EditStartDoes
  <2>3. job'[c].tags = roles
        /\ \A d \in Command \ {c} : job'[d] = job[d]
    BY <2>1 DEF Starts
  <2> QED
    BY <2>1, <2>2, <2>3 DEF GivenTags
<1>20. ASSUME NEW c \in Command, EditNic(c) PROVE TagsGiven'
  BY <1>20, <1>a, <1>b, EditNicDoes DEF Moves, Goes, Rests
<1>21. ASSUME NEW c \in Command, EditVm(c) PROVE TagsGiven'
  BY <1>21, <1>a, <1>b, EditVmDoes DEF Rests, World, Steps
<1>22. ASSUME NEW c \in Command, EnsureStart(c) PROVE TagsGiven'
  <2>1. Starts(c, "ensure", "list", None, {}, {}, "none", FALSE, FALSE)
    BY <1>22, <1>a, EnsureStartDoes
  <2>2. UNCHANGED <<vm, tags>>
    BY <1>22, <1>a, EnsureStartDoes
  <2>3. job'[c].cmd \in {"delete", "ensure"} /\ \A d \in Command \ {c} : job'[d] = job[d]
    BY <2>1 DEF Starts
  <2> QED
    BY <2>2, <2>3
<1>23. ASSUME NEW c \in Command, EnsureList(c) PROVE TagsGiven'
  BY <1>23, <1>a, <1>b, EnsureListDoes DEF Goes
<1>24. ASSUME NEW c \in Command, EnsureIp(c) PROVE TagsGiven'
  BY <1>24, <1>a, <1>b, EnsureIpDoes DEF Goes, Rests
<1>25. ASSUME NEW c \in Command, EnsureGroups(c) PROVE TagsGiven'
  BY <1>25, <1>a, <1>b, EnsureGroupsDoes DEF Goes
<1>26. ASSUME NEW c \in Command, EnsureWrite(c) PROVE TagsGiven'
  BY <1>26, <1>a, <1>b, EnsureWriteDoes DEF Goes, Rests
<1>27. ASSUME NEW c \in Command, EnsureDone(c) PROVE TagsGiven'
  BY <1>27, <1>a, <1>b, EnsureDoneDoes DEF Rests
<1>28. ASSUME NEW c \in Command, Crash(c) PROVE TagsGiven'
  BY <1>28, <1>a, <1>b, CrashDoes DEF Rests
<1>29. ASSUME NEW n \in Name, VmCreated(n) PROVE TagsGiven'
  BY <1>29, <1>a DEF VmCreated, World
<1>30. CASE UNCHANGED vars
  BY <1>30, <1>a, <1>b, <1>c DEF vars
<1> QED
  BY <1>1, <1>2, <1>3, <1>4, <1>5, <1>6, <1>7, <1>8, <1>9, <1>10, <1>11, <1>12, <1>13, <1>14,
     <1>15, <1>16, <1>17, <1>18, <1>19, <1>20, <1>21, <1>22, <1>23, <1>24, <1>25, <1>26, <1>27,
     <1>28, <1>29, <1>30 DEF Next, Add, Delete, Redeploy, Edit, Ensure

\* The disk stays in hand when nothing about disks changes and no command lets go of one.
LEMMA HandedOn ==
    ASSUME DiskOnItsWay, NEW c \in Command, UNCHANGED <<disk, lun, crashes>>,
           \A d \in Command \ {c} : job'[d] = job[d],
           Carries(c) => job'[c].nm = job[c].nm /\ Carries(c)'
    PROVE  DiskOnItsWay'
<1>1. \A d \in Command \ {c} : Carries(d)' <=> Carries(d)
  BY DEF Carries
<1> QED
  BY <1>1 DEF DiskOnItsWay

\* No two commands have the same machine in hand.
LEMMA OneWorker ==
    ASSUME BaseInv, NEW c \in Command, NEW d \in Command,
           job[c].pc \notin RuleStep \cup {"idle"}, job[d].pc # "idle", job[c].nm = job[d].nm
    PROVE  c = d
BY DEF BaseInv, Apart

\* The disk that no machine has is being deleted or on its way.
LEMMA DiskOnItsWayStep ==
    Alone /\ (\A roles \in GivenTags : NsgType(roles) \in Type) /\ Name \cap Type = {}
    /\ BaseInv /\ SharedGroupsStay /\ TagsGiven /\ DiskOnItsWay /\ [Next]_vars
    => DiskOnItsWay'
<1> SUFFICES ASSUME Alone, (\A roles \in GivenTags : NsgType(roles) \in Type),
                    Name \cap Type = {}, BaseInv, SharedGroupsStay, TagsGiven, DiskOnItsWay,
                    [Next]_vars
             PROVE  DiskOnItsWay'
  OBVIOUS
<1> USE DEF cloudVars
<1>a. TypeOK /\ World /\ Steps /\ job \in [Command -> Jobs]
  BY TypeParts DEF BaseInv
<1>b. \A d \in Command :
           /\ job[d] \in Jobs /\ job[d].pc \in Step /\ job[d].nm \in Name \cup {None}
           /\ job[d].roles \subseteq Role /\ job[d].tags \subseteq Role
           /\ job[d].todo \subseteq Name /\ job[d].ips \subseteq Address
           /\ job[d].write \subseteq Type
  BY <1>a, JobTypes
<1>c. None \notin Address \cup Name \cup Type
  BY AzureAssumption
<1>d. MachineInv /\ Apart /\ Work /\ Redeploying
  BY DEF BaseInv
<1>1. ASSUME NEW c \in Command, AddStart(c) PROVE DiskOnItsWay'
  <2>1. UNCHANGED <<disk, lun, crashes>>
    BY <1>1, <1>a, AddStartDoes
  <2>2. job[c].pc = "idle" /\ \A d \in Command \ {c} : job'[d] = job[d]
    BY <1>1, <1>a, AddStartDoes DEF MayStart, At, Starts
  <2>3. ~Carries(c)
    BY <2>2 DEF Carries, NewStep, GoneStep
  <2> QED
    BY <2>1, <2>2, <2>3, HandedOn
<1>2. ASSUME NEW c \in Command, AddNic(c) PROVE DiskOnItsWay'
  <2>1. UNCHANGED <<disk, lun, crashes>>
    BY <1>2, <1>a, AddNicDoes
  <2>2. \A d \in Command \ {c} : job'[d] = job[d]
    BY <1>2, <1>a, AddNicDoes DEF Moves, Goes, Rests
  <2>3. ASSUME Carries(c)
        PROVE  job'[c].nm = job[c].nm /\ Carries(c)'
    <3>1. job[c].cmd = "redeploy" /\ job[c].storage = "attach" /\ job[c].pc = "nic"
      BY <1>2, <1>a, <2>3, AddNicDoes DEF Carries
    <3>2. ip[job[c].nm] /\ job[c].roles = job[c].tags
      BY <1>d, <3>1 DEF Work, Redeploying, NewStep
    <3>3. NsgType(job[c].tags) \in Type
      BY <3>1 DEF TagsGiven
    <3>4. Exists(NsgType(job[c].roles))
      BY <3>2, <3>3 DEF Exists, SharedGroupsStay
    <3>5. Moves(c, "vm")
      BY <1>2, <1>a, <3>2, <3>4, AddNicDoes
    <3> QED
      BY <3>1, <3>5 DEF Moves, Goes, Carries, NewStep
  <2> QED
    BY <2>1, <2>2, <2>3, HandedOn
<1>3. ASSUME NEW c \in Command, AddVm(c) PROVE DiskOnItsWay'
  <2> DEFINE m == job[c].nm
  <2>1. /\ job[c].pc = "vm" /\ m \in Name /\ vm[m] = "none" /\ nic[m] # None /\ ~lun[m]
        /\ job[c].storage \in {"none", "new", "attach"}
    BY <1>3, <1>d, <1>a, <1>b, AddVmDoes, JobTypes, <1>c
       DEF Work, Steps, MachineInv, NewStep, RuleStep
  <2>2. \A d \in Command \ {c} : job'[d] = job[d]
    BY <1>3, <1>a, AddVmDoes DEF Moves, Goes, Rests
  <2>3. \A d \in Command \ {c} : (Carries(d)' <=> Carries(d)) /\ job'[d].nm = job[d].nm
    BY <2>2 DEF Carries
  <2>4. \A d \in Command : Carries(d) /\ job[d].nm = m => d = c
    BY <2>1, OneWorker DEF Carries, RuleStep, GoneStep, NewStep
  <2>5. crashes = 0 /\ disk[m] => job[c].storage = "attach"
    BY <2>1, <2>4 DEF DiskOnItsWay, Carries
  <2>6. CASE /\ job[c].storage # "none" => disk[m] = (job[c].storage = "attach")
             /\ lun' = [lun EXCEPT ![m] = job[c].storage # "none"]
             /\ disk' = [disk EXCEPT ![m] = @ \/ job[c].storage = "new"]
             /\ UNCHANGED crashes
    <3>1. \A n \in Name \ {m} : lun'[n] = lun[n] /\ disk'[n] = disk[n]
      BY <1>a, <2>6
    <3>2. lun'[m] <=> job[c].storage # "none"
      BY <1>a, <2>1, <2>6 DEF World
    <3>3. disk'[m] => disk[m] \/ job[c].storage = "new"
      BY <1>a, <2>1, <2>6 DEF World
    <3>4. crashes = 0 => ~(disk'[m] /\ ~lun'[m])
      BY <2>5, <3>2, <3>3
    <3> QED
      BY <2>3, <2>6, <3>1, <3>4 DEF DiskOnItsWay
  <2>7. CASE /\ ~(job[c].storage # "none" => disk[m] = (job[c].storage = "attach"))
             /\ UNCHANGED <<lun, disk, crashes>>
    <3>1. disk[m] \in BOOLEAN
      BY <1>a, <2>1 DEF World
    <3>2. crashes = 0 => ~disk[m]
      BY <2>5, <2>7, <3>1
    <3> QED
      BY <2>3, <2>7, <3>2 DEF DiskOnItsWay
  <2> QED
    BY <1>3, <1>a, <2>1, <2>6, <2>7, AddVmDoes
<1>4. ASSUME NEW c \in Command, AddRefused(c) PROVE DiskOnItsWay'
  <2>1. UNCHANGED <<disk, lun, crashes>>
    BY <1>4, <1>a, AddRefusedDoes
  <2>2. \A d \in Command \ {c} : job'[d] = job[d]
    BY <1>4, <1>a, AddRefusedDoes DEF Moves, Goes
  <2>3. Carries(c) => job'[c].nm = job[c].nm /\ Carries(c)'
    BY <1>4, <1>a, AddRefusedDoes DEF Carries, Moves, Goes, NewStep
  <2> QED
    BY <2>1, <2>2, <2>3, HandedOn
<1>5. ASSUME NEW c \in Command, AddSlowNic(c) PROVE DiskOnItsWay'
  <2>1. UNCHANGED <<disk, lun, crashes>>
    BY <1>5, <1>a, AddSlowNicDoes
  <2>2. \A d \in Command \ {c} : job'[d] = job[d]
    BY <1>5, <1>a, AddSlowNicDoes DEF Moves, Goes
  <2>3. Carries(c) => job'[c].nm = job[c].nm /\ Carries(c)'
    BY <1>5, <1>a, AddSlowNicDoes DEF Carries, Moves, Goes, NewStep
  <2> QED
    BY <2>1, <2>2, <2>3, HandedOn
<1>6. ASSUME NEW c \in Command, AddCreated(c) PROVE DiskOnItsWay'
  <2>1. UNCHANGED <<disk, lun, crashes>>
    BY <1>6, <1>a, AddCreatedDoes
  <2>2. \A d \in Command \ {c} : job'[d] = job[d]
    BY <1>6, <1>a, AddCreatedDoes DEF Moves, Goes, Rests
  <2>3. Carries(c) => job'[c].nm = job[c].nm /\ Carries(c)'
    BY <1>6, <1>a, AddCreatedDoes DEF Carries, NewStep, GoneStep
  <2> QED
    BY <2>1, <2>2, <2>3, HandedOn
<1>7. ASSUME NEW c \in Command, DeleteStart(c) PROVE DiskOnItsWay'
  <2>1. UNCHANGED <<disk, lun, crashes>>
    BY <1>7, <1>a, DeleteStartDoes
  <2>2. job[c].pc = "idle" /\ \A d \in Command \ {c} : job'[d] = job[d]
    BY <1>7, <1>a, DeleteStartDoes DEF MayStart, At, Starts
  <2>3. ~Carries(c)
    BY <2>2 DEF Carries, NewStep, GoneStep
  <2> QED
    BY <2>1, <2>2, <2>3, HandedOn
<1>8. ASSUME NEW c \in Command, DeleteGet(c) PROVE DiskOnItsWay'
  <2>1. UNCHANGED <<disk, lun, crashes>>
    BY <1>8, <1>a, DeleteGetDoes
  <2>2. \A d \in Command \ {c} : job'[d] = job[d]
    BY <1>8, <1>a, DeleteGetDoes DEF Goes, Rests
  <2>3. Carries(c) => job'[c].nm = job[c].nm /\ Carries(c)'
    BY <1>8, <1>d, <1>a, DeleteGetDoes DEF Carries, Goes, Work, LiveStep
  <2> QED
    BY <2>1, <2>2, <2>3, HandedOn
<1>9. ASSUME NEW c \in Command, DeleteVm(c) PROVE DiskOnItsWay'
  <2> DEFINE m == job[c].nm
  <2>1. /\ job[c].pc = "vmGone" /\ Moves(c, "nicGone") /\ m \in Name
        /\ UNCHANGED <<disk, crashes>> /\ \A n \in Name \ {m} : lun'[n] = lun[n]
    BY <1>9, <1>a, DeleteVmDoes DEF Steps, RuleStep, World
  <2>2. /\ job'[c].pc = "nicGone" /\ job'[c].nm = m /\ job'[c].cmd = job[c].cmd
        /\ job'[c].storage = job[c].storage /\ (job'[c].lun <=> job[c].lun)
        /\ \A d \in Command \ {c} : job'[d] = job[d]
    BY <2>1 DEF Moves, Goes
  <2>3. \A d \in Command \ {c} : (Carries(d)' <=> Carries(d)) /\ job'[d].nm = job[d].nm
    BY <2>2 DEF Carries
  <2>4. Carries(c) => Carries(c)'
    BY <2>1, <2>2 DEF Carries, GoneStep
  <2>5. lun[m] => Carries(c)'
    BY <1>a, <1>d, <2>1, <2>2 DEF Work, Redeploying, Steps, Carries, GoneStep
  <2>6. CASE lun[m]
    BY <2>1, <2>2, <2>3, <2>4, <2>5, <2>6 DEF DiskOnItsWay
  <2>7. CASE ~lun[m]
    BY <2>1, <2>2, <2>3, <2>4, <2>7 DEF DiskOnItsWay
  <2> QED
    BY <2>6, <2>7
<1>10. ASSUME NEW c \in Command, DeleteNic(c) PROVE DiskOnItsWay'
  <2>1. UNCHANGED <<disk, lun, crashes>>
    BY <1>10, <1>a, DeleteNicDoes
  <2>2. \A d \in Command \ {c} : job'[d] = job[d]
    BY <1>10, <1>a, DeleteNicDoes DEF Moves, Goes, Rests
  <2>3. Carries(c) => job'[c].nm = job[c].nm /\ Carries(c)'
    BY <1>10, <1>d, <1>a, DeleteNicDoes DEF Carries, Moves, Goes, Work, GoneStep
  <2> QED
    BY <2>1, <2>2, <2>3, HandedOn
<1>11. ASSUME NEW c \in Command, DeleteIp(c) PROVE DiskOnItsWay'
  <2>1. UNCHANGED <<disk, lun, crashes>>
    BY <1>11, <1>a, DeleteIpDoes
  <2>2. \A d \in Command \ {c} : job'[d] = job[d]
    BY <1>11, <1>a, DeleteIpDoes DEF Rests
  <2>3. Carries(c) => job'[c].nm = job[c].nm /\ Carries(c)'
    BY <1>11, <1>d, <1>a, DeleteIpDoes DEF Carries, Work
  <2> QED
    BY <2>1, <2>2, <2>3, HandedOn
<1>12. ASSUME NEW c \in Command, DeleteDisk(c) PROVE DiskOnItsWay'
  <2> DEFINE m == job[c].nm
  <2>1. /\ job[c].pc = "ipGone" /\ m \in Name /\ ~lun[m]
    BY <1>12, <1>d, <1>a, DeleteDiskDoes DEF Steps, RuleStep, Work, MachineInv, GoneStep
  <2>2. /\ disk' = [disk EXCEPT ![m] = FALSE] /\ UNCHANGED <<lun, crashes>>
        /\ Goes(c, "ipGone", job[c].roles, FALSE, job[c].todo, job[c].ips, job[c].write)
    BY <1>12, <1>a, <2>1, DeleteDiskDoes
  <2>3. ~disk'[m] /\ \A n \in Name \ {m} : disk'[n] = disk[n]
    BY <1>a, <2>1, <2>2 DEF World
  <2>4. \A d \in Command \ {c} : job'[d] = job[d]
    BY <2>2 DEF Goes
  <2>5. \A d \in Command \ {c} : (Carries(d)' <=> Carries(d)) /\ job'[d].nm = job[d].nm
    BY <2>4 DEF Carries
  <2> QED
    BY <2>2, <2>3, <2>5 DEF DiskOnItsWay
<1>13. ASSUME NEW c \in Command, DeletedAll(c) PROVE DiskOnItsWay'
  <2>1. UNCHANGED <<disk, lun, crashes>>
    BY <1>13, <1>a, DeletedAllDoes
  <2>2. \A d \in Command \ {c} : job'[d] = job[d]
    BY <1>13, <1>a, DeletedAllDoes DEF Moves, Goes
  <2>3. Carries(c) => job'[c].nm = job[c].nm /\ Carries(c)'
    BY <1>13, <1>a, DeletedAllDoes DEF Carries, Moves, Goes, GoneStep
  <2> QED
    BY <2>1, <2>2, <2>3, HandedOn
<1>14. ASSUME NEW c \in Command, DeleteGroup(c) PROVE DiskOnItsWay'
  <2>1. UNCHANGED <<disk, lun, crashes>>
    BY <1>14, <1>a, DeleteGroupDoes
  <2>2. \A d \in Command \ {c} : job'[d] = job[d]
    BY <1>14, <1>a, DeleteGroupDoes DEF Moves, Goes, Rests
  <2>3. Carries(c) => job'[c].nm = job[c].nm /\ Carries(c)'
    BY <1>14, <1>a, DeleteGroupDoes DEF Carries, Moves, Goes, Steps, RuleStep
  <2> QED
    BY <2>1, <2>2, <2>3, HandedOn
<1>15. ASSUME NEW c \in Command, RedeployStart(c) PROVE DiskOnItsWay'
  <2>1. UNCHANGED <<disk, lun, crashes>>
    BY <1>15, <1>a, RedeployStartDoes
  <2>2. job[c].pc = "idle" /\ \A d \in Command \ {c} : job'[d] = job[d]
    BY <1>15, <1>a, RedeployStartDoes DEF MayStart, At, Starts
  <2>3. ~Carries(c)
    BY <2>2 DEF Carries, NewStep, GoneStep
  <2> QED
    BY <2>1, <2>2, <2>3, HandedOn
<1>16. ASSUME NEW c \in Command, RedeployPowerOff(c) PROVE DiskOnItsWay'
  <2>1. UNCHANGED <<disk, lun, crashes>>
    BY <1>16, <1>a, RedeployPowerOffDoes
  <2>2. \A d \in Command \ {c} : job'[d] = job[d]
    BY <1>16, <1>a, RedeployPowerOffDoes DEF Moves, Goes, Rests
  <2>3. Carries(c) => job'[c].nm = job[c].nm /\ Carries(c)'
    BY <1>16, <1>a, RedeployPowerOffDoes DEF Carries, NewStep, GoneStep
  <2> QED
    BY <2>1, <2>2, <2>3, HandedOn
<1>17. ASSUME NEW c \in Command, RedeployDetach(c) PROVE DiskOnItsWay'
  <2> DEFINE m == job[c].nm
  <2>1. /\ job[c].pc = "detach" /\ m \in Name /\ vm[m] # "none"
        /\ job[c].cmd = "redeploy" /\ job[c].storage = "attach"
    BY <1>17, <1>d, <1>a, RedeployDetachDoes
       DEF Steps, RuleStep, PowerStep, Work, LiveStep, Redeploying
  <2>2. lun' = [lun EXCEPT ![m] = FALSE] /\ UNCHANGED <<disk, crashes>> /\ Moves(c, "get")
    BY <1>17, <1>a, <2>1, RedeployDetachDoes
  <2>3. /\ job'[c].pc = "get" /\ job'[c].nm = m /\ job'[c].cmd = "redeploy"
        /\ job'[c].storage = "attach"
        /\ \A d \in Command \ {c} : job'[d] = job[d]
    BY <2>1, <2>2 DEF Moves, Goes
  <2>4. \A d \in Command \ {c} : (Carries(d)' <=> Carries(d)) /\ job'[d].nm = job[d].nm
    BY <2>3 DEF Carries
  <2>5. Carries(c)' /\ \A n \in Name \ {m} : lun'[n] = lun[n]
    BY <1>a, <2>2, <2>3 DEF Carries, World
  <2> QED
    BY <2>2, <2>3, <2>4, <2>5 DEF DiskOnItsWay
<1>18. ASSUME NEW c \in Command, RedeployAdd(c) PROVE DiskOnItsWay'
  <2>1. UNCHANGED <<disk, lun, crashes>>
    BY <1>18, <1>a, RedeployAddDoes
  <2>2. \A d \in Command \ {c} : job'[d] = job[d]
    BY <1>18, <1>a, RedeployAddDoes DEF Goes, Rests
  <2>3. Carries(c) => job'[c].nm = job[c].nm /\ Carries(c)'
    BY <1>18, <1>d, <1>a, RedeployAddDoes DEF Carries, Goes, Work, NewStep
  <2> QED
    BY <2>1, <2>2, <2>3, HandedOn
<1>19. ASSUME NEW c \in Command, EditStart(c) PROVE DiskOnItsWay'
  <2>1. UNCHANGED <<disk, lun, crashes>>
    BY <1>19, <1>a, EditStartDoes
  <2>2. job[c].pc = "idle" /\ \A d \in Command \ {c} : job'[d] = job[d]
    BY <1>19, <1>a, EditStartDoes DEF MayStart, At, Starts
  <2>3. ~Carries(c)
    BY <2>2 DEF Carries, NewStep, GoneStep
  <2> QED
    BY <2>1, <2>2, <2>3, HandedOn
<1>20. ASSUME NEW c \in Command, EditNic(c) PROVE DiskOnItsWay'
  <2>1. UNCHANGED <<disk, lun, crashes>>
    BY <1>20, <1>a, EditNicDoes
  <2>2. \A d \in Command \ {c} : job'[d] = job[d]
    BY <1>20, <1>a, EditNicDoes DEF Moves, Goes, Rests
  <2>3. Carries(c) => job'[c].nm = job[c].nm /\ Carries(c)'
    BY <1>20, <1>a, EditNicDoes DEF Carries, NewStep, GoneStep
  <2> QED
    BY <2>1, <2>2, <2>3, HandedOn
<1>21. ASSUME NEW c \in Command, EditVm(c) PROVE DiskOnItsWay'
  <2> DEFINE m == job[c].nm
  <2>1. /\ job[c].pc = "editVm" /\ m \in Name /\ UNCHANGED <<disk, crashes>> /\ Rests(c)
        /\ (job[c].lun <=> lun[m])
    BY <1>21, <1>d, <1>a, EditVmDoes DEF Steps, RuleStep, Work
  <2>2. \A n \in Name : lun'[n] <=> lun[n]
    BY <1>21, <1>a, <2>1, EditVmDoes DEF World
  <2>3. \A d \in Command \ {c} : job'[d] = job[d]
    BY <2>1 DEF Rests
  <2>4. \A d \in Command \ {c} : (Carries(d)' <=> Carries(d)) /\ job'[d].nm = job[d].nm
    BY <2>3 DEF Carries
  <2>5. ~Carries(c)
    BY <2>1 DEF Carries, NewStep, GoneStep
  <2> QED
    BY <2>1, <2>2, <2>4, <2>5 DEF DiskOnItsWay
<1>22. ASSUME NEW c \in Command, EnsureStart(c) PROVE DiskOnItsWay'
  <2>1. UNCHANGED <<disk, lun, crashes>>
    BY <1>22, <1>a, EnsureStartDoes
  <2>2. job[c].pc = "idle" /\ \A d \in Command \ {c} : job'[d] = job[d]
    BY <1>22, <1>a, EnsureStartDoes DEF MayStart, At, Starts
  <2>3. ~Carries(c)
    BY <2>2 DEF Carries, NewStep, GoneStep
  <2> QED
    BY <2>1, <2>2, <2>3, HandedOn
<1>23. ASSUME NEW c \in Command, EnsureList(c) PROVE DiskOnItsWay'
  <2>1. UNCHANGED <<disk, lun, crashes>>
    BY <1>23, <1>a, EnsureListDoes
  <2>2. \A d \in Command \ {c} : job'[d] = job[d]
    BY <1>23, <1>a, EnsureListDoes DEF Goes
  <2>3. Carries(c) => job'[c].nm = job[c].nm /\ Carries(c)'
    BY <1>23, <1>a, EnsureListDoes DEF Carries, NewStep, GoneStep
  <2> QED
    BY <2>1, <2>2, <2>3, HandedOn
<1>24. ASSUME NEW c \in Command, EnsureIp(c) PROVE DiskOnItsWay'
  <2>1. UNCHANGED <<disk, lun, crashes>>
    BY <1>24, <1>a, EnsureIpDoes
  <2>2. \A d \in Command \ {c} : job'[d] = job[d]
    BY <1>24, <1>a, EnsureIpDoes DEF Goes, Rests
  <2>3. Carries(c) => job'[c].nm = job[c].nm /\ Carries(c)'
    BY <1>24, <1>a, EnsureIpDoes DEF Carries, NewStep, GoneStep
  <2> QED
    BY <2>1, <2>2, <2>3, HandedOn
<1>25. ASSUME NEW c \in Command, EnsureGroups(c) PROVE DiskOnItsWay'
  <2>1. UNCHANGED <<disk, lun, crashes>>
    BY <1>25, <1>a, EnsureGroupsDoes
  <2>2. \A d \in Command \ {c} : job'[d] = job[d]
    BY <1>25, <1>a, EnsureGroupsDoes DEF Goes
  <2>3. Carries(c) => job'[c].nm = job[c].nm /\ Carries(c)'
    BY <1>25, <1>a, EnsureGroupsDoes DEF Carries, NewStep, GoneStep
  <2> QED
    BY <2>1, <2>2, <2>3, HandedOn
<1>26. ASSUME NEW c \in Command, EnsureWrite(c) PROVE DiskOnItsWay'
  <2>1. UNCHANGED <<disk, lun, crashes>>
    BY <1>26, <1>a, EnsureWriteDoes
  <2>2. \A d \in Command \ {c} : job'[d] = job[d]
    BY <1>26, <1>a, EnsureWriteDoes DEF Goes, Rests
  <2>3. Carries(c) => job'[c].nm = job[c].nm /\ Carries(c)'
    BY <1>26, <1>a, EnsureWriteDoes DEF Carries, NewStep, GoneStep
  <2> QED
    BY <2>1, <2>2, <2>3, HandedOn
<1>27. ASSUME NEW c \in Command, EnsureDone(c) PROVE DiskOnItsWay'
  <2>1. UNCHANGED <<disk, lun, crashes>>
    BY <1>27, <1>a, EnsureDoneDoes
  <2>2. \A d \in Command \ {c} : job'[d] = job[d]
    BY <1>27, <1>a, EnsureDoneDoes DEF Rests
  <2>3. Carries(c) => job'[c].nm = job[c].nm /\ Carries(c)'
    BY <1>27, <1>a, EnsureDoneDoes DEF Carries, NewStep, GoneStep
  <2> QED
    BY <2>1, <2>2, <2>3, HandedOn
<1>28. ASSUME NEW c \in Command, Crash(c) PROVE DiskOnItsWay'
  <2>1. crashes \in Nat /\ crashes' = crashes + 1
    BY <1>28, <1>a, CrashDoes DEF World
  <2> QED
    BY <2>1 DEF DiskOnItsWay
<1>29. ASSUME NEW n \in Name, VmCreated(n) PROVE DiskOnItsWay'
  <2>1. UNCHANGED <<disk, lun, crashes, job>>
    BY <1>29 DEF VmCreated
  <2> QED
    BY <2>1 DEF DiskOnItsWay, Carries
<1>30. CASE UNCHANGED vars
  BY <1>30, <1>a, <1>b, <1>c, <1>d  DEF vars, DiskOnItsWay, Carries
<1> QED
  BY <1>1, <1>2, <1>3, <1>4, <1>5, <1>6, <1>7, <1>8, <1>9, <1>10, <1>11, <1>12, <1>13, <1>14,
     <1>15, <1>16, <1>17, <1>18, <1>19, <1>20, <1>21, <1>22, <1>23, <1>24, <1>25, <1>26, <1>27,
     <1>28, <1>29, <1>30 DEF Next, Add, Delete, Redeploy, Edit, Ensure

\* An operator who heeds the rule, in a region that has the groups of all tags and in which no
\* machine is named like a group: as long as no command has died, a redeploy that is through
\* has attached the data disk, if there is one, to the new machine.
THEOREM RedeployKeepsTheDisk ==
    ASSUME Alone, Name \cap Type = {}, \A roles \in GivenTags : NsgType(roles) \in Type
    PROVE  Spec => UninterruptedRedeployKeepsDisk
<1>1. Init => DiskIInv
  <2> SUFFICES ASSUME Init PROVE DiskIInv
    OBVIOUS
  <2>1. BaseInv
    BY BaseInit
  <2>2. /\ \A n \in Name : vm[n] = "none"
        /\ \A c \in Command : job[c].cmd = "none"
        /\ \A t \in Type : group[t] = {}
    BY DEF Init, NoJob
  <2>3. \A n \in Name : ~disk[n]
    BY Zenon DEF Init
  <2> QED
    BY <2>1, <2>2, <2>3 DEF DiskIInv, SharedGroupsStay, NoGroup, TagsGiven, DiskOnItsWay
<1>2. DiskIInv /\ [Next]_vars => DiskIInv'
  BY BaseStep, GroupsStayStep, TagsGivenStep, DiskOnItsWayStep DEF DiskIInv
<1>3. DiskIInv => \A c \in Command : crashes = 0 => KeepsDisk(c)
  <2> SUFFICES ASSUME DiskIInv, NEW c \in Command, crashes = 0, job[c].cmd = "redeploy",
                      AddCreated(c), vm[job[c].nm] = "running"
               PROVE  lun[job[c].nm] = disk[job[c].nm]
    BY DEF KeepsDisk
  <2> DEFINE m == job[c].nm
  <2>1. job[c].pc = "creating"
    BY DEF AddCreated, At
  <2>2. m \in Name /\ BaseInv
    BY <2>1 DEF DiskIInv, BaseInv, Steps, RuleStep
  <2>3. \A d \in Command : Carries(d) /\ job[d].nm = m => d = c
    BY <2>1, <2>2, OneWorker DEF Carries, RuleStep, GoneStep, NewStep
  <2>4. ~Carries(c)
    BY <2>1 DEF Carries, GoneStep, NewStep
  <2>5. lun[m] <=> disk[m]
    BY <2>2, <2>3, <2>4 DEF DiskIInv, DiskOnItsWay, BaseInv, MachineInv
  <2>6. lun[m] \in BOOLEAN /\ disk[m] \in BOOLEAN
    BY <2>2 DEF BaseInv, TypeOK
  <2> QED
    BY <2>5, <2>6
<1>4. DiskIInv /\ [Next]_vars => [\A c \in Command : crashes = 0 => KeepsDisk(c)]_vars
  BY <1>3
<1> QED
  BY <1>1, <1>2, <1>4, PTL DEF Spec, UninterruptedRedeployKeepsDisk

===============================================================================
