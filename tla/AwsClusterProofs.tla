--------------------------- MODULE AwsClusterProofs ----------------------------
(***************************************************************************)
(* Proofs about AwsRegion and ClusterIam, the two halves of a cluster on   *)
(* AWS, for every set of regions, VPCs, shells and roles and any number of *)
(* faults.                                                                 *)
(***************************************************************************)
EXTENDS AwsRegion, ClusterIam, FiniteSetTheorems, TLAPS

-------------------------------------------------------------------------------
(* What commands of regions may rely on. *)

\* region-add has updated the firewalls and goes on with the file system.
Late(c) ==
    \/ job[c].pc \in {"efsGroup", "fileSystem", "tagFileSystem", "mount"}
    \/ job[c].pc \in {"create", "tag"} /\ job[c].part = "efsGroup"

\* A region-delete is alone, and several region-adds run only when a core region is
\* complete; each has a VPC of its own.
Apart ==
    /\ \A c \in Command : Deleting(c) =>
           /\ removing = job[c].region /\ job[c].region \in Region
           /\ \A d \in Command \ {c} : Idle(d)
    /\ \A c \in Command : Adding(c) => removing = None
    /\ \A c, d \in Command : Adding(c) /\ Adding(d) /\ c # d =>
           complete \cap core # {} /\ job[c].vpc # job[d].vpc

\* What a region-add has made.
Made(c) ==
    /\ job[c].region \in Region /\ job[c].vpc \in Vpc /\ job[c].host \in Vpc
    /\ region[job[c].vpc] = job[c].region /\ job[c].vpc \notin complete
    /\ vpc[job[c].vpc] = IF job[c].pc = "tagVpc" THEN "untagged" ELSE "tagged"
    /\ region[job[c].host] = job[c].region
    /\ job[c].pc # "tagVpc" => vpc[job[c].host] = "tagged"
    /\ ~Late(c) => job[c].host = job[c].vpc
    /\ job[c].pc \in {"tagVpc", "gateway"} => job[c].part = "routes"
    /\ job[c].pc \in {"findCore", "tagCore", "findCoreAgain"} => part[job[c].vpc]["subnets"] = "tagged"
    /\ job[c].pc \in {"create", "tag"} /\ job[c].part = "groups" => part[job[c].vpc]["subnets"] = "tagged"
    /\ job[c].pc = "tagCore" => core = {}
    /\ job[c].pc = "mount" => fs[job[c].region] = "tagged"

\* It stays until the command ends.
AddProgress == \A c \in Command : Adding(c) => Made(c)

\* A shell without a command remembers nothing.
Ready == \A c \in Command : Idle(c) => job[c] = NoJob

\* Only a region-delete that has found its VPCs works on them.
TakenApart ==
    \A c \in Command : \A v \in Vpc :
        job[c].at[v] # "none" => job[c].pc = "vpcs" /\ region[v] = job[c].region

\* A VPC that EC2 has not created is nowhere.
Unused == \A v \in Vpc : (vpc[v] = "unused" <=> region[v] = None) /\ (vpc[v] = "unused" => v \notin complete)

\* Whatever is in a VPC, the VPC has its tag, so that region-delete finds it.
PartsHang == \A v \in Vpc : \A p \in Part : part[v][p] # "absent" => vpc[v] = "tagged"

\* One VPC is tagged as the core of the cluster, as long as it has subnets.
OneCore ==
    /\ \A v, w \in core : v = w
    /\ \A v \in core : part[v]["subnets"] # "absent"

\* Mount targets need a file system; region-delete removes them before all VPCs.
MountsHaveFs ==
    /\ \A r \in Region : mount[r] # None => fs[r] = "tagged"
    /\ \A c \in Command : job[c].pc \in {"fileSystemGone", "find", "vpcs"} => mount[job[c].region] = None

\* The inductive invariant.
RegionInv ==
    TypeOK /\ Ready /\ Apart /\ AddProgress /\ TakenApart /\ Unused /\ PartsHang /\ OneCore /\ MountsHaveFs

\* A region for which region-add is not repeated has one VPC at a time.
Unique ==
    \A v, w \in Vpc :
        Single(v) /\ region[v] = region[w] /\ {vpc[v], vpc[w]} \subseteq {"untagged", "tagged"} => v = w

\* Without a core region no region with one VPC carries traffic.
Coreless == core = {} => \A v \in complete : Single(v) => ~Open(v)

\* The core region is the last one to be deleted.
CoreLast ==
    \A c \in Command : Deleting(c) /\ job[c].region \in CoreLocations =>
        \A v \in Vpc : vpc[v] = "tagged" => region[v] = job[c].region

\* The rules between a VPC and the core region are where they can be relied on.
Ruled(v, k) ==
    /\ Single(k) => v \in admits[k]
    /\ Single(v) => k \in admits[v]

\* What region-add has done about the firewalls.
Met(c) ==
    /\ job[c].vpc \in core => job[c].pc \in {"findCoreAgain", "allow"} \/ Late(c)
    /\ job[c].pc = "allow" =>
           /\ core # {} /\ job[c].coreSubnets = core
           /\ \A k \in core :
                  /\ region[k] = job[c].core
                  /\ "core" \notin job[c].rules /\ Single(k) => job[c].vpc \in admits[k]
                  /\ "own" \notin job[c].rules /\ Single(job[c].vpc) =>
                         k = job[c].vpc \/ k \in admits[job[c].vpc]
    /\ Late(c) => core # {} /\ \A k \in core : Ruled(job[c].vpc, k)

\* It holds until the command ends.
Connecting == \A c \in Command : Adding(c) => Met(c)

\* Inductive together with RegionInv.
ConnectInv == Unique /\ Coreless /\ CoreLast /\ Connecting /\ RegionsConnected

\* What has no tag yet gets one, where no region-add dies.
NoRemains ==
    /\ \A v \in Vpc : vpc[v] = "untagged" => \E c \in Command : job[c].pc = "tagVpc" /\ job[c].vpc = v
    /\ \A r \in Region : fs[r] = "untagged" => \E c \in Command : job[c].pc = "tagFileSystem" /\ job[c].region = r

\* region-delete gets to the VPCs when the file system is gone, and to its end when the VPCs are.
DeleteProgress ==
    \A c \in Command :
        /\ job[c].pc \in {"find", "vpcs"} => fs[job[c].region] = "none"
        /\ job[c].pc = "vpcs" =>
               \/ \A v \in Vpc : job[c].at[v] = "none"
               \/ \A v \in Vpc : region[v] = job[c].region /\ vpc[v] = "tagged" =>
                      job[c].at[v] \notin {"none", "done"}

\* Inductive together with RegionInv, where no region-add dies.
GoneInv == NoRemains /\ DeleteProgress

-------------------------------------------------------------------------------
(* Lemmas about the steps of region-add and region-delete. *)

\* What a shell does, as in TypeOK.
Jobs == [pc : {"idle"} \cup AddStep \cup DeleteStep, region : Region \cup {None},
         vpc : Vpc \cup {None}, host : Vpc \cup {None}, part : Part, core : Region \cup {None},
         coreSubnets : SUBSET Vpc, rules : SUBSET {"core", "own"},
         at : [Vpc -> {"none", "subnets", "groups", "gateway", "routes", "vpc", "done"}],
         seen : SUBSET (Vpc \X {"groups", "efsGroup"})]

\* The rest of TypeOK.
World ==
    /\ vpc \in [Vpc -> {"unused", "untagged", "tagged", "deleted"}]
    /\ region \in [Vpc -> Region \cup {None}]
    /\ part \in [Vpc -> [Part -> {"absent", "untagged", "tagged"}]]
    /\ gateway \subseteq Vpc
    /\ core \subseteq Vpc
    /\ admits \in [Vpc -> SUBSET Vpc]
    /\ fs \in [Region -> {"none", "untagged", "tagged"}]
    /\ mount \in [Region -> Vpc \cup {None}]
    /\ removing \in Region \cup {None}
    /\ complete \subseteq Vpc
    /\ crashes \in 0..MaxCrashes

\* TypeOK in two parts.
LEMMA TypeParts == TypeOK <=> World /\ job \in [Command -> Jobs]
BY DEF TypeOK, World, Jobs

\* The same of the next state.
LEMMA TypePartsNext == TypeOK' <=> World' /\ job' \in [Command -> Jobs]
BY DEF TypeOK, World, Jobs

\* A shell without a command has a job, too.
LEMMA NoJobType == NoJob \in Jobs
BY DEF NoJob, Jobs, Part

\* The types of the fields.
LEMMA JobTypes ==
    ASSUME job \in [Command -> Jobs], NEW c \in Command
    PROVE  /\ job[c] \in Jobs
           /\ job[c].pc \in {"idle"} \cup AddStep \cup DeleteStep
           /\ job[c].region \in Region \cup {None} /\ job[c].vpc \in Vpc \cup {None}
           /\ job[c].host \in Vpc \cup {None} /\ job[c].part \in Part
           /\ job[c].core \in Region \cup {None} /\ job[c].coreSubnets \subseteq Vpc
           /\ job[c].rules \subseteq {"core", "own"} /\ job[c].seen \subseteq Vpc \X {"groups", "efsGroup"}
           /\ job[c].at \in [Vpc -> {"none", "subnets", "groups", "gateway", "routes", "vpc", "done"}]
<1>1. job[c] \in Jobs
  OBVIOUS
<1> QED
  BY <1>1 DEF Jobs

\* The command ends.
LEMMA Ends ==
    ASSUME job \in [Command -> Jobs], NEW c \in Command, End(c)
    PROVE  /\ job' \in [Command -> Jobs] /\ job'[c] = NoJob
           /\ job'[c].pc = "idle" /\ \A v \in Vpc : job'[c].at[v] = "none"
           /\ \A d \in Command \ {c} : job'[d] = job[d]
<1>1. job' = [job EXCEPT ![c] = NoJob]
  BY DEF End
<1>2. NoJob.pc = "idle" /\ \A v \in Vpc : NoJob.at[v] = "none"
  BY DEF NoJob
<1> QED
  BY <1>1, <1>2, NoJobType

\* The job of shell c is the same but for the next step.
Goes(c, pc) ==
    /\ job' \in [Command -> Jobs] /\ job'[c].pc = pc
    /\ job'[c].region = job[c].region /\ job'[c].vpc = job[c].vpc /\ job'[c].host = job[c].host
    /\ job'[c].part = job[c].part /\ job'[c].core = job[c].core
    /\ job'[c].coreSubnets = job[c].coreSubnets /\ job'[c].rules = job[c].rules
    /\ job'[c].at = job[c].at /\ job'[c].seen = job[c].seen
    /\ \A d \in Command \ {c} : job'[d] = job[d]

\* The command goes on.
LEMMA GoesOn ==
    ASSUME job \in [Command -> Jobs], NEW c \in Command,
           NEW pc \in {"idle"} \cup AddStep \cup DeleteStep, Goto(c, pc)
    PROVE  Goes(c, pc)
<1>1. job' = [job EXCEPT ![c] = [job[c] EXCEPT !.pc = pc]]
  BY DEF Goto
<1>2. [job[c] EXCEPT !.pc = pc] \in Jobs
  <2>1. job[c] \in Jobs
    OBVIOUS
  <2> QED
    BY <2>1 DEF Jobs
<1>3. job' \in [Command -> Jobs]
  BY <1>1, <1>2
<1> QED
  BY <1>1, <1>3 DEF Goes, Jobs

\* One part of one VPC changes.
Becomes(v, p, s) == part' = [part EXCEPT ![v][p] = s]

\* The others are as they were.
LEMMA PartBecomes ==
    ASSUME World, NEW v \in Vpc, NEW p \in Part, NEW s \in {"absent", "untagged", "tagged"},
           Becomes(v, p, s)
    PROVE  /\ part' \in [Vpc -> [Part -> {"absent", "untagged", "tagged"}]] /\ part'[v][p] = s
           /\ \A w \in Vpc, q \in Part : w # v \/ q # p => part'[w][q] = part[w][q]
<1>1. part \in [Vpc -> [Part -> {"absent", "untagged", "tagged"}]]
  BY DEF World
<1>2. part' = [part EXCEPT ![v] = [part[v] EXCEPT ![p] = s]]
  BY DEF Becomes
<1>3. [part[v] EXCEPT ![p] = s] \in [Part -> {"absent", "untagged", "tagged"}]
  BY <1>1
<1>4. /\ part' \in [Vpc -> [Part -> {"absent", "untagged", "tagged"}]]
      /\ part'[v] = [part[v] EXCEPT ![p] = s] /\ \A w \in Vpc \ {v} : part'[w] = part[w]
  BY <1>1, <1>2, <1>3
<1> QED
  BY <1>1, <1>4

\* region-add begins with a new VPC.
LEMMA AddVpcDoes ==
    ASSUME World, job \in [Command -> Jobs], NEW c \in Command, AddVpc(c)
    PROVE  \E v \in Vpc, r \in Region :
               /\ MayAdd(r) /\ vpc[v] = "unused"
               /\ vpc' = [vpc EXCEPT ![v] = "untagged"] /\ region' = [region EXCEPT ![v] = r]
               /\ job' \in [Command -> Jobs] /\ \A d \in Command \ {c} : job'[d] = job[d]
               /\ job'[c].pc = "tagVpc" /\ job'[c].vpc = v /\ job'[c].host = v /\ job'[c].region = r
               /\ job'[c].part = job[c].part /\ job'[c].at = job[c].at
<1>1. PICK v \in Vpc, r \in Region :
          /\ MayAdd(r)
          /\ vpc[v] = "unused"
          /\ vpc' = [vpc EXCEPT ![v] = "untagged"]
          /\ region' = [region EXCEPT ![v] = r]
          /\ job' = [job EXCEPT ![c].pc = "tagVpc", ![c].vpc = v, ![c].host = v, ![c].region = r]
  BY DEF AddVpc
<1>2. job' = [job EXCEPT ![c] = [job[c] EXCEPT !.pc = "tagVpc", !.vpc = v, !.host = v, !.region = r]]
  BY <1>1
<1>3. [job[c] EXCEPT !.pc = "tagVpc", !.vpc = v, !.host = v, !.region = r] \in Jobs
  <2>1. job[c] \in Jobs
    OBVIOUS
  <2> QED
    BY <2>1 DEF Jobs, AddStep
<1>4. /\ job' \in [Command -> Jobs]
      /\ job'[c] = [job[c] EXCEPT !.pc = "tagVpc", !.vpc = v, !.host = v, !.region = r]
      /\ \A d \in Command \ {c} : job'[d] = job[d]
  BY <1>2, <1>3
<1>5. /\ job'[c].pc = "tagVpc" /\ job'[c].vpc = v /\ job'[c].host = v /\ job'[c].region = r
      /\ job'[c].part = job[c].part /\ job'[c].at = job[c].at
  <2>1. job[c] \in Jobs
    OBVIOUS
  <2> QED
    BY <1>4, <2>1 DEF Jobs
<1> QED
  BY <1>1, <1>4, <1>5

\* A part has its tag, and the next one is made.
LEMMA TagPartDoes ==
    ASSUME job \in [Command -> Jobs], NEW c \in Command, TagPart(c)
    PROVE  /\ job' \in [Command -> Jobs] /\ \A d \in Command \ {c} : job'[d] = job[d]
           /\ job'[c].region = job[c].region /\ job'[c].vpc = job[c].vpc /\ job'[c].host = job[c].host
           /\ job'[c].at = job[c].at
           /\ job'[c].part = IF job[c].part = "routes" THEN "subnets" ELSE "groups"
           /\ job'[c].pc = IF job[c].part = "groups" THEN "findCore"
                           ELSE IF job[c].part = "efsGroup" THEN "fileSystem" ELSE "create"
<1> DEFINE p == IF job[c].part = "routes" THEN "subnets" ELSE "groups"
           q == IF job[c].part = "groups" THEN "findCore"
                ELSE IF job[c].part = "efsGroup" THEN "fileSystem" ELSE "create"
<1>1. job' = [job EXCEPT ![c] = [job[c] EXCEPT !.part = p, !.pc = q]]
  BY DEF TagPart
<1>2. p \in Part /\ q \in AddStep
  BY DEF Part, AddStep
<1> HIDE DEF p, q
<1>3. [job[c] EXCEPT !.part = p, !.pc = q] \in Jobs
  <2>1. job[c] \in Jobs
    OBVIOUS
  <2> QED
    BY <1>2, <2>1 DEF Jobs
<1>4. /\ job'[c] = [job[c] EXCEPT !.part = p, !.pc = q]
      /\ job' \in [Command -> Jobs] /\ \A d \in Command \ {c} : job'[d] = job[d]
  BY <1>1, <1>3
<1>5. job[c] \in Jobs
  OBVIOUS
<1>6. /\ job'[c].region = job[c].region /\ job'[c].vpc = job[c].vpc /\ job'[c].host = job[c].host
      /\ job'[c].at = job[c].at /\ job'[c].part = p /\ job'[c].pc = q
  BY <1>4, <1>5 DEF Jobs
<1> QED
  BY <1>4, <1>6 DEF p, q

\* The same VPC, host and part, and the state of a region-delete.
Same(c) ==
    /\ job' \in [Command -> Jobs] /\ \A d \in Command \ {c} : job'[d] = job[d]
    /\ job'[c].region = job[c].region /\ job'[c].vpc = job[c].vpc /\ job'[c].host = job[c].host
    /\ job'[c].part = job[c].part /\ job'[c].at = job[c].at

\* The command knows the core region.
LEMMA FindCoreDoes ==
    ASSUME World, job \in [Command -> Jobs], NEW c \in Command, FindCore(c)
    PROVE  \/ End(c)
           \/ core = {} /\ Goto(c, "tagCore")
           \/ /\ ~CoreIsAmbiguous /\ core # {} /\ Same(c) /\ job'[c].pc = "allow"
              /\ job'[c].core \in CoreLocations /\ job'[c].coreSubnets = core
              /\ job'[c].rules = {"core"} \cup IF job'[c].core = job[c].region THEN {} ELSE {"own"}
<1>1. SUFFICES ASSUME ~CoreIsAmbiguous, core # {}, NEW k \in CoreLocations,
          job' = [job EXCEPT ![c].pc = "allow", ![c].core = k, ![c].coreSubnets = core,
                      ![c].rules = {"core"} \cup IF k = job[c].region THEN {} ELSE {"own"}]
      PROVE /\ Same(c) /\ job'[c].pc = "allow"
            /\ job'[c].core = k /\ job'[c].coreSubnets = core
            /\ job'[c].rules = {"core"} \cup IF k = job[c].region THEN {} ELSE {"own"}
  BY DEF FindCore
<1> DEFINE rs == {"core"} \cup IF k = job[c].region THEN {} ELSE {"own"}
<1>2. rs \subseteq {"core", "own"} /\ k \in Region \cup {None} /\ core \subseteq Vpc
  BY DEF CoreLocations, World
<1>3. job' = [job EXCEPT ![c] = [job[c] EXCEPT !.pc = "allow", !.core = k, !.coreSubnets = core, !.rules = rs]]
  BY <1>1
<1> HIDE DEF rs
<1>4. job[c] \in Jobs /\ "allow" \in AddStep
  BY DEF AddStep
<1>5. [job[c] EXCEPT !.pc = "allow", !.core = k, !.coreSubnets = core, !.rules = rs] \in Jobs
  BY <1>2, <1>4 DEF Jobs
<1>6. /\ job'[c] = [job[c] EXCEPT !.pc = "allow", !.core = k, !.coreSubnets = core, !.rules = rs]
      /\ job' \in [Command -> Jobs] /\ \A d \in Command \ {c} : job'[d] = job[d]
  BY <1>3, <1>5
<1>7. /\ Same(c) /\ job'[c].pc = "allow"
      /\ job'[c].core = k /\ job'[c].coreSubnets = core /\ job'[c].rules = rs
  BY <1>4, <1>6 DEF Jobs, Same
<1> QED
  BY <1>7 DEF rs

\* A firewall admits more, or the command ends.
LEMMA AllowDoes ==
    ASSUME job \in [Command -> Jobs], NEW c \in Command, NEW r, NEW from, NEW rule \in {"core", "own"},
           Allow(c, r, from, rule)
    PROVE  \/ End(c) /\ UNCHANGED admits
           \/ /\ Same(c) /\ job'[c].pc = "allow" /\ job'[c].core = job[c].core
              /\ job'[c].coreSubnets = job[c].coreSubnets /\ job'[c].rules = job[c].rules \ {rule}
              /\ \E v \in Vpcs(r) : admits' = [admits EXCEPT ![v] = @ \cup from]
<1>1. SUFFICES ASSUME NEW v \in Vpcs(r), admits' = [admits EXCEPT ![v] = @ \cup from],
                      job' = [job EXCEPT ![c].rules = @ \ {rule}]
      PROVE  /\ Same(c) /\ job'[c].pc = "allow" /\ job'[c].core = job[c].core
             /\ job'[c].coreSubnets = job[c].coreSubnets /\ job'[c].rules = job[c].rules \ {rule}
  BY DEF Allow
<1>2. job[c] \in Jobs /\ job[c].pc = "allow"
  BY DEF Allow
<1>3. job' = [job EXCEPT ![c] = [job[c] EXCEPT !.rules = job[c].rules \ {rule}]]
  BY <1>1
<1>4. job[c].rules \ {rule} \in SUBSET {"core", "own"}
  BY <1>2 DEF Jobs
<1>5. [job[c] EXCEPT !.rules = job[c].rules \ {rule}] \in Jobs
  BY <1>2, <1>4 DEF Jobs
<1>6. /\ job'[c] = [job[c] EXCEPT !.rules = job[c].rules \ {rule}]
      /\ job' \in [Command -> Jobs] /\ \A d \in Command \ {c} : job'[d] = job[d]
  BY <1>3, <1>5
<1> QED
  BY <1>2, <1>6 DEF Jobs, Same

\* The group for the mount targets goes into one of the VPCs of the region.
LEMMA FindEfsVpcDoes ==
    ASSUME World, job \in [Command -> Jobs], NEW c \in Command, FindEfsVpc(c)
    PROVE  \/ /\ End(c)
              /\ \/ UNCHANGED part
                 \/ \E v \in Vpcs(job[c].region) : Becomes(v, "efsGroup", "untagged")
           \/ /\ UNCHANGED part /\ job' \in [Command -> Jobs] /\ \A d \in Command \ {c} : job'[d] = job[d]
              /\ job'[c].region = job[c].region /\ job'[c].vpc = job[c].vpc /\ job'[c].at = job[c].at
              /\ job'[c].pc = "create" /\ job'[c].part = "efsGroup" /\ job'[c].host \in Vpcs(job[c].region)
<1>1. SUFFICES ASSUME NEW v \in Vpcs(job[c].region),
          job' = [job EXCEPT ![c].pc = "create", ![c].part = "efsGroup", ![c].host = v]
      PROVE /\ job' \in [Command -> Jobs] /\ \A d \in Command \ {c} : job'[d] = job[d]
            /\ job'[c].region = job[c].region /\ job'[c].vpc = job[c].vpc /\ job'[c].at = job[c].at
            /\ job'[c].pc = "create" /\ job'[c].part = "efsGroup" /\ job'[c].host = v
  BY DEF FindEfsVpc, Becomes
<1>2. job[c] \in Jobs /\ "create" \in AddStep /\ "efsGroup" \in Part /\ v \in Vpc
  BY DEF AddStep, Part, Vpcs
<1>3. job' = [job EXCEPT ![c] = [job[c] EXCEPT !.pc = "create", !.part = "efsGroup", !.host = v]]
  BY <1>1
<1>4. [job[c] EXCEPT !.pc = "create", !.part = "efsGroup", !.host = v] \in Jobs
  BY <1>2 DEF Jobs
<1>5. /\ job'[c] = [job[c] EXCEPT !.pc = "create", !.part = "efsGroup", !.host = v]
      /\ job' \in [Command -> Jobs] /\ \A d \in Command \ {c} : job'[d] = job[d]
  BY <1>3, <1>4
<1> QED
  BY <1>2, <1>5 DEF Jobs

\* region-delete begins with the file system, if there is one.
LEMMA DeleteStartDoes ==
    ASSUME job \in [Command -> Jobs], NEW c \in Command, DeleteStart(c)
    PROVE  \E r \in Region :
               /\ MayDelete(r) /\ removing' = r
               /\ job' \in [Command -> Jobs] /\ \A d \in Command \ {c} : job'[d] = job[d]
               /\ job'[c].region = r /\ job'[c].at = job[c].at
               /\ job'[c].pc = IF fs[r] # "tagged" THEN "vpcs" ELSE "mountTargets"
<1>1. PICK r \in Region :
          /\ MayDelete(r) /\ removing' = r
          /\ job' = [job EXCEPT ![c].region = r,
                                ![c].pc = IF fs[r] # "tagged" THEN "vpcs" ELSE "mountTargets"]
  BY DEF DeleteStart
<1> DEFINE q == IF fs[r] # "tagged" THEN "vpcs" ELSE "mountTargets"
<1>2. job[c] \in Jobs /\ q \in DeleteStep
  BY DEF DeleteStep
<1>3. job' = [job EXCEPT ![c] = [job[c] EXCEPT !.region = r, !.pc = q]]
  BY <1>1
<1> HIDE DEF q
<1>4. [job[c] EXCEPT !.region = r, !.pc = q] \in Jobs
  BY <1>2 DEF Jobs
<1>5. /\ job'[c] = [job[c] EXCEPT !.region = r, !.pc = q]
      /\ job' \in [Command -> Jobs] /\ \A d \in Command \ {c} : job'[d] = job[d]
  BY <1>3, <1>4
<1>6. job'[c].region = r /\ job'[c].at = job[c].at /\ job'[c].pc = q
  BY <1>2, <1>5 DEF Jobs
<1> QED
  BY <1>1, <1>5, <1>6 DEF q

\* The same region and the same groups.
Works(c, steps) ==
    /\ job' \in [Command -> Jobs] /\ \A d \in Command \ {c} : job'[d] = job[d]
    /\ job'[c].pc = job[c].pc /\ job'[c].region = job[c].region /\ job'[c].vpc = job[c].vpc
    /\ job'[c].at = steps

\* region-delete has found the VPCs of its region, or says that there are none.
LEMMA FindVpcsDoes ==
    ASSUME job \in [Command -> Jobs], NEW c \in Command, FindVpcs(c)
    PROVE  IF Vpcs(job[c].region) = {} THEN End(c) /\ removing' = None
           ELSE /\ Works(c, [v \in Vpc |-> IF v \in Vpcs(job[c].region) THEN "subnets" ELSE "none"])
                /\ UNCHANGED removing
<1>1. CASE Vpcs(job[c].region) = {}
  BY <1>1 DEF FindVpcs
<1>2. CASE Vpcs(job[c].region) # {}
  <2> DEFINE steps == [v \in Vpc |-> IF v \in Vpcs(job[c].region) THEN "subnets" ELSE "none"]
             seen == UNION {{v} \X Groups(v) : v \in Vpcs(job[c].region)}
  <2>1. job' = [job EXCEPT ![c].at = steps, ![c].seen = seen] /\ UNCHANGED removing
    BY <1>2 DEF FindVpcs
  <2>2. steps \in [Vpc -> {"none", "subnets", "groups", "gateway", "routes", "vpc", "done"}]
    OBVIOUS
  <2>3. seen \subseteq Vpc \X {"groups", "efsGroup"}
    BY DEF Vpcs, Groups, Part
  <2>4. job[c] \in Jobs
    OBVIOUS
  <2> HIDE DEF steps, seen
  <2>5. job' = [job EXCEPT ![c] = [job[c] EXCEPT !.at = steps, !.seen = seen]]
    BY <2>1
  <2>6. [job[c] EXCEPT !.at = steps, !.seen = seen] \in Jobs
    BY <2>2, <2>3, <2>4 DEF Jobs
  <2>7. /\ job'[c] = [job[c] EXCEPT !.at = steps, !.seen = seen]
        /\ job' \in [Command -> Jobs] /\ \A d \in Command \ {c} : job'[d] = job[d]
    BY <2>5, <2>6
  <2>8. Works(c, steps)
    BY <2>4, <2>7 DEF Jobs, Works
  <2> QED
    BY <1>2, <2>1, <2>8 DEF steps
<1> QED
  BY <1>1, <1>2

\* region-delete has made one step in a VPC.
LEMMA StepDoes ==
    ASSUME job \in [Command -> Jobs], NEW c \in Command, NEW v \in Vpc,
           NEW step \in {"none", "subnets", "groups", "gateway", "routes", "vpc", "done"}, Step(c, v, step)
    PROVE  Works(c, [job[c].at EXCEPT ![v] = step])
<1> DEFINE steps == [job[c].at EXCEPT ![v] = step]
<1>1. job[c] \in Jobs
  OBVIOUS
<1>2. steps \in [Vpc -> {"none", "subnets", "groups", "gateway", "routes", "vpc", "done"}]
  BY <1>1 DEF Jobs
<1>3. job' = [job EXCEPT ![c] = [job[c] EXCEPT !.at = steps]]
  BY DEF Step
<1> HIDE DEF steps
<1>4. [job[c] EXCEPT !.at = steps] \in Jobs
  BY <1>1, <1>2 DEF Jobs
<1>5. /\ job'[c] = [job[c] EXCEPT !.at = steps]
      /\ job' \in [Command -> Jobs] /\ \A d \in Command \ {c} : job'[d] = job[d]
  BY <1>3, <1>4
<1>6. Works(c, steps)
  BY <1>1, <1>5 DEF Jobs, Works
<1> QED
  BY <1>6 DEF steps

-------------------------------------------------------------------------------
(* The types. *)

\* The types hold at the start.
LEMMA TypeStart == RegionAssumption /\ Init => TypeOK
<1> SUFFICES ASSUME RegionAssumption, Init PROVE TypeOK
  OBVIOUS
<1>1. World
  BY DEF World, Init, RegionAssumption, Part
<1>2. job \in [Command -> Jobs]
  BY NoJobType DEF Init
<1> QED
  BY <1>1, <1>2, TypeParts

\* region-add keeps the types.
LEMMA AddType ==
    ASSUME World, job \in [Command -> Jobs], AddProgress, NEW c \in Command, Add(c)
    PROVE  World' /\ job' \in [Command -> Jobs]
<1> USE DEF World
<1>0. Adding(c) => job[c].vpc \in Vpc
  BY DEF AddProgress, Made
<1>1. CASE AddVpc(c)
  <2>1. PICK v \in Vpc, r \in Region :
            /\ vpc' = [vpc EXCEPT ![v] = "untagged"] /\ region' = [region EXCEPT ![v] = r]
    BY <1>1, AddVpcDoes
  <2>2. vpc' \in [Vpc -> {"unused", "untagged", "tagged", "deleted"}] /\ region' \in [Vpc -> Region \cup {None}]
    BY <2>1
  <2>3. job' \in [Command -> Jobs]
    BY <1>1, AddVpcDoes
  <2> QED
    BY <1>1, <2>2, <2>3 DEF AddVpc

<1>2. CASE TagVpc(c)
  <2>1. "gateway" \in AddStep \cup DeleteStep
    BY DEF AddStep, DeleteStep
  <2>2. job' \in [Command -> Jobs]
    BY <1>2, <2>1, GoesOn DEF TagVpc, Goes
  <2> QED
    BY <1>2, <2>2 DEF TagVpc

<1>3. CASE AddGateway(c)
  <2>1. "create" \in AddStep \cup DeleteStep
    BY DEF AddStep, DeleteStep
  <2>2. job' \in [Command -> Jobs]
    BY <1>3, <2>1, GoesOn DEF AddGateway, Goes
  <2> QED
    BY <1>3, <2>2, <1>0 DEF AddGateway, Adding, AddStep

<1>4. CASE CreatePart(c)
  <2>1. "tag" \in AddStep \cup DeleteStep
    BY DEF AddStep, DeleteStep
  <2>2. job' \in [Command -> Jobs]
    BY <1>4, <2>1, GoesOn DEF CreatePart, Goes
  <2> QED
    BY <1>4, <2>2 DEF CreatePart

<1>5. CASE TagPart(c)
  BY <1>5, TagPartDoes DEF TagPart
<1>6. CASE FindCore(c)
  <2>1. "tagCore" \in AddStep
    BY DEF AddStep
  <2>2. job' \in [Command -> Jobs]
    BY <1>6, <2>1, FindCoreDoes, Ends, GoesOn DEF Goes, Same
  <2> QED
    BY <1>6, <2>2 DEF FindCore, cloudVars

<1>7. CASE TagCore(c)
  <2>1. "findCoreAgain" \in AddStep \cup DeleteStep
    BY DEF AddStep, DeleteStep
  <2>2. job' \in [Command -> Jobs]
    BY <1>7, <2>1, GoesOn DEF TagCore, Goes
  <2> QED
    BY <1>7, <2>2, <1>0 DEF TagCore, Adding, AddStep

<1>8. CASE AllowRules(c)
  <2>1. ASSUME NEW r, NEW from \in SUBSET Vpc, NEW rule \in {"core", "own"}, Allow(c, r, from, rule)
        PROVE  World' /\ job' \in [Command -> Jobs]
    <3>1. job' \in [Command -> Jobs]
      BY <2>1, AllowDoes, Ends DEF Same
    <3>2. admits' \in [Vpc -> SUBSET Vpc]
      BY <2>1, AllowDoes DEF Vpcs
    <3> QED
      BY <2>1, <3>1, <3>2 DEF Allow
  <2>2. Adding(c) /\ job[c].coreSubnets \subseteq Vpc
    BY <1>8, JobTypes DEF AllowRules, Allow, Adding, AddStep
  <2>3. job[c].vpc \in Vpc
    BY <2>2 DEF AddProgress, Made
  <2> QED
    BY <1>8, <2>1, <2>2, <2>3 DEF AllowRules
<1>9. CASE AllowDone(c)
  <2>1. Adding(c) /\ "efsGroup" \in AddStep
    BY <1>9 DEF AllowDone, Adding, AddStep
  <2>2. job[c].vpc \in Vpc
    BY <2>1 DEF AddProgress, Made
  <2>3. job' \in [Command -> Jobs]
    BY <1>9, <2>1, Ends, GoesOn DEF AllowDone, AddDone, Goes
  <2> QED
    BY <1>9, <2>2, <2>3 DEF AllowDone, AddDone, cloudVars
<1>10. CASE FindEfsVpc(c)
  <2>1. job' \in [Command -> Jobs]
    BY <1>10, FindEfsVpcDoes, Ends
  <2>2. \/ UNCHANGED part
        \/ \E v \in Vpc : Becomes(v, "efsGroup", "untagged")
    BY <1>10, FindEfsVpcDoes DEF Vpcs
  <2>3. part' \in [Vpc -> [Part -> {"absent", "untagged", "tagged"}]]
    BY <2>2, PartBecomes DEF Part, Becomes
  <2> QED
    BY <1>10, <2>1, <2>3 DEF FindEfsVpc
<1>11. CASE CreateFileSystem(c)
  <2>1. "tagFileSystem" \in AddStep
    BY DEF AddStep
  <2>2. job' \in [Command -> Jobs]
    BY <1>11, <2>1, Ends, GoesOn DEF CreateFileSystem, Goes
  <2> QED
    BY <1>11, <2>2 DEF CreateFileSystem

<1>12. CASE TagFileSystem(c)
  <2>1. "mount" \in AddStep \cup DeleteStep
    BY DEF AddStep, DeleteStep
  <2>2. job' \in [Command -> Jobs]
    BY <1>12, <2>1, GoesOn DEF TagFileSystem, Goes
  <2> QED
    BY <1>12, <2>2 DEF TagFileSystem

<1>13. CASE CreateMountTargets(c)
  <2>1. Adding(c)
    BY <1>13 DEF CreateMountTargets, Adding, AddStep
  <2>2. job[c].vpc \in Vpc
    BY <2>1 DEF AddProgress, Made
  <2>3. job' \in [Command -> Jobs]
    BY <1>13, Ends DEF CreateMountTargets, AddDone
  <2> QED
    BY <1>13, <2>2, <2>3 DEF CreateMountTargets, AddDone
<1> QED
  BY <1>1, <1>2, <1>3, <1>4, <1>5, <1>6, <1>7, <1>8, <1>9, <1>10, <1>11, <1>12, <1>13 DEF Add

\* region-delete keeps the types.
LEMMA DeleteType ==
    ASSUME World, job \in [Command -> Jobs], NEW c \in Command, Delete(c)
    PROVE  World' /\ job' \in [Command -> Jobs]
<1> USE DEF World
<1>1. CASE DeleteStart(c)
  <2>1. \E r \in Region : removing' = r
    BY <1>1 DEF DeleteStart
  <2> QED
    BY <1>1, <2>1, DeleteStartDoes DEF DeleteStart, cloudVars

<1>2. CASE DeleteMountTargets(c)
  <2>1. "fileSystemGone" \in AddStep \cup DeleteStep
    BY DEF AddStep, DeleteStep
  <2>2. job' \in [Command -> Jobs]
    BY <1>2, <2>1, Ends, GoesOn DEF DeleteMountTargets, Goes
  <2> QED
    BY <1>2, <2>2 DEF DeleteMountTargets

<1>3. CASE DeleteFileSystem(c)
  <2>1. "find" \in AddStep \cup DeleteStep
    BY DEF AddStep, DeleteStep
  <2>2. job' \in [Command -> Jobs]
    BY <1>3, <2>1, GoesOn DEF DeleteFileSystem, Goes
  <2> QED
    BY <1>3, <2>2 DEF DeleteFileSystem

<1>4. CASE DeleteEfsGroup(c)
  <2>1. "vpcs" \in DeleteStep
    BY DEF DeleteStep
  <2>2. job' \in [Command -> Jobs]
    BY <1>4, <2>1, Ends, GoesOn DEF DeleteEfsGroup, Goes
  <2>3. part' \in [Vpc -> [Part -> {"absent", "untagged", "tagged"}]]
    BY <1>4 DEF DeleteEfsGroup
  <2> QED
    BY <1>4, <2>2, <2>3 DEF DeleteEfsGroup
<1>5. CASE FindVpcs(c)
  <2>1. job' \in [Command -> Jobs]
    BY <1>5, FindVpcsDoes, Ends DEF Works
  <2> QED
    BY <1>5, <2>1, FindVpcsDoes DEF FindVpcs, cloudVars
<1>6. ASSUME NEW v \in Vpc, DeleteIn(c, v) PROVE World' /\ job' \in [Command -> Jobs]
  <2>1. job' \in [Command -> Jobs]
    BY <1>6, StepDoes, Ends DEF DeleteIn, DeleteSubnets, DeleteGroups, DeleteGateway, DeleteRoutes, DeleteVpc, Works
  <2>2. CASE DeleteSubnets(c, v)
    <3>1. part' \in [Vpc -> [Part -> {"absent", "untagged", "tagged"}]] /\ core' \subseteq Vpc
      <4>1. \/ UNCHANGED <<part, core>>
            \/ part' = [part EXCEPT ![v]["subnets"] = "absent"] /\ core' = core \ {v}
        BY <2>2 DEF DeleteSubnets
      <4>2. core' \subseteq Vpc
        BY <4>1
      <4>3. part' \in [Vpc -> [Part -> {"absent", "untagged", "tagged"}]]
        BY <4>1, PartBecomes DEF Part, Becomes
      <4> QED
        BY <4>2, <4>3
    <3>2. admits' \in [Vpc -> SUBSET Vpc]
      <4>1. \/ admits' = [admits EXCEPT ![v] = @ \ {v}]
            \/ admits' = [admits EXCEPT ![v] = @]
        <5>1. CASE /\ part[v]["subnets"] # "absent" /\ job[c].region \in CoreLocations
                   /\ "groups" \in Seen(c, v)
          BY <2>2, <5>1 DEF DeleteSubnets
        <5> QED
          BY <2>2, <5>1 DEF DeleteSubnets
      <4>2. admits[v] \ {v} \in SUBSET Vpc
        OBVIOUS
      <4>3. CASE admits' = [admits EXCEPT ![v] = @ \ {v}]
        BY <4>2, <4>3
      <4>4. CASE admits' = [admits EXCEPT ![v] = @]
        BY <4>4
      <4> QED
        BY <4>1, <4>3, <4>4
    <3> QED
      BY <2>1, <2>2, <3>1, <3>2 DEF DeleteSubnets
  <2>3. CASE DeleteGroups(c, v)
    BY <2>1, <2>3 DEF DeleteGroups
  <2>4. CASE DeleteGateway(c, v)
    BY <2>1, <2>4 DEF DeleteGateway
  <2>5. CASE DeleteRoutes(c, v)
    <3>1. part' \in [Vpc -> [Part -> {"absent", "untagged", "tagged"}]]
      BY <2>5 DEF DeleteRoutes
    <3> QED
      BY <2>1, <2>5, <3>1 DEF DeleteRoutes
  <2>6. CASE DeleteVpc(c, v)
    BY <2>1, <2>6 DEF DeleteVpc
  <2> QED
    BY <1>6, <2>2, <2>3, <2>4, <2>5, <2>6 DEF DeleteIn
<1>7. CASE DeleteDone(c)
  BY <1>7, Ends DEF DeleteDone, cloudVars
<1> QED
  BY <1>1, <1>2, <1>3, <1>4, <1>5, <1>6, <1>7 DEF Delete

\* Every step keeps the types.
LEMMA TypeStep == RegionAssumption /\ TypeOK /\ AddProgress /\ [Next]_vars => TypeOK'
<1> SUFFICES ASSUME RegionAssumption, TypeOK, AddProgress, [Next]_vars PROVE TypeOK'
  OBVIOUS
<1>1. World /\ job \in [Command -> Jobs]
  BY TypeParts
<1>2. ASSUME NEW c \in Command, Crash(c) PROVE World' /\ job' \in [Command -> Jobs]
  <2>1. job' \in [Command -> Jobs]
    BY <1>1, <1>2, Ends DEF Crash
  <2>2. crashes' \in 0..MaxCrashes
    BY <1>1, <1>2 DEF Crash, World, RegionAssumption
  <2> QED
    BY <1>1, <1>2, <2>1, <2>2 DEF Crash, World, cloudVars
<1>3. CASE UNCHANGED vars
  <2>1. /\ UNCHANGED <<vpc, region, part, gateway, core, admits, fs, mount>>
        /\ UNCHANGED <<job, removing, complete, crashes>>
    BY <1>3 DEF vars, cloudVars
  <2> QED
    BY <1>1, <2>1, TypePartsNext DEF World
<1> QED
  BY <1>1, <1>2, <1>3, AddType, DeleteType, TypePartsNext DEF Next

-------------------------------------------------------------------------------
(* Who does what to whom. *)

\* A region-add leaves the others alone, and goes on with its VPC.
Leaves(c) ==
    /\ job' \in [Command -> Jobs] /\ \A d \in Command \ {c} : job'[d] = job[d]
    /\ \/ job'[c] = NoJob
       \/ /\ job'[c].pc \in AddStep
          /\ job'[c].region = job[c].region /\ job'[c].vpc = job[c].vpc
          /\ job'[c].at = job[c].at

\* What the steps of region-add do to the jobs.
LEMMA AddJobs ==
    ASSUME World, job \in [Command -> Jobs], NEW c \in Command, Add(c)
    PROVE  AddVpc(c) \/ (Adding(c) /\ removing' = removing /\ Leaves(c))
<1>1. CASE TagPart(c)
  <2>1. {"findCore", "fileSystem", "create", "tag"} \subseteq AddStep
    BY DEF AddStep
  <2>2. Leaves(c)
    BY <2>1, <1>1, TagPartDoes DEF Leaves
  <2>3. job[c].pc = "tag" /\ removing' = removing
    BY <1>1 DEF TagPart
  <2> QED
    BY <2>1, <2>2, <2>3 DEF Adding
<1>2. CASE FindCore(c)
  <2>1. {"findCore", "findCoreAgain", "allow", "tagCore"} \subseteq AddStep
    BY DEF AddStep
  <2>2. Leaves(c)
    BY <1>2, <2>1, FindCoreDoes, Ends, GoesOn DEF Same, Goes, Leaves
  <2> QED
    BY <1>2, <2>1, <2>2 DEF Adding, FindCore
<1>3. CASE AllowRules(c)
  <2>1. {"allow"} \subseteq AddStep
    BY DEF AddStep
  <2>2. ASSUME NEW r, NEW from, NEW rule \in {"core", "own"}, Allow(c, r, from, rule)
        PROVE  job[c].pc = "allow" /\ removing' = removing /\ Leaves(c)
    <3>1. job[c].pc = "allow" /\ removing' = removing
      BY <2>2 DEF Allow
    <3>2. End(c) \/ (Same(c) /\ job'[c].pc = "allow")
      BY <2>2, AllowDoes
    <3> QED
      BY <2>1, <3>1, <3>2, Ends DEF Same, Leaves
  <2> QED
    BY <1>3, <2>1, <2>2 DEF Adding, AllowRules
<1>4. CASE AllowDone(c)
  <2>1. {"allow", "efsGroup"} \subseteq AddStep
    BY DEF AddStep
  <2>2. Leaves(c)
    BY <1>4, <2>1, GoesOn, Ends DEF Goes, Leaves, AllowDone, AddDone
  <2> QED
    BY <1>4, <2>1, <2>2 DEF Adding, AllowDone
<1>5. CASE FindEfsVpc(c)
  <2>1. {"efsGroup", "create"} \subseteq AddStep
    BY DEF AddStep
  <2>2. Leaves(c)
    BY <1>5, <2>1, FindEfsVpcDoes, Ends DEF Leaves
  <2> QED
    BY <1>5, <2>1, <2>2 DEF Adding, FindEfsVpc
<1>6. CASE CreateFileSystem(c)
  <2>1. {"fileSystem", "tagFileSystem"} \subseteq AddStep
    BY DEF AddStep
  <2>2. Leaves(c)
    BY <1>6, <2>1, GoesOn, Ends DEF Leaves, Goes, CreateFileSystem
  <2> QED
    BY <1>6, <2>1, <2>2 DEF Adding, CreateFileSystem
<1>7. CASE CreateMountTargets(c)
  <2>1. "mount" \in AddStep
    BY DEF AddStep
  <2> QED
    BY <1>7, <2>1, Ends DEF Adding, Leaves, CreateMountTargets, AddDone

<1>8. CASE TagVpc(c)
  <2>1. {"tagVpc", "gateway"} \subseteq AddStep
    BY DEF AddStep
  <2> QED
    BY <1>8, <2>1, GoesOn DEF Leaves, Goes, Adding, TagVpc

<1>9. CASE AddGateway(c)
  <2>1. {"gateway", "create"} \subseteq AddStep
    BY DEF AddStep
  <2> QED
    BY <1>9, <2>1, GoesOn DEF Leaves, Goes, Adding, AddGateway

<1>10. CASE CreatePart(c)
  <2>1. {"create", "tag"} \subseteq AddStep
    BY DEF AddStep
  <2> QED
    BY <1>10, <2>1, GoesOn DEF Leaves, Goes, Adding, CreatePart

<1>11. CASE TagCore(c)
  <2>1. {"tagCore", "findCoreAgain"} \subseteq AddStep
    BY DEF AddStep
  <2> QED
    BY <1>11, <2>1, GoesOn DEF Leaves, Goes, Adding, TagCore

<1>12. CASE TagFileSystem(c)
  <2>1. {"tagFileSystem", "mount"} \subseteq AddStep
    BY DEF AddStep
  <2> QED
    BY <1>12, <2>1, GoesOn DEF Leaves, Goes, Adding, TagFileSystem

<1> QED
  BY <1>1, <1>2, <1>3, <1>4, <1>5, <1>6, <1>7, <1>8, <1>9, <1>10, <1>11, <1>12 DEF Add

\* While a region is added no region is deleted.
LEMMA AddApart ==
    ASSUME RegionAssumption, Apart, NEW c \in Command, Adding(c) \/ AddVpc(c)
    PROVE  removing = None /\ \A d \in Command : ~Deleting(d)
<1>1. removing = None
  BY DEF Apart, AddVpc, MayAdd
<1> QED
  BY <1>1 DEF Apart, RegionAssumption

\* A region-delete goes on with its region, or ends.
Continues(c) ==
    /\ job' \in [Command -> Jobs] /\ \A d \in Command \ {c} : job'[d] = job[d]
    /\ \/ job'[c] = NoJob
       \/ /\ job'[c].pc \in DeleteStep /\ removing' = removing
          /\ job'[c].region = job[c].region

\* What the steps of region-delete do to the jobs.
LEMMA DeleteJobs ==
    ASSUME World, job \in [Command -> Jobs], TakenApart, NEW c \in Command, Delete(c)
    PROVE  DeleteStart(c) \/ (Deleting(c) /\ Continues(c))
<1>0. "vpcs" \in DeleteStep
  BY DEF DeleteStep

<1>1. CASE DeleteMountTargets(c)
  <2>1. {"mountTargets", "fileSystemGone"} \subseteq DeleteStep
    BY DEF DeleteStep
  <2> QED
    BY <1>1, <2>1, Ends, GoesOn DEF Continues, Goes, Deleting, DeleteMountTargets

<1>2. CASE DeleteFileSystem(c)
  <2>1. {"fileSystemGone", "find"} \subseteq DeleteStep
    BY DEF DeleteStep
  <2> QED
    BY <1>2, <2>1, GoesOn DEF Continues, Goes, Deleting, DeleteFileSystem

<1>3. CASE DeleteEfsGroup(c)
  <2>1. "find" \in DeleteStep
    BY DEF DeleteStep
  <2>2. Continues(c)
    BY <1>0, <1>3, GoesOn, Ends DEF Continues, Goes, DeleteEfsGroup
  <2> QED
    BY <1>3, <2>1, <2>2 DEF Deleting, DeleteEfsGroup
<1>4. CASE FindVpcs(c)
  <2>1. Continues(c)
    <3>1. job[c].pc = "vpcs"
      BY <1>4 DEF FindVpcs
    <3>2. \/ End(c)
          \/ removing' = removing /\ \E steps : Works(c, steps)
      BY <1>4, FindVpcsDoes
    <3> QED
      BY <1>0, <3>1, <3>2, Ends DEF Continues, Works
  <2> QED
    BY <1>0, <1>4, <2>1 DEF Deleting, FindVpcs
<1>5. ASSUME NEW v \in Vpc, DeleteIn(c, v) PROVE Deleting(c) /\ Continues(c)
  <2>1. job[c].pc = "vpcs" /\ removing' = removing
    BY <1>5 DEF TakenApart, DeleteIn, DeleteSubnets, DeleteGroups, DeleteGateway, DeleteRoutes, DeleteVpc
  <2>2. End(c) \/ \E step \in {"none", "subnets", "groups", "gateway", "routes", "vpc", "done"} : Step(c, v, step)
    BY <1>5 DEF DeleteIn, DeleteSubnets, DeleteGroups, DeleteGateway, DeleteRoutes, DeleteVpc
  <2> QED
    <3>1. End(c) \/ \E steps : Works(c, steps)
      BY <2>2, StepDoes
    <3>2. Continues(c)
      BY <1>0, <2>1, <3>1, Ends DEF Works, Continues
    <3> QED
      BY <1>0, <2>1, <3>2 DEF Deleting
<1>6. CASE DeleteDone(c)
  BY <1>0, <1>6, Ends DEF Deleting, DeleteDone, Continues
<1> QED
  BY <1>1, <1>2, <1>3, <1>4, <1>5, <1>6 DEF Delete

\* A region-delete runs alone.
LEMMA DeleteApart ==
    ASSUME Apart, NEW c \in Command, Deleting(c) \/ DeleteStart(c)
    PROVE  \A d \in Command : ~Adding(d) /\ (d # c => Idle(d))
<1>1. \A d \in Command \ {c} : Idle(d)
  BY DEF Apart, DeleteStart, MayDelete
<1>2. "idle" \notin AddStep /\ AddStep \cap DeleteStep = {}
  BY DEF AddStep, DeleteStep
<1> QED
  BY <1>1, <1>2 DEF Adding, Deleting, Idle, DeleteStart

\* The steps exclude each other.
LEMMA Steps == "idle" \notin AddStep \cup DeleteStep /\ AddStep \cap DeleteStep = {}
BY DEF AddStep, DeleteStep

\* A command that dies.
LEMMA CrashDoes ==
    ASSUME job \in [Command -> Jobs], NEW c \in Command, Crash(c)
    PROVE  /\ job'[c].pc = "idle" /\ \A v \in Vpc : job'[c].at[v] = "none"
           /\ \A d \in Command \ {c} : job'[d] = job[d]
           /\ UNCHANGED <<vpc, region, part, gateway, core, admits, fs, mount, removing, complete>>
BY Ends DEF Crash, cloudVars

\* A step of region-delete begins no region-add.
LEMMA DeleteNoAdds ==
    ASSUME World, job \in [Command -> Jobs], Apart, TakenApart, NEW c \in Command, Delete(c)
    PROVE  \A d \in Command : ~Adding(d)'
<1> USE Steps
<1>1. \A d \in Command : ~Adding(d) /\ (d # c => Idle(d))
  BY DeleteJobs, DeleteApart
<1>2. \A d \in Command \ {c} : job'[d] = job[d]
  BY DeleteJobs, DeleteStartDoes DEF Continues
<1>3. CASE DeleteStart(c)
  <2>1. {"vpcs", "mountTargets"} \subseteq DeleteStep
    BY DEF DeleteStep
  <2>2. job'[c].pc \in DeleteStep
    BY <1>3, <2>1, DeleteStartDoes
  <2> QED
    BY <1>1, <1>2, <2>2 DEF Adding
<1>4. CASE Continues(c)
  <2>1. NoJob.pc = "idle"
    BY DEF NoJob
  <2> QED
    BY <1>1, <1>4, <2>1 DEF Adding, Continues
<1> QED
  BY <1>3, <1>4, DeleteJobs

-------------------------------------------------------------------------------
(* The parts of the invariant, one by one. *)

\* A region-add keeps what others have made, and works in its own VPC.
Spares(c) ==
    /\ \A v \in Vpc : region[v] # None => region'[v] = region[v]
    /\ \A v \in Vpc : vpc[v] = "tagged" => vpc'[v] = "tagged"
    /\ \A v \in Vpc : vpc'[v] = vpc[v] \/ v = job'[c].vpc
    /\ \A v \in Vpc : part'[v]["subnets"] = part[v]["subnets"] \/ v = job[c].vpc
    /\ complete \subseteq complete' /\ complete' \subseteq complete \cup {job[c].vpc}
    /\ core \subseteq core' /\ (core' = core \/ job[c].pc = "tagCore")
    /\ \A r \in Region : fs[r] = "tagged" => fs'[r] = "tagged"

\* Every step of region-add is such a step.
LEMMA AddSpares ==
    ASSUME World, job \in [Command -> Jobs], AddProgress, Unused, NEW c \in Command, Add(c)
    PROVE  Spares(c)
<1>1. CASE AddVpc(c)
  <2>1. PICK v \in Vpc, r \in Region :
            /\ vpc[v] = "unused" /\ job'[c].vpc = v
            /\ vpc' = [vpc EXCEPT ![v] = "untagged"] /\ region' = [region EXCEPT ![v] = r]
    BY <1>1, AddVpcDoes
  <2>2. region[v] = None
    BY <2>1 DEF Unused
  <2> QED
    BY <1>1, <2>1, <2>2 DEF AddVpc, Spares, World
<1>2. CASE TagVpc(c)
  <2>1. job'[c].vpc = job[c].vpc
    BY <1>2, GoesOn DEF TagVpc, Goes, AddStep
  <2> QED
    BY <1>2, <2>1 DEF TagVpc, Spares, World
<1>3. CASE CreatePart(c) \/ TagPart(c)
  <2>1. job[c].pc \in {"create", "tag"} /\ Adding(c)
    BY <1>3 DEF CreatePart, TagPart, Adding, AddStep
  <2>2. job[c].part = "efsGroup" \/ job[c].host = job[c].vpc
    BY <2>1 DEF AddProgress, Made, Late
  <2>3. job[c].host \in Vpc /\ job[c].part \in Part
    BY <2>1, JobTypes DEF AddProgress, Made
  <2>4. \A v \in Vpc : part'[v]["subnets"] = part[v]["subnets"] \/ v = job[c].vpc
    <3>1. \E s \in {"untagged", "tagged"} : Becomes(job[c].host, job[c].part, s)
      BY <1>3 DEF CreatePart, TagPart, Becomes
    <3> QED
      BY <2>2, <2>3, <3>1, PartBecomes DEF Part
  <2> QED
    BY <1>3, <2>4 DEF CreatePart, TagPart, Spares
<1>4. CASE FindEfsVpc(c)
  <2>1. \A v \in Vpc : part'[v]["subnets"] = part[v]["subnets"]
    BY <1>4, FindEfsVpcDoes, PartBecomes DEF Vpcs, Part
  <2> QED
    BY <1>4, <2>1 DEF FindEfsVpc, Spares
<1>5. CASE TagCore(c)
  BY <1>5 DEF TagCore, Spares
<1>6. CASE AllowRules(c)
  BY <1>6 DEF AllowRules, Allow, Spares
<1>7. CASE AddGateway(c) \/ FindCore(c)
  BY <1>7 DEF AddGateway, FindCore, Spares, cloudVars
<1>8. CASE AllowDone(c)
  BY <1>8 DEF AllowDone, AddDone, Spares, cloudVars
<1>9. CASE CreateFileSystem(c)
  BY <1>9 DEF CreateFileSystem, Spares, World
<1>10. CASE TagFileSystem(c)
  BY <1>10 DEF TagFileSystem, Spares, World
<1>11. CASE CreateMountTargets(c)
  BY <1>11 DEF CreateMountTargets, AddDone, Spares
<1> QED
  BY <1>1, <1>2, <1>3, <1>4, <1>5, <1>6, <1>7, <1>8, <1>9, <1>10, <1>11 DEF Add

\* A shell whose command has ended does nothing.
LEMMA Nothing == NoJob.pc = "idle" /\ \A v \in Vpc : NoJob.at[v] = "none"
BY DEF NoJob

\* A command ends with all that it has read.
LEMMA ReadyStep ==
    ASSUME TypeOK, Ready, TakenApart, [Next]_vars
    PROVE  Ready'
<1>1. World /\ job \in [Command -> Jobs]
  BY TypeParts
<1> USE Steps, Nothing
<1>2. ASSUME NEW c \in Command, Add(c) \/ Delete(c) \/ Crash(c)
      PROVE  (Idle(c)' => job'[c] = NoJob) /\ \A d \in Command \ {c} : job'[d] = job[d]
  <2>1. CASE Add(c)
    BY <1>1, <2>1, AddVpcDoes, AddJobs DEF Leaves, Idle
  <2>2. CASE Delete(c)
    <3>1. CASE DeleteStart(c)
      BY <1>1, <3>1, DeleteStartDoes DEF Idle
    <3> QED
      BY <1>1, <2>2, <3>1, DeleteJobs DEF Continues, Idle
  <2>3. CASE Crash(c)
    BY <1>1, <2>3, Ends DEF Crash
  <2> QED
    BY <1>2, <2>1, <2>2, <2>3
<1>3. CASE UNCHANGED vars
  BY <1>3 DEF vars, Ready, Idle
<1> QED
  BY <1>2, <1>3 DEF Next, Ready, Idle

\* No step brings commands together that have to be apart.
LEMMA ApartStep ==
    ASSUME RegionAssumption, TypeOK, Apart, AddProgress, TakenApart, Unused, [Next]_vars
    PROVE  Apart'
<1>1. World /\ job \in [Command -> Jobs]
  BY TypeParts
<1> USE Steps, Nothing DEF Adding, Deleting, Idle
<1>2. ASSUME NEW c \in Command, AddVpc(c) PROVE Apart'
  <2>1. PICK v \in Vpc, r \in Region :
            /\ MayAdd(r) /\ vpc[v] = "unused"
            /\ job'[c].pc = "tagVpc" /\ job'[c].vpc = v
            /\ \A d \in Command \ {c} : job'[d] = job[d]
    BY <1>1, <1>2, AddVpcDoes
  <2>2. "tagVpc" \in AddStep
    BY DEF AddStep
  <2>3. removing = None /\ \A d \in Command : ~Deleting(d)
    BY <1>2, AddApart
  <2>4. \A d \in Command \ {c} : Adding(d) => job[d].vpc # v /\ complete \cap core # {}
    BY <2>1 DEF AddProgress, Made, MayAdd
  <2>5. UNCHANGED <<removing, complete, core>>
    BY <1>2 DEF AddVpc
  <2> QED
    BY <2>1, <2>2, <2>3, <2>4, <2>5 DEF Apart
<1>3. ASSUME NEW c \in Command, Add(c), ~AddVpc(c) PROVE Apart'
  <2>1. Adding(c) /\ removing' = removing /\ Leaves(c)
    BY <1>1, <1>3, AddJobs
  <2>2. removing = None /\ \A d \in Command : ~Deleting(d)
    BY <2>1, AddApart
  <2>3. complete \subseteq complete' /\ core \subseteq core'
    BY <1>1, <1>3, AddSpares DEF Spares
  <2> QED
    BY <2>1, <2>2, <2>3 DEF Apart, Leaves
<1>4. ASSUME NEW c \in Command, Delete(c) PROVE Apart'
  <2>1. \A d \in Command : ~Adding(d) /\ (d # c => Idle(d))
    BY <1>1, <1>4, DeleteJobs, DeleteApart
  <2>2. CASE DeleteStart(c)
    <3>1. {"vpcs", "mountTargets"} \subseteq DeleteStep
      BY DEF DeleteStep
    <3>2. /\ job'[c].pc \in DeleteStep /\ job'[c].region \in Region /\ removing' = job'[c].region
          /\ \A d \in Command \ {c} : job'[d] = job[d]
      BY <1>1, <2>2, <3>1, DeleteStartDoes
    <3> QED
      BY <2>1, <3>2 DEF Apart
  <2>3. CASE Deleting(c) /\ Continues(c)
    BY <2>1, <2>3 DEF Apart, Continues
  <2> QED
    BY <1>1, <1>4, <2>2, <2>3, DeleteJobs
<1>5. ASSUME NEW c \in Command, Crash(c) PROVE Apart'
  BY <1>1, <1>5, CrashDoes DEF Apart
<1>6. CASE UNCHANGED vars
  BY <1>6 DEF vars, cloudVars, Apart
<1> QED
  BY <1>2, <1>3, <1>4, <1>5, <1>6 DEF Next

\* Every step of region-add keeps what it has made, and nobody else takes it away.
LEMMA AddProgressStep ==
    ASSUME RegionAssumption, TypeOK, Ready, Apart, AddProgress, TakenApart, Unused, [Next]_vars
    PROVE  AddProgress'
<1>1. World /\ job \in [Command -> Jobs]
  BY TypeParts
<1> USE Steps, Nothing
<1>2. ASSUME NEW c \in Command, Add(c), NEW d \in Command \ {c}, Adding(d)' PROVE Made(d)'
  <2>1. job'[d] = job[d] /\ Adding(d)
    <3>1. job'[d] = job[d]
      BY <1>1, <1>2, AddVpcDoes, AddJobs DEF Leaves
    <3> QED
      BY <1>2, <3>1 DEF Adding
  <2>2. Made(d)
    BY <2>1 DEF AddProgress
  <2>3. job[d].pc # "tagCore"
    <3>1. complete \cap core # {}
      BY <1>1, <1>2, <2>1, AddVpcDoes, AddJobs DEF Apart, MayAdd, Idle, Adding
    <3> QED
      BY <2>2, <3>1 DEF Made
  <2>4. job'[c].vpc # job[d].vpc
    <3>1. CASE AddVpc(c)
      <4>1. PICK v \in Vpc : vpc[v] = "unused" /\ job'[c].vpc = v
        BY <1>1, <3>1, AddVpcDoes
      <4> QED
        BY <2>2, <4>1 DEF Made
    <3>2. CASE Adding(c) /\ Leaves(c)
      <4>1. job[c].vpc # job[d].vpc
        BY <2>1, <3>2 DEF Apart
      <4>2. job[d].vpc # NoJob.vpc
        BY <2>2 DEF Made, NoJob, RegionAssumption
      <4> QED
        BY <3>2, <4>1, <4>2 DEF Leaves
    <3> QED
      BY <1>1, <1>2, <3>1, <3>2, AddJobs
  <2>5. job[d].vpc \notin complete' /\ part'[job[d].vpc]["subnets"] = part[job[d].vpc]["subnets"]
    <3>1. CASE AddVpc(c)
      BY <2>2, <3>1 DEF AddVpc, Made
    <3>2. CASE Adding(c)
      <4>1. job[c].vpc # job[d].vpc
        BY <2>1, <3>2 DEF Apart
      <4> QED
        BY <1>1, <1>2, <2>2, <4>1, AddSpares DEF Spares, Made
    <3> QED
      BY <1>1, <1>2, <3>1, <3>2, AddJobs
  <2>6. /\ region'[job[d].vpc] = region[job[d].vpc] /\ vpc'[job[d].vpc] = vpc[job[d].vpc]
        /\ region'[job[d].host] = region[job[d].host]
        /\ vpc[job[d].host] = "tagged" => vpc'[job[d].host] = "tagged"
        /\ fs[job[d].region] = "tagged" => fs'[job[d].region] = "tagged"
    BY <1>1, <1>2, <2>2, <2>4, AddSpares DEF Spares, Made, RegionAssumption
  <2> QED
    BY <2>1, <2>2, <2>3, <2>5, <2>6 DEF Made, Late
<1>3. ASSUME NEW c \in Command, AddVpc(c) PROVE Made(c)'
  <2>1. PICK v \in Vpc, r \in Region :
            /\ vpc[v] = "unused"
            /\ vpc' = [vpc EXCEPT ![v] = "untagged"] /\ region' = [region EXCEPT ![v] = r]
            /\ job'[c].pc = "tagVpc" /\ job'[c].vpc = v /\ job'[c].host = v /\ job'[c].region = r
            /\ job'[c].part = job[c].part
    BY <1>1, <1>3, AddVpcDoes
  <2>2. job[c].part = "routes"
    BY <1>3 DEF AddVpc, Ready, NoJob
  <2>3. v \notin complete' /\ vpc'[v] = "untagged" /\ region'[v] = r
    BY <1>1, <1>3, <2>1 DEF AddVpc, Unused, World
  <2> QED
    BY <2>1, <2>2, <2>3 DEF Made, Late
<1>4. ASSUME NEW c \in Command, TagVpc(c) PROVE Made(c)'
  <2>1. Goes(c, "gateway")
    BY <1>1, <1>4, GoesOn DEF TagVpc, AddStep
  <2>2. Made(c) /\ job[c].pc = "tagVpc"
    BY <1>4 DEF TagVpc, AddProgress, Adding, AddStep
  <2>3. vpc'[job[c].vpc] = "tagged" /\ UNCHANGED <<region, complete, core, part, fs>>
    BY <1>1, <1>4, <2>2 DEF TagVpc, World, Made
  <2> QED
    BY <2>1, <2>2, <2>3 DEF Made, Late, Goes
<1>5. ASSUME NEW c \in Command, AddGateway(c) PROVE Made(c)'
  <2>1. Goes(c, "create")
    BY <1>1, <1>5, GoesOn DEF AddGateway, AddStep
  <2>2. Made(c) /\ job[c].pc = "gateway"
    BY <1>5 DEF AddGateway, AddProgress, Adding, AddStep
  <2> QED
    BY <1>5, <2>1, <2>2 DEF Made, Late, Goes, AddGateway
<1>6. ASSUME NEW c \in Command, CreatePart(c) PROVE Made(c)'
  <2>1. Goes(c, "tag")
    BY <1>1, <1>6, GoesOn DEF CreatePart, AddStep
  <2>2. Made(c) /\ job[c].pc = "create" /\ job[c].part \in Part
    BY <1>1, <1>6, JobTypes DEF CreatePart, AddProgress, Adding, AddStep
  <2>3. job[c].part = "groups" => part'[job[c].vpc]["subnets"] = part[job[c].vpc]["subnets"]
    <3>1. Becomes(job[c].host, job[c].part, "untagged")
      BY <1>6 DEF CreatePart, Becomes
    <3>2. job[c].vpc \in Vpc /\ job[c].host \in Vpc /\ {"groups", "subnets"} \subseteq Part
      BY <2>2 DEF Made, Part
    <3> QED
      BY <1>1, <2>2, <3>1, <3>2, PartBecomes
  <2> QED
    BY <1>6, <2>1, <2>2, <2>3 DEF Made, Late, Goes, CreatePart
<1>7. ASSUME NEW c \in Command, TagPart(c) PROVE Made(c)'
  <2>1. Made(c) /\ job[c].pc = "tag" /\ job[c].part \in Part
    BY <1>1, <1>7, JobTypes DEF TagPart, AddProgress, Adding, AddStep
  <2>2. /\ part'[job[c].host][job[c].part] = "tagged"
        /\ \A w \in Vpc, q \in Part : w # job[c].host \/ q # job[c].part => part'[w][q] = part[w][q]
    <3>1. Becomes(job[c].host, job[c].part, "tagged")
      BY <1>7 DEF TagPart, Becomes
    <3>2. job[c].host \in Vpc
      BY <2>1 DEF Made
    <3> QED
      BY <1>1, <2>1, <3>1, <3>2, PartBecomes
  <2>3. job[c].part \in {"subnets", "groups"} => part'[job[c].vpc]["subnets"] = "tagged"
    BY <2>1, <2>2 DEF Made, Late, Part
  <2>4. /\ job'[c].region = job[c].region /\ job'[c].vpc = job[c].vpc /\ job'[c].host = job[c].host
        /\ job'[c].part = IF job[c].part = "routes" THEN "subnets" ELSE "groups"
        /\ job'[c].pc = IF job[c].part = "groups" THEN "findCore"
                        ELSE IF job[c].part = "efsGroup" THEN "fileSystem" ELSE "create"
    BY <1>1, <1>7, TagPartDoes
  <2>5. UNCHANGED <<vpc, region, core, complete, fs>>
    BY <1>7 DEF TagPart
  <2>6. CASE job[c].part = "efsGroup"
    BY <2>1, <2>4, <2>5, <2>6 DEF Made, Late
  <2>7. CASE job[c].part # "efsGroup"
    BY <2>1, <2>3, <2>4, <2>5, <2>7 DEF Made, Late, Part
  <2> QED
    BY <2>6, <2>7
<1>8. ASSUME NEW c \in Command, FindCore(c), Adding(c)' PROVE Made(c)'
  <2>1. Made(c) /\ job[c].pc \in {"findCore", "findCoreAgain"}
    BY <1>8 DEF FindCore, AddProgress, Adding, AddStep
  <2>2. \/ core = {} /\ Goes(c, "tagCore")
        \/ Same(c) /\ job'[c].pc = "allow"
    BY <1>1, <1>8, FindCoreDoes, Ends, GoesOn DEF Adding, AddStep
  <2>3. UNCHANGED <<vpc, region, part, core, fs, complete>>
    BY <1>8 DEF FindCore, cloudVars
  <2> QED
    BY <2>1, <2>2, <2>3 DEF Made, Late, Same, Goes
<1>9. ASSUME NEW c \in Command, TagCore(c) PROVE Made(c)'
  <2>1. Goes(c, "findCoreAgain")
    BY <1>1, <1>9, GoesOn DEF TagCore, AddStep
  <2>2. Made(c) /\ job[c].pc = "tagCore"
    BY <1>9 DEF TagCore, AddProgress, Adding, AddStep
  <2> QED
    BY <1>9, <2>1, <2>2 DEF Made, Late, Goes, TagCore
<1>10. ASSUME NEW c \in Command, AllowRules(c), Adding(c)' PROVE Made(c)'
  <2>1. Made(c) /\ job[c].pc = "allow"
    BY <1>10 DEF AllowRules, Allow, AddProgress, Adding, AddStep
  <2>2. Same(c) /\ job'[c].pc = "allow"
    BY <1>1, <1>10, AllowDoes, Ends DEF AllowRules, Adding
  <2> QED
    BY <1>10, <2>1, <2>2 DEF Made, Late, Same, AllowRules, Allow
<1>11. ASSUME NEW c \in Command, AllowDone(c), Adding(c)' PROVE Made(c)'
  <2>1. Made(c) /\ job[c].pc = "allow"
    BY <1>11 DEF AllowDone, AddProgress, Adding, AddStep
  <2>2. Goes(c, "efsGroup") /\ complete' = complete
    BY <1>1, <1>11, Ends, GoesOn DEF AllowDone, AddDone, Adding, AddStep
  <2> QED
    BY <1>11, <2>1, <2>2 DEF Made, Late, Goes, AllowDone, cloudVars
<1>12. ASSUME NEW c \in Command, FindEfsVpc(c), Adding(c)' PROVE Made(c)'
  <2>1. Made(c) /\ job[c].pc = "efsGroup"
    BY <1>12 DEF FindEfsVpc, AddProgress, Adding, AddStep
  <2>2. /\ job'[c].region = job[c].region /\ job'[c].vpc = job[c].vpc
        /\ job'[c].pc = "create" /\ job'[c].part = "efsGroup" /\ job'[c].host \in Vpcs(job[c].region)
    BY <1>1, <1>12, FindEfsVpcDoes, Ends DEF Adding
  <2> QED
    BY <1>12, <2>1, <2>2 DEF Made, Late, Vpcs, FindEfsVpc
<1>13. ASSUME NEW c \in Command, CreateFileSystem(c) \/ TagFileSystem(c), Adding(c)' PROVE Made(c)'
  <2>1. Made(c) /\ job[c].pc \in {"fileSystem", "tagFileSystem"}
    BY <1>13 DEF CreateFileSystem, TagFileSystem, AddProgress, Adding, AddStep
  <2>2. \/ Goes(c, "tagFileSystem")
        \/ Goes(c, "mount") /\ fs'[job[c].region] = "tagged"
    <3>1. {"tagFileSystem", "mount"} \subseteq AddStep
      BY DEF AddStep
    <3>2. fs \in [Region -> {"none", "untagged", "tagged"}] /\ job[c].region \in Region
      BY <1>1, <2>1 DEF World, Made
    <3> QED
      BY <1>1, <1>13, <3>1, <3>2, Ends, GoesOn DEF CreateFileSystem, TagFileSystem, Adding
  <2> QED
    BY <1>13, <2>1, <2>2 DEF Made, Late, Goes, CreateFileSystem, TagFileSystem
<1>14. ASSUME NEW c \in Command, CreateMountTargets(c) PROVE ~Adding(c)'
  BY <1>1, <1>14, Ends DEF CreateMountTargets, AddDone, Adding
<1>15. ASSUME NEW c \in Command, Add(c) PROVE AddProgress'
  <2>1. Adding(c)' => Made(c)'
    BY <1>15, <1>3, <1>4, <1>5, <1>6, <1>7, <1>8, <1>9, <1>10, <1>11, <1>12, <1>13, <1>14 DEF Add
  <2> QED
    BY <1>2, <1>15, <2>1 DEF AddProgress, Made
<1>16. ASSUME NEW c \in Command, Delete(c) PROVE AddProgress'
  BY <1>1, <1>16, DeleteNoAdds DEF AddProgress
<1>17. ASSUME NEW c \in Command, Crash(c) PROVE AddProgress'
  <2>1. ASSUME NEW d \in Command, Adding(d)' PROVE Made(d)'
    BY <1>1, <1>17, <2>1, CrashDoes DEF AddProgress, Made, Late, Adding
  <2> QED
    BY <2>1 DEF AddProgress, Made
<1>18. CASE UNCHANGED vars
  BY <1>18 DEF vars, cloudVars, AddProgress, Made, Late, Adding
<1> QED
  BY <1>15, <1>16, <1>17, <1>18 DEF Next

\* Which step changes what.
LEMMA VpcChanges ==
    ASSUME [Next]_vars
    PROVE  /\ UNCHANGED region \/ \E c \in Command : AddVpc(c)
           /\ \/ UNCHANGED vpc
              \/ \E c \in Command : AddVpc(c) \/ TagVpc(c) \/ \E v \in Vpc : DeleteVpc(c, v)
           /\ UNCHANGED complete \/ \E c \in Command : AllowDone(c) \/ CreateMountTargets(c)
<1> USE DEF cloudVars
<1>1. CASE UNCHANGED vars
  BY <1>1 DEF vars
<1>2. ASSUME NEW c \in Command, Add(c)
      PROVE  /\ UNCHANGED region \/ AddVpc(c)
             /\ UNCHANGED vpc \/ AddVpc(c) \/ TagVpc(c)
             /\ UNCHANGED complete \/ AllowDone(c) \/ CreateMountTargets(c)
  BY <1>2 DEF Add, AddVpc, TagVpc, AddGateway, CreatePart, TagPart, FindCore, TagCore, AllowRules, Allow,
              AllowDone, FindEfsVpc, CreateFileSystem, TagFileSystem, CreateMountTargets
<1>3. ASSUME NEW c \in Command, Delete(c) \/ Crash(c)
      PROVE  UNCHANGED <<region, complete>> /\ (UNCHANGED vpc \/ \E v \in Vpc : DeleteVpc(c, v))
  BY <1>3 DEF Delete, DeleteStart, DeleteMountTargets, DeleteFileSystem, DeleteEfsGroup, FindVpcs, DeleteIn,
              DeleteSubnets, DeleteGroups, DeleteGateway, DeleteRoutes, DeleteVpc, DeleteDone, Crash
<1> QED
  BY <1>1, <1>2, <1>3 DEF Next

\* The same of what hangs on a VPC.
LEMMA PartChanges ==
    ASSUME [Next]_vars
    PROVE  /\ \/ UNCHANGED part
              \/ \E c \in Command : \/ CreatePart(c) \/ TagPart(c) \/ FindEfsVpc(c) \/ DeleteEfsGroup(c)
                                    \/ \E v \in Vpc : DeleteSubnets(c, v) \/ DeleteGroups(c, v) \/ DeleteRoutes(c, v)
           /\ UNCHANGED core \/ \E c \in Command : TagCore(c) \/ \E v \in Vpc : DeleteSubnets(c, v)
<1> USE DEF cloudVars
<1>1. CASE UNCHANGED vars
  BY <1>1 DEF vars
<1>2. ASSUME NEW c \in Command, Add(c)
      PROVE  /\ UNCHANGED part \/ CreatePart(c) \/ TagPart(c) \/ FindEfsVpc(c)
             /\ UNCHANGED core \/ TagCore(c)
  BY <1>2 DEF Add, AddVpc, TagVpc, AddGateway, CreatePart, TagPart, FindCore, TagCore, AllowRules, Allow,
              AllowDone, FindEfsVpc, CreateFileSystem, TagFileSystem, CreateMountTargets
<1>3. ASSUME NEW c \in Command, Delete(c) \/ Crash(c)
      PROVE  /\ \/ UNCHANGED part \/ DeleteEfsGroup(c)
                \/ \E v \in Vpc : DeleteSubnets(c, v) \/ DeleteGroups(c, v) \/ DeleteRoutes(c, v)
             /\ UNCHANGED core \/ \E v \in Vpc : DeleteSubnets(c, v)
  BY <1>3 DEF Delete, DeleteStart, DeleteMountTargets, DeleteFileSystem, DeleteEfsGroup, FindVpcs, DeleteIn,
              DeleteSubnets, DeleteGroups, DeleteGateway, DeleteRoutes, DeleteVpc, DeleteDone, Crash
<1> QED
  BY <1>1, <1>2, <1>3 DEF Next

\* The same of the file system.
LEMMA FsChanges ==
    ASSUME [Next]_vars
    PROVE  /\ \/ UNCHANGED fs
              \/ \E c \in Command : CreateFileSystem(c) \/ TagFileSystem(c) \/ DeleteFileSystem(c)
           /\ UNCHANGED mount \/ \E c \in Command : CreateMountTargets(c) \/ DeleteMountTargets(c)
<1> USE DEF cloudVars
<1>1. CASE UNCHANGED vars
  BY <1>1 DEF vars
<1>2. ASSUME NEW c \in Command, Add(c)
      PROVE  /\ UNCHANGED fs \/ CreateFileSystem(c) \/ TagFileSystem(c)
             /\ UNCHANGED mount \/ CreateMountTargets(c)
  BY <1>2 DEF Add, AddVpc, TagVpc, AddGateway, CreatePart, TagPart, FindCore, TagCore, AllowRules, Allow,
              AllowDone, FindEfsVpc, CreateFileSystem, TagFileSystem, CreateMountTargets
<1>3. ASSUME NEW c \in Command, Delete(c) \/ Crash(c)
      PROVE  (UNCHANGED fs \/ DeleteFileSystem(c)) /\ (UNCHANGED mount \/ DeleteMountTargets(c))
  BY <1>3 DEF Delete, DeleteStart, DeleteMountTargets, DeleteFileSystem, DeleteEfsGroup, FindVpcs, DeleteIn,
              DeleteSubnets, DeleteGroups, DeleteGateway, DeleteRoutes, DeleteVpc, DeleteDone, Crash
<1> QED
  BY <1>1, <1>2, <1>3 DEF Next

\* No step works on a VPC of another region.
LEMMA TakenApartStep ==
    ASSUME RegionAssumption, TypeOK, Ready, Apart, TakenApart, [Next]_vars
    PROVE  TakenApart'
<1>1. World /\ job \in [Command -> Jobs]
  BY TypeParts
<1> USE Steps, Nothing
<1>2. "vpcs" \in DeleteStep
  BY DEF DeleteStep
<1>3. ASSUME NEW c \in Command, Add(c) PROVE TakenApart'
  <2>1. \A d \in Command : \A v \in Vpc : job[d].at[v] = "none"
    BY <1>1, <1>2, <1>3, AddJobs, AddApart DEF TakenApart, Deleting
  <2>2. \A v \in Vpc : job'[c].at[v] = "none"
    BY <1>1, <1>3, <2>1, AddJobs, AddVpcDoes DEF Leaves
  <2>3. \A d \in Command \ {c} : job'[d] = job[d]
    BY <1>1, <1>3, AddJobs, AddVpcDoes DEF Leaves
  <2> QED
    BY <2>1, <2>2, <2>3 DEF TakenApart
<1>4. ASSUME NEW c \in Command, Delete(c) PROVE TakenApart'
  <2>1. \A d \in Command \ {c} : job'[d] = job[d] /\ job[d] = NoJob
    BY <1>1, <1>4, DeleteJobs, DeleteApart, DeleteStartDoes DEF Continues, Ready
  <2>2. ASSUME NEW v \in Vpc, job'[c].at[v] # "none" PROVE job'[c].pc = "vpcs" /\ region[v] = job'[c].region
    <3>1. CASE DeleteStart(c)
      <4>1. job[c] = NoJob
        BY <3>1 DEF Ready, DeleteStart
      <4>2. job'[c].at = job[c].at
        BY <1>1, <3>1, DeleteStartDoes
      <4> QED
        BY <2>2, <4>1, <4>2
    <3>2. CASE DeleteMountTargets(c) \/ DeleteFileSystem(c) \/ DeleteEfsGroup(c)
      <4>1. job[c].at[v] = "none"
        BY <3>2 DEF TakenApart, DeleteMountTargets, DeleteFileSystem, DeleteEfsGroup
      <4>2. End(c) \/ \E pc \in DeleteStep : Goes(c, pc)
        BY <1>1, <3>2, GoesOn DEF DeleteMountTargets, DeleteFileSystem, DeleteEfsGroup, DeleteStep
      <4> QED
        BY <1>1, <2>2, <4>1, <4>2, Ends DEF Goes
    <3>3. CASE FindVpcs(c)
      <4>1. job[c].pc = "vpcs"
        BY <3>3 DEF FindVpcs
      <4>2. Works(c, [w \in Vpc |-> IF w \in Vpcs(job[c].region) THEN "subnets" ELSE "none"])
        BY <1>1, <2>2, <3>3, FindVpcsDoes, Ends
      <4> QED
        BY <2>2, <4>1, <4>2 DEF Works, Vpcs
    <3>4. ASSUME NEW w \in Vpc, DeleteIn(c, w) PROVE job'[c].pc = "vpcs" /\ region[v] = job'[c].region
      <4>1. /\ job[c].at[w] # "none"
            /\ job[c].at \in [Vpc -> {"none", "subnets", "groups", "gateway", "routes", "vpc", "done"}]
        BY <1>1, <3>4, JobTypes DEF DeleteIn, DeleteSubnets, DeleteGroups, DeleteGateway, DeleteRoutes, DeleteVpc
      <4>2. End(c) \/ \E step \in {"none", "subnets", "groups", "gateway", "routes", "vpc", "done"} : Step(c, w, step)
        BY <3>4 DEF DeleteIn, DeleteSubnets, DeleteGroups, DeleteGateway, DeleteRoutes, DeleteVpc
      <4>3. \E step : Works(c, [job[c].at EXCEPT ![w] = step])
        <5>1. ~End(c)
          BY <1>1, <2>2, Ends
        <5>2. PICK step \in {"none", "subnets", "groups", "gateway", "routes", "vpc", "done"} : Step(c, w, step)
          BY <4>2, <5>1
        <5> QED
          BY <1>1, <5>2, StepDoes
      <4>4. v = w \/ job[c].at[v] # "none"
        BY <2>2, <4>1, <4>3 DEF Works
      <4> QED
        BY <4>1, <4>3, <4>4 DEF Works, TakenApart
    <3>5. CASE DeleteDone(c)
      BY <1>1, <2>2, <3>5, Ends DEF DeleteDone
    <3> QED
      BY <1>4, <3>1, <3>2, <3>3, <3>4, <3>5 DEF Delete
  <2>3. region' = region
    BY <1>4 DEF Delete, DeleteStart, DeleteMountTargets, DeleteFileSystem, DeleteEfsGroup, FindVpcs, DeleteIn,
                DeleteSubnets, DeleteGroups, DeleteGateway, DeleteRoutes, DeleteVpc, DeleteDone, cloudVars
  <2> QED
    BY <2>1, <2>2, <2>3 DEF TakenApart
<1>5. ASSUME NEW c \in Command, Crash(c) PROVE TakenApart'
  BY <1>1, <1>5, CrashDoes DEF TakenApart
<1>6. CASE UNCHANGED vars
  BY <1>6 DEF vars, cloudVars, TakenApart
<1> QED
  BY <1>3, <1>4, <1>5, <1>6 DEF Next

\* A VPC that is created is in a region from then on.
LEMMA UnusedStep ==
    ASSUME RegionAssumption, TypeOK, Apart, AddProgress, TakenApart, Unused, [Next]_vars
    PROVE  Unused'
<1>1. World /\ job \in [Command -> Jobs]
  BY TypeParts
<1> SUFFICES ASSUME NEW v \in Vpc
      PROVE  (vpc'[v] = "unused" <=> region'[v] = None) /\ (vpc'[v] = "unused" => v \notin complete')
  BY DEF Unused
<1>2. \/ (vpc'[v] = "unused" <=> vpc[v] = "unused") /\ region'[v] = region[v]
      \/ vpc'[v] = "untagged" /\ region'[v] \in Region
  <2>1. ASSUME NEW c \in Command, TagVpc(c)
        PROVE  (vpc'[v] = "unused" <=> vpc[v] = "unused") /\ region'[v] = region[v]
    <3>1. vpc[job[c].vpc] = "untagged" /\ job[c].vpc \in Vpc
      BY <2>1 DEF TagVpc, AddProgress, Made, Adding, AddStep
    <3> QED
      BY <1>1, <2>1, <3>1 DEF TagVpc, World
  <2>2. ASSUME NEW c \in Command, NEW w \in Vpc, DeleteVpc(c, w)
        PROVE  (vpc'[v] = "unused" <=> vpc[v] = "unused") /\ region'[v] = region[v]
    <3>1. job[c].at[w] # "none"
      BY <2>2 DEF DeleteVpc
    <3>2. vpc[w] # "unused"
      BY <3>1 DEF TakenApart, Apart, Unused, RegionAssumption, Deleting, DeleteStep
    <3> QED
      BY <1>1, <2>2, <3>2 DEF DeleteVpc, World
  <2>3. ASSUME NEW c \in Command, AddVpc(c)
        PROVE  \/ (vpc'[v] = "unused" <=> vpc[v] = "unused") /\ region'[v] = region[v]
               \/ vpc'[v] = "untagged" /\ region'[v] \in Region
    BY <1>1, <2>3, AddVpcDoes DEF World
  <2> QED
    BY <2>1, <2>2, <2>3, VpcChanges
<1>3. complete' = complete \/ \E c \in Command : complete' = complete \cup {job[c].vpc} /\ Adding(c)
  BY VpcChanges DEF AllowDone, CreateMountTargets, AddDone, Adding, AddStep
<1>4. \A c \in Command : Adding(c) => vpc[job[c].vpc] # "unused"
  BY DEF AddProgress, Made
<1> QED
  BY <1>2, <1>3, <1>4 DEF Unused, RegionAssumption

\* Of the groups seen, some or all go.
LEMMA GroupsGo ==
    ASSUME World, job \in [Command -> Jobs], NEW c \in Command, NEW v \in Vpc, DeleteGroups(c, v)
    PROVE  \E gone \in SUBSET {"groups", "efsGroup"} :
               /\ \A w \in Vpc, q \in Part : part'[w][q] = IF w = v /\ q \in gone THEN "absent" ELSE part[w][q]
               /\ \A w \in Vpc : admits'[w] = IF w = v /\ "groups" \in gone THEN {} ELSE admits[w]
               /\ Step(c, v, "gateway") \/ End(c)
<1>1. PICK early \in BOOLEAN :
          LET gone == IF "efsGroup" \in Seen(c, v) /\ early THEN {"efsGroup"}
                      ELSE IF part[v]["efsGroup"] = "untagged" THEN {} ELSE Seen(c, v)
          IN  /\ part' = [part EXCEPT ![v] = [p \in Part |-> IF p \in gone THEN "absent" ELSE @[p]]]
              /\ admits' = [admits EXCEPT ![v] = IF "groups" \in gone THEN {} ELSE @]
              /\ IF gone = Seen(c, v) THEN Step(c, v, "gateway") ELSE End(c)
  BY DEF DeleteGroups
<1> DEFINE gone == IF "efsGroup" \in Seen(c, v) /\ early THEN {"efsGroup"}
                   ELSE IF part[v]["efsGroup"] = "untagged" THEN {} ELSE Seen(c, v)
<1>2. gone \in SUBSET {"groups", "efsGroup"}
  BY JobTypes DEF Seen
<1>3. /\ part' = [part EXCEPT ![v] = [p \in Part |-> IF p \in gone THEN "absent" ELSE part[v][p]]]
      /\ admits' = [admits EXCEPT ![v] = IF "groups" \in gone THEN {} ELSE admits[v]]
      /\ Step(c, v, "gateway") \/ End(c)
  BY <1>1
<1> HIDE DEF gone
<1>4. \A w \in Vpc, q \in Part : part'[w][q] = IF w = v /\ q \in gone THEN "absent" ELSE part[w][q]
  BY <1>3 DEF World
<1>5. \A w \in Vpc : admits'[w] = IF w = v /\ "groups" \in gone THEN {} ELSE admits[w]
  BY <1>3 DEF World
<1> QED
  BY <1>2, <1>3, <1>4, <1>5

\* Nothing is made in a VPC before it has its tag, and no VPC goes before what is in it.
LEMMA PartsHangStep ==
    ASSUME TypeOK, AddProgress, PartsHang, [Next]_vars
    PROVE  PartsHang'
<1>1. World /\ job \in [Command -> Jobs]
  BY TypeParts
<1> SUFFICES ASSUME NEW v \in Vpc, NEW p \in Part, part'[v][p] # "absent" PROVE vpc'[v] = "tagged"
  BY DEF PartsHang
<1>2. CASE UNCHANGED part
  <2>1. vpc[v] = "tagged" /\ part[v][p] # "absent"
    BY <1>2 DEF PartsHang
  <2>2. ASSUME NEW c \in Command, TagVpc(c) PROVE vpc'[v] = "tagged"
    BY <1>1, <2>1, <2>2 DEF TagVpc, World
  <2>3. ASSUME NEW c \in Command, NEW w \in Vpc, DeleteVpc(c, w) PROVE vpc'[v] = "tagged"
    BY <1>1, <2>1, <2>3 DEF DeleteVpc, World
  <2>4. ASSUME NEW c \in Command, AddVpc(c) PROVE vpc'[v] = "tagged"
    BY <1>1, <2>1, <2>4, AddVpcDoes DEF World
  <2> QED
    BY <2>1, <2>2, <2>3, <2>4, VpcChanges
<1>3. ASSUME NEW c \in Command, CreatePart(c) \/ TagPart(c) PROVE vpc'[v] = "tagged"
  <2>1. Made(c) /\ job[c].pc \in {"create", "tag"} /\ job[c].part \in Part
    BY <1>1, <1>3, JobTypes DEF AddProgress, Adding, AddStep, CreatePart, TagPart
  <2>2. \E s \in {"untagged", "tagged"} : Becomes(job[c].host, job[c].part, s)
    BY <1>3 DEF CreatePart, TagPart, Becomes
  <2>3. v = job[c].host \/ part[v][p] # "absent"
    BY <1>1, <2>1, <2>2, PartBecomes DEF Made
  <2>4. vpc' = vpc
    BY <1>3 DEF CreatePart, TagPart
  <2> QED
    BY <2>1, <2>3, <2>4 DEF PartsHang, Made
<1>4. ASSUME NEW c \in Command, FindEfsVpc(c) PROVE vpc'[v] = "tagged"
  <2>1. UNCHANGED part \/ \E w \in Vpcs(job[c].region) : Becomes(w, "efsGroup", "untagged")
    BY <1>1, <1>4, FindEfsVpcDoes
  <2>2. v \in Vpcs(job[c].region) \/ part[v][p] # "absent"
    BY <1>1, <2>1, PartBecomes DEF Vpcs, Part
  <2>3. vpc' = vpc
    BY <1>4 DEF FindEfsVpc
  <2> QED
    BY <2>2, <2>3 DEF PartsHang, Vpcs
<1>5. ASSUME NEW c \in Command,
             \/ DeleteEfsGroup(c)
             \/ \E w \in Vpc : DeleteSubnets(c, w) \/ DeleteGroups(c, w) \/ DeleteRoutes(c, w)
      PROVE  vpc'[v] = "tagged"
  <2>1. part[v][p] # "absent"
    <3>1. CASE DeleteEfsGroup(c)
      BY <1>1, <3>1 DEF DeleteEfsGroup, World, Part
    <3>2. ASSUME NEW w \in Vpc, DeleteSubnets(c, w) PROVE part[v][p] # "absent"
      <4>1. UNCHANGED part \/ Becomes(w, "subnets", "absent")
        BY <3>2 DEF DeleteSubnets, Becomes
      <4> QED
        BY <1>1, <4>1, PartBecomes DEF Part
    <3>3. ASSUME NEW w \in Vpc, DeleteGroups(c, w) PROVE part[v][p] # "absent"
      <4> QED
        BY <1>1, <3>3, GroupsGo
    <3>4. ASSUME NEW w \in Vpc, DeleteRoutes(c, w) PROVE part[v][p] # "absent"
      <4>1. \E s \in {"absent", part[w]["routes"]} : Becomes(w, "routes", s)
        BY <3>4 DEF DeleteRoutes, Becomes
      <4>2. part[w]["routes"] \in {"absent", "untagged", "tagged"}
        BY <1>1 DEF World, Part
      <4> QED
        BY <1>1, <4>1, <4>2, PartBecomes DEF Part
    <3> QED
      BY <1>5, <3>1, <3>2, <3>3, <3>4
  <2>2. vpc' = vpc
    BY <1>5 DEF DeleteEfsGroup, DeleteSubnets, DeleteGroups, DeleteRoutes
  <2> QED
    BY <2>1, <2>2 DEF PartsHang
<1> QED
  BY <1>2, <1>3, <1>4, <1>5, PartChanges

\* A VPC is tagged as the core only while no other is, and as long as it has subnets.
LEMMA OneCoreStep ==
    ASSUME TypeOK, AddProgress, OneCore, [Next]_vars
    PROVE  OneCore'
<1>1. World /\ job \in [Command -> Jobs]
  BY TypeParts
<1>2. ASSUME NEW c \in Command, TagCore(c) PROVE OneCore'
  <2>1. Made(c) /\ job[c].pc = "tagCore"
    BY <1>2 DEF TagCore, AddProgress, Adding, AddStep
  <2>2. core' = {job[c].vpc} /\ UNCHANGED part
    BY <1>2, <2>1 DEF TagCore, Made
  <2> QED
    BY <2>1, <2>2 DEF OneCore, Made
<1>3. ASSUME NEW c \in Command, NEW w \in Vpc, DeleteSubnets(c, w) PROVE OneCore'
  <2>1. \/ UNCHANGED <<part, core>>
        \/ Becomes(w, "subnets", "absent") /\ core' = core \ {w}
    BY <1>3 DEF DeleteSubnets, Becomes
  <2>2. \A v \in core' : v \in core /\ part'[v]["subnets"] = part[v]["subnets"]
    BY <1>1, <2>1, PartBecomes DEF World, Part
  <2> QED
    BY <2>2 DEF OneCore
<1>4. CASE core' = core
  <2> SUFFICES ASSUME NEW v \in core, part[v]["subnets"] # "absent" PROVE part'[v]["subnets"] # "absent"
    BY <1>4 DEF OneCore
  <2>0. v \in Vpc /\ "subnets" \in Part
    BY <1>1 DEF World, Part
  <2>1. ASSUME NEW c \in Command, CreatePart(c) \/ TagPart(c) PROVE part'[v]["subnets"] # "absent"
    <3>1. Made(c) /\ job[c].part \in Part
      BY <1>1, <2>1, JobTypes DEF AddProgress, Adding, AddStep, CreatePart, TagPart
    <3>2. \E s \in {"untagged", "tagged"} : Becomes(job[c].host, job[c].part, s)
      BY <2>1 DEF CreatePart, TagPart, Becomes
    <3> QED
      BY <1>1, <2>0, <3>1, <3>2, PartBecomes DEF Made
  <2>2. ASSUME NEW c \in Command, FindEfsVpc(c) PROVE part'[v]["subnets"] # "absent"
    <3>1. UNCHANGED part \/ \E w \in Vpcs(job[c].region) : Becomes(w, "efsGroup", "untagged")
      BY <1>1, <2>2, FindEfsVpcDoes
    <3> QED
      BY <1>1, <2>0, <3>1, PartBecomes DEF Vpcs, Part
  <2>3. ASSUME NEW c \in Command, DeleteEfsGroup(c) PROVE part'[v]["subnets"] # "absent"
    BY <1>1, <2>0, <2>3 DEF DeleteEfsGroup, World
  <2>4. ASSUME NEW c \in Command, NEW w \in Vpc, DeleteSubnets(c, w) PROVE part'[v]["subnets"] # "absent"
    <3>1. \/ UNCHANGED part
          \/ Becomes(w, "subnets", "absent") /\ v # w
      BY <1>4, <2>4 DEF DeleteSubnets, Becomes
    <3> QED
      BY <1>1, <2>0, <3>1, PartBecomes
  <2>5. ASSUME NEW c \in Command, NEW w \in Vpc, DeleteGroups(c, w) PROVE part'[v]["subnets"] # "absent"
    BY <1>1, <2>0, <2>5, GroupsGo
  <2>6. ASSUME NEW c \in Command, NEW w \in Vpc, DeleteRoutes(c, w) PROVE part'[v]["subnets"] # "absent"
    <3>1. \E s \in {"absent", part[w]["routes"]} : Becomes(w, "routes", s)
      BY <2>6 DEF DeleteRoutes, Becomes
    <3>2. part[w]["routes"] \in {"absent", "untagged", "tagged"}
      BY <1>1 DEF World, Part
    <3> QED
      BY <1>1, <2>0, <3>1, <3>2, PartBecomes DEF Part
  <2> QED
    BY <2>1, <2>2, <2>3, <2>4, <2>5, <2>6, PartChanges
<1> QED
  BY <1>2, <1>3, <1>4, PartChanges

\* A file system goes after its mount targets.
LEMMA MountsHaveFsStep ==
    ASSUME RegionAssumption, TypeOK, Ready, Apart, AddProgress, TakenApart, MountsHaveFs, [Next]_vars
    PROVE  MountsHaveFs'
<1>1. World /\ job \in [Command -> Jobs]
  BY TypeParts
<1> USE Steps, Nothing
<1> DEFINE Bare(d) == job[d].pc \in {"fileSystemGone", "find", "vpcs"} => mount[job[d].region] = None
<1>2. {"fileSystemGone", "find", "vpcs", "mountTargets"} \subseteq DeleteStep
  BY DEF DeleteStep
<1>3. ASSUME NEW c \in Command, Add(c) PROVE MountsHaveFs'
  <2>1. \A d \in Command : job'[d].pc \notin {"fileSystemGone", "find", "vpcs"}
    <3>1. \A d \in Command \ {c} : job'[d] = job[d] /\ ~Deleting(d)
      BY <1>1, <1>3, AddJobs, AddApart, AddVpcDoes DEF Leaves
    <3>2. job'[c].pc \notin DeleteStep
      BY <1>1, <1>3, AddJobs, AddVpcDoes DEF Leaves, AddStep, DeleteStep
    <3> QED
      BY <1>2, <3>1, <3>2 DEF Deleting
  <2>2. ASSUME NEW r \in Region, mount'[r] # None PROVE fs'[r] = "tagged"
    <3>1. CASE CreateMountTargets(c)
      <4>1. Made(c) /\ job[c].pc = "mount"
        BY <3>1 DEF CreateMountTargets, AddProgress, Adding, AddStep
      <4>2. fs[r] = "tagged"
        BY <1>1, <2>2, <3>1, <4>1 DEF CreateMountTargets, Made, MountsHaveFs, World
      <4> QED
        BY <3>1, <4>2 DEF CreateMountTargets
    <3>2. CASE CreateFileSystem(c)
      BY <1>1, <2>2, <3>2 DEF CreateFileSystem, MountsHaveFs, World
    <3>3. CASE TagFileSystem(c)
      BY <1>1, <2>2, <3>3 DEF TagFileSystem, MountsHaveFs, World
    <3>4. CASE UNCHANGED <<fs, mount>>
      BY <2>2, <3>4 DEF MountsHaveFs
    <3> QED
      BY <1>3, <3>1, <3>2, <3>3, <3>4 DEF Add, AddVpc, TagVpc, AddGateway, CreatePart, TagPart, FindCore, TagCore,
         AllowRules, Allow, AllowDone, FindEfsVpc, cloudVars
  <2> QED
    BY <2>1, <2>2 DEF MountsHaveFs
<1>4. ASSUME NEW c \in Command, Delete(c) PROVE MountsHaveFs'
  <2>1. \A d \in Command \ {c} : job'[d].pc = "idle"
    BY <1>1, <1>4, DeleteJobs, DeleteApart, DeleteStartDoes DEF Continues, Idle
  <2>2. SUFFICES (\A r \in Region : mount'[r] # None => fs'[r] = "tagged") /\ Bare(c)'
    BY <2>1 DEF MountsHaveFs
  <2>3. Deleting(c) => job[c].region \in Region
    BY DEF Apart
  <2>4. CASE DeleteStart(c)
    <3>1. UNCHANGED <<fs, mount>>
      BY <2>4 DEF DeleteStart, cloudVars
    <3>2. Bare(c)'
      BY <1>1, <2>4, <3>1, DeleteStartDoes DEF MountsHaveFs
    <3> QED
      BY <3>1, <3>2 DEF MountsHaveFs
  <2>5. CASE DeleteMountTargets(c)
    <3>1. job[c].region \in Region /\ (End(c) \/ Goes(c, "fileSystemGone"))
      BY <1>1, <1>2, <2>3, <2>5, GoesOn DEF DeleteMountTargets, Deleting
    <3>2. mount' = [mount EXCEPT ![job[c].region] = None] /\ fs' = fs
      BY <2>5 DEF DeleteMountTargets
    <3> QED
      BY <1>1, <3>1, <3>2, Ends DEF MountsHaveFs, Goes, World
  <2>6. CASE DeleteFileSystem(c)
    <3>1. job[c].region \in Region /\ Goes(c, "find") /\ job[c].pc = "fileSystemGone"
      BY <1>1, <1>2, <2>3, <2>6, GoesOn DEF DeleteFileSystem, Deleting
    <3>2. fs' = [fs EXCEPT ![job[c].region] = "none"] /\ mount' = mount
      BY <2>6 DEF DeleteFileSystem
    <3> QED
      BY <1>1, <3>1, <3>2 DEF MountsHaveFs, Goes, World
  <2>7. CASE DeleteEfsGroup(c) \/ FindVpcs(c) \/ DeleteDone(c) \/ \E v \in Vpc : DeleteIn(c, v)
    <3>1. UNCHANGED <<fs, mount>> /\ job[c].pc \in {"find", "vpcs"}
      BY <2>7 DEF DeleteEfsGroup, FindVpcs, DeleteDone, DeleteIn, DeleteSubnets, DeleteGroups, DeleteGateway,
                  DeleteRoutes, DeleteVpc, cloudVars, TakenApart
    <3>2. job'[c] = NoJob \/ job'[c].region = job[c].region
      BY <1>1, <1>2, <1>4, <3>1, DeleteJobs DEF Continues, DeleteStart, Idle
    <3> QED
      BY <3>1, <3>2 DEF MountsHaveFs
  <2> QED
    BY <1>4, <2>4, <2>5, <2>6, <2>7 DEF Delete
<1>5. ASSUME NEW c \in Command, Crash(c) PROVE MountsHaveFs'
  BY <1>1, <1>5, CrashDoes DEF MountsHaveFs
<1>6. CASE UNCHANGED vars
  BY <1>6 DEF vars, cloudVars, MountsHaveFs
<1> QED
  BY <1>3, <1>4, <1>5, <1>6 DEF Next

\* The invariant holds at the start.
LEMMA RegionStart == RegionAssumption /\ Init => RegionInv
<1> SUFFICES ASSUME RegionAssumption, Init PROVE RegionInv
  OBVIOUS
<1>1. \A c \in Command : job[c] = NoJob
  BY DEF Init
<1>2. Ready /\ Apart /\ AddProgress /\ TakenApart
  BY <1>1, Steps, Nothing DEF Ready, Apart, AddProgress, TakenApart, Adding, Deleting
<1>3. Unused /\ PartsHang /\ OneCore
  BY DEF Init, Unused, PartsHang, OneCore
<1>4. MountsHaveFs
  BY <1>1, Nothing DEF Init, MountsHaveFs
<1> QED
  BY <1>2, <1>3, <1>4, TypeStart DEF RegionInv

\* Every step keeps it.
LEMMA RegionStep == RegionAssumption /\ RegionInv /\ [Next]_vars => RegionInv'
<1> SUFFICES ASSUME RegionAssumption, RegionInv, [Next]_vars PROVE RegionInv'
  OBVIOUS
<1>1. /\ TypeOK /\ Ready /\ Apart /\ AddProgress /\ TakenApart
      /\ Unused /\ PartsHang /\ OneCore /\ MountsHaveFs
  BY DEF RegionInv
<1> QED
  BY <1>1, TypeStep, ReadyStep, ApartStep, AddProgressStep, TakenApartStep, UnusedStep, PartsHangStep,
     OneCoreStep, MountsHaveFsStep DEF RegionInv

\* The invariant, for every number of shells, regions and VPCs.
LEMMA RegionInvariant == Spec => []RegionInv
<1>1. RegionAssumption
  BY RegionAssumption
<1> QED
  BY <1>1, RegionStart, RegionStep, PTL DEF Spec

\* ensureCoreRegion keeps to one core region, also when regions are added at the same time.
THEOREM OneCoreRegionAlways == Spec => []CoreInv
<1>1. RegionInv => CoreInv
  <2> SUFFICES ASSUME RegionInv PROVE OneCoreRegion
    BY DEF RegionInv, CoreInv
  <2>1. \A v, w \in core : v = w
    BY DEF RegionInv, OneCore
  <2>2. CASE core = {}
    <3>1. CoreLocations = {}
      BY <2>2 DEF CoreLocations
    <3> QED
      BY <3>1, FS_EmptySet DEF OneCoreRegion
  <2>3. CASE core # {}
    <3>1. PICK v \in core : TRUE
      BY <2>3
    <3>2. CoreLocations = {region[v]}
      BY <2>1, <3>1 DEF CoreLocations
    <3>3. Cardinality({region[v]}) = 1
      BY FS_Singleton
    <3> QED
      BY <3>2, <3>3 DEF OneCoreRegion
  <2> QED
    BY <2>2, <2>3
<1> QED
  BY <1>1, RegionInvariant, PTL

-------------------------------------------------------------------------------
(* The firewalls. *)

\* A firewall admits ever more while regions are added.
LEMMA AddAdmits ==
    ASSUME World, NEW c \in Command, Add(c)
    PROVE  \A v \in Vpc : admits[v] \subseteq admits'[v]
<1>1. CASE AllowRules(c)
  <2>1. ASSUME NEW r, NEW from, NEW rule, Allow(c, r, from, rule)
        PROVE  \A v \in Vpc : admits[v] \subseteq admits'[v]
    <3>1. UNCHANGED admits \/ \E v \in Vpcs(r) : admits' = [admits EXCEPT ![v] = @ \cup from]
      BY <2>1 DEF Allow
    <3> QED
      BY <3>1 DEF World, Vpcs
  <2> QED
    BY <1>1, <2>1 DEF AllowRules
<1>2. CASE UNCHANGED admits
  BY <1>2
<1> QED
  BY <1>1, <1>2 DEF Add, AddVpc, TagVpc, AddGateway, CreatePart, TagPart, FindCore, TagCore, AllowDone,
     FindEfsVpc, CreateFileSystem, TagFileSystem, CreateMountTargets, cloudVars

\* What region-delete takes away; a firewall changes only in a VPC that loses its subnets or groups.
Takes(c) ==
    /\ complete' = complete /\ region' = region
    /\ \A v \in Vpc : vpc'[v] \in {vpc[v], "deleted"}
    /\ \A v \in Vpc, p \in Part : part'[v][p] \in {part[v][p], "absent"}
    /\ core' \subseteq core
    /\ \A v \in core \ core' : part'[v]["subnets"] = "absent" /\ job[c].at[v] # "none"
    /\ \A v \in Vpc : \/ admits'[v] = admits[v]
                      \/ part'[v]["subnets"] = "absent" \/ part'[v]["groups"] = "absent"

\* Every step of region-delete is such a step.
LEMMA DeleteTakes ==
    ASSUME RegionAssumption, World, job \in [Command -> Jobs], Apart, TakenApart, MountsHaveFs,
           NEW c \in Command, Delete(c)
    PROVE  Takes(c)
<1>1. CASE DeleteStart(c) \/ DeleteMountTargets(c) \/ DeleteFileSystem(c) \/ FindVpcs(c) \/ DeleteDone(c)
  BY <1>1 DEF DeleteStart, DeleteMountTargets, DeleteFileSystem, FindVpcs, DeleteDone, cloudVars, Takes
<1>2. CASE DeleteEfsGroup(c)
  <2>1. \A v \in Vpc, p \in Part : part'[v][p] \in {part[v][p], "absent"}
    BY <1>2 DEF DeleteEfsGroup, World, Part
  <2> QED
    BY <1>2, <2>1 DEF DeleteEfsGroup, Takes
<1>3. ASSUME NEW w \in Vpc, DeleteSubnets(c, w) PROVE Takes(c)
  <2>1. job[c].at[w] # "none"
    BY <1>3 DEF DeleteSubnets
  <2>2. mount[job[c].region] # w
    BY <2>1 DEF TakenApart, MountsHaveFs, RegionAssumption
  <2>3. Becomes(w, "subnets", "absent") /\ core' = core \ {w}
    BY <1>3, <2>2 DEF DeleteSubnets, Becomes
  <2>4. part'[w]["subnets"] = "absent" /\ \A v \in Vpc, p \in Part : part'[v][p] \in {part[v][p], "absent"}
    BY <2>3, PartBecomes DEF Part
  <2>5. \A v \in Vpc : v = w \/ admits'[v] = admits[v]
    BY <1>3 DEF DeleteSubnets, World
  <2> QED
    BY <1>3, <2>1, <2>3, <2>4, <2>5 DEF DeleteSubnets, Takes
<1>4. ASSUME NEW w \in Vpc, DeleteGroups(c, w) PROVE Takes(c)
  <2>1. /\ \A v \in Vpc, p \in Part : part'[v][p] \in {part[v][p], "absent"}
        /\ \A v \in Vpc : admits'[v] = admits[v] \/ part'[v]["groups"] = "absent"
    BY <1>4, GroupsGo DEF Part
  <2> QED
    BY <1>4, <2>1 DEF DeleteGroups, Takes
<1>5. ASSUME NEW w \in Vpc, DeleteGateway(c, w) PROVE Takes(c)
  BY <1>5 DEF DeleteGateway, Takes
<1>6. ASSUME NEW w \in Vpc, DeleteRoutes(c, w) PROVE Takes(c)
  <2>1. \E s \in {"absent", part[w]["routes"]} : Becomes(w, "routes", s)
    BY <1>6 DEF DeleteRoutes, Becomes
  <2>2. part[w]["routes"] \in {"absent", "untagged", "tagged"}
    BY DEF World, Part
  <2>3. \A v \in Vpc, p \in Part : part'[v][p] \in {part[v][p], "absent"}
    BY <2>1, <2>2, PartBecomes DEF Part
  <2> QED
    BY <1>6, <2>3 DEF DeleteRoutes, Takes
<1>7. ASSUME NEW w \in Vpc, DeleteVpc(c, w) PROVE Takes(c)
  <2>1. \A v \in Vpc : vpc'[v] \in {vpc[v], "deleted"}
    BY <1>7 DEF DeleteVpc, World
  <2> QED
    BY <1>7, <2>1 DEF DeleteVpc, Takes
<1> QED
  BY <1>1, <1>2, <1>3, <1>4, <1>5, <1>6, <1>7 DEF Delete, DeleteIn

\* What the parts of the invariant say together about one step.
Facts ==
    /\ World /\ job \in [Command -> Jobs] /\ Ready /\ Apart /\ AddProgress /\ TakenApart
    /\ Unused /\ PartsHang /\ OneCore /\ MountsHaveFs

\* They hold wherever the invariant does.
LEMMA FactsHold == RegionInv => Facts
BY TypeParts DEF RegionInv, Facts

\* The subnets and groups of a VPC are made before its firewall is opened.
LEMMA AddParts ==
    ASSUME Facts, NEW c \in Command, Add(c), NEW v \in Vpc, NEW p \in {"subnets", "groups"}
    PROVE  \/ part'[v][p] = part[v][p]
           \/ Adding(c) /\ ~Late(c) /\ job[c].pc \in {"create", "tag"} /\ v = job[c].vpc
<1> USE DEF Facts
<1>1. CASE CreatePart(c) \/ TagPart(c)
  <2>1. Adding(c) /\ job[c].pc \in {"create", "tag"} /\ job[c].part \in Part
    BY <1>1, JobTypes DEF CreatePart, TagPart, Adding, AddStep
  <2>2. \E s \in {"untagged", "tagged"} : Becomes(job[c].host, job[c].part, s)
    BY <1>1 DEF CreatePart, TagPart, Becomes
  <2>3. job[c].host \in Vpc /\ (Late(c) \/ job[c].host = job[c].vpc)
    BY <2>1 DEF AddProgress, Made
  <2>4. Late(c) <=> job[c].part = "efsGroup"
    BY <2>1 DEF Late
  <2>5. part'[v][p] = part[v][p] \/ (v = job[c].host /\ p = job[c].part)
    BY <2>1, <2>2, <2>3, PartBecomes DEF Part
  <2> QED
    BY <2>1, <2>3, <2>4, <2>5
<1>2. CASE FindEfsVpc(c)
  <2>1. UNCHANGED part \/ \E w \in Vpcs(job[c].region) : Becomes(w, "efsGroup", "untagged")
    BY <1>2, FindEfsVpcDoes
  <2> QED
    BY <2>1, PartBecomes DEF Vpcs, Part
<1>3. CASE UNCHANGED part
  BY <1>3
<1> QED
  BY <1>1, <1>2, <1>3 DEF Add, AddVpc, TagVpc, AddGateway, FindCore, TagCore, AllowRules, Allow, AllowDone,
     CreateFileSystem, TagFileSystem, CreateMountTargets, cloudVars

\* region-add succeeds with its last step.
LEMMA AddCompletes ==
    ASSUME NEW c \in Command, Add(c)
    PROVE  complete' = complete \/ AllowDone(c) \/ CreateMountTargets(c)
BY DEF Add, AddVpc, TagVpc, AddGateway, CreatePart, TagPart, FindCore, TagCore, AllowRules, Allow, FindEfsVpc,
   CreateFileSystem, TagFileSystem

\* region-add that may not be repeated finds no VPC in its region.
LEMMA UniqueStep ==
    ASSUME RegionAssumption, Facts, Unique, [Next]_vars
    PROVE  Unique'
<1> USE DEF Facts
<1>1. CASE \E c \in Command : AddVpc(c)
  <2>1. PICK c \in Command : AddVpc(c)
    BY <1>1
  <2>2. PICK x \in Vpc, r \in Region :
            /\ MayAdd(r)
            /\ vpc' = [vpc EXCEPT ![x] = "untagged"] /\ region' = [region EXCEPT ![x] = r]
    BY <2>1, AddVpcDoes
  <2>3. r \in Repeat \/ \A v \in Vpc : region[v] = r => vpc[v] = "deleted"
    BY <2>2 DEF MayAdd
  <2>4. \A v \in Vpc \ {x} : vpc'[v] = vpc[v] /\ region'[v] = region[v]
    BY <2>2
  <2>5. region'[x] = r
    BY <2>2 DEF World
  <2>6. r \in Repeat \/ \A v \in Vpc \ {x} : region'[v] = r => vpc'[v] = "deleted"
    BY <2>3, <2>4
  <2> QED
    BY <2>4, <2>5, <2>6 DEF Unique, Single
<1>2. CASE UNCHANGED region
  <2>1. \A v \in Vpc : vpc'[v] \in {"untagged", "tagged"} => vpc[v] \in {"untagged", "tagged"}
    <3>1. ASSUME NEW c \in Command, TagVpc(c), NEW v \in Vpc, vpc'[v] \in {"untagged", "tagged"}
          PROVE  vpc[v] \in {"untagged", "tagged"}
      <4>1. vpc[job[c].vpc] = "untagged" /\ job[c].vpc \in Vpc
        BY <3>1 DEF TagVpc, AddProgress, Made, Adding, AddStep
      <4> QED
        BY <3>1, <4>1 DEF TagVpc, World
    <3>2. ASSUME NEW c \in Command, NEW w \in Vpc, DeleteVpc(c, w), NEW v \in Vpc, vpc'[v] \in {"untagged", "tagged"}
          PROVE  vpc[v] \in {"untagged", "tagged"}
      BY <3>2 DEF DeleteVpc, World
    <3>3. ASSUME NEW c \in Command, AddVpc(c) PROVE FALSE
      <4>1. PICK x \in Vpc, r \in Region : vpc[x] = "unused" /\ region' = [region EXCEPT ![x] = r]
        BY <3>3, AddVpcDoes
      <4> QED
        BY <1>2, <4>1 DEF Unused, RegionAssumption, World
    <3> QED
      BY <3>1, <3>2, <3>3, VpcChanges
  <2> QED
    BY <1>2, <2>1 DEF Unique, Single
<1> QED
  BY <1>1, <1>2, VpcChanges

\* The core region goes when no region that it serves is left.
LEMMA CoreLastStep ==
    ASSUME RegionAssumption, Facts, CoreLast, [Next]_vars
    PROVE  CoreLast'
<1> USE Steps, Nothing DEF Facts
<1>1. ASSUME NEW c \in Command, Add(c) PROVE CoreLast'
  <2>1. \A d \in Command \ {c} : job'[d] = job[d] /\ ~Deleting(d)
    BY <1>1, AddJobs, AddApart, AddVpcDoes DEF Leaves
  <2>2. job'[c].pc \notin DeleteStep
    BY <1>1, AddJobs, AddVpcDoes DEF Leaves, AddStep, DeleteStep
  <2> QED
    BY <2>1, <2>2 DEF CoreLast, Deleting
<1>2. ASSUME NEW c \in Command, Delete(c) PROVE CoreLast'
  <2>1. Takes(c)
    BY <1>2, DeleteTakes
  <2>2. \A d \in Command \ {c} : ~Deleting(d)'
    BY <1>2, DeleteJobs, DeleteApart, DeleteStartDoes DEF Continues, Idle, Deleting
  <2>3. CoreLocations' \subseteq CoreLocations
    BY <2>1 DEF Takes, CoreLocations
  <2>4. \A v \in Vpc : vpc'[v] = "tagged" => vpc[v] = "tagged"
    BY <2>1 DEF Takes
  <2>5. ASSUME job'[c].region \in CoreLocations, Deleting(c)', NEW v \in Vpc, vpc[v] = "tagged"
        PROVE  region[v] = job'[c].region
    <3>1. CASE DeleteStart(c)
      <4>1. PICK r \in Region : MayDelete(r) /\ job'[c].region = r
        BY <3>1, DeleteStartDoes
      <4>2. region[v] \in Region
        BY <2>5 DEF World, Unused
      <4> QED
        BY <2>5, <4>1, <4>2 DEF MayDelete, Vpcs
    <3>2. CASE Deleting(c) /\ Continues(c)
      BY <2>5, <3>2 DEF Continues, CoreLast, Deleting
    <3> QED
      BY <1>2, <3>1, <3>2, DeleteJobs
  <2> QED
    BY <2>1, <2>2, <2>3, <2>4, <2>5 DEF CoreLast, Takes
<1>3. ASSUME NEW c \in Command, Crash(c) PROVE CoreLast'
  <2>1. CoreLocations' = CoreLocations
    BY <1>3 DEF Crash, cloudVars, CoreLocations
  <2> QED
    BY <1>3, <2>1, CrashDoes DEF CoreLast, Deleting
<1>4. CASE UNCHANGED vars
  BY <1>4 DEF vars, cloudVars, CoreLast, CoreLocations, Deleting
<1> QED
  BY <1>1, <1>2, <1>3, <1>4 DEF Next

\* The groups and subnets of a region are made before its firewalls are opened.
LEMMA CorelessStep ==
    ASSUME RegionAssumption, Facts, Unique, Coreless, CoreLast, Connecting, [Next]_vars
    PROVE  Coreless'
<1> USE Steps, Nothing DEF Facts
<1> SUFFICES ASSUME core' = {}, NEW v \in complete', Open(v)', Single(v)' PROVE FALSE
  BY DEF Coreless
<1>1. ASSUME NEW c \in Command, Add(c) PROVE FALSE
  <2>1. core = {} /\ Spares(c)
    BY <1>1, AddSpares DEF Spares
  <2>2. ~(Adding(c) /\ (Late(c) \/ job[c].pc = "allow"))
    BY <2>1 DEF Connecting, Met
  <2>3. v \in complete
    <3>1. ~AllowDone(c) /\ ~CreateMountTargets(c)
      BY <2>2 DEF AllowDone, CreateMountTargets, Adding, AddStep, Late
    <3> QED
      BY <1>1, <3>1, AddCompletes
  <2>4. v \in Vpc /\ (Adding(c) => v # job[c].vpc)
    BY <2>3 DEF World, AddProgress, Made
  <2>5. \A p \in {"subnets", "groups"} : part'[v][p] = part[v][p]
    BY <1>1, <2>4, AddParts
  <2>6. region'[v] = region[v]
    BY <2>1, <2>3, <2>4 DEF Spares, Unused
  <2> QED
    BY <2>1, <2>3, <2>5, <2>6 DEF Open, Coreless, Single
<1>2. ASSUME NEW c \in Command, Delete(c) PROVE FALSE
  <2>1. Takes(c)
    BY <1>2, DeleteTakes
  <2>2. v \in complete /\ Open(v) /\ Single(v)
    BY <2>1 DEF Takes, Open, World, Part, Single
  <2>3. PICK k \in core : TRUE
    BY <2>2 DEF Coreless
  <2>4. k \in Vpc /\ part'[k]["subnets"] = "absent" /\ job[c].at[k] # "none"
    BY <2>1, <2>3 DEF Takes, World
  <2>5. Deleting(c) /\ job[c].region = region[k]
    BY <2>4 DEF TakenApart, Deleting, DeleteStep
  <2>6. vpc[v] = "tagged" /\ vpc[k] = "tagged" /\ v \in Vpc
    BY <2>2, <2>3, <2>4 DEF Open, PartsHang, OneCore, World, Part
  <2>7. region[v] = region[k]
    BY <2>3, <2>5, <2>6 DEF CoreLast, CoreLocations
  <2>8. v = k
    BY <2>2, <2>4, <2>6, <2>7 DEF Unique
  <2> QED
    BY <2>4, <2>8 DEF Open
<1>3. ASSUME NEW c \in Command, Crash(c) PROVE FALSE
  BY <1>3, CrashDoes DEF Coreless, Open, Single
<1>4. CASE UNCHANGED vars
  BY <1>4 DEF vars, cloudVars, Coreless, Open, Single
<1> QED
  BY <1>1, <1>2, <1>3, <1>4 DEF Next

\* A step that goes on with the same VPC, late or early, leaves what was done about the firewalls.
LEMMA GoesOnMet ==
    ASSUME NEW c \in Command, Met(c), UNCHANGED <<core, region, admits>>, job'[c].vpc = job[c].vpc, job'[c].pc # "allow",
           \/ Late(c) /\ Late(c)'
           \/ ~Late(c) /\ ~Late(c)' /\ job[c].pc \notin {"allow", "findCoreAgain"}
    PROVE  Met(c)'
<1>1. CASE Late(c) /\ Late(c)'
  BY <1>1 DEF Met, Ruled, Single
<1>2. CASE ~Late(c) /\ ~Late(c)' /\ job[c].pc \notin {"allow", "findCoreAgain"}
  BY <1>2 DEF Met
<1> QED
  BY <1>1, <1>2

\* ensureCoreRegion finds the core region, and what has to be done about the firewalls.
LEMMA FindCoreMet ==
    ASSUME RegionAssumption, Facts, Unique, NEW c \in Command, FindCore(c), Adding(c)'
    PROVE  Met(c)'
<1> USE DEF Facts
<1>1. Made(c) /\ job[c].pc \in {"findCore", "findCoreAgain"}
  BY DEF FindCore, AddProgress, Adding, AddStep
<1>2. UNCHANGED <<core, region, admits>>
  BY DEF FindCore, cloudVars
<1>3. CASE core = {} /\ Goes(c, "tagCore")
  BY <1>2, <1>3 DEF Met, Goes, Late
<1>4. CASE /\ core # {} /\ Same(c) /\ job'[c].pc = "allow"
           /\ job'[c].core \in CoreLocations /\ job'[c].coreSubnets = core
           /\ job'[c].rules = {"core"} \cup IF job'[c].core = job[c].region THEN {} ELSE {"own"}
  <2>1. PICK k \in core : job'[c].core = region[k]
    BY <1>4 DEF CoreLocations
  <2>2. core = {k} /\ k \in Vpc /\ vpc[k] = "tagged"
    BY <2>1 DEF OneCore, PartsHang, World, Part
  <2>3. "own" \notin job'[c].rules /\ Single(job[c].vpc) => k = job[c].vpc
    <3>1. "own" \notin job'[c].rules => region[k] = region[job[c].vpc]
      BY <1>1, <1>4, <2>1 DEF Made
    <3>2. vpc[job[c].vpc] = "tagged" /\ job[c].vpc \in Vpc
      BY <1>1 DEF Made
    <3> QED
      BY <2>2, <3>1, <3>2 DEF Unique
  <2>4. "core" \in job'[c].rules /\ job'[c].vpc = job[c].vpc
    BY <1>4 DEF Same
  <2> QED
    BY <1>2, <1>4, <2>1, <2>2, <2>3, <2>4 DEF Met, Late, Single
<1> QED
  <2>1. \/ core = {} /\ Goes(c, "tagCore")
        \/ /\ core # {} /\ Same(c) /\ job'[c].pc = "allow"
           /\ job'[c].core \in CoreLocations /\ job'[c].coreSubnets = core
           /\ job'[c].rules = {"core"} \cup IF job'[c].core = job[c].region THEN {} ELSE {"own"}
    BY FindCoreDoes, Ends, GoesOn, Steps DEF Adding, AddStep
  <2> QED
    BY <1>3, <1>4, <2>1

\* Both firewalls are opened for each other.
LEMMA AllowMet ==
    ASSUME RegionAssumption, Facts, Unique, NEW c \in Command, AllowRules(c), Adding(c)', Met(c)
    PROVE  Met(c)'
<1> USE DEF Facts
<1>1. Made(c) /\ job[c].pc = "allow"
  BY DEF AllowRules, Allow, AddProgress, Adding, AddStep
<1>2. UNCHANGED <<core, region>>
  BY DEF AllowRules, Allow
<1>3. PICK k : core = {k} /\ k \in Vpc /\ vpc[k] = "tagged" /\ region[k] = job[c].core
  <2>1. PICK k \in core : region[k] = job[c].core
    BY <1>1 DEF Met
  <2> QED
    BY <2>1 DEF OneCore, PartsHang, World, Part
<1>4. vpc[job[c].vpc] = "tagged" /\ job[c].vpc \in Vpc /\ region[job[c].vpc] = job[c].region
  BY <1>1 DEF Made
<1>5. \A v \in Vpc : admits[v] \subseteq admits'[v]
  <2>1. Add(c)
    BY DEF Add
  <2> QED
    BY <2>1, AddAdmits
<1>6. CASE Allow(c, job[c].core, {job[c].vpc}, "core")
  <2>1. /\ Same(c) /\ job'[c].pc = "allow" /\ job'[c].core = job[c].core
        /\ job'[c].coreSubnets = job[c].coreSubnets /\ job'[c].rules = job[c].rules \ {"core"}
        /\ \E v \in Vpcs(job[c].core) : admits' = [admits EXCEPT ![v] = @ \cup {job[c].vpc}]
    BY <1>6, AllowDoes, Ends, Steps DEF Adding
  <2>2. Single(k) => Vpcs(job[c].core) = {k}
    BY <1>3 DEF Vpcs, Unique
  <2>3. Single(k) => job[c].vpc \in admits'[k]
    BY <1>3, <2>1, <2>2 DEF World
  <2>4. job'[c].vpc = job[c].vpc
    BY <2>1 DEF Same
  <2>5. "own" \notin job'[c].rules /\ Single(job[c].vpc) => k = job[c].vpc \/ k \in admits'[job[c].vpc]
    BY <1>1, <1>3, <1>4, <1>5, <2>1 DEF Met
  <2>6. job'[c].coreSubnets = core
    BY <1>1, <2>1 DEF Met
  <2> QED
    BY <1>2, <1>3, <2>1, <2>3, <2>4, <2>5, <2>6 DEF Met, Late, Single
<1>7. CASE Allow(c, job[c].region, job[c].coreSubnets, "own")
  <2>1. /\ Same(c) /\ job'[c].pc = "allow" /\ job'[c].core = job[c].core
        /\ job'[c].coreSubnets = job[c].coreSubnets /\ job'[c].rules = job[c].rules \ {"own"}
        /\ \E v \in Vpcs(job[c].region) : admits' = [admits EXCEPT ![v] = @ \cup job[c].coreSubnets]
    BY <1>7, AllowDoes, Ends, Steps DEF Adding
  <2>2. Single(job[c].vpc) => Vpcs(job[c].region) = {job[c].vpc}
    BY <1>4 DEF Vpcs, Unique
  <2>3. job[c].coreSubnets = core
    BY <1>1 DEF Met
  <2>4. Single(job[c].vpc) => k \in admits'[job[c].vpc]
    BY <1>3, <1>4, <2>1, <2>2, <2>3 DEF World
  <2>5. job'[c].vpc = job[c].vpc
    BY <2>1 DEF Same
  <2>6. "core" \notin job'[c].rules /\ Single(k) => job[c].vpc \in admits'[k]
    BY <1>1, <1>3, <1>5, <2>1 DEF Met
  <2> QED
    BY <1>2, <1>3, <2>1, <2>3, <2>4, <2>5, <2>6 DEF Met, Late, Single
<1> QED
  BY <1>6, <1>7 DEF AllowRules

\* Once both are open the region is as good as connected.
LEMMA AllowedBoth ==
    ASSUME Facts, NEW c \in Command, Met(c), job[c].pc = "allow", job[c].rules = {}
    PROVE  core # {} /\ \A k \in core : Ruled(job[c].vpc, k)
BY DEF Met, Ruled

\* Every step of region-add keeps what was done about the firewalls, its own and the others'.
LEMMA ConnectingStep ==
    ASSUME RegionAssumption, Facts, AddProgress', Unique, Connecting, [Next]_vars
    PROVE  Connecting'
<1> USE Steps, Nothing DEF Facts
<1>1. ASSUME NEW c \in Command, Add(c), NEW d \in Command \ {c}, Adding(d)' PROVE Met(d)'
  <2>1. job'[d] = job[d] /\ Adding(d)
    <3>1. job'[d] = job[d]
      BY <1>1, AddVpcDoes, AddJobs DEF Leaves
    <3> QED
      BY <1>1, <3>1 DEF Adding
  <2>2. Met(d)
    BY <2>1 DEF Connecting
  <2>3. core # {}
    BY <1>1, <2>1, AddVpcDoes, AddJobs DEF Apart, MayAdd, Idle, Adding
  <2>4. core' = core
    <3>1. job[c].pc = "tagCore" => core = {}
      BY DEF AddProgress, Made, Adding, AddStep
    <3> QED
      BY <1>1, <2>3, <3>1, AddSpares DEF Spares
  <2>5. \A k \in core : k \in Vpc /\ region'[k] = region[k] /\ admits[k] \subseteq admits'[k]
    <3>1. \A k \in core : k \in Vpc /\ region[k] # None
      BY DEF OneCore, PartsHang, World, Part, Unused
    <3> QED
      BY <1>1, <3>1, AddSpares, AddAdmits DEF Spares
  <2>6. job[d].vpc \in Vpc /\ admits[job[d].vpc] \subseteq admits'[job[d].vpc]
    BY <1>1, <2>1, AddAdmits DEF AddProgress, Made
  <2>7. region'[job[d].vpc] = region[job[d].vpc]
    BY <1>1, <2>1, <2>6, AddSpares, RegionAssumption DEF Spares, AddProgress, Made
  <2>8. CASE Late(d)
    BY <2>1, <2>2, <2>4, <2>5, <2>6, <2>7, <2>8 DEF Met, Ruled, Single, Late
  <2>9. CASE ~Late(d)
    BY <2>1, <2>2, <2>4, <2>5, <2>6, <2>7, <2>9 DEF Met, Single, Late
  <2> QED
    BY <2>8, <2>9
<1>2. ASSUME NEW c \in Command, AddVpc(c) PROVE Met(c)'
  <2>1. PICK v \in Vpc : vpc[v] = "unused" /\ job'[c].pc = "tagVpc" /\ job'[c].vpc = v
    BY <1>2, AddVpcDoes
  <2>2. v \notin core'
    BY <1>2, <2>1 DEF AddVpc, OneCore, PartsHang, Part
  <2> QED
    BY <2>1, <2>2 DEF Met, Late
<1>3. ASSUME NEW c \in Command, TagVpc(c) \/ AddGateway(c) \/ CreatePart(c), Met(c) PROVE Met(c)'
  <2>1. \/ Goes(c, "gateway") /\ job[c].pc = "tagVpc"
        \/ Goes(c, "create") /\ job[c].pc = "gateway" /\ job[c].part = "routes"
        \/ Goes(c, "tag") /\ job[c].pc = "create"
    BY <1>3, GoesOn DEF TagVpc, AddGateway, CreatePart, AddStep, AddProgress, Made, Adding
  <2>2. UNCHANGED <<core, region, admits>>
    BY <1>3 DEF TagVpc, AddGateway, CreatePart
  <2>3. \/ Late(c) /\ Late(c)'
        \/ ~Late(c) /\ ~Late(c)' /\ job[c].pc \notin {"allow", "findCoreAgain"}
    BY <2>1 DEF Goes, Late
  <2>4. job'[c].vpc = job[c].vpc /\ job'[c].pc # "allow"
    BY <2>1 DEF Goes
  <2> QED
    BY <1>3, <2>2, <2>3, <2>4, GoesOnMet
<1>4. ASSUME NEW c \in Command, TagPart(c), Met(c) PROVE Met(c)'
  <2>1. /\ job'[c].vpc = job[c].vpc
        /\ job'[c].part = IF job[c].part = "routes" THEN "subnets" ELSE "groups"
        /\ job'[c].pc = IF job[c].part = "groups" THEN "findCore"
                        ELSE IF job[c].part = "efsGroup" THEN "fileSystem" ELSE "create"
        /\ job[c].pc = "tag"
    BY <1>4, TagPartDoes DEF TagPart
  <2>2. UNCHANGED <<core, region, admits>>
    BY <1>4 DEF TagPart
  <2>3. \/ Late(c) /\ Late(c)'
        \/ ~Late(c) /\ ~Late(c)' /\ job[c].pc \notin {"allow", "findCoreAgain"}
    BY <2>1 DEF Late
  <2> QED
    BY <1>4, <2>1, <2>2, <2>3, GoesOnMet
<1>5. ASSUME NEW c \in Command, TagCore(c) PROVE Met(c)'
  <2>1. Goes(c, "findCoreAgain")
    BY <1>5, GoesOn DEF TagCore, AddStep
  <2> QED
    BY <2>1 DEF Met, Goes, Late
<1>6. ASSUME NEW c \in Command, AllowDone(c), Adding(c)', Met(c) PROVE Met(c)'
  <2>1. Goes(c, "efsGroup") /\ UNCHANGED <<core, region, admits>>
    BY <1>6, Ends, GoesOn DEF AllowDone, AddDone, Adding, AddStep, cloudVars
  <2>2. core # {} /\ \A k \in core : Ruled(job[c].vpc, k)
    BY <1>6, AllowedBoth DEF AllowDone
  <2> QED
    BY <2>1, <2>2 DEF Met, Ruled, Single, Late, Goes
<1>7. ASSUME NEW c \in Command, FindEfsVpc(c), Adding(c)', Met(c) PROVE Met(c)'
  <2>1. job'[c].vpc = job[c].vpc /\ job'[c].pc = "create" /\ job'[c].part = "efsGroup" /\ job[c].pc = "efsGroup"
    BY <1>7, FindEfsVpcDoes, Ends DEF Adding, FindEfsVpc
  <2>2. UNCHANGED <<core, region, admits>>
    BY <1>7 DEF FindEfsVpc
  <2>3. Late(c) /\ Late(c)'
    BY <2>1 DEF Late
  <2> QED
    BY <1>7, <2>1, <2>2, <2>3, GoesOnMet
<1>8. ASSUME NEW c \in Command, CreateFileSystem(c) \/ TagFileSystem(c), Adding(c)', Met(c) PROVE Met(c)'
  <2>1. Goes(c, "tagFileSystem") \/ Goes(c, "mount")
    BY <1>8, Ends, GoesOn DEF CreateFileSystem, TagFileSystem, Adding, AddStep
  <2>2. UNCHANGED <<core, region, admits>> /\ job[c].pc \in {"fileSystem", "tagFileSystem"}
    BY <1>8 DEF CreateFileSystem, TagFileSystem
  <2>3. job'[c].vpc = job[c].vpc /\ job'[c].pc # "allow" /\ Late(c) /\ Late(c)'
    BY <2>1, <2>2 DEF Late, Goes
  <2> QED
    BY <1>8, <2>2, <2>3, GoesOnMet
<1>9. ASSUME NEW c \in Command, CreateMountTargets(c) PROVE ~Adding(c)'
  BY <1>9, Ends DEF CreateMountTargets, AddDone, Adding
<1>10. ASSUME NEW c \in Command, Add(c) PROVE Connecting'
  <2>1. AddVpc(c) \/ Met(c)
    BY <1>10, AddJobs DEF Connecting
  <2>2. Adding(c)' => Met(c)'
    BY <1>10, <2>1, <1>2, <1>3, <1>4, <1>5, <1>6, <1>7, <1>8, <1>9, FindCoreMet, AllowMet DEF Add
  <2> QED
    BY <1>1, <1>10, <2>2 DEF Connecting
<1>11. ASSUME NEW c \in Command, Delete(c) PROVE Connecting'
  <2>1. \A d \in Command : ~Adding(d)'
    BY <1>11, DeleteNoAdds
  <2> QED
    BY <2>1 DEF Connecting
<1>12. ASSUME NEW c \in Command, Crash(c) PROVE Connecting'
  <2>1. ASSUME NEW d \in Command, Adding(d)' PROVE Met(d)'
    <3>1. job'[d] = job[d] /\ UNCHANGED <<core, region, admits>>
      BY <1>12, <2>1, CrashDoes DEF Adding
    <3> QED
      BY <2>1, <3>1 DEF Connecting, Met, Ruled, Single, Late, Adding
  <2> QED
    BY <2>1 DEF Connecting
<1>13. CASE UNCHANGED vars
  BY <1>13 DEF vars, cloudVars, Connecting, Met, Ruled, Single, Late, Adding
<1> QED
  BY <1>10, <1>11, <1>12, <1>13 DEF Next

\* A region that is complete stays connected to the core region while both carry traffic.
LEMMA ConnectedStep ==
    ASSUME RegionAssumption, Facts, Unique, Coreless, Coreless', Connecting, RegionsConnected, [Next]_vars
    PROVE  RegionsConnected'
<1> USE DEF Facts
<1>a. SUFFICES ASSUME NEW v \in complete', Open(v)', Single(v)', NEW k \in core', Open(k)'
               PROVE  Ruled(v, k)'
  BY DEF RegionsConnected, Ruled, Coreless
<1>1. ASSUME NEW c \in Command, Add(c) PROVE Ruled(v, k)'
  <2>1. Spares(c) /\ \A w \in Vpc : admits[w] \subseteq admits'[w]
    BY <1>1, AddSpares, AddAdmits
  <2>2. CASE v \in complete
    <3>1. v \in Vpc /\ (Adding(c) => v # job[c].vpc)
      BY <2>2 DEF World, AddProgress, Made
    <3>2. Open(v) /\ region'[v] = region[v] /\ Single(v)
      BY <1>a, <1>1, <2>1, <2>2, <3>1, AddParts DEF Open, Spares, Unused, Single
    <3>3. core # {}
      BY <2>2, <3>2 DEF Coreless
    <3>4. core' = core
      BY <2>1, <3>3 DEF Spares, AddProgress, Made, Adding, AddStep
    <3>5. k \in Vpc /\ (Adding(c) /\ ~Late(c) /\ job[c].pc \in {"create", "tag"} => k # job[c].vpc)
      BY <3>4 DEF World, Connecting, Met
    <3>6. Open(k)
      BY <1>a, <1>1, <3>5, AddParts DEF Open
    <3>7. Ruled(v, k)
      BY <2>2, <3>2, <3>4, <3>6 DEF RegionsConnected, Ruled
    <3>8. region'[k] = region[k]
      BY <2>1, <3>4, <3>5 DEF Spares, OneCore, PartsHang, Part, Unused
    <3> QED
      BY <2>1, <3>1, <3>2, <3>5, <3>7, <3>8 DEF Ruled, Single
  <2>3. CASE v \notin complete
    <3>1. AllowDone(c) \/ CreateMountTargets(c)
      BY <1>1, <2>3, AddCompletes
    <3>2. v = job[c].vpc
      BY <2>1, <2>3 DEF Spares
    <3>3. CASE AllowDone(c)
      <4>1. Met(c) /\ job[c].pc = "allow" /\ job[c].rules = {}
        BY <3>3 DEF AllowDone, Connecting, Adding, AddStep
      <4>2. UNCHANGED <<core, region, admits>>
        BY <3>3 DEF AllowDone, cloudVars
      <4> QED
        BY <3>2, <4>1, <4>2, AllowedBoth DEF Ruled, Single
    <3>4. CASE CreateMountTargets(c)
      <4>1. Met(c) /\ Late(c)
        BY <3>4 DEF CreateMountTargets, Connecting, Adding, AddStep, Late
      <4>2. UNCHANGED <<core, region, admits>>
        BY <3>4 DEF CreateMountTargets
      <4> QED
        BY <3>2, <4>1, <4>2 DEF Met, Ruled, Single
    <3> QED
      BY <3>1, <3>3, <3>4
  <2> QED
    BY <2>2, <2>3
<1>2. ASSUME NEW c \in Command, Delete(c) PROVE Ruled(v, k)'
  <2>1. Takes(c)
    BY <1>2, DeleteTakes
  <2>2. v \in complete /\ k \in core /\ v \in Vpc /\ k \in Vpc
    BY <2>1 DEF Takes, World
  <2>3. Open(v) /\ Open(k) /\ region' = region
    BY <1>a, <2>1, <2>2 DEF Takes, Open, Part
  <2>4. admits'[v] = admits[v] /\ admits'[k] = admits[k]
    BY <1>a, <2>1, <2>2 DEF Takes, Open
  <2>5. Single(v)
    BY <1>a, <2>3 DEF Single
  <2> QED
    BY <2>2, <2>3, <2>4, <2>5 DEF RegionsConnected, Ruled, Single
<1>3. ASSUME NEW c \in Command, Crash(c) PROVE Ruled(v, k)'
  BY <1>a, <1>3, CrashDoes DEF RegionsConnected, Ruled, Open, Single
<1>4. CASE UNCHANGED vars
  BY <1>a, <1>4 DEF vars, cloudVars, RegionsConnected, Ruled, Open, Single
<1> QED
  BY <1>1, <1>2, <1>3, <1>4 DEF Next

\* The second invariant holds at the start.
LEMMA ConnectStart == RegionAssumption /\ Init => ConnectInv
<1> SUFFICES ASSUME RegionAssumption, Init PROVE ConnectInv
  OBVIOUS
<1>1. \A c \in Command : job[c].pc = "idle"
  BY Nothing DEF Init
<1>2. Unique /\ Coreless /\ RegionsConnected
  BY DEF Init, Unique, Coreless, RegionsConnected
<1>3. CoreLast /\ Connecting
  BY <1>1, Steps DEF CoreLast, Connecting, Adding, Deleting
<1> QED
  BY <1>2, <1>3 DEF ConnectInv

\* Every step keeps it.
LEMMA ConnectStep ==
    RegionAssumption /\ RegionInv /\ RegionInv' /\ ConnectInv /\ [Next]_vars => ConnectInv'
<1> SUFFICES ASSUME RegionAssumption, RegionInv, RegionInv', ConnectInv, [Next]_vars PROVE ConnectInv'
  OBVIOUS
<1>1. Facts /\ AddProgress'
  BY FactsHold DEF RegionInv
<1> QED
  BY <1>1, UniqueStep, CorelessStep, CoreLastStep, ConnectingStep, ConnectedStep DEF ConnectInv

\* Between a region with one VPC that region-add has completed and the core region traffic passes
\* both ways, whatever is added or dies meanwhile, and though other regions may have several VPCs.
THEOREM RegionsStayConnected == Spec => []RegionsConnected
<1>1. Init => ConnectInv
  BY ConnectStart, RegionAssumption
<1>2. RegionInv /\ RegionInv' /\ ConnectInv /\ [Next]_vars => ConnectInv'
  BY ConnectStep, RegionAssumption
<1>3. ConnectInv => RegionsConnected
  BY DEF ConnectInv
<1> QED
  BY <1>1, <1>2, <1>3, RegionInvariant, PTL DEF Spec

-------------------------------------------------------------------------------
(* region-delete. *)

\* Only its own command puts a tag on what it has created.
LEMMA NoRemainsStep ==
    ASSUME "add" \notin Fragile, RegionAssumption, Facts, NoRemains, [Next]_vars
    PROVE  NoRemains'
<1> USE Steps, Nothing DEF Facts
<1> DEFINE Tagging(d, v) == job[d].pc = "tagVpc" /\ job[d].vpc = v
           TaggingFs(d, r) == job[d].pc = "tagFileSystem" /\ job[d].region = r
<1>1. ASSUME NEW d \in Command, job[d].pc \in {"tagVpc", "tagFileSystem"}
      PROVE  TagVpc(d) \/ TagFileSystem(d) \/ job'[d] = job[d]
  <2>1. Adding(d)
    BY <1>1 DEF Adding, AddStep
  <2>2. ASSUME NEW c \in Command, Add(c) PROVE TagVpc(d) \/ TagFileSystem(d) \/ job'[d] = job[d]
    <3>1. CASE c = d
      BY <1>1, <2>2, <3>1 DEF Add, AddVpc, TagVpc, AddGateway, CreatePart, TagPart, FindCore, TagCore, AllowRules,
         Allow, AllowDone, FindEfsVpc, CreateFileSystem, TagFileSystem, CreateMountTargets, Idle
    <3>2. CASE c # d
      BY <2>2, <3>2, AddJobs, AddVpcDoes DEF Leaves
    <3> QED
      BY <3>1, <3>2
  <2>3. ASSUME NEW c \in Command, Delete(c) PROVE FALSE
    BY <2>1, <2>3, DeleteJobs, DeleteApart
  <2>4. ASSUME NEW c \in Command, Crash(c) PROVE job'[d] = job[d]
    <3>1. c # d
      BY <2>1, <2>4 DEF Crash, Adding, Deleting
    <3> QED
      BY <2>4, <3>1, CrashDoes
  <2> QED
    BY <2>2, <2>3, <2>4 DEF Next, vars
<1>2. ASSUME NEW v \in Vpc, vpc'[v] = "untagged"
      PROVE  \E d \in Command : Tagging(d, v)'
  <2>1. ASSUME NEW d \in Command, Tagging(d, v) PROVE job'[d] = job[d]
    <3>1. TagVpc(d) => vpc'[v] = "tagged"
      BY <2>1 DEF TagVpc, World
    <3>2. ~TagFileSystem(d)
      BY <2>1 DEF TagFileSystem
    <3> QED
      BY <1>1, <1>2, <2>1, <3>1, <3>2
  <2>2. CASE vpc[v] = "untagged"
    BY <2>1, <2>2 DEF NoRemains
  <2>3. CASE vpc[v] # "untagged"
    <3>1. PICK c \in Command : AddVpc(c)
      <4>1. ASSUME NEW c \in Command, TagVpc(c) PROVE FALSE
        BY <1>2, <2>3, <4>1 DEF TagVpc, World
      <4>2. ASSUME NEW c \in Command, NEW w \in Vpc, DeleteVpc(c, w) PROVE FALSE
        BY <1>2, <2>3, <4>2 DEF DeleteVpc, World
      <4> QED
        BY <1>2, <2>3, <4>1, <4>2, VpcChanges
    <3>2. PICK w \in Vpc : vpc' = [vpc EXCEPT ![w] = "untagged"] /\ job'[c].pc = "tagVpc" /\ job'[c].vpc = w
      BY <3>1, AddVpcDoes
    <3> QED
      BY <1>2, <2>3, <3>2 DEF World
  <2> QED
    BY <2>2, <2>3
<1>3. ASSUME NEW r \in Region, fs'[r] = "untagged"
      PROVE  \E d \in Command : TaggingFs(d, r)'
  <2>1. ASSUME NEW d \in Command, TaggingFs(d, r) PROVE job'[d] = job[d]
    <3>1. TagFileSystem(d) => fs'[r] = "tagged"
      BY <2>1 DEF TagFileSystem, World
    <3>2. ~TagVpc(d)
      BY <2>1 DEF TagVpc
    <3> QED
      BY <1>1, <1>3, <2>1, <3>1, <3>2
  <2>2. CASE fs[r] = "untagged"
    BY <2>1, <2>2 DEF NoRemains
  <2>3. CASE fs[r] # "untagged"
    <3>1. PICK c \in Command : CreateFileSystem(c)
      <4>1. ASSUME NEW c \in Command, TagFileSystem(c) PROVE FALSE
        BY <1>3, <2>3, <4>1 DEF TagFileSystem, World
      <4>2. ASSUME NEW c \in Command, DeleteFileSystem(c) PROVE FALSE
        BY <1>3, <2>3, <4>2 DEF DeleteFileSystem, World
      <4> QED
        BY <1>3, <2>3, <4>1, <4>2, FsChanges
    <3>2. fs' = [fs EXCEPT ![job[c].region] = "untagged"] /\ Goto(c, "tagFileSystem")
      BY <1>3, <2>3, <3>1 DEF CreateFileSystem
    <3>3. Goes(c, "tagFileSystem")
      BY <3>2, GoesOn DEF AddStep
    <3>4. job[c].region = r
      BY <1>3, <2>3, <3>2 DEF World
    <3> QED
      BY <3>3, <3>4 DEF Goes
  <2> QED
    BY <2>2, <2>3
<1> QED
  BY <1>2, <1>3 DEF NoRemains

\* Every step of region-delete goes on, or ends the command.
LEMMA DeleteProgressStep ==
    ASSUME RegionAssumption, Facts, NoRemains, DeleteProgress, [Next]_vars
    PROVE  DeleteProgress'
<1> USE Steps, Nothing DEF Facts
<1> DEFINE Gone(d) ==
        /\ job[d].pc \in {"find", "vpcs"} => fs[job[d].region] = "none"
        /\ job[d].pc = "vpcs" =>
               \/ \A v \in Vpc : job[d].at[v] = "none"
               \/ \A v \in Vpc : region[v] = job[d].region /\ vpc[v] = "tagged" =>
                      job[d].at[v] \notin {"none", "done"}
<1>0. {"find", "vpcs"} \subseteq DeleteStep
  BY DEF DeleteStep
<1>1. ASSUME NEW c \in Command, Add(c) PROVE DeleteProgress'
  <2>1. \A d \in Command \ {c} : job'[d] = job[d] /\ ~Deleting(d)
    BY <1>1, AddJobs, AddApart, AddVpcDoes DEF Leaves
  <2>2. job'[c].pc \notin DeleteStep
    BY <1>1, AddJobs, AddVpcDoes DEF Leaves, AddStep, DeleteStep
  <2> QED
    BY <1>0, <2>1, <2>2 DEF DeleteProgress, Deleting
<1>2. ASSUME NEW c \in Command, Delete(c) PROVE DeleteProgress'
  <2>1. \A d \in Command \ {c} : job'[d].pc = "idle"
    BY <1>2, DeleteJobs, DeleteApart, DeleteStartDoes DEF Continues, Idle
  <2>2. SUFFICES Gone(c)'
    BY <2>1 DEF DeleteProgress
  <2>3. CASE DeleteStart(c)
    <3>1. PICK r \in Region :
              /\ job'[c].region = r /\ job'[c].at = job[c].at
              /\ job'[c].pc = IF fs[r] # "tagged" THEN "vpcs" ELSE "mountTargets"
      BY <2>3, DeleteStartDoes
    <3>2. fs' = fs /\ job[c] = NoJob /\ \A d \in Command : job[d].pc = "idle"
      BY <2>3 DEF DeleteStart, cloudVars, MayDelete, Idle, Ready
    <3>3. fs[r] \in {"none", "tagged"}
      BY <3>2 DEF NoRemains, World
    <3> QED
      BY <3>1, <3>2, <3>3
  <2>4. CASE DeleteMountTargets(c)
    <3>1. End(c) \/ Goes(c, "fileSystemGone")
      BY <2>4, GoesOn DEF DeleteMountTargets, DeleteStep
    <3> QED
      BY <3>1, Ends DEF Goes
  <2>5. CASE DeleteFileSystem(c)
    <3>1. Goes(c, "find")
      BY <1>0, <2>5, GoesOn DEF DeleteFileSystem
    <3>2. job[c].region \in Region
      BY <2>5 DEF DeleteFileSystem, Apart, Deleting, DeleteStep
    <3> QED
      BY <2>5, <3>1, <3>2 DEF Goes, DeleteFileSystem, World
  <2>6. CASE DeleteEfsGroup(c)
    <3>1. End(c) \/ Goes(c, "vpcs")
      BY <1>0, <2>6, GoesOn DEF DeleteEfsGroup
    <3>2. fs' = fs /\ job[c].pc = "find"
      BY <2>6 DEF DeleteEfsGroup
    <3>3. \A v \in Vpc : job[c].at[v] = "none"
      BY <3>2 DEF TakenApart
    <3> QED
      BY <3>1, <3>2, <3>3, Ends DEF Goes, DeleteProgress
  <2>7. CASE FindVpcs(c)
    <3>1. UNCHANGED <<fs, region, vpc>> /\ job[c].pc = "vpcs"
      BY <2>7 DEF FindVpcs, cloudVars
    <3>2. End(c) \/ Works(c, [v \in Vpc |-> IF v \in Vpcs(job[c].region) THEN "subnets" ELSE "none"])
      BY <2>7, FindVpcsDoes
    <3> QED
      BY <3>1, <3>2, Ends DEF Works, Vpcs, DeleteProgress
  <2>8. ASSUME NEW w \in Vpc, DeleteIn(c, w) PROVE Gone(c)'
    <3>1. job[c].at[w] \notin {"none", "done"} /\ UNCHANGED <<fs, region>>
      BY <2>8 DEF DeleteIn, DeleteSubnets, DeleteGroups, DeleteGateway, DeleteRoutes, DeleteVpc
    <3>2. job[c].pc = "vpcs" /\ fs[job[c].region] = "none"
      BY <3>1 DEF TakenApart, DeleteProgress
    <3>3. \A v \in Vpc : region[v] = job[c].region /\ vpc[v] = "tagged" => job[c].at[v] \notin {"none", "done"}
      BY <3>1, <3>2 DEF DeleteProgress
    <3>4. CASE End(c)
      BY <3>4, Ends
    <3>5. CASE ~End(c)
      <4>1. PICK step \in {"groups", "gateway", "routes", "vpc", "done"} :
                Step(c, w, step) /\ (step = "done" => vpc'[w] = "deleted")
        BY <2>8, <3>5 DEF DeleteIn, DeleteSubnets, DeleteGroups, DeleteGateway, DeleteRoutes, DeleteVpc, World
      <4>2. Works(c, [job[c].at EXCEPT ![w] = step])
        BY <4>1, StepDoes
      <4>3. \A v \in Vpc : vpc'[v] = "tagged" => vpc[v] = "tagged"
        BY <1>2, DeleteTakes DEF Takes
      <4>4. job[c].at \in [Vpc -> {"none", "subnets", "groups", "gateway", "routes", "vpc", "done"}]
        BY JobTypes
      <4> QED
        BY <3>1, <3>2, <3>3, <4>1, <4>2, <4>3, <4>4 DEF Works
    <3> QED
      BY <3>4, <3>5
  <2>9. CASE DeleteDone(c)
    BY <2>9, Ends DEF DeleteDone
  <2> QED
    BY <1>2, <2>3, <2>4, <2>5, <2>6, <2>7, <2>8, <2>9 DEF Delete
<1>3. ASSUME NEW c \in Command, Crash(c) PROVE DeleteProgress'
  BY <1>3, CrashDoes DEF DeleteProgress
<1>4. CASE UNCHANGED vars
  BY <1>4 DEF vars, cloudVars, DeleteProgress
<1> QED
  BY <1>1, <1>2, <1>3, <1>4 DEF Next

\* When region-delete says that it has succeeded nothing of the region is left.
LEMMA DoneIsGone ==
    ASSUME RegionAssumption, Facts, GoneInv, NEW c \in Command, DeleteDone(c)
    PROVE  /\ fs[job[c].region] = "none"
           /\ \A v \in Vpc : region[v] = job[c].region => vpc[v] = "deleted"
<1> USE DEF Facts, GoneInv
<1>1. job[c].pc = "vpcs" /\ Deleting(c)
  BY DEF DeleteDone, Deleting, DeleteStep
<1>2. fs[job[c].region] = "none" /\ job[c].region \in Region
  BY <1>1 DEF DeleteProgress, Apart
<1>3. \A v \in Vpc : region[v] = job[c].region => vpc[v] # "tagged"
  BY <1>1 DEF DeleteProgress, DeleteDone
<1>4. \A v \in Vpc : vpc[v] # "untagged"
  BY <1>1, DeleteApart DEF NoRemains, Adding, AddStep
<1>5. \A v \in Vpc : region[v] = job[c].region => vpc[v] # "unused"
  BY <1>2 DEF Unused, RegionAssumption
<1> QED
  BY <1>2, <1>3, <1>4, <1>5 DEF World

\* The third invariant holds at the start.
LEMMA GoneStart == Init => GoneInv
<1> SUFFICES ASSUME Init PROVE GoneInv
  OBVIOUS
<1>1. \A c \in Command : job[c].pc = "idle"
  BY Nothing DEF Init
<1>2. NoRemains
  BY DEF Init, NoRemains
<1> QED
  BY <1>1, <1>2 DEF GoneInv, DeleteProgress

\* Where no region-add dies, a region-delete that succeeds leaves nothing of the cluster in its
\* region, whichever earlier attempts died half-way and whoever repeated region-add.
THEOREM DeletedRegionsAreGone == "add" \notin Fragile => (Spec => DeletedMeansGone)
<1> SUFFICES ASSUME "add" \notin Fragile PROVE Spec => DeletedMeansGone
  OBVIOUS
<1>1. RegionInv /\ GoneInv /\ [Next]_vars => GoneInv'
  BY FactsHold, NoRemainsStep, DeleteProgressStep, RegionAssumption DEF GoneInv
<1>2. RegionInv /\ GoneInv =>
          \A c \in Command : DeleteDone(c) =>
              /\ fs[job[c].region] = "none"
              /\ \A v \in Vpc : region[v] = job[c].region => vpc[v] = "deleted"
  BY FactsHold, DoneIsGone, RegionAssumption
<1> QED
  BY <1>1, <1>2, GoneStart, RegionInvariant, PTL DEF Spec, DeletedMeansGone

-------------------------------------------------------------------------------
(* What commands of clusters may rely on. *)

\* A command that creates is alone: nobody creates or deletes beside it.
CreatesAlone ==
    \A c, d \in Shell : cmd[c] \in {"bucket", "create"} /\ cmd[d] # "none" => c = d

\* The steps from this one on to the end of a chain.
From(step) ==
    CASE step = "policy"    -> {"policy", "attach", "profile", "member", "done"}
      [] step = "attach"    -> {"attach", "profile", "member", "done"}
      [] step = "profile"   -> {"profile", "member", "done"}
      [] step = "member"    -> {"member", "done"}
      [] step = "unprofile" -> {"unprofile", "list", "detach", "unpolicy", "unrole", "done"}
      [] step = "list"      -> {"list", "detach", "unpolicy", "unrole", "done"}
      [] step = "unpolicy"  -> {"unpolicy", "unrole", "done"}

\* A chain that creates has made all that it is past of.
ChainMade(c, k) ==
    /\ at[c][k] \in CreateChain \cup {"done"}
    /\ at[c][k] \in From("policy") => k \in role
    /\ at[c][k] \in From("attach") => k \in policy
    /\ at[c][k] \in From("profile") => k \in attached
    /\ at[c][k] \in From("member") => k \in profile
    /\ at[c][k] = "done" => k \in member

\* A chain that deletes and was never refused has removed all that it is past of.
ChainRemoved(c, k) ==
    /\ at[c][k] \in From("unprofile") => k \notin member
    /\ at[c][k] \in From("list") => k \notin profile
    /\ at[c][k] \in From("unpolicy") => k \notin attached
    /\ at[c][k] = "done" => k \notin role

CreateChainProgress ==
    \A c \in Shell : cmd[c] = "create" => bucket /\ \A k \in Kind : ChainMade(c, k)

DeleteChainProgress ==
    \A c \in Shell : cmd[c] = "delete" /\ ~refused[c] => \A k \in Kind : ChainRemoved(c, k)

\* The inductive invariant.
IamInv == ClusterTypeOK /\ CreatesAlone /\ CreateChainProgress /\ DeleteChainProgress

\* The calls of a cluster-delete, in the order of their refusal.
LEMMA ChainSteps ==
    /\ DeleteChain = {"unmember", "unprofile", "list", "detach", "unpolicy", "unrole"}
    /\ \A s \in DeleteChain : AfterRefusal[s] \in DeleteChain \cup {"done"}
BY DEF DeleteChain, AfterRefusal

-------------------------------------------------------------------------------
(* The invariant of ClusterIam holds. *)

\* It holds of an account without the cluster.
LEMMA IamStart == ClusterInit => IamInv
<1> SUFFICES ASSUME ClusterInit PROVE IamInv
  OBVIOUS
<1>1. bucket \in BOOLEAN /\ refused \in [Shell -> BOOLEAN]
  BY Zenon DEF ClusterInit
<1>2. faults \in 0..MaxFaults
  BY IamAssumption DEF ClusterInit
<1>3. ClusterTypeOK
  BY <1>1, <1>2 DEF ClusterInit, ClusterTypeOK
<1> QED
  BY <1>3 DEF ClusterInit, IamInv, CreatesAlone, CreateChainProgress, DeleteChainProgress

\* Every variable keeps its type, and what is attached or in a profile exists: a chain
\* attaches only what it has made.
LEMMA IamTypeStep == IamInv /\ [ClusterNext]_clusterVars => ClusterTypeOK'
<1> SUFFICES ASSUME IamInv, [ClusterNext]_clusterVars PROVE ClusterTypeOK'
  OBVIOUS
<1> USE DEF IamInv, ClusterTypeOK, iamVars, Fork, GotoCall, EndShell, Fail, AtStep, CreateChain
<1>1. ASSUME NEW c \in Shell, ClusterCreateStart(c) PROVE ClusterTypeOK'
  BY <1>1, ChainSteps DEF ClusterCreateStart
<1>2. ASSUME NEW c \in Shell, CreateBucket(c) PROVE ClusterTypeOK'
  BY <1>2, ChainSteps DEF CreateBucket
<1>3. ASSUME NEW c \in Shell, ClusterCreateDone(c) PROVE ClusterTypeOK'
  BY <1>3 DEF ClusterCreateDone
<1>4. ASSUME NEW c \in Shell, ClusterDeleteStart(c) PROVE ClusterTypeOK'
  BY <1>4, ChainSteps DEF ClusterDeleteStart
<1>5. ASSUME NEW c \in Shell, ClusterDeleteDone(c) PROVE ClusterTypeOK'
  <2>1. plan' \in {"create", "absent", plan}
    BY <1>5, Zenon DEF ClusterDeleteDone
  <2>2. /\ EndShell(c)
        /\ UNCHANGED <<bucket, iamVars, refused, faults>>
    BY <1>5 DEF ClusterDeleteDone
  <2> QED
    BY <2>1, <2>2
<1>6. ASSUME NEW c \in Shell, ClusterCrash(c) PROVE ClusterTypeOK'
  <2>1. faults' \in 0..MaxFaults
    BY <1>6, IamAssumption DEF ClusterCrash
  <2> QED
    BY <1>6, <2>1 DEF ClusterCrash
<1>7. ASSUME NEW c \in Shell, NEW k \in Kind, CreateRole(c, k) PROVE ClusterTypeOK'
  <2>1. CASE role' = role \cup {k} /\ GotoCall(c, k, "policy") /\ UNCHANGED plan
    BY <1>7, <2>1 DEF CreateRole
  <2>2. CASE Fail(c) /\ UNCHANGED role
    BY <1>7, <2>2 DEF CreateRole
  <2> QED
    BY <1>7, <2>1, <2>2 DEF CreateRole
<1>8. ASSUME NEW c \in Shell, NEW k \in Kind, CreatePolicy(c, k) PROVE ClusterTypeOK'
  BY <1>8 DEF CreatePolicy
<1>9. ASSUME NEW c \in Shell, NEW k \in Kind, AttachRolePolicy(c, k) PROVE ClusterTypeOK'
  BY <1>9 DEF AttachRolePolicy, CreateChainProgress, ChainMade, From
<1>10. ASSUME NEW c \in Shell, NEW k \in Kind, CreateInstanceProfile(c, k) PROVE ClusterTypeOK'
  BY <1>10 DEF CreateInstanceProfile
<1>11. ASSUME NEW c \in Shell, NEW k \in Kind, AddRoleToInstanceProfile(c, k)
      PROVE ClusterTypeOK'
  BY <1>11 DEF AddRoleToInstanceProfile, CreateChainProgress, ChainMade, From
<1>12. ASSUME NEW c \in Shell, NEW k \in Kind, RemoveRoleFromInstanceProfile(c, k)
      PROVE ClusterTypeOK'
  BY <1>12, ChainSteps DEF RemoveRoleFromInstanceProfile
<1>13. ASSUME NEW c \in Shell, NEW k \in Kind, DeleteInstanceProfile(c, k) PROVE ClusterTypeOK'
  BY <1>13, ChainSteps DEF DeleteInstanceProfile
<1>14. ASSUME NEW c \in Shell, NEW k \in Kind, ListAttachedRolePolicies(c, k)
      PROVE ClusterTypeOK'
  BY <1>14, ChainSteps DEF ListAttachedRolePolicies
<1>15. ASSUME NEW c \in Shell, NEW k \in Kind, DetachRolePolicy(c, k) PROVE ClusterTypeOK'
  BY <1>15, ChainSteps DEF DetachRolePolicy
<1>16. ASSUME NEW c \in Shell, NEW k \in Kind, DeletePolicy(c, k) PROVE ClusterTypeOK'
  BY <1>16, ChainSteps DEF DeletePolicy
<1>17. ASSUME NEW c \in Shell, NEW k \in Kind, DeleteRole(c, k) PROVE ClusterTypeOK'
  BY <1>17, ChainSteps DEF DeleteRole
<1>18. ASSUME NEW c \in Shell, NEW k \in Kind, DeleteRefused(c, k) PROVE ClusterTypeOK'
  <2>1. faults' \in 0..MaxFaults
    BY <1>18, IamAssumption DEF DeleteRefused
  <2> QED
    BY <1>18, <2>1, ChainSteps DEF DeleteRefused
<1>19. CASE UNCHANGED clusterVars
  BY <1>19 DEF clusterVars
<1> QED
  BY <1>1, <1>2, <1>3, <1>4, <1>5, <1>6, <1>7, <1>8, <1>9, <1>10, <1>11,
     <1>12, <1>13, <1>14, <1>15, <1>16, <1>17, <1>18, <1>19
  DEF ClusterNext, Proceed, CreateCall, DeleteCall

\* A create begins when all shells are idle, and a delete when nobody creates.
LEMMA AloneStep == IamInv /\ [ClusterNext]_clusterVars => CreatesAlone'
<1> SUFFICES ASSUME IamInv, [ClusterNext]_clusterVars PROVE CreatesAlone'
  OBVIOUS
<1> USE DEF IamInv, ClusterTypeOK, CreatesAlone, ClusterCreating, ClusterDeleting, iamVars,
        Fork, GotoCall, EndShell, Fail, AtStep
<1>1. ASSUME NEW c \in Shell, ClusterCreateStart(c) PROVE CreatesAlone'
  BY <1>1 DEF ClusterCreateStart
<1>2. ASSUME NEW c \in Shell, CreateBucket(c) PROVE CreatesAlone'
  BY <1>2 DEF CreateBucket
<1>3. ASSUME NEW c \in Shell, ClusterCreateDone(c) PROVE CreatesAlone'
  BY <1>3 DEF ClusterCreateDone
<1>4. ASSUME NEW c \in Shell, ClusterDeleteStart(c) PROVE CreatesAlone'
  BY <1>4 DEF ClusterDeleteStart
<1>5. ASSUME NEW c \in Shell, ClusterDeleteDone(c) PROVE CreatesAlone'
  BY <1>5 DEF ClusterDeleteDone
<1>6. ASSUME NEW c \in Shell, ClusterCrash(c) PROVE CreatesAlone'
  BY <1>6 DEF ClusterCrash
<1>7. ASSUME NEW c \in Shell, NEW k \in Kind, CreateRole(c, k) PROVE CreatesAlone'
  BY <1>7 DEF CreateRole
<1>8. ASSUME NEW c \in Shell, NEW k \in Kind, CreatePolicy(c, k) PROVE CreatesAlone'
  BY <1>8 DEF CreatePolicy
<1>9. ASSUME NEW c \in Shell, NEW k \in Kind, AttachRolePolicy(c, k) PROVE CreatesAlone'
  BY <1>9 DEF AttachRolePolicy
<1>10. ASSUME NEW c \in Shell, NEW k \in Kind, CreateInstanceProfile(c, k) PROVE CreatesAlone'
  BY <1>10 DEF CreateInstanceProfile
<1>11. ASSUME NEW c \in Shell, NEW k \in Kind, AddRoleToInstanceProfile(c, k)
      PROVE CreatesAlone'
  BY <1>11 DEF AddRoleToInstanceProfile
<1>12. ASSUME NEW c \in Shell, NEW k \in Kind, RemoveRoleFromInstanceProfile(c, k)
      PROVE CreatesAlone'
  BY <1>12 DEF RemoveRoleFromInstanceProfile
<1>13. ASSUME NEW c \in Shell, NEW k \in Kind, DeleteInstanceProfile(c, k) PROVE CreatesAlone'
  BY <1>13 DEF DeleteInstanceProfile
<1>14. ASSUME NEW c \in Shell, NEW k \in Kind, ListAttachedRolePolicies(c, k)
      PROVE CreatesAlone'
  BY <1>14 DEF ListAttachedRolePolicies
<1>15. ASSUME NEW c \in Shell, NEW k \in Kind, DetachRolePolicy(c, k) PROVE CreatesAlone'
  BY <1>15 DEF DetachRolePolicy
<1>16. ASSUME NEW c \in Shell, NEW k \in Kind, DeletePolicy(c, k) PROVE CreatesAlone'
  BY <1>16 DEF DeletePolicy
<1>17. ASSUME NEW c \in Shell, NEW k \in Kind, DeleteRole(c, k) PROVE CreatesAlone'
  BY <1>17 DEF DeleteRole
<1>18. ASSUME NEW c \in Shell, NEW k \in Kind, DeleteRefused(c, k) PROVE CreatesAlone'
  BY <1>18 DEF DeleteRefused
<1>19. CASE UNCHANGED clusterVars
  BY <1>19 DEF clusterVars
<1> QED
  BY <1>1, <1>2, <1>3, <1>4, <1>5, <1>6, <1>7, <1>8, <1>9, <1>10, <1>11,
     <1>12, <1>13, <1>14, <1>15, <1>16, <1>17, <1>18, <1>19
  DEF ClusterNext, Proceed, CreateCall, DeleteCall

\* What a chain has made stays, for there is no delete beside it.
LEMMA CreateChainStep == IamInv /\ [ClusterNext]_clusterVars => CreateChainProgress'
<1> SUFFICES ASSUME IamInv, [ClusterNext]_clusterVars PROVE CreateChainProgress'
  OBVIOUS
<1> USE DEF IamInv, ClusterTypeOK, CreatesAlone, CreateChainProgress, ChainMade, From, iamVars,
        Fork, GotoCall, EndShell, Fail, AtStep, CreateChain
<1>1. ASSUME NEW c \in Shell, ClusterCreateStart(c) PROVE CreateChainProgress'
  BY <1>1 DEF ClusterCreateStart
<1>2. ASSUME NEW c \in Shell, CreateBucket(c) PROVE CreateChainProgress'
  BY <1>2 DEF CreateBucket
<1>3. ASSUME NEW c \in Shell, ClusterCreateDone(c) PROVE CreateChainProgress'
  BY <1>3 DEF ClusterCreateDone
<1>4. ASSUME NEW c \in Shell, ClusterDeleteStart(c) PROVE CreateChainProgress'
  BY <1>4 DEF ClusterDeleteStart
<1>5. ASSUME NEW c \in Shell, ClusterDeleteDone(c) PROVE CreateChainProgress'
  BY <1>5 DEF ClusterDeleteDone
<1>6. ASSUME NEW c \in Shell, ClusterCrash(c) PROVE CreateChainProgress'
  BY <1>6 DEF ClusterCrash
<1>7. ASSUME NEW c \in Shell, NEW k \in Kind, CreateRole(c, k) PROVE CreateChainProgress'
  BY <1>7 DEF CreateRole
<1>8. ASSUME NEW c \in Shell, NEW k \in Kind, CreatePolicy(c, k) PROVE CreateChainProgress'
  BY <1>8 DEF CreatePolicy
<1>9. ASSUME NEW c \in Shell, NEW k \in Kind, AttachRolePolicy(c, k) PROVE CreateChainProgress'
  BY <1>9 DEF AttachRolePolicy
<1>10. ASSUME NEW c \in Shell, NEW k \in Kind, CreateInstanceProfile(c, k)
      PROVE CreateChainProgress'
  BY <1>10 DEF CreateInstanceProfile
<1>11. ASSUME NEW c \in Shell, NEW k \in Kind, AddRoleToInstanceProfile(c, k)
      PROVE CreateChainProgress'
  BY <1>11 DEF AddRoleToInstanceProfile
<1>12. ASSUME NEW c \in Shell, NEW k \in Kind, RemoveRoleFromInstanceProfile(c, k)
      PROVE CreateChainProgress'
  BY <1>12 DEF RemoveRoleFromInstanceProfile
<1>13. ASSUME NEW c \in Shell, NEW k \in Kind, DeleteInstanceProfile(c, k)
      PROVE CreateChainProgress'
  BY <1>13 DEF DeleteInstanceProfile
<1>14. ASSUME NEW c \in Shell, NEW k \in Kind, ListAttachedRolePolicies(c, k)
      PROVE CreateChainProgress'
  BY <1>14 DEF ListAttachedRolePolicies
<1>15. ASSUME NEW c \in Shell, NEW k \in Kind, DetachRolePolicy(c, k)
      PROVE CreateChainProgress'
  BY <1>15 DEF DetachRolePolicy
<1>16. ASSUME NEW c \in Shell, NEW k \in Kind, DeletePolicy(c, k) PROVE CreateChainProgress'
  BY <1>16 DEF DeletePolicy
<1>17. ASSUME NEW c \in Shell, NEW k \in Kind, DeleteRole(c, k) PROVE CreateChainProgress'
  BY <1>17 DEF DeleteRole
<1>18. ASSUME NEW c \in Shell, NEW k \in Kind, DeleteRefused(c, k) PROVE CreateChainProgress'
  BY <1>18 DEF DeleteRefused
<1>19. CASE UNCHANGED clusterVars
  BY <1>19 DEF clusterVars
<1> QED
  BY <1>1, <1>2, <1>3, <1>4, <1>5, <1>6, <1>7, <1>8, <1>9, <1>10, <1>11,
     <1>12, <1>13, <1>14, <1>15, <1>16, <1>17, <1>18, <1>19
  DEF ClusterNext, Proceed, CreateCall, DeleteCall

\* What a chain has removed stays away, for there is no create beside it.
LEMMA DeleteChainStep == IamInv /\ [ClusterNext]_clusterVars => DeleteChainProgress'
<1> SUFFICES ASSUME IamInv, [ClusterNext]_clusterVars PROVE DeleteChainProgress'
  OBVIOUS
<1> USE DEF IamInv, ClusterTypeOK, CreatesAlone, DeleteChainProgress, ChainRemoved, From, iamVars,
        Fork, GotoCall, EndShell, Fail, AtStep, ClusterCreating
<1>1. ASSUME NEW c \in Shell, ClusterCreateStart(c) PROVE DeleteChainProgress'
  BY <1>1 DEF ClusterCreateStart
<1>2. ASSUME NEW c \in Shell, CreateBucket(c) PROVE DeleteChainProgress'
  BY <1>2 DEF CreateBucket
<1>3. ASSUME NEW c \in Shell, ClusterCreateDone(c) PROVE DeleteChainProgress'
  BY <1>3 DEF ClusterCreateDone
<1>4. ASSUME NEW c \in Shell, ClusterDeleteStart(c) PROVE DeleteChainProgress'
  BY <1>4 DEF ClusterDeleteStart
<1>5. ASSUME NEW c \in Shell, ClusterDeleteDone(c) PROVE DeleteChainProgress'
  BY <1>5 DEF ClusterDeleteDone
<1>6. ASSUME NEW c \in Shell, ClusterCrash(c) PROVE DeleteChainProgress'
  BY <1>6 DEF ClusterCrash
<1>7. ASSUME NEW c \in Shell, NEW k \in Kind, CreateRole(c, k) PROVE DeleteChainProgress'
  BY <1>7 DEF CreateRole
<1>8. ASSUME NEW c \in Shell, NEW k \in Kind, CreatePolicy(c, k) PROVE DeleteChainProgress'
  BY <1>8 DEF CreatePolicy
<1>9. ASSUME NEW c \in Shell, NEW k \in Kind, AttachRolePolicy(c, k) PROVE DeleteChainProgress'
  BY <1>9 DEF AttachRolePolicy
<1>10. ASSUME NEW c \in Shell, NEW k \in Kind, CreateInstanceProfile(c, k)
      PROVE DeleteChainProgress'
  BY <1>10 DEF CreateInstanceProfile
<1>11. ASSUME NEW c \in Shell, NEW k \in Kind, AddRoleToInstanceProfile(c, k)
      PROVE DeleteChainProgress'
  BY <1>11 DEF AddRoleToInstanceProfile
<1>12. ASSUME NEW c \in Shell, NEW k \in Kind, RemoveRoleFromInstanceProfile(c, k)
      PROVE DeleteChainProgress'
  BY <1>12 DEF RemoveRoleFromInstanceProfile
<1>13. ASSUME NEW c \in Shell, NEW k \in Kind, DeleteInstanceProfile(c, k)
      PROVE DeleteChainProgress'
  BY <1>13 DEF DeleteInstanceProfile
<1>14. ASSUME NEW c \in Shell, NEW k \in Kind, ListAttachedRolePolicies(c, k)
      PROVE DeleteChainProgress'
  BY <1>14 DEF ListAttachedRolePolicies
<1>15. ASSUME NEW c \in Shell, NEW k \in Kind, DetachRolePolicy(c, k)
      PROVE DeleteChainProgress'
  BY <1>15 DEF DetachRolePolicy
<1>16. ASSUME NEW c \in Shell, NEW k \in Kind, DeletePolicy(c, k) PROVE DeleteChainProgress'
  BY <1>16 DEF DeletePolicy
<1>17. ASSUME NEW c \in Shell, NEW k \in Kind, DeleteRole(c, k) PROVE DeleteChainProgress'
  BY <1>17 DEF DeleteRole
<1>18. ASSUME NEW c \in Shell, NEW k \in Kind, DeleteRefused(c, k) PROVE DeleteChainProgress'
  BY <1>18 DEF DeleteRefused
<1>19. CASE UNCHANGED clusterVars
  BY <1>19 DEF clusterVars
<1> QED
  BY <1>1, <1>2, <1>3, <1>4, <1>5, <1>6, <1>7, <1>8, <1>9, <1>10, <1>11,
     <1>12, <1>13, <1>14, <1>15, <1>16, <1>17, <1>18, <1>19
  DEF ClusterNext, Proceed, CreateCall, DeleteCall

\* Everything that commands rely on is there in every state.
LEMMA IamInvariant == ClusterSpec => []IamInv
<1>1. IamInv /\ [ClusterNext]_clusterVars => IamInv'
  BY IamTypeStep, AloneStep, CreateChainStep, DeleteChainStep DEF IamInv
<1> QED
  BY IamStart, <1>1, PTL DEF ClusterSpec

-------------------------------------------------------------------------------
(* The theorems about ClusterIam. *)

\* Every variable always has its type; no policy is attached to a role that is gone, and
\* none is gone that is attached.
THEOREM ClusterTypeCorrect == ClusterSpec => []ClusterTypeOK
BY IamInvariant, PTL DEF IamInv

\* createCluster ends well only when both chains have made everything, no matter what
\* it found, who else ran which command before, and what died.
THEOREM ClusterCreateIsComplete == ClusterSpec => CreatedMeansUsable
<1>1. ASSUME IamInv, NEW c \in Shell, ClusterCreateDone(c)
      PROVE  bucket /\ role = Kind /\ attached = Kind /\ member = Kind
  <2>1. bucket
    BY <1>1 DEF ClusterCreateDone, IamInv, CreateChainProgress
  <2>2. \A k \in Kind : k \in role /\ k \in attached /\ k \in member
    BY <1>1 DEF ClusterCreateDone, Joined, IamInv, CreateChainProgress, ChainMade, From
  <2> QED
    BY <1>1, <2>1, <2>2 DEF IamInv, ClusterTypeOK
<1>2. IamInv /\ [ClusterNext]_clusterVars
        => [\A c \in Shell : ClusterCreateDone(c) =>
               bucket /\ role = Kind /\ attached = Kind /\ member = Kind]_clusterVars
  BY <1>1
<1> QED
  BY IamInvariant, <1>2, PTL DEF ClusterSpec, CreatedMeansUsable

\* deleteCluster ends without a refused call only when no role and no profile is left,
\* though it ignores every error and may share its work with another one.
THEOREM ClusterDeleteIsComplete == ClusterSpec => ClusterDeletedMeansGone
<1>1. ASSUME IamInv, NEW c \in Shell, ClusterDeleteDone(c), ~refused[c]
      PROVE  role = {} /\ profile = {}
  <2>1. \A k \in Kind : k \notin role /\ k \notin profile
    BY <1>1 DEF ClusterDeleteDone, Joined, IamInv, DeleteChainProgress, ChainRemoved, From
  <2> QED
    BY <1>1, <2>1 DEF IamInv, ClusterTypeOK
<1>2. IamInv /\ [ClusterNext]_clusterVars
        => [\A c \in Shell : ClusterDeleteDone(c) /\ ~refused[c] =>
               role = {} /\ profile = {}]_clusterVars
  BY <1>1
<1> QED
  BY IamInvariant, <1>2, PTL DEF ClusterSpec, ClusterDeletedMeansGone
================================================================================
