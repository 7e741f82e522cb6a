--------------------------- MODULE AwsMachineProofs ---------------------------
(***************************************************************************)
(* Proofs about AwsMachine, for any number of names, instances and volumes *)
(* and any number of commands that die: where a volume goes, for any       *)
(* number of shells; what becomes of its data, for one shell.              *)
(***************************************************************************)
EXTENDS AwsMachine, FiniteSetTheorems, TLAPS

-------------------------------------------------------------------------------
(* The invariant for any number of shells. *)

\* The steps of machine-redeploy, and those that have launched the new instance.
RedeployStep == {"stop", "describe", "detach", "available", "run", "running", "attach", "modify", "replace"}
NewStep == {"running", "attach", "modify", "replace"}

\* An instance that was not launched has nothing, and nobody knows of it.
Unlaunched == \A i \in Instance : state[i] = "none" => name[i] = None /\ attached[i] = None
Unknown ==
    \A c \in Command :
        /\ job[c].inst # None => state[job[c].inst] # "none"
        /\ \A i \in job[c].new : state[i] # "none"
Fresh == Unlaunched /\ Unknown

\* A volume that is attached is in use.
AttachedInUse == \A i \in Instance : attached[i] # None => volume[attached[i]] = "in-use"

\* Instances are tagged once, each by the shell that has launched it, and with the name
\* that their volume was created for.
Tagging ==
    \A c \in Command : job[c].pc = "tag" => \A i \in job[c].new :
        /\ name[i] = None
        /\ attached[i] # None => owner[attached[i]] = IF job[c].nm # None THEN job[c].nm ELSE i
        /\ \A d \in Command : job[d].pc = "tag" /\ i \in job[d].new => d = c

\* A command works on a machine that has its name for ever, and so has the one it launches
\* in its place; the volume it remembers was created for that name.
Named ==
    \A c \in Command :
        /\ job[c].pc \in RedeployStep \cup {"terminate", "terminated"} =>
               job[c].inst \in Instance /\ name[job[c].inst] # None
        /\ job[c].pc \in RedeployStep /\ job[c].vol # None =>
               volume[job[c].vol] # "none" /\ owner[job[c].vol] = name[job[c].inst]
        /\ job[c].pc \in {"detach", "available", "running", "attach", "modify"} => job[c].vol # None
        /\ job[c].pc \in NewStep =>
               \E i \in Instance : job[c].new = {i} /\ name[i] = name[job[c].inst]

\* A volume is attached to one machine, which has the name it was created for.
Follows ==
    \A i, j \in Instance :
        attached[i] # None =>
            /\ name[i] \in {None, owner[attached[i]]}
            /\ attached[j] = attached[i] => i = j

\* The inductive invariant for any number of shells.
TagInv == TypeOK /\ Fresh /\ AttachedInUse /\ Tagging /\ Named /\ Follows

-------------------------------------------------------------------------------
(* The invariant for one shell. *)

\* Commands are run one after the other.
OneShell == \A c, d \in Command : c = d

\* An instance with a mount has its volume attached and is up or on its way down.
MountedUp ==
    \A i \in Instance :
        mounted[i] => attached[i] # None /\ state[i] \in {"running", "stopping", "shutting-down"}

\* What goes with its volume may go.
ShuttingDown ==
    \A i \in Instance :
        state[i] = "shutting-down" /\ attached[i] # None /\ onTerm[i] /\ data[attached[i]] =>
            owner[attached[i]] \in deletes

\* What a redeploy has read stays true until it changes it.
JobInv ==
    \A c \in Command :
        /\ job[c].pc = "terminate" => name[job[c].inst] \in deletes
        /\ job[c].pc \in {"stop", "describe", "detach"} =>
               /\ attached[job[c].inst] \in {job[c].vol, None}
               /\ job[c].vol # None =>
                      \A i \in Instance : attached[i] = job[c].vol => i = job[c].inst
        /\ job[c].pc = "detach" => state[job[c].inst] = "stopped"
        /\ job[c].pc \in {"available", "run"} \cup NewStep => attached[job[c].inst] = None
        /\ job[c].pc \in {"available", "run", "running", "attach"} /\ job[c].vol # None =>
               volume[job[c].vol] = "available"
        /\ job[c].pc \in NewStep => \A i \in job[c].new :
               /\ i # job[c].inst
               /\ state[i] \in {"pending", "running"}
               /\ job[c].pc = "attach" => state[i] = "running"
               /\ job[c].pc \in {"running", "attach"} => attached[i] = None
               /\ job[c].pc = "modify" => attached[i] = job[c].vol

\* As long as no command has died, a volume that is attached to nothing is being handed
\* over, and one that is attached goes with its instance.
NothingLeft ==
    crashes = 0 =>
        /\ \A v \in Volume : volume[v] = "available" =>
               \E c \in Command : job[c].pc \in {"available", "run", "running", "attach"} /\ job[c].vol = v
        /\ \A i \in Instance : attached[i] # None /\ ~onTerm[i] =>
               \E c \in Command : job[c].pc = "modify" /\ i \in job[c].new

\* The inductive invariant for one shell.
ShellInv == TagInv /\ MountedUp /\ ShuttingDown /\ JobInv /\ NothingLeft /\ DataSurvives

-------------------------------------------------------------------------------
(* Lemmas about the jobs of the shells. *)

\* What a shell does, as in TypeOK.
Jobs == [pc : Step, nm : AnyName, inst : Instance \cup {None},
         vol : Volume \cup {None}, new : SUBSET Instance]

\* The rest of TypeOK.
World ==
    /\ state \in [Instance -> {"none", "pending", "running", "stopping", "stopped",
                               "shutting-down", "terminated"}]
    /\ name \in [Instance -> AnyName]
    /\ spot \in [Instance -> BOOLEAN]
    /\ attached \in [Instance -> Volume \cup {None}]
    /\ onTerm \in [Instance -> BOOLEAN]
    /\ wants \in [Instance -> BOOLEAN]
    /\ mounted \in [Instance -> BOOLEAN]
    /\ volume \in [Volume -> {"none", "available", "in-use", "deleted"}]
    /\ owner \in [Volume -> AnyName]
    /\ data \in [Volume -> BOOLEAN]
    /\ deletes \subseteq Name \cup Instance
    /\ crashes \in 0..MaxCrashes

\* Shell c comes to do this, and the other shells go on with what they do.
Becomes(c, p, n, i, v, s) ==
    /\ job' \in [Command -> Jobs]
    /\ job'[c].pc = p /\ job'[c].nm = n /\ job'[c].inst = i /\ job'[c].vol = v /\ job'[c].new = s
    /\ \A d \in Command \ {c} : job'[d] = job[d]

\* Shell c comes to step p of the same command, or has nothing more to do.
Goes(c, p) == Becomes(c, p, job[c].nm, job[c].inst, job[c].vol, job[c].new)
Rests(c) == Becomes(c, "idle", None, None, None, {})

\* TypeOK in two parts.
LEMMA TypeParts == TypeOK <=> World /\ job \in [Command -> Jobs]
BY DEF TypeOK, World, Jobs

\* The same of the next state.
LEMMA TypePartsNext == TypeOK' <=> World' /\ job' \in [Command -> Jobs]
BY DEF TypeOK, World, Jobs, AnyName

\* The fields of a job.
LEMMA JobTypes ==
    ASSUME job \in [Command -> Jobs], NEW c \in Command
    PROVE  /\ job[c] \in Jobs
           /\ job[c].pc \in Step /\ job[c].nm \in AnyName /\ job[c].inst \in Instance \cup {None}
           /\ job[c].vol \in Volume \cup {None} /\ job[c].new \in SUBSET Instance
BY DEF Jobs

\* A command that ends leaves a shell that has nothing to do.
LEMMA Ended ==
    ASSUME job \in [Command -> Jobs], NEW c \in Command, End(c)
    PROVE  Rests(c)
<1>1. NoJob \in Jobs
  BY DEF NoJob, Jobs, Step, AnyName
<1>2. job' \in [Command -> Jobs]
  BY <1>1 DEF End
<1> QED
  BY <1>2 DEF End, NoJob, Rests, Becomes

\* A command that continues changes nothing but its step.
LEMMA Continued ==
    ASSUME job \in [Command -> Jobs], NEW c \in Command, NEW p \in Step, Continue(c, p)
    PROVE  Goes(c, p)
<1>1. job' \in [Command -> Jobs]
  BY DEF Continue, Jobs
<1>2. job'[c] = [job[c] EXCEPT !.pc = p] /\ \A d \in Command \ {c} : job'[d] = job[d]
  BY DEF Continue
<1>3. job[c] \in Jobs
  OBVIOUS
<1> QED
  BY <1>1, <1>2, <1>3 DEF Goes, Becomes, Jobs

-------------------------------------------------------------------------------
(* What the actions do to the jobs. *)

\* createInstance without a name remembers the instance.
LEMMA AddUnnamedJob ==
    ASSUME job \in [Command -> Jobs], NEW c \in Command, NEW i \in Instance,
           job' = [job EXCEPT ![c].pc = "tag", ![c].new = {i}, ![c].inst = i]
    PROVE  Becomes(c, "tag", job[c].nm, i, job[c].vol, {i})
<1>1. job[c] \in Jobs
  OBVIOUS
<1>2. job'[c] = [job[c] EXCEPT !.pc = "tag", !.new = {i}, !.inst = i]
      /\ \A d \in Command \ {c} : job'[d] = job[d]
  OBVIOUS
<1>3. job'[c] \in Jobs
  BY <1>1, <1>2 DEF Jobs, Step
<1>4. job' = [job EXCEPT ![c] = job'[c]]
  BY <1>2
<1>5. job' \in [Command -> Jobs]
  BY <1>3, <1>4
<1> QED
  BY <1>1, <1>2, <1>5 DEF Becomes, Jobs

\* createSpotInstance remembers the instances and the name.
LEMMA SpotJob ==
    ASSUME job \in [Command -> Jobs], NEW c \in Command, NEW got \in SUBSET Instance,
           NEW n \in Name \cup {None},
           job' = [job EXCEPT ![c].pc = "tag", ![c].new = got, ![c].nm = n]
    PROVE  Becomes(c, "tag", n, job[c].inst, job[c].vol, got)
<1>1. job[c] \in Jobs
  OBVIOUS
<1>2. job'[c] = [job[c] EXCEPT !.pc = "tag", !.new = got, !.nm = n]
      /\ \A d \in Command \ {c} : job'[d] = job[d]
  OBVIOUS
<1>3. job'[c] \in Jobs
  BY <1>1, <1>2 DEF Jobs, Step, AnyName
<1>4. job' = [job EXCEPT ![c] = job'[c]]
  BY <1>2
<1>5. job' \in [Command -> Jobs]
  BY <1>3, <1>4
<1> QED
  BY <1>1, <1>2, <1>5 DEF Becomes, Jobs

\* One instance less to tag.
LEMMA TagJob ==
    ASSUME job \in [Command -> Jobs], NEW c \in Command, NEW i \in Instance,
           job' = [job EXCEPT ![c].new = @ \ {i}]
    PROVE  Becomes(c, job[c].pc, job[c].nm, job[c].inst, job[c].vol, job[c].new \ {i})
<1>1. job' \in [Command -> Jobs]
  BY DEF Jobs
<1>2. job'[c] = [job[c] EXCEPT !.new = @ \ {i}] /\ \A d \in Command \ {c} : job'[d] = job[d]
  OBVIOUS
<1>3. job[c] \in Jobs
  OBVIOUS
<1> QED
  BY <1>1, <1>2, <1>3 DEF Becomes, Jobs

\* deleteInstance remembers the instance.
LEMMA DeleteJob ==
    ASSUME job \in [Command -> Jobs], NEW c \in Command, NEW i \in Instance,
           job' = [job EXCEPT ![c].pc = "terminate", ![c].inst = i]
    PROVE  Becomes(c, "terminate", job[c].nm, i, job[c].vol, job[c].new)
<1>1. job[c] \in Jobs
  OBVIOUS
<1>2. job'[c] = [job[c] EXCEPT !.pc = "terminate", !.inst = i]
      /\ \A d \in Command \ {c} : job'[d] = job[d]
  OBVIOUS
<1>3. job'[c] \in Jobs
  BY <1>1, <1>2 DEF Jobs, Step
<1>4. job' = [job EXCEPT ![c] = job'[c]]
  BY <1>2
<1>5. job' \in [Command -> Jobs]
  BY <1>3, <1>4
<1> QED
  BY <1>1, <1>2, <1>5 DEF Becomes, Jobs

\* redeployInstance remembers the instance and its volume.
LEMMA RedeployJob ==
    ASSUME job \in [Command -> Jobs], NEW c \in Command, NEW i \in Instance,
           NEW v \in Volume \cup {None},
           job' = [job EXCEPT ![c].pc = "stop", ![c].inst = i, ![c].vol = v]
    PROVE  Becomes(c, "stop", job[c].nm, i, v, job[c].new)
<1>1. job[c] \in Jobs
  OBVIOUS
<1>2. job'[c] = [job[c] EXCEPT !.pc = "stop", !.inst = i, !.vol = v]
      /\ \A d \in Command \ {c} : job'[d] = job[d]
  OBVIOUS
<1>3. job'[c] \in Jobs
  BY <1>1, <1>2 DEF Jobs, Step
<1>4. job' = [job EXCEPT ![c] = job'[c]]
  BY <1>2
<1>5. job' \in [Command -> Jobs]
  BY <1>3, <1>4
<1> QED
  BY <1>1, <1>2, <1>5 DEF Becomes, Jobs

\* redeployInstance remembers the instance it has launched.
LEMMA RunJob ==
    ASSUME job \in [Command -> Jobs], NEW c \in Command, NEW i \in Instance, NEW p \in Step,
           job' = [job EXCEPT ![c].new = {i}, ![c].pc = p]
    PROVE  Becomes(c, p, job[c].nm, job[c].inst, job[c].vol, {i})
<1>1. job' \in [Command -> Jobs]
  BY DEF Jobs
<1>2. job'[c] = [job[c] EXCEPT !.new = {i}, !.pc = p]
      /\ \A d \in Command \ {c} : job'[d] = job[d]
  OBVIOUS
<1>3. job[c] \in Jobs
  OBVIOUS
<1> QED
  BY <1>1, <1>2, <1>3 DEF Becomes, Jobs

\* A machine that is found has a name and is not terminated.
LEMMA Found ==
    ASSUME NEW n, NEW i \in Lookup(n)
    PROVE  i \in Instance /\ name[i] # None /\ state[i] \in {"pending", "running", "stopping", "stopped"}
BY DEF Lookup, Visible

\* The one new instance of a redeploy.
LEMMA OneNew ==
    ASSUME Named, NEW c \in Command, job[c].pc \in NewStep
    PROVE  New(c) \in Instance /\ job[c].new = {New(c)} /\ name[New(c)] = name[job[c].inst]
<1>1. PICK i \in Instance : job[c].new = {i} /\ name[i] = name[job[c].inst]
  BY DEF Named
<1>2. New(c) = i
  BY <1>1 DEF New
<1> QED
  BY <1>1, <1>2

\* A spot request is fulfilled with some instance, and with one if one was asked for.
LEMMA Fulfilled ==
    ASSUME NEW got \in SUBSET Instance, NEW asked \in 1..2, Cardinality(got) \in 1..asked
    PROVE  /\ got # {} /\ (CHOOSE i \in got : TRUE) \in got
           /\ asked = 1 => got = {CHOOSE i \in got : TRUE} /\ ~(Cardinality(got) < asked)
<1>1. IsFiniteSet(got)
  BY MachineAssumption, FS_Subset
<1>2. got # {}
  BY FS_EmptySet
<1>3. (CHOOSE i \in got : TRUE) \in got
  BY <1>2
<1>4. ASSUME asked = 1 PROVE got = {CHOOSE i \in got : TRUE} /\ ~(Cardinality(got) < asked)
  <2>1. Cardinality(got) = 1
    BY <1>4
  <2>2. PICK x : got = {x}
    BY <1>1, <2>1, FS_Singleton
  <2> QED
    BY <2>1, <2>2, <1>4, <1>3
<1> QED
  BY <1>2, <1>3, <1>4

\* A launch leaves every variable its type.
LEMMA LaunchTypes ==
    ASSUME World, NEW is \in SUBSET Instance, NEW tag \in AnyName,
           NEW disk \in Volume \cup {None}, NEW o \in AnyName, Launch(is, tag, disk, o)
    PROVE  /\ state' \in [Instance -> {"none", "pending", "running", "stopping", "stopped",
                                       "shutting-down", "terminated"}]
           /\ name' \in [Instance -> AnyName]
           /\ attached' \in [Instance -> Volume \cup {None}]
           /\ onTerm' \in [Instance -> BOOLEAN]
           /\ wants' \in [Instance -> BOOLEAN]
           /\ volume' \in [Volume -> {"none", "available", "in-use", "deleted"}]
           /\ owner' \in [Volume -> AnyName]
<1>1. state' \in [Instance -> {"none", "pending", "running", "stopping", "stopped",
                               "shutting-down", "terminated"}]
  BY DEF World, Launch
<1>2. name' \in [Instance -> AnyName]
  BY DEF World, Launch
<1>3. wants' \in [Instance -> BOOLEAN]
  <2>1. wants \in [Instance -> BOOLEAN]
    BY DEF World
  <2>2. wants' = [i \in Instance |-> IF i \in is THEN disk # None ELSE wants[i]]
    BY DEF Launch
  <2>3. \A i \in Instance : (IF i \in is THEN disk # None ELSE wants[i]) \in BOOLEAN
    BY <2>1
  <2> QED
    BY <2>2, <2>3
<1>4. CASE disk = None
  BY <1>1, <1>2, <1>3, <1>4 DEF World, Launch
<1>5. CASE disk # None
  <2>1. onTerm' = [i \in Instance |-> i \in is \/ onTerm[i]]
    BY <1>5 DEF Launch
  <2>2. \A i \in Instance : (i \in is \/ onTerm[i]) \in BOOLEAN
    OBVIOUS
  <2>3. onTerm' \in [Instance -> BOOLEAN]
    BY <2>1, <2>2
  <2>4. attached' \in [Instance -> Volume \cup {None}]
    BY <1>5 DEF World, Launch
  <2>5. /\ volume' \in [Volume -> {"none", "available", "in-use", "deleted"}]
        /\ owner' \in [Volume -> AnyName]
    BY <1>5 DEF World, Launch
  <2> QED
    BY <1>1, <1>2, <1>3, <2>3, <2>4, <2>5
<1> QED
  BY <1>4, <1>5

\* What a launch does to each instance and to each volume.
Launches(is, tag, disk, o) ==
    /\ \A i \in is : state[i] = "none"
    /\ disk # None => volume[disk] = "none"
    /\ \A i \in Instance :
           /\ state'[i] = IF i \in is THEN "pending" ELSE state[i]
           /\ name'[i] = IF i \in is THEN tag ELSE name[i]
           /\ attached'[i] = IF i \in is /\ disk # None THEN disk ELSE attached[i]
    /\ \A i \in Instance : /\ i \in is /\ disk # None => onTerm'[i]
                           /\ i \notin is \/ disk = None => (onTerm'[i] <=> onTerm[i])
    /\ \A v \in Volume :
           /\ volume'[v] = IF v = disk THEN "in-use" ELSE volume[v]
           /\ owner'[v] = IF v = disk THEN o ELSE owner[v]

\* Launch, point by point.
LEMMA Launched ==
    ASSUME World, NEW is, NEW tag, NEW disk \in Volume \cup {None}, NEW o,
           Launch(is, tag, disk, o)
    PROVE  Launches(is, tag, disk, o)
<1>1. None \notin Volume
  BY MachineAssumption
<1>2. /\ \A i \in is : state[i] = "none"
      /\ \A i \in Instance :
             /\ state'[i] = IF i \in is THEN "pending" ELSE state[i]
             /\ name'[i] = IF i \in is THEN tag ELSE name[i]
  BY DEF Launch
<1>3. CASE disk = None
  <2>1. UNCHANGED <<attached, onTerm, volume, owner>>
    BY <1>3 DEF Launch
  <2>2. \A i \in Instance : onTerm'[i] <=> onTerm[i]
    BY <2>1
  <2>3. /\ \A i \in Instance : attached'[i] = IF i \in is /\ disk # None THEN disk ELSE attached[i]
        /\ \A v \in Volume : /\ volume'[v] = IF v = disk THEN "in-use" ELSE volume[v]
                             /\ owner'[v] = IF v = disk THEN o ELSE owner[v]
    BY <1>1, <1>3, <2>1
  <2> QED
    BY <1>2, <1>3, <2>2, <2>3 DEF Launches
<1>4. CASE disk # None
  <2>1. \A i \in Instance : /\ i \in is /\ disk # None => onTerm'[i]
                            /\ i \notin is \/ disk = None => (onTerm'[i] <=> onTerm[i])
    BY <1>4, Zenon DEF Launch
  <2>2. /\ volume[disk] = "none"
        /\ \A i \in Instance : attached'[i] = IF i \in is THEN disk ELSE attached[i]
    BY <1>4 DEF Launch
  <2>3. \A v \in Volume : /\ volume'[v] = IF v = disk THEN "in-use" ELSE volume[v]
                          /\ owner'[v] = IF v = disk THEN o ELSE owner[v]
    BY <1>4 DEF Launch, World
  <2>4. \A i \in Instance : attached'[i] = IF i \in is /\ disk # None THEN disk ELSE attached[i]
    BY <1>4, <2>2
  <2>5. /\ \A i \in is : state[i] = "none"
        /\ \A i \in Instance :
               /\ state'[i] = IF i \in is THEN "pending" ELSE state[i]
               /\ name'[i] = IF i \in is THEN tag ELSE name[i]
               /\ attached'[i] = IF i \in is /\ disk # None THEN disk ELSE attached[i]
    BY <1>2, <2>4
  <2>6. disk # None => volume[disk] = "none"
    BY <2>2
  <2> QED
    BY <2>1, <2>3, <2>5, <2>6, Zenon DEF Launches
<1> QED
  BY <1>3, <1>4

\* createInstance with a name launches a machine that has its tags.
LEMMA AddNamedDoes ==
    ASSUME TypeOK, NEW c, AddNamed(c)
    PROVE  /\ \E i \in Instance, n \in Name, disk \in Volume \cup {None} : Launches({i}, n, disk, n)
           /\ UNCHANGED <<spot, hostVars, job, deletes, crashes>>
<1>1. World
  BY TypeParts
<1>2. PICK i \in Instance, n \in Name, disk \in Volume \cup {None} : Launch({i}, n, disk, n)
  BY DEF AddNamed
<1>3. Launches({i}, n, disk, n)
  BY <1>1, <1>2, Launched
<1> QED
  BY <1>2, <1>3 DEF AddNamed

-------------------------------------------------------------------------------
(* What the actions of the shells do. *)

\* AddUnnamed launches an instance that has no tags and no volume.
LEMMA AddUnnamedDoes ==
    ASSUME TypeOK, NEW c \in Command, AddUnnamed(c)
    PROVE  /\ \E i \in Instance :
                  /\ Launches({i}, None, None, None)
                  /\ Becomes(c, "tag", job[c].nm, i, job[c].vol, {i})
           /\ job[c].pc = "idle"
           /\ UNCHANGED <<spot, hostVars, deletes, crashes>>
<1>1. World /\ job \in [Command -> Jobs]
  BY TypeParts
<1> QED
  BY <1>1, AddUnnamedJob, Launched DEF AddUnnamed

\* RequestSpot launches instances that have no tags, and if there is a volume only one.
LEMMA RequestSpotDoes ==
    ASSUME TypeOK, NEW c \in Command, RequestSpot(c)
    PROVE  /\ \E got \in SUBSET Instance, n \in Name \cup {None}, disk \in Volume \cup {None}, o \in AnyName :
                  /\ Launch(got, None, disk, o) /\ Launches(got, None, disk, o)
                  /\ disk # None => \E i \in Instance : got = {i} /\ o = IF n # None THEN n ELSE i
                  /\ \/ job' = job /\ disk = None
                     \/ Becomes(c, "tag", n, job[c].inst, job[c].vol, got)
           /\ job[c].pc = "idle"
           /\ UNCHANGED <<spot, hostVars, deletes, crashes>>
<1>1. World /\ job \in [Command -> Jobs]
  BY TypeParts
<1>2. PICK got \in SUBSET Instance, asked \in 1..2, n \in Name \cup {None}, disk \in Volume \cup {None} :
           /\ n # None => asked = 1
           /\ Cardinality(got) \in 1..asked
           /\ disk # None => asked = 1
           /\ Launch(got, None, disk, IF n # None THEN n ELSE CHOOSE i \in got : TRUE)
           /\ job' = IF Cardinality(got) < asked
                     THEN job
                     ELSE [job EXCEPT ![c].pc = "tag", ![c].new = got, ![c].nm = n]
  BY DEF RequestSpot
<1> DEFINE one == CHOOSE i \in got : TRUE
           o == IF n # None THEN n ELSE one
<1>3. /\ got # {} /\ one \in got
      /\ asked = 1 => got = {one} /\ ~(Cardinality(got) < asked)
  BY <1>2, Fulfilled
<1> HIDE DEF one
<1>4. o \in AnyName
  BY <1>3 DEF AnyName
<1>5. disk # None => \E i \in Instance : got = {i} /\ o = IF n # None THEN n ELSE i
  BY <1>2, <1>3
<1>6. \/ job' = job /\ disk = None
      \/ Becomes(c, "tag", n, job[c].inst, job[c].vol, got)
  BY <1>1, <1>2, <1>3, SpotJob
<1>7. Launch(got, None, disk, o)
  BY <1>2 DEF one
<1> HIDE DEF o
<1>8. Launches(got, None, disk, o)
  BY <1>1, <1>7, Launched
<1> QED
  BY <1>4, <1>5, <1>6, <1>7, <1>8 DEF RequestSpot

\* TagNew tags one of the new instances.
LEMMA TagNewDoes ==
    ASSUME TypeOK, NEW c \in Command, TagNew(c)
    PROVE  /\ job[c].pc = "tag"
           /\ \E i \in job[c].new :
                  /\ name' = [name EXCEPT ![i] = IF job[c].nm # None THEN job[c].nm ELSE i]
                  /\ spot' = [spot EXCEPT ![i] = job[c].inst = None]
                  /\ \/ job[c].new = {i} /\ Rests(c)
                     \/ Becomes(c, "tag", job[c].nm, job[c].inst, job[c].vol, job[c].new \ {i})
           /\ UNCHANGED <<state, attached, onTerm, wants, volume, owner, hostVars, deletes, crashes>>
<1>1. World /\ job \in [Command -> Jobs]
  BY TypeParts
<1>2. job[c].inst \in Instance \cup {None} /\ job[c].vol \in Volume \cup {None} /\ job[c].new \subseteq Instance
  BY <1>1, JobTypes
<1>3. PICK i \in job[c].new :
          /\ name' = [name EXCEPT ![i] = IF job[c].nm # None THEN job[c].nm ELSE i]
          /\ spot' = [spot EXCEPT ![i] = job[c].inst = None]
          /\ IF job[c].new = {i} THEN End(c)
             ELSE job' = [job EXCEPT ![c].new = @ \ {i}]
  BY DEF TagNew
<1>4. /\ job[c].pc = "tag"
      /\ UNCHANGED <<state, attached, onTerm, wants, volume, owner, hostVars, deletes, crashes>>
  BY DEF TagNew
<1>5. \/ job[c].new = {i} /\ Rests(c)
      \/ Becomes(c, "tag", job[c].nm, job[c].inst, job[c].vol, job[c].new \ {i})
  BY <1>1, <1>2, <1>3, <1>4, Ended, TagJob
<1> QED
  BY <1>3, <1>4, <1>5

\* DeleteRead finds a machine and records that it is to be deleted.
LEMMA DeleteReadDoes ==
    ASSUME TypeOK, NEW c \in Command, DeleteRead(c)
    PROVE  /\ job[c].pc = "idle"
           /\ \E i \in Instance :
                  /\ name[i] # None /\ state[i] # "none"
                  /\ Becomes(c, "terminate", job[c].nm, i, job[c].vol, job[c].new)
                  /\ deletes' = deletes \cup {name[i]}
           /\ UNCHANGED <<ec2Vars, hostVars, crashes>>
<1>1. World /\ job \in [Command -> Jobs]
  BY TypeParts
<1>2. PICK n \in Name \cup Instance : \E i \in Lookup(n) :
          /\ job' = [job EXCEPT ![c].pc = "terminate", ![c].inst = i]
          /\ deletes' = deletes \cup {name[i]}
  BY DEF DeleteRead
<1>3. PICK i \in Lookup(n) :
          /\ job' = [job EXCEPT ![c].pc = "terminate", ![c].inst = i]
          /\ deletes' = deletes \cup {name[i]}
  BY <1>2
<1>4. i \in Instance /\ name[i] # None /\ state[i] # "none"
  BY <1>3, Found
<1>5. Becomes(c, "terminate", job[c].nm, i, job[c].vol, job[c].new)
  BY <1>1, <1>3, <1>4, DeleteJob
<1> QED
  BY <1>3, <1>4, <1>5 DEF DeleteRead

\* DeleteTerminate goes on to wait for EC2.
LEMMA DeleteTerminateDoes ==
    ASSUME TypeOK, NEW c \in Command, DeleteTerminate(c)
    PROVE  /\ job[c].pc = "terminate" /\ Terminate(job[c].inst) /\ Goes(c, "terminated")
           /\ UNCHANGED <<name, spot, attached, onTerm, wants, volume, owner, hostVars, deletes, crashes>>
<1>1. World /\ job \in [Command -> Jobs]
  BY TypeParts
<1> QED
  BY <1>1, Continued DEF DeleteTerminate, Step

\* DeleteDone ends the command.
LEMMA DeleteDoneDoes ==
    ASSUME TypeOK, NEW c \in Command, DeleteDone(c)
    PROVE  /\ job[c].pc = "terminated" /\ Rests(c)
           /\ UNCHANGED <<ec2Vars, hostVars, deletes, crashes>>
<1>1. World /\ job \in [Command -> Jobs]
  BY TypeParts
<1> QED
  BY <1>1, Ended DEF DeleteDone

\* RedeployRead finds a machine and reads its volume.
LEMMA RedeployReadDoes ==
    ASSUME TypeOK, NEW c \in Command, RedeployRead(c)
    PROVE  /\ job[c].pc = "idle"
           /\ \E i \in Instance :
                  /\ name[i] # None /\ state[i] # "none"
                  /\ Becomes(c, "stop", job[c].nm, i, attached[i], job[c].new)
           /\ UNCHANGED <<ec2Vars, hostVars, deletes, crashes>>
<1>1. World /\ job \in [Command -> Jobs]
  BY TypeParts
<1>2. PICK n \in Name \cup Instance : \E i \in Lookup(n) :
          job' = [job EXCEPT ![c].pc = "stop", ![c].inst = i, ![c].vol = attached[i]]
  BY DEF RedeployRead
<1>3. PICK i \in Lookup(n) :
          job' = [job EXCEPT ![c].pc = "stop", ![c].inst = i, ![c].vol = attached[i]]
  BY <1>2
<1>4. i \in Instance /\ name[i] # None /\ state[i] # "none"
  BY <1>3, Found
<1>5. attached[i] \in Volume \cup {None}
  BY <1>1, <1>4 DEF World
<1>6. Becomes(c, "stop", job[c].nm, i, attached[i], job[c].new)
  BY <1>1, <1>3, <1>4, <1>5, RedeployJob
<1> QED
  BY <1>4, <1>6 DEF RedeployRead

\* RedeployStop goes on only when EC2 stops the instance.
LEMMA RedeployStopDoes ==
    ASSUME TypeOK, NEW c \in Command, RedeployStop(c)
    PROVE  /\ job[c].pc = "stop"
           /\ \/ /\ state[job[c].inst] \in {"running", "stopping", "stopped"}
                 /\ state' = [state EXCEPT ![job[c].inst] = IF @ = "stopped" THEN @ ELSE "stopping"]
                 /\ Goes(c, "describe")
              \/ UNCHANGED state /\ Rests(c)
           /\ UNCHANGED <<name, spot, attached, onTerm, wants, volume, owner, hostVars, deletes, crashes>>
<1>1. World /\ job \in [Command -> Jobs]
  BY TypeParts
<1> QED
  BY <1>1, Continued, Ended DEF RedeployStop, Step

\* RedeployDescribe goes on only when the instance is stopped.
LEMMA RedeployDescribeDoes ==
    ASSUME TypeOK, NEW c \in Command, RedeployDescribe(c)
    PROVE  /\ job[c].pc = "describe"
           /\ \/ Rests(c)
              \/ /\ state[job[c].inst] = "stopped"
                 /\ job[c].vol # None /\ volume[job[c].vol] \notin {"deleted", "available"}
                 /\ Goes(c, "detach")
              \/ /\ state[job[c].inst] = "stopped"
                 /\ job[c].vol # None => volume[job[c].vol] = "available"
                 /\ Goes(c, "run")
           /\ UNCHANGED <<ec2Vars, hostVars, deletes, crashes>>
<1>1. World /\ job \in [Command -> Jobs]
  BY TypeParts
<1>2. "detach" \in Step /\ "run" \in Step
  BY DEF Step
<1>3. End(c) => Rests(c)
  BY <1>1, Ended
<1>4. Continue(c, "detach") => Goes(c, "detach")
  BY <1>1, <1>2, Continued
<1>5. Continue(c, "run") => Goes(c, "run")
  BY <1>1, <1>2, Continued
<1> QED
  BY <1>3, <1>4, <1>5 DEF RedeployDescribe

\* RedeployDetach goes on only when the volume was attached.
LEMMA RedeployDetachDoes ==
    ASSUME TypeOK, NEW c \in Command, RedeployDetach(c)
    PROVE  /\ job[c].pc = "detach"
           /\ \/ /\ volume[job[c].vol] = "in-use"
                 /\ volume' = [volume EXCEPT ![job[c].vol] = "available"]
                 /\ attached' = [i \in Instance |-> IF attached[i] = job[c].vol THEN None ELSE attached[i]]
                 /\ onTerm' = [i \in Instance |-> onTerm[i] /\ attached[i] # job[c].vol]
                 /\ Goes(c, "available")
              \/ UNCHANGED <<volume, attached, onTerm>> /\ Rests(c)
           /\ UNCHANGED <<state, name, spot, wants, owner, hostVars, deletes, crashes>>
<1>1. World /\ job \in [Command -> Jobs]
  BY TypeParts
<1> QED
  BY <1>1, Continued, Ended DEF RedeployDetach, Step

\* RedeployAvailable goes on only when the volume is there.
LEMMA RedeployAvailableDoes ==
    ASSUME TypeOK, NEW c \in Command, RedeployAvailable(c)
    PROVE  /\ job[c].pc = "available"
           /\ \/ volume[job[c].vol] = "deleted" /\ Rests(c)
              \/ volume[job[c].vol] = "available" /\ Goes(c, "run")
           /\ UNCHANGED <<ec2Vars, hostVars, deletes, crashes>>
<1>1. World /\ job \in [Command -> Jobs]
  BY TypeParts
<1> QED
  BY <1>1, Continued, Ended DEF RedeployAvailable, Step

\* RedeployRun launches an instance with the name of the old one.
LEMMA RedeployRunDoes ==
    ASSUME TypeOK, NEW c \in Command, RedeployRun(c)
    PROVE  /\ job[c].pc = "run"
           /\ \E i \in Instance :
                  /\ state[i] = "none"
                  /\ state' = [state EXCEPT ![i] = "pending"]
                  /\ name' = [name EXCEPT ![i] = name[job[c].inst]]
                  /\ wants' = [wants EXCEPT ![i] = job[c].vol # None]
                  /\ Becomes(c, IF job[c].vol # None THEN "running" ELSE "replace",
                             job[c].nm, job[c].inst, job[c].vol, {i})
           /\ UNCHANGED <<spot, attached, onTerm, volume, owner, hostVars, deletes, crashes>>
<1>1. World /\ job \in [Command -> Jobs]
  BY TypeParts
<1> DEFINE p == IF job[c].vol # None THEN "running" ELSE "replace"
<1>2. p \in Step
  BY DEF Step
<1>3. PICK i \in Instance :
          /\ state[i] = "none"
          /\ state' = [state EXCEPT ![i] = "pending"]
          /\ name' = [name EXCEPT ![i] = name[job[c].inst]]
          /\ wants' = [wants EXCEPT ![i] = job[c].vol # None]
          /\ job' = [job EXCEPT ![c].new = {i}, ![c].pc = p]
  BY DEF RedeployRun
<1> HIDE DEF p
<1>4. Becomes(c, p, job[c].nm, job[c].inst, job[c].vol, {i})
  BY <1>1, <1>2, <1>3, RunJob
<1>5. /\ job[c].pc = "run"
      /\ UNCHANGED <<spot, attached, onTerm, volume, owner, hostVars, deletes, crashes>>
  BY DEF RedeployRun
<1> QED
  BY <1>3, <1>4, <1>5 DEF p

\* RedeployRunning goes on only when the new instance runs.
LEMMA RedeployRunningDoes ==
    ASSUME TypeOK, NEW c \in Command, RedeployRunning(c)
    PROVE  /\ job[c].pc = "running"
           /\ \/ state[New(c)] \notin {"pending", "running"} /\ Rests(c)
              \/ state[New(c)] = "running" /\ Goes(c, "attach")
           /\ UNCHANGED <<ec2Vars, hostVars, deletes, crashes>>
<1>1. World /\ job \in [Command -> Jobs]
  BY TypeParts
<1> QED
  BY <1>1, Continued, Ended DEF RedeployRunning, Step

\* RedeployAttach goes on only when the volume is attached.
LEMMA RedeployAttachDoes ==
    ASSUME TypeOK, NEW c \in Command, RedeployAttach(c)
    PROVE  /\ job[c].pc = "attach"
           /\ \/ /\ volume[job[c].vol] = "available" /\ attached[New(c)] = None
                 /\ state[New(c)] \in {"running", "stopping", "stopped"}
                 /\ volume' = [volume EXCEPT ![job[c].vol] = "in-use"]
                 /\ attached' = [attached EXCEPT ![New(c)] = job[c].vol]
                 /\ Goes(c, "modify")
              \/ /\ ~ /\ volume[job[c].vol] = "available" /\ attached[New(c)] = None
                      /\ state[New(c)] \in {"running", "stopping", "stopped"}
                 /\ UNCHANGED <<volume, attached>> /\ Rests(c)
           /\ UNCHANGED <<state, name, spot, onTerm, wants, owner, hostVars, deletes, crashes>>
<1>1. World /\ job \in [Command -> Jobs]
  BY TypeParts
<1> QED
  BY <1>1, Continued, Ended DEF RedeployAttach, Step

\* RedeployModify goes on only when the volume is still there.
LEMMA RedeployModifyDoes ==
    ASSUME TypeOK, NEW c \in Command, RedeployModify(c)
    PROVE  /\ job[c].pc = "modify"
           /\ \/ /\ attached[New(c)] = job[c].vol
                 /\ onTerm' = [onTerm EXCEPT ![New(c)] = TRUE]
                 /\ Goes(c, "replace")
              \/ attached[New(c)] # job[c].vol /\ UNCHANGED onTerm /\ Rests(c)
           /\ UNCHANGED <<state, name, spot, attached, wants, volume, owner, hostVars, deletes, crashes>>
<1>1. World /\ job \in [Command -> Jobs]
  BY TypeParts
<1> QED
  BY <1>1, Continued, Ended DEF RedeployModify, Step

\* RedeployReplace ends the command.
LEMMA RedeployReplaceDoes ==
    ASSUME TypeOK, NEW c \in Command, RedeployReplace(c)
    PROVE  /\ job[c].pc = "replace" /\ Terminate(job[c].inst) /\ Rests(c)
           /\ UNCHANGED <<name, spot, attached, onTerm, wants, volume, owner, hostVars, deletes, crashes>>
<1>1. World /\ job \in [Command -> Jobs]
  BY TypeParts
<1> QED
  BY <1>1, Ended DEF RedeployReplace

\* Crash ends the command.
LEMMA CrashDoes ==
    ASSUME TypeOK, NEW c \in Command, Crash(c)
    PROVE  /\ crashes < MaxCrashes /\ crashes' = crashes + 1 /\ Rests(c)
           /\ UNCHANGED <<ec2Vars, hostVars, deletes>>
<1>1. World /\ job \in [Command -> Jobs]
  BY TypeParts
<1> QED
  BY <1>1, Ended DEF Crash

-------------------------------------------------------------------------------
(* The invariant for any number of shells. *)

\* The types of what a shell does.
LEMMA JobStep == TagInv /\ [Next]_vars => job' \in [Command -> Jobs]
<1> SUFFICES ASSUME TagInv, [Next]_vars PROVE job' \in [Command -> Jobs]
  OBVIOUS
<1> USE DEF ec2Vars, hostVars
<1>a. TypeOK /\ World /\ job \in [Command -> Jobs]
  BY TypeParts DEF TagInv
<1>1. ASSUME NEW c \in Command, AddNamed(c) PROVE job' \in [Command -> Jobs]
  BY <1>1, <1>a DEF AddNamed
<1>2. ASSUME NEW c \in Command, AddUnnamed(c) PROVE job' \in [Command -> Jobs]
  BY <1>2, <1>a, AddUnnamedDoes DEF Becomes, Goes, Rests, Launches
<1>3. ASSUME NEW c \in Command, RequestSpot(c) PROVE job' \in [Command -> Jobs]
  BY <1>3, <1>a, RequestSpotDoes DEF Becomes, Goes, Rests, Launches
<1>4. ASSUME NEW c \in Command, TagNew(c) PROVE job' \in [Command -> Jobs]
  BY <1>4, <1>a, TagNewDoes DEF Becomes, Goes, Rests
<1>5. ASSUME NEW c \in Command, DeleteRead(c) PROVE job' \in [Command -> Jobs]
  BY <1>5, <1>a, DeleteReadDoes DEF Becomes, Goes, Rests
<1>6. ASSUME NEW c \in Command, DeleteTerminate(c) PROVE job' \in [Command -> Jobs]
  BY <1>6, <1>a, DeleteTerminateDoes DEF Becomes, Terminate, Goes, Rests
<1>7. ASSUME NEW c \in Command, DeleteDone(c) PROVE job' \in [Command -> Jobs]
  BY <1>7, <1>a, DeleteDoneDoes DEF Becomes, Goes, Rests
<1>8. ASSUME NEW c \in Command, RedeployRead(c) PROVE job' \in [Command -> Jobs]
  BY <1>8, <1>a, RedeployReadDoes DEF Becomes, Goes, Rests
<1>9. ASSUME NEW c \in Command, RedeployStop(c) PROVE job' \in [Command -> Jobs]
  BY <1>9, <1>a, RedeployStopDoes DEF Becomes, Goes, Rests
<1>10. ASSUME NEW c \in Command, RedeployDescribe(c) PROVE job' \in [Command -> Jobs]
  BY <1>10, <1>a, RedeployDescribeDoes DEF Becomes, Goes, Rests
<1>11. ASSUME NEW c \in Command, RedeployDetach(c) PROVE job' \in [Command -> Jobs]
  BY <1>11, <1>a, RedeployDetachDoes DEF Becomes, Goes, Rests
<1>12. ASSUME NEW c \in Command, RedeployAvailable(c) PROVE job' \in [Command -> Jobs]
  BY <1>12, <1>a, RedeployAvailableDoes DEF Becomes, Goes, Rests
<1>13. ASSUME NEW c \in Command, RedeployRun(c) PROVE job' \in [Command -> Jobs]
  BY <1>13, <1>a, RedeployRunDoes DEF Becomes, Goes, Rests
<1>14. ASSUME NEW c \in Command, RedeployRunning(c) PROVE job' \in [Command -> Jobs]
  BY <1>14, <1>a, RedeployRunningDoes, OneNew DEF Becomes, Goes, Rests
<1>15. ASSUME NEW c \in Command, RedeployAttach(c) PROVE job' \in [Command -> Jobs]
  BY <1>15, <1>a, RedeployAttachDoes, OneNew DEF Becomes, Goes, Rests
<1>16. ASSUME NEW c \in Command, RedeployModify(c) PROVE job' \in [Command -> Jobs]
  BY <1>16, <1>a, RedeployModifyDoes, OneNew DEF Becomes, Goes, Rests
<1>17. ASSUME NEW c \in Command, RedeployReplace(c) PROVE job' \in [Command -> Jobs]
  BY <1>17, <1>a, RedeployReplaceDoes DEF Becomes, Terminate, Goes, Rests
<1>18. ASSUME NEW c \in Command, Crash(c) PROVE job' \in [Command -> Jobs]
  BY <1>18, <1>a, CrashDoes DEF Becomes, Goes, Rests
<1>19. ASSUME NEW i \in Instance, Running(i) PROVE job' \in [Command -> Jobs]
  BY <1>19, <1>a DEF Running
<1>20. ASSUME NEW i \in Instance, Stopped(i) PROVE job' \in [Command -> Jobs]
  BY <1>20, <1>a DEF Stopped
<1>21. ASSUME NEW i \in Instance, Terminated(i) PROVE job' \in [Command -> Jobs]
  BY <1>21, <1>a DEF Terminated
<1>22. ASSUME NEW i \in Instance, Mount(i) PROVE job' \in [Command -> Jobs]
  BY <1>22, <1>a DEF Mount
<1>23. CASE UNCHANGED vars
  BY <1>23, <1>a DEF vars
<1> QED
  BY <1>1, <1>2, <1>3, <1>4, <1>5, <1>6, <1>7, <1>8, <1>9, <1>10, <1>11, <1>12, <1>13, <1>14,
     <1>15, <1>16, <1>17, <1>18, <1>19, <1>20, <1>21, <1>22, <1>23 DEF Next, Add, Delete,
       Redeploy, Ec2

\* The types of everything else.
LEMMA WorldStep == TagInv /\ [Next]_vars => World'
<1> SUFFICES ASSUME TagInv, [Next]_vars PROVE World'
  OBVIOUS
<1> USE DEF ec2Vars, hostVars
<1>a. TypeOK /\ World /\ job \in [Command -> Jobs]
  BY TypeParts DEF TagInv
<1>1. ASSUME NEW c \in Command, AddNamed(c) PROVE World'
  <2>1. PICK i \in Instance, n \in Name, disk \in Volume \cup {None} : Launch({i}, n, disk, n)
    BY <1>1 DEF AddNamed
  <2>2. n \in AnyName
    BY DEF AnyName
  <2> QED
    BY <1>1, <1>a, <2>1, <2>2, LaunchTypes DEF AddNamed, World
<1>2. ASSUME NEW c \in Command, AddUnnamed(c) PROVE World'
  <2>1. PICK i \in Instance : Launch({i}, None, None, None)
    BY <1>2 DEF AddUnnamed
  <2>2. None \in AnyName
    BY DEF AnyName
  <2> QED
    BY <1>2, <1>a, <2>1, <2>2, LaunchTypes DEF AddUnnamed, World
<1>3. ASSUME NEW c \in Command, RequestSpot(c) PROVE World'
  <2>1. PICK got \in SUBSET Instance, disk \in Volume \cup {None}, o \in AnyName :
            Launch(got, None, disk, o)
    BY <1>3, <1>a, RequestSpotDoes
  <2>2. None \in AnyName
    BY DEF AnyName
  <2> QED
    BY <1>3, <1>a, <2>1, <2>2, LaunchTypes DEF RequestSpot, World
<1>4. ASSUME NEW c \in Command, TagNew(c) PROVE World'
  <2>1. PICK i \in job[c].new :
            /\ name' = [name EXCEPT ![i] = IF job[c].nm # None THEN job[c].nm ELSE i]
            /\ spot' = [spot EXCEPT ![i] = job[c].inst = None]
    BY <1>4 DEF TagNew
  <2>2. job[c].nm \in AnyName /\ i \in Instance
    BY <1>a, JobTypes
  <2>3. name' \in [Instance -> AnyName]
    BY <1>a, <2>1, <2>2 DEF World, AnyName
  <2>4. (job[c].inst = None) \in BOOLEAN
    OBVIOUS
  <2>5. spot \in [Instance -> BOOLEAN]
    BY <1>a DEF World
  <2>6. spot' \in [Instance -> BOOLEAN]
    BY <2>1, <2>4, <2>5
  <2> QED
    BY <1>4, <1>a, <2>3, <2>6 DEF TagNew, World
<1>5. ASSUME NEW c \in Command, DeleteRead(c) PROVE World'
  BY <1>5, <1>a, DeleteReadDoes DEF World, AnyName
<1>6. ASSUME NEW c \in Command, DeleteTerminate(c) PROVE World'
  BY <1>6, <1>a, DeleteTerminateDoes DEF Terminate, World
<1>7. ASSUME NEW c \in Command, DeleteDone(c) PROVE World'
  BY <1>7, <1>a, DeleteDoneDoes DEF Terminate, World
<1>8. ASSUME NEW c \in Command, RedeployRead(c) PROVE World'
  BY <1>8, <1>a, RedeployReadDoes DEF Terminate, World
<1>9. ASSUME NEW c \in Command, RedeployStop(c) PROVE World'
  BY <1>9, <1>a, RedeployStopDoes DEF Terminate, World
<1>10. ASSUME NEW c \in Command, RedeployDescribe(c) PROVE World'
  BY <1>10, <1>a, RedeployDescribeDoes DEF Terminate, World
<1>11. ASSUME NEW c \in Command, RedeployDetach(c) PROVE World'
  <2>1. job[c].vol \in Volume \cup {None}
    BY <1>a, JobTypes
  <2>2. CASE volume[job[c].vol] = "in-use"
    <3>1. /\ volume' = [volume EXCEPT ![job[c].vol] = "available"]
          /\ attached' = [i \in Instance |-> IF attached[i] = job[c].vol THEN None ELSE attached[i]]
          /\ onTerm' = [i \in Instance |-> onTerm[i] /\ attached[i] # job[c].vol]
          /\ UNCHANGED <<state, name, spot, wants, owner, hostVars, deletes, crashes>>
      BY <1>11, <2>2 DEF RedeployDetach
    <3>2. \A i \in Instance : (onTerm[i] /\ attached[i] # job[c].vol) \in BOOLEAN
      OBVIOUS
    <3>3. onTerm' \in [Instance -> BOOLEAN]
      BY <3>1, <3>2
    <3>4. attached' \in [Instance -> Volume \cup {None}]
      BY <1>a, <3>1 DEF World
    <3> QED
      BY <1>a, <3>1, <3>3, <3>4 DEF World
  <2> QED
    BY <1>11, <1>a, <2>2 DEF RedeployDetach, World
<1>12. ASSUME NEW c \in Command, RedeployAvailable(c) PROVE World'
  BY <1>12, <1>a, RedeployAvailableDoes DEF Terminate, World
<1>13. ASSUME NEW c \in Command, RedeployRun(c) PROVE World'
  <2>1. PICK i \in Instance :
            /\ state' = [state EXCEPT ![i] = "pending"]
            /\ name' = [name EXCEPT ![i] = name[job[c].inst]]
            /\ wants' = [wants EXCEPT ![i] = job[c].vol # None]
    BY <1>13 DEF RedeployRun
  <2>2. job[c].inst \in Instance
    BY <1>13 DEF RedeployRun, TagInv, Named, RedeployStep
  <2>3. name' \in [Instance -> AnyName]
    BY <1>a, <2>1, <2>2 DEF World
  <2>4. (job[c].vol # None) \in BOOLEAN
    OBVIOUS
  <2>5. wants \in [Instance -> BOOLEAN]
    BY <1>a DEF World
  <2>6. wants' \in [Instance -> BOOLEAN]
    BY <2>1, <2>4, <2>5
  <2> QED
    BY <1>13, <1>a, <2>1, <2>3, <2>6 DEF RedeployRun, World
<1>14. ASSUME NEW c \in Command, RedeployRunning(c) PROVE World'
  BY <1>14, <1>a, RedeployRunningDoes, OneNew DEF Terminate, World
<1>15. ASSUME NEW c \in Command, RedeployAttach(c) PROVE World'
  <2>1. job[c].vol \in Volume \cup {None} /\ job[c].vol # None
    BY <1>15, <1>a, JobTypes DEF RedeployAttach, TagInv, Named
  <2> QED
    BY <1>15, <1>a, <2>1, RedeployAttachDoes DEF World
<1>16. ASSUME NEW c \in Command, RedeployModify(c) PROVE World'
  BY <1>16, <1>a, RedeployModifyDoes, OneNew DEF Terminate, World
<1>17. ASSUME NEW c \in Command, RedeployReplace(c) PROVE World'
  BY <1>17, <1>a, RedeployReplaceDoes DEF Terminate, World
<1>18. ASSUME NEW c \in Command, Crash(c) PROVE World'
  <2>1. crashes' \in 0..MaxCrashes
    BY <1>18, <1>a, MachineAssumption, CrashDoes DEF World
  <2> QED
    BY <1>18, <1>a, <2>1, CrashDoes DEF World
<1>19. ASSUME NEW i \in Instance, Running(i) PROVE World'
  BY <1>19, <1>a DEF Running, World
<1>20. ASSUME NEW i \in Instance, Stopped(i) PROVE World'
  BY <1>20, <1>a DEF Stopped, World
<1>21. ASSUME NEW i \in Instance, Terminated(i) PROVE World'
  BY <1>21, <1>a DEF Terminated, World
<1>22. ASSUME NEW i \in Instance, Mount(i) PROVE World'
  BY <1>22, <1>a DEF Mount, World
<1>23. CASE UNCHANGED vars
  BY <1>23, <1>a DEF vars, World
<1> QED
  BY <1>1, <1>2, <1>3, <1>4, <1>5, <1>6, <1>7, <1>8, <1>9, <1>10, <1>11, <1>12, <1>13, <1>14,
     <1>15, <1>16, <1>17, <1>18, <1>19, <1>20, <1>21, <1>22, <1>23 DEF Next, Add, Delete,
       Redeploy, Ec2

\* The types of all variables.
LEMMA TypeStep == TagInv /\ [Next]_vars => TypeOK'
<1> SUFFICES ASSUME TagInv, [Next]_vars PROVE TypeOK'
  OBVIOUS
<1>1. World'
  BY WorldStep
<1>2. job' \in [Command -> Jobs]
  BY JobStep
<1> QED
  BY <1>1, <1>2, TypePartsNext

\* An instance that was not launched has nothing.
LEMMA UnlaunchedStep == TagInv /\ [Next]_vars => Unlaunched'
<1> SUFFICES ASSUME TagInv, [Next]_vars PROVE Unlaunched'
  OBVIOUS
<1> USE DEF ec2Vars, hostVars, TagInv, World, Fresh, Unlaunched, Unknown
<1>a. TypeOK /\ World /\ job \in [Command -> Jobs]
  BY TypeParts DEF TagInv
<1>b. \A d \in Command : /\ job[d].inst \in Instance \cup {None} /\ job[d].vol \in Volume \cup {None}
                       /\ job[d].new \subseteq Instance /\ job[d].nm \in AnyName
  BY <1>a, JobTypes
<1>1. ASSUME NEW c \in Command, AddNamed(c) PROVE Unlaunched'
  BY <1>1, <1>a, <1>b, AddNamedDoes DEF Becomes, Goes, Rests, Launches
<1>2. ASSUME NEW c \in Command, AddUnnamed(c) PROVE Unlaunched'
  BY <1>2, <1>a, <1>b, AddUnnamedDoes DEF Becomes, Goes, Rests, Launches
<1>3. ASSUME NEW c \in Command, RequestSpot(c) PROVE Unlaunched'
  BY <1>3, <1>a, <1>b, RequestSpotDoes DEF Becomes, Goes, Rests, Launches
<1>4. ASSUME NEW c \in Command, TagNew(c) PROVE Unlaunched'
  BY <1>4, <1>a, <1>b, TagNewDoes DEF Becomes, Goes, Rests
<1>5. ASSUME NEW c \in Command, DeleteRead(c) PROVE Unlaunched'
  BY <1>5, <1>a, <1>b, DeleteReadDoes DEF Becomes, Goes, Rests
<1>6. ASSUME NEW c \in Command, DeleteTerminate(c) PROVE Unlaunched'
  BY <1>6, <1>a, <1>b, DeleteTerminateDoes DEF Becomes, Terminate, Goes, Rests
<1>7. ASSUME NEW c \in Command, DeleteDone(c) PROVE Unlaunched'
  BY <1>7, <1>a, <1>b, DeleteDoneDoes DEF Becomes, Goes, Rests
<1>8. ASSUME NEW c \in Command, RedeployRead(c) PROVE Unlaunched'
  BY <1>8, <1>a, <1>b, RedeployReadDoes DEF Becomes, Goes, Rests
<1>9. ASSUME NEW c \in Command, RedeployStop(c) PROVE Unlaunched'
  BY <1>9, <1>a, <1>b, RedeployStopDoes DEF Becomes, Goes, Rests
<1>10. ASSUME NEW c \in Command, RedeployDescribe(c) PROVE Unlaunched'
  BY <1>10, <1>a, <1>b, RedeployDescribeDoes DEF Becomes, Goes, Rests
<1>11. ASSUME NEW c \in Command, RedeployDetach(c) PROVE Unlaunched'
  BY <1>11, <1>a, <1>b, RedeployDetachDoes DEF Becomes, Goes, Rests
<1>12. ASSUME NEW c \in Command, RedeployAvailable(c) PROVE Unlaunched'
  BY <1>12, <1>a, <1>b, RedeployAvailableDoes DEF Becomes, Goes, Rests
<1>13. ASSUME NEW c \in Command, RedeployRun(c) PROVE Unlaunched'
  BY <1>13, <1>a, <1>b, RedeployRunDoes DEF Becomes, Goes, Rests
<1>14. ASSUME NEW c \in Command, RedeployRunning(c) PROVE Unlaunched'
  BY <1>14, <1>a, <1>b, RedeployRunningDoes, OneNew DEF Becomes, Goes, Rests
<1>15. ASSUME NEW c \in Command, RedeployAttach(c) PROVE Unlaunched'
  BY <1>15, <1>a, <1>b, RedeployAttachDoes, OneNew DEF Becomes, Goes, Rests
<1>16. ASSUME NEW c \in Command, RedeployModify(c) PROVE Unlaunched'
  BY <1>16, <1>a, <1>b, RedeployModifyDoes, OneNew DEF Becomes, Goes, Rests
<1>17. ASSUME NEW c \in Command, RedeployReplace(c) PROVE Unlaunched'
  BY <1>17, <1>a, <1>b, RedeployReplaceDoes DEF Becomes, Terminate, Goes, Rests
<1>18. ASSUME NEW c \in Command, Crash(c) PROVE Unlaunched'
  BY <1>18, <1>a, <1>b, CrashDoes DEF Becomes, Goes, Rests
<1>19. ASSUME NEW i \in Instance, Running(i) PROVE Unlaunched'
  BY <1>19, <1>a, <1>b DEF Running
<1>20. ASSUME NEW i \in Instance, Stopped(i) PROVE Unlaunched'
  BY <1>20, <1>a, <1>b DEF Stopped
<1>21. ASSUME NEW i \in Instance, Terminated(i) PROVE Unlaunched'
  BY <1>21, <1>a, <1>b DEF Terminated
<1>22. ASSUME NEW i \in Instance, Mount(i) PROVE Unlaunched'
  BY <1>22, <1>a, <1>b DEF Mount
<1>23. CASE UNCHANGED vars
  BY <1>23, <1>a, <1>b DEF vars
<1> QED
  BY <1>1, <1>2, <1>3, <1>4, <1>5, <1>6, <1>7, <1>8, <1>9, <1>10, <1>11, <1>12, <1>13, <1>14,
     <1>15, <1>16, <1>17, <1>18, <1>19, <1>20, <1>21, <1>22, <1>23 DEF Next, Add, Delete,
       Redeploy, Ec2

\* Nobody knows of an instance that was not launched.
LEMMA UnknownStep == TagInv /\ [Next]_vars => Unknown'
<1> SUFFICES ASSUME TagInv, [Next]_vars PROVE Unknown'
  OBVIOUS
<1> USE DEF ec2Vars, hostVars, TagInv, World, Fresh, Unknown
<1>a. TypeOK /\ World /\ job \in [Command -> Jobs]
  BY TypeParts DEF TagInv
<1>b. \A d \in Command : /\ job[d].inst \in Instance \cup {None} /\ job[d].vol \in Volume \cup {None}
                       /\ job[d].new \subseteq Instance /\ job[d].nm \in AnyName
  BY <1>a, JobTypes
<1>1. ASSUME NEW c \in Command, AddNamed(c) PROVE Unknown'
  BY <1>1, <1>a, <1>b, AddNamedDoes DEF Becomes, Goes, Rests, Launches
<1>2. ASSUME NEW c \in Command, AddUnnamed(c) PROVE Unknown'
  BY <1>2, <1>a, <1>b, AddUnnamedDoes DEF Becomes, Goes, Rests, Launches
<1>3. ASSUME NEW c \in Command, RequestSpot(c) PROVE Unknown'
  BY <1>3, <1>a, <1>b, RequestSpotDoes DEF Becomes, Goes, Rests, Launches
<1>4. ASSUME NEW c \in Command, TagNew(c) PROVE Unknown'
  BY <1>4, <1>a, <1>b, TagNewDoes DEF Becomes, Goes, Rests
<1>5. ASSUME NEW c \in Command, DeleteRead(c) PROVE Unknown'
  BY <1>5, <1>a, <1>b, DeleteReadDoes DEF Becomes, Goes, Rests
<1>6. ASSUME NEW c \in Command, DeleteTerminate(c) PROVE Unknown'
  BY <1>6, <1>a, <1>b, DeleteTerminateDoes DEF Becomes, Terminate, Goes, Rests
<1>7. ASSUME NEW c \in Command, DeleteDone(c) PROVE Unknown'
  BY <1>7, <1>a, <1>b, DeleteDoneDoes DEF Becomes, Goes, Rests
<1>8. ASSUME NEW c \in Command, RedeployRead(c) PROVE Unknown'
  BY <1>8, <1>a, <1>b, RedeployReadDoes DEF Becomes, Goes, Rests
<1>9. ASSUME NEW c \in Command, RedeployStop(c) PROVE Unknown'
  BY <1>9, <1>a, <1>b, RedeployStopDoes DEF Becomes, Goes, Rests
<1>10. ASSUME NEW c \in Command, RedeployDescribe(c) PROVE Unknown'
  BY <1>10, <1>a, <1>b, RedeployDescribeDoes DEF Becomes, Goes, Rests
<1>11. ASSUME NEW c \in Command, RedeployDetach(c) PROVE Unknown'
  BY <1>11, <1>a, <1>b, RedeployDetachDoes DEF Becomes, Goes, Rests
<1>12. ASSUME NEW c \in Command, RedeployAvailable(c) PROVE Unknown'
  BY <1>12, <1>a, <1>b, RedeployAvailableDoes DEF Becomes, Goes, Rests
<1>13. ASSUME NEW c \in Command, RedeployRun(c) PROVE Unknown'
  BY <1>13, <1>a, <1>b, RedeployRunDoes DEF Becomes, Goes, Rests
<1>14. ASSUME NEW c \in Command, RedeployRunning(c) PROVE Unknown'
  BY <1>14, <1>a, <1>b, RedeployRunningDoes, OneNew DEF Becomes, Goes, Rests
<1>15. ASSUME NEW c \in Command, RedeployAttach(c) PROVE Unknown'
  BY <1>15, <1>a, <1>b, RedeployAttachDoes, OneNew DEF Becomes, Goes, Rests
<1>16. ASSUME NEW c \in Command, RedeployModify(c) PROVE Unknown'
  BY <1>16, <1>a, <1>b, RedeployModifyDoes, OneNew DEF Becomes, Goes, Rests
<1>17. ASSUME NEW c \in Command, RedeployReplace(c) PROVE Unknown'
  BY <1>17, <1>a, <1>b, RedeployReplaceDoes DEF Becomes, Terminate, Goes, Rests
<1>18. ASSUME NEW c \in Command, Crash(c) PROVE Unknown'
  BY <1>18, <1>a, <1>b, CrashDoes DEF Becomes, Goes, Rests
<1>19. ASSUME NEW i \in Instance, Running(i) PROVE Unknown'
  BY <1>19, <1>a, <1>b DEF Running
<1>20. ASSUME NEW i \in Instance, Stopped(i) PROVE Unknown'
  BY <1>20, <1>a, <1>b DEF Stopped
<1>21. ASSUME NEW i \in Instance, Terminated(i) PROVE Unknown'
  BY <1>21, <1>a, <1>b DEF Terminated
<1>22. ASSUME NEW i \in Instance, Mount(i) PROVE Unknown'
  BY <1>22, <1>a, <1>b DEF Mount
<1>23. CASE UNCHANGED vars
  BY <1>23, <1>a, <1>b DEF vars
<1> QED
  BY <1>1, <1>2, <1>3, <1>4, <1>5, <1>6, <1>7, <1>8, <1>9, <1>10, <1>11, <1>12, <1>13, <1>14,
     <1>15, <1>16, <1>17, <1>18, <1>19, <1>20, <1>21, <1>22, <1>23 DEF Next, Add, Delete,
       Redeploy, Ec2

\* What is attached is in use.
LEMMA AttachedInUseStep == TagInv /\ [Next]_vars => AttachedInUse'
<1> SUFFICES ASSUME TagInv, [Next]_vars PROVE AttachedInUse'
  OBVIOUS
<1> USE DEF ec2Vars, hostVars, TagInv, World, Fresh, Unlaunched, AttachedInUse,
      Follows
<1>a. TypeOK /\ World /\ job \in [Command -> Jobs]
  BY TypeParts DEF TagInv
<1>b. \A d \in Command : /\ job[d].inst \in Instance \cup {None} /\ job[d].vol \in Volume \cup {None}
                       /\ job[d].new \subseteq Instance /\ job[d].nm \in AnyName
  BY <1>a, JobTypes
<1>1. ASSUME NEW c \in Command, AddNamed(c) PROVE AttachedInUse'
  BY <1>1, <1>a, <1>b, AddNamedDoes DEF Becomes, Goes, Rests, Launches
<1>2. ASSUME NEW c \in Command, AddUnnamed(c) PROVE AttachedInUse'
  BY <1>2, <1>a, <1>b, AddUnnamedDoes DEF Becomes, Goes, Rests, Launches
<1>3. ASSUME NEW c \in Command, RequestSpot(c) PROVE AttachedInUse'
  BY <1>3, <1>a, <1>b, RequestSpotDoes DEF Becomes, Goes, Rests, Launches
<1>4. ASSUME NEW c \in Command, TagNew(c) PROVE AttachedInUse'
  BY <1>4, <1>a, <1>b, TagNewDoes DEF Becomes, Goes, Rests
<1>5. ASSUME NEW c \in Command, DeleteRead(c) PROVE AttachedInUse'
  BY <1>5, <1>a, <1>b, DeleteReadDoes DEF Becomes, Goes, Rests
<1>6. ASSUME NEW c \in Command, DeleteTerminate(c) PROVE AttachedInUse'
  BY <1>6, <1>a, <1>b, DeleteTerminateDoes DEF Becomes, Terminate, Goes, Rests
<1>7. ASSUME NEW c \in Command, DeleteDone(c) PROVE AttachedInUse'
  BY <1>7, <1>a, <1>b, DeleteDoneDoes DEF Becomes, Goes, Rests
<1>8. ASSUME NEW c \in Command, RedeployRead(c) PROVE AttachedInUse'
  BY <1>8, <1>a, <1>b, RedeployReadDoes DEF Becomes, Goes, Rests
<1>9. ASSUME NEW c \in Command, RedeployStop(c) PROVE AttachedInUse'
  BY <1>9, <1>a, <1>b, RedeployStopDoes DEF Becomes, Goes, Rests
<1>10. ASSUME NEW c \in Command, RedeployDescribe(c) PROVE AttachedInUse'
  BY <1>10, <1>a, <1>b, RedeployDescribeDoes DEF Becomes, Goes, Rests
<1>11. ASSUME NEW c \in Command, RedeployDetach(c) PROVE AttachedInUse'
  BY <1>11, <1>a, <1>b, RedeployDetachDoes DEF Becomes, Goes, Rests
<1>12. ASSUME NEW c \in Command, RedeployAvailable(c) PROVE AttachedInUse'
  BY <1>12, <1>a, <1>b, RedeployAvailableDoes DEF Becomes, Goes, Rests
<1>13. ASSUME NEW c \in Command, RedeployRun(c) PROVE AttachedInUse'
  BY <1>13, <1>a, <1>b, RedeployRunDoes DEF Becomes, Goes, Rests
<1>14. ASSUME NEW c \in Command, RedeployRunning(c) PROVE AttachedInUse'
  BY <1>14, <1>a, <1>b, RedeployRunningDoes, OneNew DEF Becomes, Goes, Rests
<1>15. ASSUME NEW c \in Command, RedeployAttach(c) PROVE AttachedInUse'
  BY <1>15, <1>a, <1>b, RedeployAttachDoes, OneNew DEF Becomes, Goes, Rests
<1>16. ASSUME NEW c \in Command, RedeployModify(c) PROVE AttachedInUse'
  BY <1>16, <1>a, <1>b, RedeployModifyDoes, OneNew DEF Becomes, Goes, Rests
<1>17. ASSUME NEW c \in Command, RedeployReplace(c) PROVE AttachedInUse'
  BY <1>17, <1>a, <1>b, RedeployReplaceDoes DEF Becomes, Terminate, Goes, Rests
<1>18. ASSUME NEW c \in Command, Crash(c) PROVE AttachedInUse'
  BY <1>18, <1>a, <1>b, CrashDoes DEF Becomes, Goes, Rests
<1>19. ASSUME NEW i \in Instance, Running(i) PROVE AttachedInUse'
  BY <1>19, <1>a, <1>b DEF Running
<1>20. ASSUME NEW i \in Instance, Stopped(i) PROVE AttachedInUse'
  BY <1>20, <1>a, <1>b DEF Stopped
<1>21. ASSUME NEW i \in Instance, Terminated(i) PROVE AttachedInUse'
  BY <1>21, <1>a, <1>b DEF Terminated
<1>22. ASSUME NEW i \in Instance, Mount(i) PROVE AttachedInUse'
  BY <1>22, <1>a, <1>b DEF Mount
<1>23. CASE UNCHANGED vars
  BY <1>23, <1>a, <1>b DEF vars
<1> QED
  BY <1>1, <1>2, <1>3, <1>4, <1>5, <1>6, <1>7, <1>8, <1>9, <1>10, <1>11, <1>12, <1>13, <1>14,
     <1>15, <1>16, <1>17, <1>18, <1>19, <1>20, <1>21, <1>22, <1>23 DEF Next, Add, Delete,
       Redeploy, Ec2

\* Instances are tagged once, and with the name their volume was created for.
LEMMA TaggingStep == TagInv /\ [Next]_vars => Tagging'
<1> SUFFICES ASSUME TagInv, [Next]_vars PROVE Tagging'
  OBVIOUS
<1> USE DEF ec2Vars, hostVars, TagInv, World, Fresh, Unlaunched, Unknown, AttachedInUse,
      Tagging, Named, RedeployStep, NewStep
<1>a. TypeOK /\ World /\ job \in [Command -> Jobs]
  BY TypeParts DEF TagInv
<1>b. \A d \in Command : /\ job[d].inst \in Instance \cup {None} /\ job[d].vol \in Volume \cup {None}
                       /\ job[d].new \subseteq Instance /\ job[d].nm \in AnyName
  BY <1>a, JobTypes
<1>c. None \notin Name \cup Instance \cup Volume
  BY MachineAssumption
<1>1. ASSUME NEW c \in Command, AddNamed(c) PROVE Tagging'
  BY <1>1, <1>a, <1>b, AddNamedDoes DEF Becomes, Goes, Rests, Launches
<1>2. ASSUME NEW c \in Command, AddUnnamed(c) PROVE Tagging'
  BY <1>2, <1>a, <1>b, AddUnnamedDoes DEF Becomes, Goes, Rests, Launches
<1>3. ASSUME NEW c \in Command, RequestSpot(c) PROVE Tagging'
  <2>1. PICK got \in SUBSET Instance, n \in Name \cup {None}, disk \in Volume \cup {None}, o \in AnyName :
            /\ Launches(got, None, disk, o)
            /\ disk # None => \E i \in Instance : got = {i} /\ o = IF n # None THEN n ELSE i
            /\ \/ job' = job /\ disk = None
               \/ Becomes(c, "tag", n, job[c].inst, job[c].vol, got)
    BY <1>3, <1>a, RequestSpotDoes
  <2>2. \A i \in got : \A d \in Command : i \notin job[d].new
    BY <2>1 DEF Launches
  <2>3. \A i \in Instance \ got : name'[i] = name[i] /\ attached'[i] = attached[i]
    BY <2>1 DEF Launches
  <2>4. \A i \in Instance \ got : attached[i] # None => owner'[attached[i]] = owner[attached[i]]
    BY <1>a, <2>1 DEF Launches
  <2>5. CASE job' = job
    BY <1>b, <2>2, <2>3, <2>4, <2>5
  <2>6. CASE Becomes(c, "tag", n, job[c].inst, job[c].vol, got)
    <3>1. \A i \in got : /\ name'[i] = None
                         /\ attached'[i] # None => owner'[attached'[i]] = IF n # None THEN n ELSE i
      BY <1>c, <2>1 DEF Launches
    <3>2. job'[c].nm = n /\ job'[c].new = got /\ \A d \in Command \ {c} : job'[d] = job[d]
      BY <2>6 DEF Becomes
    <3> QED
      BY <1>b, <2>2, <2>3, <2>4, <3>1, <3>2
  <2> QED
    BY <2>1, <2>5, <2>6
<1>4. ASSUME NEW c \in Command, TagNew(c) PROVE Tagging'
  BY <1>4, <1>a, <1>b, TagNewDoes DEF Becomes, Goes, Rests
<1>5. ASSUME NEW c \in Command, DeleteRead(c) PROVE Tagging'
  BY <1>5, <1>a, <1>b, DeleteReadDoes DEF Becomes, Goes, Rests
<1>6. ASSUME NEW c \in Command, DeleteTerminate(c) PROVE Tagging'
  <2>1. UNCHANGED <<name, attached, owner>>
    BY <1>6, <1>a, DeleteTerminateDoes
  <2>2. \A d \in Command : job'[d].pc = "tag" => job'[d] = job[d]
    BY <1>6, <1>a, DeleteTerminateDoes DEF Becomes, Goes, Rests
  <2> QED
    BY <2>1, <2>2
<1>7. ASSUME NEW c \in Command, DeleteDone(c) PROVE Tagging'
  BY <1>7, <1>a, <1>b, DeleteDoneDoes DEF Becomes, Goes, Rests
<1>8. ASSUME NEW c \in Command, RedeployRead(c) PROVE Tagging'
  BY <1>8, <1>a, <1>b, RedeployReadDoes DEF Becomes, Goes, Rests
<1>9. ASSUME NEW c \in Command, RedeployStop(c) PROVE Tagging'
  BY <1>9, <1>a, <1>b, RedeployStopDoes DEF Becomes, Goes, Rests
<1>10. ASSUME NEW c \in Command, RedeployDescribe(c) PROVE Tagging'
  BY <1>10, <1>a, <1>b, RedeployDescribeDoes DEF Becomes, Goes, Rests
<1>11. ASSUME NEW c \in Command, RedeployDetach(c) PROVE Tagging'
  BY <1>11, <1>a, <1>b, RedeployDetachDoes DEF Becomes, Goes, Rests
<1>12. ASSUME NEW c \in Command, RedeployAvailable(c) PROVE Tagging'
  <2>1. \A d \in Command : job'[d].pc = "tag" => d # c
    BY <1>12, <1>a, RedeployAvailableDoes DEF Becomes, Goes, Rests
  <2>2. \A d \in Command \ {c} : job'[d] = job[d]
    BY <1>12, <1>a, RedeployAvailableDoes DEF Becomes, Goes, Rests
  <2> QED
    BY <1>12, <1>a, <2>1, <2>2 DEF RedeployAvailable
<1>13. ASSUME NEW c \in Command, RedeployRun(c) PROVE Tagging'
  BY <1>13, <1>a, <1>b, RedeployRunDoes DEF Becomes, Goes, Rests
<1>14. ASSUME NEW c \in Command, RedeployRunning(c) PROVE Tagging'
  BY <1>14, <1>a, <1>b, RedeployRunningDoes, OneNew DEF Becomes, Goes, Rests
<1>15. ASSUME NEW c \in Command, RedeployAttach(c) PROVE Tagging'
  <2>1. \A d \in Command : job'[d].pc = "tag" => d # c
    BY <1>15, <1>a, RedeployAttachDoes DEF Becomes, Goes, Rests
  <2>2. \A d \in Command \ {c} : job'[d] = job[d]
    BY <1>15, <1>a, RedeployAttachDoes DEF Becomes, Goes, Rests
  <2>3. PICK k \in Instance : job[c].new = {k} /\ name[k] = name[job[c].inst]
    BY <1>15, <1>a, RedeployAttachDoes
  <2>4. New(c) = k
    BY <2>3 DEF New
  <2>5. name[k] # None
    BY <1>15, <1>a, <2>3, RedeployAttachDoes
  <2>6. \A i \in Instance : name[i] = None => attached'[i] = attached[i]
    BY <1>15, <1>a, <2>4, <2>5, RedeployAttachDoes
  <2> QED
    BY <1>15, <1>a, <1>b, <2>1, <2>2, <2>6 DEF RedeployAttach
<1>16. ASSUME NEW c \in Command, RedeployModify(c) PROVE Tagging'
  BY <1>16, <1>a, <1>b, RedeployModifyDoes, OneNew DEF Becomes, Goes, Rests
<1>17. ASSUME NEW c \in Command, RedeployReplace(c) PROVE Tagging'
  BY <1>17, <1>a, <1>b, RedeployReplaceDoes DEF Becomes, Terminate, Goes, Rests
<1>18. ASSUME NEW c \in Command, Crash(c) PROVE Tagging'
  BY <1>18, <1>a, <1>b, CrashDoes DEF Becomes, Goes, Rests
<1>19. ASSUME NEW i \in Instance, Running(i) PROVE Tagging'
  BY <1>19, <1>a, <1>b DEF Running
<1>20. ASSUME NEW i \in Instance, Stopped(i) PROVE Tagging'
  BY <1>20, <1>a, <1>b DEF Stopped
<1>21. ASSUME NEW i \in Instance, Terminated(i) PROVE Tagging'
  BY <1>21, <1>a, <1>b DEF Terminated
<1>22. ASSUME NEW i \in Instance, Mount(i) PROVE Tagging'
  BY <1>22, <1>a, <1>b DEF Mount
<1>23. CASE UNCHANGED vars
  BY <1>23, <1>a, <1>b, <1>c DEF vars
<1> QED
  BY <1>1, <1>2, <1>3, <1>4, <1>5, <1>6, <1>7, <1>8, <1>9, <1>10, <1>11, <1>12, <1>13, <1>14,
     <1>15, <1>16, <1>17, <1>18, <1>19, <1>20, <1>21, <1>22, <1>23 DEF Next, Add, Delete,
       Redeploy, Ec2

\* A command that goes on with the same machine, or ends, and tags nothing, works on a machine
\* that has its name.
LEMMA NamedKept ==
    ASSUME TypeOK, Named, NEW c \in Command, UNCHANGED <<name, owner>>,
           \A v \in Volume : volume[v] # "none" => volume'[v] # "none",
           \A d \in Command \ {c} : job'[d] = job[d],
           \/ job'[c].pc = "idle"
           \/ /\ job'[c].inst = job[c].inst /\ job'[c].vol = job[c].vol /\ job'[c].new = job[c].new
              /\ job[c].pc \in RedeployStep /\ job'[c].pc \in RedeployStep
              /\ job'[c].pc \in NewStep => job[c].pc \in NewStep
              /\ job'[c].pc \in {"detach", "available", "running", "attach", "modify"} => job[c].vol # None
    PROVE  Named'
<1>1. \A d \in Command : job[d].vol \in Volume \cup {None}
  BY TypeParts, JobTypes
<1>2. \A d \in Command \ {c} :
          job'[d].pc = job[d].pc /\ job'[d].inst = job[d].inst /\ job'[d].vol = job[d].vol /\ job'[d].new = job[d].new
  OBVIOUS
<1>3. CASE job'[c].pc = "idle"
  BY <1>1, <1>2, <1>3 DEF Named, RedeployStep, NewStep
<1>4. CASE job'[c].pc # "idle"
  BY <1>1, <1>2, <1>4 DEF Named, RedeployStep, NewStep
<1> QED
  BY <1>3, <1>4

\* A command works on a machine that has its name for ever.
LEMMA NamedStep == TagInv /\ [Next]_vars => Named'
<1> SUFFICES ASSUME TagInv, [Next]_vars PROVE Named'
  OBVIOUS
<1> USE DEF ec2Vars, hostVars, TagInv, World, Fresh, Unlaunched, Unknown, AttachedInUse,
      Tagging, Named, RedeployStep, NewStep, Follows
<1>a. TypeOK /\ World /\ job \in [Command -> Jobs]
  BY TypeParts DEF TagInv
<1>b. \A d \in Command : /\ job[d].inst \in Instance \cup {None} /\ job[d].vol \in Volume \cup {None}
                       /\ job[d].new \subseteq Instance /\ job[d].nm \in AnyName
  BY <1>a, JobTypes
<1>c. None \notin Name \cup Instance \cup Volume
  BY MachineAssumption
<1>1. ASSUME NEW c \in Command, AddNamed(c) PROVE Named'
  BY <1>1, <1>a, <1>b, AddNamedDoes DEF Becomes, Goes, Rests, Launches
<1>2. ASSUME NEW c \in Command, AddUnnamed(c) PROVE Named'
  BY <1>2, <1>a, <1>b, AddUnnamedDoes DEF Becomes, Goes, Rests, Launches
<1>3. ASSUME NEW c \in Command, RequestSpot(c) PROVE Named'
  <2>1. PICK got \in SUBSET Instance, n \in Name \cup {None}, disk \in Volume \cup {None}, o \in AnyName :
            /\ Launches(got, None, disk, o)
            /\ \/ job' = job
               \/ Becomes(c, "tag", n, job[c].inst, job[c].vol, got)
    BY <1>3, <1>a, RequestSpotDoes
  <2>2. \A i \in Instance : state[i] # "none" => name'[i] = name[i]
    BY <2>1 DEF Launches
  <2>3. \A v \in Volume : volume[v] # "none" => volume'[v] # "none" /\ owner'[v] = owner[v]
    BY <1>c, <2>1 DEF Launches
  <2>4. \A d \in Command : job'[d].pc = "tag" \/ job'[d] = job[d]
    BY <2>1 DEF Becomes
  <2> QED
    BY <1>b, <2>2, <2>3, <2>4
<1>4. ASSUME NEW c \in Command, TagNew(c) PROVE Named'
  BY <1>4, <1>a, <1>b, TagNewDoes DEF Becomes, Goes, Rests
<1>5. ASSUME NEW c \in Command, DeleteRead(c) PROVE Named'
  BY <1>5, <1>a, <1>b, DeleteReadDoes DEF Becomes, Goes, Rests
<1>6. ASSUME NEW c \in Command, DeleteTerminate(c) PROVE Named'
  BY <1>6, <1>a, <1>b, DeleteTerminateDoes DEF Becomes, Terminate, Goes, Rests
<1>7. ASSUME NEW c \in Command, DeleteDone(c) PROVE Named'
  BY <1>7, <1>a, <1>b, DeleteDoneDoes DEF Becomes, Goes, Rests
<1>8. ASSUME NEW c \in Command, RedeployRead(c) PROVE Named'
  <2>1. PICK i \in Instance :
            /\ name[i] # None /\ state[i] # "none"
            /\ Becomes(c, "stop", job[c].nm, i, attached[i], job[c].new)
    BY <1>8, <1>a, RedeployReadDoes
  <2>2. UNCHANGED <<ec2Vars, hostVars, deletes, crashes>>
    BY <1>8, <1>a, RedeployReadDoes
  <2>3. attached[i] # None => volume[attached[i]] # "none" /\ owner[attached[i]] = name[i]
    BY <2>1
  <2>4. job'[c].pc = "stop" /\ job'[c].inst = i /\ job'[c].vol = attached[i]
        /\ \A d \in Command \ {c} : job'[d] = job[d]
    BY <2>1 DEF Becomes
  <2> QED
    BY <1>b, <2>1, <2>2, <2>3, <2>4
<1>9. ASSUME NEW c \in Command, RedeployStop(c) PROVE Named'
  <2>1. /\ UNCHANGED <<name, owner>>
        /\ \A v \in Volume : volume[v] # "none" => volume'[v] # "none"
    BY <1>9, <1>a, RedeployStopDoes
  <2>2. \/ job'[c].pc = "idle"
        \/ /\ job'[c].inst = job[c].inst /\ job'[c].vol = job[c].vol /\ job'[c].new = job[c].new
           /\ job[c].pc \in RedeployStep /\ job'[c].pc \in RedeployStep
           /\ job'[c].pc \in NewStep => job[c].pc \in NewStep
           /\ job'[c].pc \in {"detach", "available", "running", "attach", "modify"} => job[c].vol # None
    BY <1>9, <1>a, RedeployStopDoes DEF Becomes, Goes, Rests
  <2>3. \A d \in Command \ {c} : job'[d] = job[d]
    BY <1>9, <1>a, RedeployStopDoes DEF Becomes, Goes, Rests
  <2> QED
    BY <1>a, <2>1, <2>2, <2>3, NamedKept
<1>10. ASSUME NEW c \in Command, RedeployDescribe(c) PROVE Named'
  <2>1. /\ UNCHANGED <<name, owner>>
        /\ \A v \in Volume : volume[v] # "none" => volume'[v] # "none"
    BY <1>10, <1>a, RedeployDescribeDoes
  <2>2. \/ job'[c].pc = "idle"
        \/ /\ job'[c].inst = job[c].inst /\ job'[c].vol = job[c].vol /\ job'[c].new = job[c].new
           /\ job[c].pc \in RedeployStep /\ job'[c].pc \in RedeployStep
           /\ job'[c].pc \in NewStep => job[c].pc \in NewStep
           /\ job'[c].pc \in {"detach", "available", "running", "attach", "modify"} => job[c].vol # None
    BY <1>10, <1>a, RedeployDescribeDoes DEF Becomes, Goes, Rests
  <2>3. \A d \in Command \ {c} : job'[d] = job[d]
    BY <1>10, <1>a, RedeployDescribeDoes DEF Becomes, Goes, Rests
  <2> QED
    BY <1>a, <2>1, <2>2, <2>3, NamedKept
<1>11. ASSUME NEW c \in Command, RedeployDetach(c) PROVE Named'
  <2>1. /\ UNCHANGED <<name, owner>>
        /\ \A v \in Volume : volume[v] # "none" => volume'[v] # "none"
    BY <1>11, <1>a, RedeployDetachDoes
  <2>2. \/ job'[c].pc = "idle"
        \/ /\ job'[c].inst = job[c].inst /\ job'[c].vol = job[c].vol /\ job'[c].new = job[c].new
           /\ job[c].pc \in RedeployStep /\ job'[c].pc \in RedeployStep
           /\ job'[c].pc \in NewStep => job[c].pc \in NewStep
           /\ job'[c].pc \in {"detach", "available", "running", "attach", "modify"} => job[c].vol # None
    BY <1>11, <1>a, RedeployDetachDoes DEF Becomes, Goes, Rests
  <2>3. \A d \in Command \ {c} : job'[d] = job[d]
    BY <1>11, <1>a, RedeployDetachDoes DEF Becomes, Goes, Rests
  <2> QED
    BY <1>a, <2>1, <2>2, <2>3, NamedKept
<1>12. ASSUME NEW c \in Command, RedeployAvailable(c) PROVE Named'
  <2>1. /\ UNCHANGED <<name, owner>>
        /\ \A v \in Volume : volume[v] # "none" => volume'[v] # "none"
    BY <1>12, <1>a, RedeployAvailableDoes
  <2>2. \/ job'[c].pc = "idle"
        \/ /\ job'[c].inst = job[c].inst /\ job'[c].vol = job[c].vol /\ job'[c].new = job[c].new
           /\ job[c].pc \in RedeployStep /\ job'[c].pc \in RedeployStep
           /\ job'[c].pc \in NewStep => job[c].pc \in NewStep
           /\ job'[c].pc \in {"detach", "available", "running", "attach", "modify"} => job[c].vol # None
    BY <1>12, <1>a, RedeployAvailableDoes DEF Becomes, Goes, Rests
  <2>3. \A d \in Command \ {c} : job'[d] = job[d]
    BY <1>12, <1>a, RedeployAvailableDoes DEF Becomes, Goes, Rests
  <2> QED
    BY <1>a, <2>1, <2>2, <2>3, NamedKept
<1>13. ASSUME NEW c \in Command, RedeployRun(c) PROVE Named'
  <2>1. PICK i \in Instance :
            /\ state[i] = "none"
            /\ name' = [name EXCEPT ![i] = name[job[c].inst]]
            /\ Becomes(c, IF job[c].vol # None THEN "running" ELSE "replace",
                       job[c].nm, job[c].inst, job[c].vol, {i})
    BY <1>13, <1>a, RedeployRunDoes
  <2>2. job[c].pc = "run" /\ UNCHANGED <<volume, owner>>
    BY <1>13, <1>a, RedeployRunDoes
  <2>3. name'[i] = name[job[c].inst] /\ \A k \in Instance \ {i} : name'[k] = name[k]
    BY <1>a, <2>1
  <2>4. /\ job'[c].pc = IF job[c].vol # None THEN "running" ELSE "replace"
        /\ job'[c].inst = job[c].inst /\ job'[c].vol = job[c].vol /\ job'[c].new = {i}
        /\ \A d \in Command \ {c} : job'[d] = job[d]
    BY <2>1 DEF Becomes
  <2>5. \A d \in Command : i \notin job[d].new /\ job[d].inst # i
    BY <1>b, <1>c, <2>1
  <2> QED
    BY <1>b, <2>2, <2>3, <2>4, <2>5
<1>14. ASSUME NEW c \in Command, RedeployRunning(c) PROVE Named'
  <2>1. /\ UNCHANGED <<name, owner>>
        /\ \A v \in Volume : volume[v] # "none" => volume'[v] # "none"
    BY <1>14, <1>a, RedeployRunningDoes
  <2>2. \/ job'[c].pc = "idle"
        \/ /\ job'[c].inst = job[c].inst /\ job'[c].vol = job[c].vol /\ job'[c].new = job[c].new
           /\ job[c].pc \in RedeployStep /\ job'[c].pc \in RedeployStep
           /\ job'[c].pc \in NewStep => job[c].pc \in NewStep
           /\ job'[c].pc \in {"detach", "available", "running", "attach", "modify"} => job[c].vol # None
    BY <1>14, <1>a, RedeployRunningDoes DEF Becomes, Goes, Rests
  <2>3. \A d \in Command \ {c} : job'[d] = job[d]
    BY <1>14, <1>a, RedeployRunningDoes DEF Becomes, Goes, Rests
  <2> QED
    BY <1>a, <2>1, <2>2, <2>3, NamedKept
<1>15. ASSUME NEW c \in Command, RedeployAttach(c) PROVE Named'
  <2>1. /\ UNCHANGED <<name, owner>>
        /\ \A v \in Volume : volume[v] # "none" => volume'[v] # "none"
    BY <1>15, <1>a, RedeployAttachDoes
  <2>2. \/ job'[c].pc = "idle"
        \/ /\ job'[c].inst = job[c].inst /\ job'[c].vol = job[c].vol /\ job'[c].new = job[c].new
           /\ job[c].pc \in RedeployStep /\ job'[c].pc \in RedeployStep
           /\ job'[c].pc \in NewStep => job[c].pc \in NewStep
           /\ job'[c].pc \in {"detach", "available", "running", "attach", "modify"} => job[c].vol # None
    BY <1>15, <1>a, RedeployAttachDoes DEF Becomes, Goes, Rests
  <2>3. \A d \in Command \ {c} : job'[d] = job[d]
    BY <1>15, <1>a, RedeployAttachDoes DEF Becomes, Goes, Rests
  <2> QED
    BY <1>a, <2>1, <2>2, <2>3, NamedKept
<1>16. ASSUME NEW c \in Command, RedeployModify(c) PROVE Named'
  <2>1. /\ UNCHANGED <<name, owner>>
        /\ \A v \in Volume : volume[v] # "none" => volume'[v] # "none"
    BY <1>16, <1>a, RedeployModifyDoes
  <2>2. \/ job'[c].pc = "idle"
        \/ /\ job'[c].inst = job[c].inst /\ job'[c].vol = job[c].vol /\ job'[c].new = job[c].new
           /\ job[c].pc \in RedeployStep /\ job'[c].pc \in RedeployStep
           /\ job'[c].pc \in NewStep => job[c].pc \in NewStep
           /\ job'[c].pc \in {"detach", "available", "running", "attach", "modify"} => job[c].vol # None
    BY <1>16, <1>a, RedeployModifyDoes DEF Becomes, Goes, Rests
  <2>3. \A d \in Command \ {c} : job'[d] = job[d]
    BY <1>16, <1>a, RedeployModifyDoes DEF Becomes, Goes, Rests
  <2> QED
    BY <1>a, <2>1, <2>2, <2>3, NamedKept
<1>17. ASSUME NEW c \in Command, RedeployReplace(c) PROVE Named'
  BY <1>17, <1>a, <1>b, RedeployReplaceDoes DEF Becomes, Terminate, Goes, Rests
<1>18. ASSUME NEW c \in Command, Crash(c) PROVE Named'
  BY <1>18, <1>a, <1>b, CrashDoes DEF Becomes, Goes, Rests
<1>19. ASSUME NEW i \in Instance, Running(i) PROVE Named'
  BY <1>19, <1>a, <1>b DEF Running
<1>20. ASSUME NEW i \in Instance, Stopped(i) PROVE Named'
  BY <1>20, <1>a, <1>b DEF Stopped
<1>21. ASSUME NEW i \in Instance, Terminated(i) PROVE Named'
  BY <1>21, <1>a, <1>b DEF Terminated
<1>22. ASSUME NEW i \in Instance, Mount(i) PROVE Named'
  BY <1>22, <1>a, <1>b DEF Mount
<1>23. CASE UNCHANGED vars
  BY <1>23, <1>a, <1>b, <1>c DEF vars
<1> QED
  BY <1>1, <1>2, <1>3, <1>4, <1>5, <1>6, <1>7, <1>8, <1>9, <1>10, <1>11, <1>12, <1>13, <1>14,
     <1>15, <1>16, <1>17, <1>18, <1>19, <1>20, <1>21, <1>22, <1>23 DEF Next, Add, Delete,
       Redeploy, Ec2

\* A volume never comes to a machine of another name, nor to two machines.
LEMMA FollowsStep == TagInv /\ [Next]_vars => Follows'
<1> SUFFICES ASSUME TagInv, [Next]_vars PROVE Follows'
  OBVIOUS
<1> USE DEF ec2Vars, hostVars, TagInv, World, Fresh, Unlaunched, Unknown, AttachedInUse,
      Tagging, Named, RedeployStep, NewStep, Follows
<1>a. TypeOK /\ World /\ job \in [Command -> Jobs]
  BY TypeParts DEF TagInv
<1>b. \A d \in Command : /\ job[d].inst \in Instance \cup {None} /\ job[d].vol \in Volume \cup {None}
                       /\ job[d].new \subseteq Instance /\ job[d].nm \in AnyName
  BY <1>a, JobTypes
<1>c. None \notin Name \cup Instance \cup Volume
  BY MachineAssumption
<1>1. ASSUME NEW c \in Command, AddNamed(c) PROVE Follows'
  BY <1>1, <1>a, <1>b, AddNamedDoes DEF Becomes, Goes, Rests, Launches
<1>2. ASSUME NEW c \in Command, AddUnnamed(c) PROVE Follows'
  BY <1>2, <1>a, <1>b, AddUnnamedDoes DEF Becomes, Goes, Rests, Launches
<1>3. ASSUME NEW c \in Command, RequestSpot(c) PROVE Follows'
  <2>1. PICK got \in SUBSET Instance, n \in Name \cup {None}, disk \in Volume \cup {None}, o \in AnyName :
            /\ Launches(got, None, disk, o)
            /\ disk # None => \E i \in Instance : got = {i} /\ o = IF n # None THEN n ELSE i
            /\ \/ job' = job /\ disk = None
               \/ Becomes(c, "tag", n, job[c].inst, job[c].vol, got)
    BY <1>3, <1>a, RequestSpotDoes
  <2>2. disk # None => \A i \in Instance : attached[i] # disk
    BY <1>a, <1>c, <2>1 DEF Launches
  <2>3. \A i \in got : name'[i] = None
    BY <2>1 DEF Launches
  <2>4. \A i \in Instance \ got : /\ name'[i] = name[i] /\ attached'[i] = attached[i]
                                  /\ attached[i] # None => owner'[attached[i]] = owner[attached[i]]
    BY <1>a, <2>1, <2>2 DEF Launches
  <2>5. \A i \in got : attached'[i] = disk
    BY <2>1 DEF Launches
  <2> QED
    BY <1>c, <2>1, <2>2, <2>3, <2>4, <2>5
<1>4. ASSUME NEW c \in Command, TagNew(c) PROVE Follows'
  BY <1>4, <1>a, <1>b, TagNewDoes DEF Becomes, Goes, Rests
<1>5. ASSUME NEW c \in Command, DeleteRead(c) PROVE Follows'
  BY <1>5, <1>a, <1>b, DeleteReadDoes DEF Becomes, Goes, Rests
<1>6. ASSUME NEW c \in Command, DeleteTerminate(c) PROVE Follows'
  BY <1>6, <1>a, <1>b, DeleteTerminateDoes DEF Becomes, Terminate, Goes, Rests
<1>7. ASSUME NEW c \in Command, DeleteDone(c) PROVE Follows'
  BY <1>7, <1>a, <1>b, DeleteDoneDoes DEF Becomes, Goes, Rests
<1>8. ASSUME NEW c \in Command, RedeployRead(c) PROVE Follows'
  BY <1>8, <1>a, <1>b, RedeployReadDoes DEF Becomes, Goes, Rests
<1>9. ASSUME NEW c \in Command, RedeployStop(c) PROVE Follows'
  BY <1>9, <1>a, <1>b, RedeployStopDoes DEF Becomes, Goes, Rests
<1>10. ASSUME NEW c \in Command, RedeployDescribe(c) PROVE Follows'
  BY <1>10, <1>a, <1>b, RedeployDescribeDoes DEF Becomes, Goes, Rests
<1>11. ASSUME NEW c \in Command, RedeployDetach(c) PROVE Follows'
  BY <1>11, <1>a, <1>b, RedeployDetachDoes DEF Becomes, Goes, Rests
<1>12. ASSUME NEW c \in Command, RedeployAvailable(c) PROVE Follows'
  BY <1>12, <1>a, <1>b, RedeployAvailableDoes DEF Becomes, Goes, Rests
<1>13. ASSUME NEW c \in Command, RedeployRun(c) PROVE Follows'
  BY <1>13, <1>a, <1>b, RedeployRunDoes DEF Becomes, Goes, Rests
<1>14. ASSUME NEW c \in Command, RedeployRunning(c) PROVE Follows'
  BY <1>14, <1>a, <1>b, RedeployRunningDoes, OneNew DEF Becomes, Goes, Rests
<1>15. ASSUME NEW c \in Command, RedeployAttach(c) PROVE Follows'
  <2>1. PICK i \in Instance : job[c].new = {i} /\ name[i] = name[job[c].inst]
    BY <1>15, <1>a, RedeployAttachDoes
  <2>2. New(c) = i
    BY <2>1 DEF New
  <2>3. CASE UNCHANGED <<volume, attached>>
    BY <1>15, <2>3 DEF RedeployAttach
  <2>4. CASE /\ volume[job[c].vol] = "available" /\ attached[New(c)] = None
             /\ attached' = [attached EXCEPT ![New(c)] = job[c].vol]
    <3>1. job[c].vol \in Volume /\ owner[job[c].vol] = name[i]
      BY <1>15, <1>a, <1>b, <2>1, RedeployAttachDoes
    <3>2. \A k \in Instance : attached[k] # job[c].vol
      BY <1>c, <2>4, <3>1
    <3>3. attached'[i] = job[c].vol /\ \A k \in Instance \ {i} : attached'[k] = attached[k]
      BY <1>a, <2>1, <2>2, <2>4
    <3>4. UNCHANGED <<name, owner>>
      BY <1>15 DEF RedeployAttach
    <3> QED
      BY <3>1, <3>2, <3>3, <3>4
  <2> QED
    BY <1>15, <1>a, <2>3, <2>4, RedeployAttachDoes
<1>16. ASSUME NEW c \in Command, RedeployModify(c) PROVE Follows'
  BY <1>16, <1>a, <1>b, RedeployModifyDoes, OneNew DEF Becomes, Goes, Rests
<1>17. ASSUME NEW c \in Command, RedeployReplace(c) PROVE Follows'
  BY <1>17, <1>a, <1>b, RedeployReplaceDoes DEF Becomes, Terminate, Goes, Rests
<1>18. ASSUME NEW c \in Command, Crash(c) PROVE Follows'
  BY <1>18, <1>a, <1>b, CrashDoes DEF Becomes, Goes, Rests
<1>19. ASSUME NEW i \in Instance, Running(i) PROVE Follows'
  BY <1>19, <1>a, <1>b DEF Running
<1>20. ASSUME NEW i \in Instance, Stopped(i) PROVE Follows'
  BY <1>20, <1>a, <1>b DEF Stopped
<1>21. ASSUME NEW i \in Instance, Terminated(i) PROVE Follows'
  BY <1>21, <1>a, <1>b DEF Terminated
<1>22. ASSUME NEW i \in Instance, Mount(i) PROVE Follows'
  BY <1>22, <1>a, <1>b DEF Mount
<1>23. CASE UNCHANGED vars
  BY <1>23, <1>a, <1>b, <1>c DEF vars
<1> QED
  BY <1>1, <1>2, <1>3, <1>4, <1>5, <1>6, <1>7, <1>8, <1>9, <1>10, <1>11, <1>12, <1>13, <1>14,
     <1>15, <1>16, <1>17, <1>18, <1>19, <1>20, <1>21, <1>22, <1>23 DEF Next, Add, Delete,
       Redeploy, Ec2

\* The inductive invariant holds at the start.
LEMMA TagInit == Init => TagInv
<1> SUFFICES ASSUME Init PROVE TagInv
  OBVIOUS
<1> USE DEF Init
<1>1. NoJob \in Jobs
  BY DEF NoJob, Jobs, Step, AnyName
<1>2. job \in [Command -> Jobs]
  BY <1>1
<1>3. /\ spot \in [Instance -> BOOLEAN] /\ onTerm \in [Instance -> BOOLEAN]
      /\ wants \in [Instance -> BOOLEAN] /\ mounted \in [Instance -> BOOLEAN]
      /\ data \in [Volume -> BOOLEAN]
  BY Zenon
<1>4. World
  BY <1>3, MachineAssumption DEF World, AnyName
<1>5. TypeOK
  BY <1>2, <1>4, TypeParts
<1>6. \A c \in Command : job[c].pc = "idle" /\ job[c].inst = None /\ job[c].new = {}
  BY DEF NoJob
<1>7. Fresh /\ AttachedInUse /\ Tagging /\ Named /\ Follows
  BY <1>6 DEF Fresh, Unlaunched, Unknown, AttachedInUse, Tagging, Named, RedeployStep, NewStep,
              Follows
<1> QED
  BY <1>5, <1>7 DEF TagInv

\* Every step preserves the inductive invariant.
LEMMA TagStep == TagInv /\ [Next]_vars => TagInv'
<1> SUFFICES ASSUME TagInv, [Next]_vars PROVE TagInv'
  OBVIOUS
<1>1. TypeOK' /\ AttachedInUse' /\ Tagging' /\ Named' /\ Follows'
  BY TypeStep, AttachedInUseStep, TaggingStep, NamedStep, FollowsStep
<1>2. Fresh'
  BY UnlaunchedStep, UnknownStep DEF Fresh
<1> QED
  BY <1>1, <1>2 DEF TagInv

\* Whatever commands run at the same time, and wherever they die, a data volume is never
\* attached to a machine of another name.
THEOREM VolumesStayWithTheirMachine == Spec => []VolumeFollowsItsMachine
<1>1. TagInv => VolumeFollowsItsMachine
  BY DEF TagInv, Follows, VolumeFollowsItsMachine
<1> QED
  BY <1>1, TagInit, TagStep, PTL DEF Spec
-------------------------------------------------------------------------------
(* The invariant for one shell. *)

\* A volume is mounted by an instance that is up.
LEMMA MountedUpStep == OneShell /\ ShellInv /\ [Next]_vars => MountedUp'
<1> SUFFICES ASSUME OneShell, ShellInv, [Next]_vars PROVE MountedUp'
  OBVIOUS
<1> USE DEF ec2Vars, hostVars, TagInv, World, Fresh, Unlaunched, Unknown, AttachedInUse,
      Tagging, Named, RedeployStep, NewStep, Follows, OneShell, ShellInv,
      MountedUp, JobInv
<1>a. TypeOK /\ World /\ job \in [Command -> Jobs]
  BY TypeParts DEF ShellInv, TagInv
<1>b. \A d \in Command : /\ job[d].inst \in Instance \cup {None} /\ job[d].vol \in Volume \cup {None}
                       /\ job[d].new \subseteq Instance /\ job[d].nm \in AnyName
  BY <1>a, JobTypes
<1>c. None \notin Name \cup Instance \cup Volume
  BY MachineAssumption
<1>1. ASSUME NEW c \in Command, AddNamed(c) PROVE MountedUp'
  BY <1>1, <1>a, <1>b, AddNamedDoes DEF Becomes, Goes, Rests, Launches
<1>2. ASSUME NEW c \in Command, AddUnnamed(c) PROVE MountedUp'
  BY <1>2, <1>a, <1>b, AddUnnamedDoes DEF Becomes, Goes, Rests, Launches
<1>3. ASSUME NEW c \in Command, RequestSpot(c) PROVE MountedUp'
  BY <1>3, <1>a, <1>b, RequestSpotDoes DEF Becomes, Goes, Rests, Launches
<1>4. ASSUME NEW c \in Command, TagNew(c) PROVE MountedUp'
  BY <1>4, <1>a, <1>b, TagNewDoes DEF Becomes, Goes, Rests
<1>5. ASSUME NEW c \in Command, DeleteRead(c) PROVE MountedUp'
  BY <1>5, <1>a, <1>b, DeleteReadDoes DEF Becomes, Goes, Rests
<1>6. ASSUME NEW c \in Command, DeleteTerminate(c) PROVE MountedUp'
  BY <1>6, <1>a, <1>b, DeleteTerminateDoes DEF Becomes, Terminate, Goes, Rests
<1>7. ASSUME NEW c \in Command, DeleteDone(c) PROVE MountedUp'
  BY <1>7, <1>a, <1>b, DeleteDoneDoes DEF Becomes, Goes, Rests
<1>8. ASSUME NEW c \in Command, RedeployRead(c) PROVE MountedUp'
  BY <1>8, <1>a, <1>b, RedeployReadDoes DEF Becomes, Goes, Rests
<1>9. ASSUME NEW c \in Command, RedeployStop(c) PROVE MountedUp'
  BY <1>9, <1>a, <1>b, RedeployStopDoes DEF Becomes, Goes, Rests
<1>10. ASSUME NEW c \in Command, RedeployDescribe(c) PROVE MountedUp'
  BY <1>10, <1>a, <1>b, RedeployDescribeDoes DEF Becomes, Goes, Rests
<1>11. ASSUME NEW c \in Command, RedeployDetach(c) PROVE MountedUp'
  BY <1>11, <1>a, <1>b, RedeployDetachDoes DEF Becomes, Goes, Rests
<1>12. ASSUME NEW c \in Command, RedeployAvailable(c) PROVE MountedUp'
  BY <1>12, <1>a, <1>b, RedeployAvailableDoes DEF Becomes, Goes, Rests
<1>13. ASSUME NEW c \in Command, RedeployRun(c) PROVE MountedUp'
  BY <1>13, <1>a, <1>b, RedeployRunDoes DEF Becomes, Goes, Rests
<1>14. ASSUME NEW c \in Command, RedeployRunning(c) PROVE MountedUp'
  BY <1>14, <1>a, <1>b, RedeployRunningDoes, OneNew DEF Becomes, Goes, Rests
<1>15. ASSUME NEW c \in Command, RedeployAttach(c) PROVE MountedUp'
  BY <1>15, <1>a, <1>b, RedeployAttachDoes, OneNew DEF Becomes, Goes, Rests
<1>16. ASSUME NEW c \in Command, RedeployModify(c) PROVE MountedUp'
  BY <1>16, <1>a, <1>b, RedeployModifyDoes, OneNew DEF Becomes, Goes, Rests
<1>17. ASSUME NEW c \in Command, RedeployReplace(c) PROVE MountedUp'
  BY <1>17, <1>a, <1>b, RedeployReplaceDoes DEF Becomes, Terminate, Goes, Rests
<1>18. ASSUME NEW c \in Command, Crash(c) PROVE MountedUp'
  BY <1>18, <1>a, <1>b, CrashDoes DEF Becomes, Goes, Rests
<1>19. ASSUME NEW i \in Instance, Running(i) PROVE MountedUp'
  BY <1>19, <1>a, <1>b DEF Running
<1>20. ASSUME NEW i \in Instance, Stopped(i) PROVE MountedUp'
  BY <1>20, <1>a, <1>b DEF Stopped
<1>21. ASSUME NEW i \in Instance, Terminated(i) PROVE MountedUp'
  BY <1>21, <1>a, <1>b DEF Terminated
<1>22. ASSUME NEW i \in Instance, Mount(i) PROVE MountedUp'
  BY <1>22, <1>a, <1>b DEF Mount
<1>23. CASE UNCHANGED vars
  BY <1>23, <1>a, <1>b, <1>c DEF vars
<1> QED
  BY <1>1, <1>2, <1>3, <1>4, <1>5, <1>6, <1>7, <1>8, <1>9, <1>10, <1>11, <1>12, <1>13, <1>14,
     <1>15, <1>16, <1>17, <1>18, <1>19, <1>20, <1>21, <1>22, <1>23 DEF Next, Add, Delete,
       Redeploy, Ec2

\* What goes with its volume may go.
LEMMA ShuttingDownStep == OneShell /\ ShellInv /\ [Next]_vars => ShuttingDown'
<1> SUFFICES ASSUME OneShell, ShellInv, [Next]_vars PROVE ShuttingDown'
  OBVIOUS
<1> USE DEF ec2Vars, hostVars, TagInv, World, Fresh, Unlaunched, Unknown, AttachedInUse,
      Tagging, Named, RedeployStep, NewStep, Follows, OneShell, ShellInv,
      ShuttingDown, JobInv
<1>a. TypeOK /\ World /\ job \in [Command -> Jobs]
  BY TypeParts DEF ShellInv, TagInv
<1>b. \A d \in Command : /\ job[d].inst \in Instance \cup {None} /\ job[d].vol \in Volume \cup {None}
                       /\ job[d].new \subseteq Instance /\ job[d].nm \in AnyName
  BY <1>a, JobTypes
<1>c. None \notin Name \cup Instance \cup Volume
  BY MachineAssumption
<1>1. ASSUME NEW c \in Command, AddNamed(c) PROVE ShuttingDown'
  BY <1>1, <1>a, <1>b, AddNamedDoes DEF Becomes, Goes, Rests, Launches
<1>2. ASSUME NEW c \in Command, AddUnnamed(c) PROVE ShuttingDown'
  BY <1>2, <1>a, <1>b, AddUnnamedDoes DEF Becomes, Goes, Rests, Launches
<1>3. ASSUME NEW c \in Command, RequestSpot(c) PROVE ShuttingDown'
  BY <1>3, <1>a, <1>b, RequestSpotDoes DEF Becomes, Goes, Rests, Launches
<1>4. ASSUME NEW c \in Command, TagNew(c) PROVE ShuttingDown'
  BY <1>4, <1>a, <1>b, TagNewDoes DEF Becomes, Goes, Rests
<1>5. ASSUME NEW c \in Command, DeleteRead(c) PROVE ShuttingDown'
  BY <1>5, <1>a, <1>b, DeleteReadDoes DEF Becomes, Goes, Rests
<1>6. ASSUME NEW c \in Command, DeleteTerminate(c) PROVE ShuttingDown'
  BY <1>6, <1>a, <1>b, DeleteTerminateDoes DEF Becomes, Terminate, Goes, Rests
<1>7. ASSUME NEW c \in Command, DeleteDone(c) PROVE ShuttingDown'
  BY <1>7, <1>a, <1>b, DeleteDoneDoes DEF Becomes, Goes, Rests
<1>8. ASSUME NEW c \in Command, RedeployRead(c) PROVE ShuttingDown'
  BY <1>8, <1>a, <1>b, RedeployReadDoes DEF Becomes, Goes, Rests
<1>9. ASSUME NEW c \in Command, RedeployStop(c) PROVE ShuttingDown'
  BY <1>9, <1>a, <1>b, RedeployStopDoes DEF Becomes, Goes, Rests
<1>10. ASSUME NEW c \in Command, RedeployDescribe(c) PROVE ShuttingDown'
  BY <1>10, <1>a, <1>b, RedeployDescribeDoes DEF Becomes, Goes, Rests
<1>11. ASSUME NEW c \in Command, RedeployDetach(c) PROVE ShuttingDown'
  BY <1>11, <1>a, <1>b, RedeployDetachDoes DEF Becomes, Goes, Rests
<1>12. ASSUME NEW c \in Command, RedeployAvailable(c) PROVE ShuttingDown'
  BY <1>12, <1>a, <1>b, RedeployAvailableDoes DEF Becomes, Goes, Rests
<1>13. ASSUME NEW c \in Command, RedeployRun(c) PROVE ShuttingDown'
  BY <1>13, <1>a, <1>b, RedeployRunDoes DEF Becomes, Goes, Rests
<1>14. ASSUME NEW c \in Command, RedeployRunning(c) PROVE ShuttingDown'
  BY <1>14, <1>a, <1>b, RedeployRunningDoes, OneNew DEF Becomes, Goes, Rests
<1>15. ASSUME NEW c \in Command, RedeployAttach(c) PROVE ShuttingDown'
  BY <1>15, <1>a, <1>b, RedeployAttachDoes, OneNew DEF Becomes, Goes, Rests
<1>16. ASSUME NEW c \in Command, RedeployModify(c) PROVE ShuttingDown'
  <2>1. job[c].pc = "modify" /\ UNCHANGED <<state, attached, owner, hostVars, deletes>>
    BY <1>16, <1>a, RedeployModifyDoes
  <2>2. New(c) \in Instance /\ job[c].new = {New(c)}
    BY <2>1, OneNew
  <2>3. \A i \in Instance : onTerm'[i] => onTerm[i] \/ i = New(c)
    BY <1>16, <1>a, RedeployModifyDoes
  <2>4. state[New(c)] # "shutting-down"
    BY <2>1, <2>2 DEF JobInv
  <2> QED
    BY <2>1, <2>3, <2>4
<1>17. ASSUME NEW c \in Command, RedeployReplace(c) PROVE ShuttingDown'
  BY <1>17, <1>a, <1>b, RedeployReplaceDoes DEF Becomes, Terminate, Goes, Rests
<1>18. ASSUME NEW c \in Command, Crash(c) PROVE ShuttingDown'
  BY <1>18, <1>a, <1>b, CrashDoes DEF Becomes, Goes, Rests
<1>19. ASSUME NEW i \in Instance, Running(i) PROVE ShuttingDown'
  BY <1>19, <1>a, <1>b DEF Running
<1>20. ASSUME NEW i \in Instance, Stopped(i) PROVE ShuttingDown'
  BY <1>20, <1>a, <1>b DEF Stopped
<1>21. ASSUME NEW i \in Instance, Terminated(i) PROVE ShuttingDown'
  BY <1>21, <1>a, <1>b DEF Terminated
<1>22. ASSUME NEW i \in Instance, Mount(i) PROVE ShuttingDown'
  BY <1>22, <1>a, <1>b DEF Mount
<1>23. CASE UNCHANGED vars
  BY <1>23, <1>a, <1>b, <1>c DEF vars
<1> QED
  BY <1>1, <1>2, <1>3, <1>4, <1>5, <1>6, <1>7, <1>8, <1>9, <1>10, <1>11, <1>12, <1>13, <1>14,
     <1>15, <1>16, <1>17, <1>18, <1>19, <1>20, <1>21, <1>22, <1>23 DEF Next, Add, Delete,
       Redeploy, Ec2

\* Data is deleted on request.
LEMMA DataStep == OneShell /\ ShellInv /\ [Next]_vars => DataSurvives'
<1> SUFFICES ASSUME OneShell, ShellInv, [Next]_vars PROVE DataSurvives'
  OBVIOUS
<1> USE DEF ec2Vars, hostVars, TagInv, World, Fresh, Unlaunched, Unknown, AttachedInUse,
      Tagging, Named, RedeployStep, NewStep, Follows, OneShell, ShellInv,
      ShuttingDown, DataSurvives
<1>a. TypeOK /\ World /\ job \in [Command -> Jobs]
  BY TypeParts DEF ShellInv, TagInv
<1>b. \A d \in Command : /\ job[d].inst \in Instance \cup {None} /\ job[d].vol \in Volume \cup {None}
                       /\ job[d].new \subseteq Instance /\ job[d].nm \in AnyName
  BY <1>a, JobTypes
<1>c. None \notin Name \cup Instance \cup Volume
  BY MachineAssumption
<1>1. ASSUME NEW c \in Command, AddNamed(c) PROVE DataSurvives'
  BY <1>1, <1>a, <1>b, AddNamedDoes DEF Becomes, Goes, Rests, Launches
<1>2. ASSUME NEW c \in Command, AddUnnamed(c) PROVE DataSurvives'
  BY <1>2, <1>a, <1>b, AddUnnamedDoes DEF Becomes, Goes, Rests, Launches
<1>3. ASSUME NEW c \in Command, RequestSpot(c) PROVE DataSurvives'
  BY <1>3, <1>a, <1>b, RequestSpotDoes DEF Becomes, Goes, Rests, Launches
<1>4. ASSUME NEW c \in Command, TagNew(c) PROVE DataSurvives'
  BY <1>4, <1>a, <1>b, TagNewDoes DEF Becomes, Goes, Rests
<1>5. ASSUME NEW c \in Command, DeleteRead(c) PROVE DataSurvives'
  BY <1>5, <1>a, <1>b, DeleteReadDoes DEF Becomes, Goes, Rests
<1>6. ASSUME NEW c \in Command, DeleteTerminate(c) PROVE DataSurvives'
  BY <1>6, <1>a, <1>b, DeleteTerminateDoes DEF Becomes, Terminate, Goes, Rests
<1>7. ASSUME NEW c \in Command, DeleteDone(c) PROVE DataSurvives'
  BY <1>7, <1>a, <1>b, DeleteDoneDoes DEF Becomes, Goes, Rests
<1>8. ASSUME NEW c \in Command, RedeployRead(c) PROVE DataSurvives'
  BY <1>8, <1>a, <1>b, RedeployReadDoes DEF Becomes, Goes, Rests
<1>9. ASSUME NEW c \in Command, RedeployStop(c) PROVE DataSurvives'
  BY <1>9, <1>a, <1>b, RedeployStopDoes DEF Becomes, Goes, Rests
<1>10. ASSUME NEW c \in Command, RedeployDescribe(c) PROVE DataSurvives'
  BY <1>10, <1>a, <1>b, RedeployDescribeDoes DEF Becomes, Goes, Rests
<1>11. ASSUME NEW c \in Command, RedeployDetach(c) PROVE DataSurvives'
  BY <1>11, <1>a, <1>b, RedeployDetachDoes DEF Becomes, Goes, Rests
<1>12. ASSUME NEW c \in Command, RedeployAvailable(c) PROVE DataSurvives'
  BY <1>12, <1>a, <1>b, RedeployAvailableDoes DEF Becomes, Goes, Rests
<1>13. ASSUME NEW c \in Command, RedeployRun(c) PROVE DataSurvives'
  BY <1>13, <1>a, <1>b, RedeployRunDoes DEF Becomes, Goes, Rests
<1>14. ASSUME NEW c \in Command, RedeployRunning(c) PROVE DataSurvives'
  BY <1>14, <1>a, <1>b, RedeployRunningDoes, OneNew DEF Becomes, Goes, Rests
<1>15. ASSUME NEW c \in Command, RedeployAttach(c) PROVE DataSurvives'
  BY <1>15, <1>a, <1>b, RedeployAttachDoes, OneNew DEF Becomes, Goes, Rests
<1>16. ASSUME NEW c \in Command, RedeployModify(c) PROVE DataSurvives'
  BY <1>16, <1>a, <1>b, RedeployModifyDoes, OneNew DEF Becomes, Goes, Rests
<1>17. ASSUME NEW c \in Command, RedeployReplace(c) PROVE DataSurvives'
  BY <1>17, <1>a, <1>b, RedeployReplaceDoes DEF Becomes, Terminate, Goes, Rests
<1>18. ASSUME NEW c \in Command, Crash(c) PROVE DataSurvives'
  BY <1>18, <1>a, <1>b, CrashDoes DEF Becomes, Goes, Rests
<1>19. ASSUME NEW i \in Instance, Running(i) PROVE DataSurvives'
  BY <1>19, <1>a, <1>b DEF Running
<1>20. ASSUME NEW i \in Instance, Stopped(i) PROVE DataSurvives'
  BY <1>20, <1>a, <1>b DEF Stopped
<1>21. ASSUME NEW i \in Instance, Terminated(i) PROVE DataSurvives'
  BY <1>21, <1>a, <1>b DEF Terminated
<1>22. ASSUME NEW i \in Instance, Mount(i) PROVE DataSurvives'
  BY <1>22, <1>a, <1>b DEF Mount
<1>23. CASE UNCHANGED vars
  BY <1>23, <1>a, <1>b, <1>c DEF vars
<1> QED
  BY <1>1, <1>2, <1>3, <1>4, <1>5, <1>6, <1>7, <1>8, <1>9, <1>10, <1>11, <1>12, <1>13, <1>14,
     <1>15, <1>16, <1>17, <1>18, <1>19, <1>20, <1>21, <1>22, <1>23 DEF Next, Add, Delete,
       Redeploy, Ec2

\* What a redeploy has read stays true.
LEMMA JobInvStep == OneShell /\ ShellInv /\ [Next]_vars => JobInv'
<1> SUFFICES ASSUME OneShell, ShellInv, [Next]_vars PROVE JobInv'
  OBVIOUS
<1> USE DEF ec2Vars, hostVars, TagInv, World, Fresh, Unlaunched, Unknown, AttachedInUse,
      Tagging, Named, RedeployStep, NewStep, Follows, OneShell, ShellInv, JobInv
<1>a. TypeOK /\ World /\ job \in [Command -> Jobs]
  BY TypeParts DEF ShellInv, TagInv
<1>b. \A d \in Command : /\ job[d].inst \in Instance \cup {None} /\ job[d].vol \in Volume \cup {None}
                       /\ job[d].new \subseteq Instance /\ job[d].nm \in AnyName
  BY <1>a, JobTypes
<1>c. None \notin Name \cup Instance \cup Volume
  BY MachineAssumption
<1>1. ASSUME NEW c \in Command, AddNamed(c) PROVE JobInv'
  BY <1>1, <1>a, <1>b, AddNamedDoes DEF Becomes, Goes, Rests, Launches
<1>2. ASSUME NEW c \in Command, AddUnnamed(c) PROVE JobInv'
  BY <1>2, <1>a, <1>b, AddUnnamedDoes DEF Becomes, Goes, Rests, Launches
<1>3. ASSUME NEW c \in Command, RequestSpot(c) PROVE JobInv'
  BY <1>3, <1>a, <1>b, RequestSpotDoes DEF Becomes, Goes, Rests, Launches
<1>4. ASSUME NEW c \in Command, TagNew(c) PROVE JobInv'
  BY <1>4, <1>a, <1>b, TagNewDoes DEF Becomes, Goes, Rests
<1>5. ASSUME NEW c \in Command, DeleteRead(c) PROVE JobInv'
  BY <1>5, <1>a, <1>b, DeleteReadDoes DEF Becomes, Goes, Rests
<1>6. ASSUME NEW c \in Command, DeleteTerminate(c) PROVE JobInv'
  BY <1>6, <1>a, <1>b, DeleteTerminateDoes DEF Becomes, Terminate, Goes, Rests
<1>7. ASSUME NEW c \in Command, DeleteDone(c) PROVE JobInv'
  BY <1>7, <1>a, <1>b, DeleteDoneDoes DEF Becomes, Goes, Rests
<1>8. ASSUME NEW c \in Command, RedeployRead(c) PROVE JobInv'
  BY <1>8, <1>a, <1>b, RedeployReadDoes DEF Becomes, Goes, Rests
<1>9. ASSUME NEW c \in Command, RedeployStop(c) PROVE JobInv'
  BY <1>9, <1>a, <1>b, RedeployStopDoes DEF Becomes, Goes, Rests
<1>10. ASSUME NEW c \in Command, RedeployDescribe(c) PROVE JobInv'
  BY <1>10, <1>a, <1>b, RedeployDescribeDoes DEF Becomes, Goes, Rests
<1>11. ASSUME NEW c \in Command, RedeployDetach(c) PROVE JobInv'
  BY <1>11, <1>a, <1>b, RedeployDetachDoes DEF Becomes, Goes, Rests
<1>12. ASSUME NEW c \in Command, RedeployAvailable(c) PROVE JobInv'
  BY <1>12, <1>a, <1>b, RedeployAvailableDoes DEF Becomes, Goes, Rests
<1>13. ASSUME NEW c \in Command, RedeployRun(c) PROVE JobInv'
  BY <1>13, <1>a, <1>b, RedeployRunDoes DEF Becomes, Goes, Rests
<1>14. ASSUME NEW c \in Command, RedeployRunning(c) PROVE JobInv'
  BY <1>14, <1>a, <1>b, RedeployRunningDoes, OneNew DEF Becomes, Goes, Rests
<1>15. ASSUME NEW c \in Command, RedeployAttach(c) PROVE JobInv'
  <2>1. /\ job[c].pc = "attach"
        /\ New(c) \in Instance /\ job[c].new = {New(c)}
    BY <1>15, <1>a, RedeployAttachDoes, OneNew
  <2>2. CASE Rests(c)
    <3>1. \A d \in Command : job'[d].pc = "idle"
      BY <2>2 DEF Rests, Becomes
    <3> QED
      BY <3>1
  <2>3. CASE ~Rests(c)
    <3>1. /\ UNCHANGED state /\ attached' = [attached EXCEPT ![New(c)] = job[c].vol]
          /\ Goes(c, "modify")
      BY <1>15, <1>a, <2>3, RedeployAttachDoes
    <3>2. attached'[New(c)] = job[c].vol /\ attached'[job[c].inst] = attached[job[c].inst]
      BY <1>a, <2>1, <3>1
    <3>3. \A d \in Command : d = c
      OBVIOUS
    <3> QED
      BY <1>b, <2>1, <3>1, <3>2, <3>3 DEF Goes, Becomes
  <2> QED
    BY <2>2, <2>3
<1>16. ASSUME NEW c \in Command, RedeployModify(c) PROVE JobInv'
  BY <1>16, <1>a, <1>b, RedeployModifyDoes, OneNew DEF Becomes, Goes, Rests
<1>17. ASSUME NEW c \in Command, RedeployReplace(c) PROVE JobInv'
  BY <1>17, <1>a, <1>b, RedeployReplaceDoes DEF Becomes, Terminate, Goes, Rests
<1>18. ASSUME NEW c \in Command, Crash(c) PROVE JobInv'
  BY <1>18, <1>a, <1>b, CrashDoes DEF Becomes, Goes, Rests
<1>19. ASSUME NEW i \in Instance, Running(i) PROVE JobInv'
  BY <1>19, <1>a, <1>b DEF Running
<1>20. ASSUME NEW i \in Instance, Stopped(i) PROVE JobInv'
  BY <1>20, <1>a, <1>b DEF Stopped
<1>21. ASSUME NEW i \in Instance, Terminated(i) PROVE JobInv'
  BY <1>21, <1>a, <1>b DEF Terminated
<1>22. ASSUME NEW i \in Instance, Mount(i) PROVE JobInv'
  BY <1>22, <1>a, <1>b DEF Mount
<1>23. CASE UNCHANGED vars
  BY <1>23, <1>a, <1>b, <1>c DEF vars
<1> QED
  BY <1>1, <1>2, <1>3, <1>4, <1>5, <1>6, <1>7, <1>8, <1>9, <1>10, <1>11, <1>12, <1>13, <1>14,
     <1>15, <1>16, <1>17, <1>18, <1>19, <1>20, <1>21, <1>22, <1>23 DEF Next, Add, Delete,
       Redeploy, Ec2

\* Nothing is left behind.
LEMMA NothingLeftStep == OneShell /\ ShellInv /\ [Next]_vars => NothingLeft'
<1> SUFFICES ASSUME OneShell, ShellInv, [Next]_vars PROVE NothingLeft'
  OBVIOUS
<1> USE DEF ec2Vars, hostVars, TagInv, World, Fresh, Unlaunched, Unknown, AttachedInUse,
      Tagging, Named, RedeployStep, NewStep, Follows, OneShell, ShellInv,
      JobInv, NothingLeft
<1>a. TypeOK /\ World /\ job \in [Command -> Jobs]
  BY TypeParts DEF ShellInv, TagInv
<1>b. \A d \in Command : /\ job[d].inst \in Instance \cup {None} /\ job[d].vol \in Volume \cup {None}
                       /\ job[d].new \subseteq Instance /\ job[d].nm \in AnyName
  BY <1>a, JobTypes
<1>c. None \notin Name \cup Instance \cup Volume
  BY MachineAssumption
<1>1. ASSUME NEW c \in Command, AddNamed(c) PROVE NothingLeft'
  BY <1>1, <1>a, <1>b, AddNamedDoes DEF Becomes, Goes, Rests, Launches
<1>2. ASSUME NEW c \in Command, AddUnnamed(c) PROVE NothingLeft'
  BY <1>2, <1>a, <1>b, AddUnnamedDoes DEF Becomes, Goes, Rests, Launches
<1>3. ASSUME NEW c \in Command, RequestSpot(c) PROVE NothingLeft'
  BY <1>3, <1>a, <1>b, RequestSpotDoes DEF Becomes, Goes, Rests, Launches
<1>4. ASSUME NEW c \in Command, TagNew(c) PROVE NothingLeft'
  BY <1>4, <1>a, <1>b, TagNewDoes DEF Becomes, Goes, Rests
<1>5. ASSUME NEW c \in Command, DeleteRead(c) PROVE NothingLeft'
  BY <1>5, <1>a, <1>b, DeleteReadDoes DEF Becomes, Goes, Rests
<1>6. ASSUME NEW c \in Command, DeleteTerminate(c) PROVE NothingLeft'
  BY <1>6, <1>a, <1>b, DeleteTerminateDoes DEF Becomes, Terminate, Goes, Rests
<1>7. ASSUME NEW c \in Command, DeleteDone(c) PROVE NothingLeft'
  BY <1>7, <1>a, <1>b, DeleteDoneDoes DEF Becomes, Goes, Rests
<1>8. ASSUME NEW c \in Command, RedeployRead(c) PROVE NothingLeft'
  BY <1>8, <1>a, <1>b, RedeployReadDoes DEF Becomes, Goes, Rests
<1>9. ASSUME NEW c \in Command, RedeployStop(c) PROVE NothingLeft'
  BY <1>9, <1>a, <1>b, RedeployStopDoes DEF Becomes, Goes, Rests
<1>10. ASSUME NEW c \in Command, RedeployDescribe(c) PROVE NothingLeft'
  BY <1>10, <1>a, <1>b, RedeployDescribeDoes DEF Becomes, Goes, Rests
<1>11. ASSUME NEW c \in Command, RedeployDetach(c) PROVE NothingLeft'
  BY <1>11, <1>a, <1>b, RedeployDetachDoes DEF Becomes, Goes, Rests
<1>12. ASSUME NEW c \in Command, RedeployAvailable(c) PROVE NothingLeft'
  BY <1>12, <1>a, <1>b, RedeployAvailableDoes DEF Becomes, Goes, Rests
<1>13. ASSUME NEW c \in Command, RedeployRun(c) PROVE NothingLeft'
  <2> SUFFICES ASSUME crashes = 0
                PROVE  /\ \A v \in Volume : volume[v] = "available" =>
                              job'[c].pc \in {"running", "attach"} /\ job'[c].vol = v
                       /\ \A i \in Instance : attached[i] # None => onTerm[i]
    BY <1>13, RedeployRunDoes
  <2>1. PICK i \in Instance :
            Becomes(c, IF job[c].vol # None THEN "running" ELSE "replace",
                    job[c].nm, job[c].inst, job[c].vol, {i})
    BY <1>13, <1>a, RedeployRunDoes
  <2>2. job'[c].vol = job[c].vol /\ (job[c].vol # None => job'[c].pc = "running")
    BY <2>1 DEF Becomes
  <2>3. job[c].pc = "run" /\ \A d \in Command : d = c
    BY <1>13, <1>a, RedeployRunDoes
  <2> QED
    BY <1>c, <2>2, <2>3
<1>14. ASSUME NEW c \in Command, RedeployRunning(c) PROVE NothingLeft'
  BY <1>14, <1>a, <1>b, RedeployRunningDoes, OneNew DEF Becomes, Goes, Rests
<1>15. ASSUME NEW c \in Command, RedeployAttach(c) PROVE NothingLeft'
  BY <1>15, <1>a, <1>b, RedeployAttachDoes, OneNew DEF Becomes, Goes, Rests
<1>16. ASSUME NEW c \in Command, RedeployModify(c) PROVE NothingLeft'
  BY <1>16, <1>a, <1>b, RedeployModifyDoes, OneNew DEF Becomes, Goes, Rests
<1>17. ASSUME NEW c \in Command, RedeployReplace(c) PROVE NothingLeft'
  BY <1>17, <1>a, <1>b, RedeployReplaceDoes DEF Becomes, Terminate, Goes, Rests
<1>18. ASSUME NEW c \in Command, Crash(c) PROVE NothingLeft'
  BY <1>18, <1>a, <1>b, CrashDoes DEF Becomes, Goes, Rests
<1>19. ASSUME NEW i \in Instance, Running(i) PROVE NothingLeft'
  BY <1>19, <1>a, <1>b DEF Running
<1>20. ASSUME NEW i \in Instance, Stopped(i) PROVE NothingLeft'
  BY <1>20, <1>a, <1>b DEF Stopped
<1>21. ASSUME NEW i \in Instance, Terminated(i) PROVE NothingLeft'
  BY <1>21, <1>a, <1>b DEF Terminated
<1>22. ASSUME NEW i \in Instance, Mount(i) PROVE NothingLeft'
  BY <1>22, <1>a, <1>b DEF Mount
<1>23. CASE UNCHANGED vars
  BY <1>23, <1>a, <1>b, <1>c DEF vars
<1> QED
  BY <1>1, <1>2, <1>3, <1>4, <1>5, <1>6, <1>7, <1>8, <1>9, <1>10, <1>11, <1>12, <1>13, <1>14,
     <1>15, <1>16, <1>17, <1>18, <1>19, <1>20, <1>21, <1>22, <1>23 DEF Next, Add, Delete,
       Redeploy, Ec2

\* The invariant for one shell holds at the start.
LEMMA ShellInit == Init => ShellInv
<1> SUFFICES ASSUME Init PROVE ShellInv
  OBVIOUS
<1>1. TagInv
  BY TagInit
<1>2. \A c \in Command : job[c].pc = "idle"
  BY DEF Init, NoJob
<1>3. JobInv
  BY <1>2 DEF JobInv, NewStep
<1>4. /\ \A i \in Instance : state[i] = "none" /\ attached[i] = None
      /\ \A v \in Volume : volume[v] = "none"
  BY DEF Init
<1>5. MountedUp
  BY DEF Init, MountedUp
<1>6. ShuttingDown /\ NothingLeft /\ DataSurvives
  BY <1>4 DEF ShuttingDown, NothingLeft, DataSurvives
<1> QED
  BY <1>1, <1>3, <1>5, <1>6 DEF ShellInv

\* Every step preserves the invariant for one shell.
LEMMA ShellStep == OneShell /\ ShellInv /\ [Next]_vars => ShellInv'
<1> SUFFICES ASSUME OneShell, ShellInv, [Next]_vars PROVE ShellInv'
  OBVIOUS
<1>1. TagInv'
  BY TagStep DEF ShellInv
<1> QED
  BY <1>1, MountedUpStep, ShuttingDownStep, JobInvStep, NothingLeftStep, DataStep DEF ShellInv

\* The invariant for one shell.
LEMMA ShellSafe ==
    ASSUME OneShell
    PROVE  Spec => []ShellInv
<1>1. ShellInv /\ [Next]_vars => ShellInv'
  BY OneShell, ShellStep
<1> QED
  BY <1>1, ShellInit, PTL DEF Spec

\* In one shell, a volume with data is deleted only after a machine-delete of the machine
\* it belongs to, wherever commands die and whatever is run again.
THEOREM DataIsDeletedOnRequest ==
    ASSUME OneShell
    PROVE  Spec => []DataSurvives
<1>1. Spec => []ShellInv
  BY OneShell, ShellSafe
<1>2. ShellInv => DataSurvives
  BY DEF ShellInv
<1> QED
  BY <1>1, <1>2, PTL

\* In one shell, no command takes the data volume from under a machine that has it mounted.
THEOREM VolumesStayMounted ==
    ASSUME OneShell
    PROVE  Spec => []MountInv
<1>1. Spec => []ShellInv
  BY OneShell, ShellSafe
<1>2. ShellInv => MountInv
  BY DEF ShellInv, TagInv, MountedUp, MountInv, NeverPulledWhileMounted
<1> QED
  BY <1>1, <1>2, PTL

\* In one shell, as long as no command has died, a redeploy that replaces a machine has
\* handed over every data volume of it: the terminate is only asked for after the attach.
THEOREM RedeployHandsOver ==
    ASSUME OneShell
    PROVE  Spec => UninterruptedRedeployKeepsVolume
<1>1. Spec => []ShellInv
  BY OneShell, ShellSafe
<1>2. ASSUME ShellInv, NEW c \in Command, RedeployReplace(c), crashes = 0 PROVE HandedOver(c)
  <2>1. \A d \in Command : job[d].pc = "replace"
    BY <1>2, OneShell DEF OneShell, RedeployReplace
  <2>2. \A v \in Volume : volume[v] # "available"
    BY <1>2, <2>1 DEF ShellInv, NothingLeft
  <2> QED
    BY <2>2 DEF HandedOver
<1>3. ShellInv /\ [Next]_vars =>
          [\A c \in Command : RedeployReplace(c) /\ crashes = 0 => HandedOver(c)]_vars
  BY <1>2
<1> QED
  BY <1>1, <1>3, PTL DEF Spec, UninterruptedRedeployKeepsVolume
===============================================================================
