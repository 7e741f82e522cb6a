------------------------- MODULE RegistryAccessProofs -------------------------
(***************************************************************************)
(* Proofs about RegistryAccess, for any number of shells, clusters,        *)
(* services and images. GrantInv needs that one grant runs at a time and   *)
(* that no call of it is refused: GrantedKeeps does not hold otherwise.    *)
(***************************************************************************)
EXTENDS RegistryAccess, TLAPS

-------------------------------------------------------------------------------
(* What a grant may rely on. *)

Granting(c) == job[c].cmd \in Grant

\* A command that creates or deletes has only services left to do.
ManageServices == \A c \in Command : job[c].cmd \in Manage => job[c].todo \subseteq Service

\* One grant runs at a time.
OneGrant == \A c, d \in Command : Granting(c) /\ Granting(d) => c = d

\* It has given its cluster access to all repositories it is past of, unless the role
\* of the cluster or a repository has been deleted since it began.
GrantedSoFar ==
    \A c \in Command : Granting(c) =>
        /\ job[c].cl \in Cluster
        /\ ~job[c].void =>
               /\ job[c].cl \in role
               /\ \A s \in Service : s < job[c].service => s \in repo /\ job[c].cl \in reader[s]

\* Of the roles that the policy names now, it drops none that exists.
NobodyDropped ==
    \A c \in Command : At(c, "lookup") =>
        reader[job[c].service] \cap role \subseteq job[c].todo \cup job[c].keep

\* The inductive invariant.
GrantIInv ==
    GrantInv /\ ManageServices /\ OneGrant /\ GrantedSoFar /\ NobodyDropped

-------------------------------------------------------------------------------
(* The invariant holds. *)

\* What Min is of two numbers.
LEMMA MinOfTwo == \A m, n \in Nat : Min({m, n}) = IF m <= n THEN m ELSE n
BY DEF Min

\* What may be left to do.
Scope == Service \cup Cluster \cup {Stale}

\* What a shell does, as in TypeOK.
Job == [cmd : {"none", "create", "empty", "remove", "read", "lookup"},
        cl : Cluster \cup {None}, void : BOOLEAN, service : Service,
        todo : SUBSET Scope, keep : SUBSET (Cluster \cup {Stale})]

\* The rest of TypeOK.
World ==
    /\ role \subseteq Cluster
    /\ repo \subseteq Service
    /\ images \in [Service -> 0..Images]
    /\ reader \in [Service -> SUBSET (role \cup {Stale})]
    /\ \A s \in Service \ repo : images[s] = 0 /\ reader[s] = {}
    /\ granted \subseteq role
    /\ deleting \in BOOLEAN
    /\ faults \in 0..MaxFaults

\* A shell that does nothing has a job too.
LEMMA NoJobType == NoJob \in Job
BY RegistryAssumption DEF Job, NoJob, Service

\* It holds of an account without clusters and repositories.
LEMMA GrantInit == Init => GrantIInv
<1> SUFFICES ASSUME Init PROVE GrantIInv
  OBVIOUS
<1>1. deleting \in BOOLEAN
  BY Zenon DEF Init
<1>2. faults \in 0..MaxFaults /\ 1 \in Service
  BY RegistryAssumption DEF Init, Service
<1>3. images \in [Service -> 0..Images]
  BY RegistryAssumption DEF Init
<1>4. TypeOK
  BY <1>1, <1>2, <1>3, NoJobType DEF Init, TypeOK, Job, Scope
<1> QED
  BY <1>4 DEF Init, NoJob, GrantIInv, GrantInv, GrantedKeeps, ManageServices, OneGrant, GrantedSoFar,
     NobodyDropped, Granting, Grant, Manage, At

\* Every shell keeps a job, whether several grants run at a time or not.
LEMMA JobStep == TypeOK /\ [Next]_vars => job' \in [Command -> Job]
<1> SUFFICES ASSUME TypeOK, [Next]_vars PROVE job' \in [Command -> Job]
  OBVIOUS
<1>a. job \in [Command -> Job]
  BY DEF TypeOK, Job, Scope
<1>b. repo \subseteq Service /\ role \subseteq Cluster
  BY DEF TypeOK
<1>c. reader \in [Service -> SUBSET (Cluster \cup {Stale})]
  BY DEF TypeOK
<1>1. ASSUME NEW c \in Command, CreateStart(c) PROVE job' \in [Command -> Job]
  BY <1>1, <1>a, <1>b, <1>c, NoJobType DEF CreateStart, Job, NoJob, Scope
<1>2. ASSUME NEW c \in Command, DeleteStart(c) PROVE job' \in [Command -> Job]
  BY <1>2, <1>a, <1>b, <1>c, NoJobType DEF DeleteStart, Job, NoJob, Scope
<1>3. ASSUME NEW c \in Command, CreateRepository(c) PROVE job' \in [Command -> Job]
  <2>1. CASE End(c)
    BY <2>1, <1>a, NoJobType DEF End
  <2>2. ASSUME NEW s \in job[c].todo, job' = [job EXCEPT ![c].todo = @ \ {s}]
        PROVE  job' \in [Command -> Job]
    BY <2>2, <1>a DEF Job
  <2> QED
    BY <1>3, <2>1, <2>2 DEF CreateRepository
<1>4. ASSUME NEW c \in Command, CreateDone(c) PROVE job' \in [Command -> Job]
  BY <1>4, <1>a, <1>b, <1>c, NoJobType DEF CreateDone, End
<1>5. ASSUME NEW c \in Command, BatchDeleteImage(c) PROVE job' \in [Command -> Job]
  <2>1. CASE End(c)
    BY <2>1, <1>a, NoJobType DEF End
  <2>2. ASSUME NEW s \in repo, job' = [job EXCEPT ![c].cmd = "remove", ![c].service = s]
        PROVE  job' \in [Command -> Job]
    <3>1. [job[c] EXCEPT !.cmd = "remove", !.service = s] \in Job
      BY <2>2, <1>a, <1>b DEF Job
    <3>2. job' = [job EXCEPT ![c] = [job[c] EXCEPT !.cmd = "remove", !.service = s]]
      BY <2>2, <1>a DEF Job
    <3> QED
      BY <3>1, <3>2, <1>a
  <2> QED
    BY <1>5, <2>1, <2>2 DEF BatchDeleteImage
<1>6. ASSUME NEW c \in Command, DeleteRepository(c) PROVE job' \in [Command -> Job]
  <2> DEFINE next == [job[c] EXCEPT !.cmd = "empty", !.todo = @ \ {job[c].service}]
  <2>1. CASE End(c)
    BY <2>1, <1>a, NoJobType DEF End
  <2>2. CASE Void(Cluster, [job EXCEPT ![c] = next])
    <3>1. next \in Job
      BY <1>a DEF Job
    <3>2. \A j \in Job : [j EXCEPT !.void = TRUE] \in Job
      BY DEF Job
    <3> HIDE DEF next
    <3>3. [job EXCEPT ![c] = next] \in [Command -> Job]
      BY <3>1, <1>a
    <3> QED
      BY <2>2, <3>2, <3>3 DEF Void
  <2> QED
    BY <1>6, <2>1, <2>2 DEF DeleteRepository
<1>7. ASSUME NEW c \in Command, DeleteDone(c) PROVE job' \in [Command -> Job]
  BY <1>7, <1>a, <1>b, <1>c, NoJobType DEF DeleteDone, End
<1>8. ASSUME NEW c \in Command, GetRepositoryPolicy(c) PROVE job' \in [Command -> Job]
  <2>1. reader[job[c].service] \subseteq Scope
    BY <1>a, <1>c DEF Job, Scope
  <2>2. CASE job' = [job EXCEPT ![c].cmd = "lookup", ![c].todo = reader[job[c].service]]
    <3>1. [job[c] EXCEPT !.cmd = "lookup", !.todo = reader[job[c].service]] \in Job
      BY <2>1, <1>a DEF Job
    <3>2. job' = [job EXCEPT ![c] = [job[c] EXCEPT !.cmd = "lookup", !.todo = reader[job[c].service]]]
      BY <2>2, <1>a DEF Job
    <3> QED
      BY <3>1, <3>2, <1>a
  <2>3. CASE job' = [job EXCEPT ![c].cmd = "lookup"]
    BY <2>3, <1>a DEF Job
  <2> QED
    BY <1>8, <2>2, <2>3 DEF GetRepositoryPolicy
<1>9. ASSUME NEW c \in Command, GetRole(c) PROVE job' \in [Command -> Job]
  <2>1. ASSUME NEW r \in job[c].todo,
               job' = [job EXCEPT ![c].todo = @ \ {r}, ![c].keep = @ \cup ({r} \cap role)]
        PROVE  job' \in [Command -> Job]
    <3> DEFINE next == [job[c] EXCEPT !.todo = @ \ {r}, !.keep = @ \cup ({r} \cap role)]
    <3>1. r \in Scope /\ job[c] \in Job
      BY <2>1, <1>a DEF Job
    <3>2. next \in Job
      BY <3>1, <1>b DEF Job, Scope
    <3>3. job' = [job EXCEPT ![c] = next]
      BY <2>1, <1>a DEF Job
    <3> QED
      BY <3>2, <3>3, <1>a
  <2>2. ASSUME NEW r \in job[c].todo, job' = [job EXCEPT ![c].todo = @ \ {r}]
        PROVE  job' \in [Command -> Job]
    BY <2>2, <1>a DEF Job
  <2> QED
    BY <1>9, <2>1, <2>2 DEF GetRole
<1>10. ASSUME NEW c \in Command, SetRepositoryPolicy(c) PROVE job' \in [Command -> Job]
  <2>1. CASE End(c)
    BY <2>1, <1>a, NoJobType DEF End
  <2>2. CASE /\ job[c].service < Services
             /\ job' = [job EXCEPT ![c].cmd = "read", ![c].service = job[c].service + 1, ![c].keep = {}]
    BY <2>2, <1>a, RegistryAssumption DEF Job, Service
  <2> QED
    BY <1>10, <2>1, <2>2 DEF SetRepositoryPolicy
<1>11. ASSUME NEW c \in Command, Crash(c) PROVE job' \in [Command -> Job]
  BY <1>11, <1>a, <1>b, <1>c, NoJobType DEF Crash, End
<1>12. ASSUME NEW c \in Command, NEW cl \in Cluster, GrantStart(c, cl) PROVE job' \in [Command -> Job]
  BY <1>12, <1>a, <1>b, <1>c, NoJobType DEF GrantStart, Job, NoJob
<1>13. CASE RoleMade
  BY <1>13, <1>a, <1>b, <1>c, NoJobType DEF RoleMade
<1>14. CASE RoleGone
  <2>1. \A j \in Job : [j EXCEPT !.void = TRUE] \in Job
    BY DEF Job
  <2> QED
    BY <1>14, <2>1, <1>a DEF RoleGone, Void
<1>15. CASE Push
  BY <1>15, <1>a, <1>b, <1>c, NoJobType DEF Push
<1>16. CASE UNCHANGED vars
  BY <1>16, <1>a, <1>b, <1>c DEF vars
<1> QED
  BY <1>1, <1>2, <1>3, <1>4, <1>5, <1>6, <1>7, <1>8, <1>9, <1>10, <1>11, <1>12, <1>13, <1>14,
     <1>15, <1>16 DEF Next, Proceed

\* Policies name roles that exist or are gone, and a repository that does not exist
\* has neither images nor a policy.
LEMMA WorldStep == TypeOK /\ ManageServices /\ [Next]_vars => World'
<1> SUFFICES ASSUME TypeOK, ManageServices, [Next]_vars PROVE World'
  OBVIOUS
<1> USE DEF World
<1>a. World
  BY DEF TypeOK, World
<1>b. job \in [Command -> Job] /\ ManageServices
  BY DEF TypeOK, Job, Scope
<1>1. ASSUME NEW c \in Command, CreateStart(c) PROVE World'
  BY <1>1, <1>a, <1>b DEF CreateStart
<1>2. ASSUME NEW c \in Command, DeleteStart(c) PROVE World'
  BY <1>2, <1>a, <1>b DEF DeleteStart
<1>3. ASSUME NEW c \in Command, CreateRepository(c) PROVE World'
  BY <1>3, <1>a, <1>b DEF CreateRepository, ManageServices, Manage, At
<1>4. ASSUME NEW c \in Command, CreateDone(c) PROVE World'
  BY <1>4, <1>a, <1>b DEF CreateDone
<1>5. ASSUME NEW c \in Command, BatchDeleteImage(c) PROVE World'
  <2> DEFINE s == Min(job[c].todo)
  <2> HIDE DEF s
  <2>1. CASE UNCHANGED images
    BY <1>5, <2>1, <1>a DEF BatchDeleteImage
  <2>2. CASE /\ s \in repo
             /\ images' = [images EXCEPT ![s] = @ - Min({@, Page})]
    <3>1. images[s] - Min({images[s], Page}) \in 0..Images
      BY <2>2, <1>a, MinOfTwo, RegistryAssumption
    <3>2. \A t \in Service \ repo : images'[t] = 0
      BY <2>2, <1>a
    <3> QED
      BY <1>5, <2>2, <3>1, <3>2, <1>a DEF BatchDeleteImage
  <2> QED
    BY <1>5, <2>1, <2>2 DEF BatchDeleteImage, s
<1>6. ASSUME NEW c \in Command, DeleteRepository(c) PROVE World'
  <2>1. deleting' \in BOOLEAN
    BY <1>6, <1>a DEF DeleteRepository
  <2>2. granted' \subseteq role
    BY <1>6, <1>a DEF DeleteRepository, Void
  <2>3. CASE UNCHANGED <<repo, reader>>
    BY <1>6, <2>1, <2>2, <2>3, <1>a DEF DeleteRepository
  <2>4. CASE /\ images[job[c].service] = 0
             /\ repo' = repo \ {job[c].service}
             /\ reader' = [reader EXCEPT ![job[c].service] = {}]
    BY <1>6, <2>1, <2>2, <2>4, <1>a DEF DeleteRepository
  <2> QED
    BY <1>6, <2>3, <2>4 DEF DeleteRepository
<1>7. ASSUME NEW c \in Command, DeleteDone(c) PROVE World'
  BY <1>7, <1>a, <1>b DEF DeleteDone
<1>8. ASSUME NEW c \in Command, GetRepositoryPolicy(c) PROVE World'
  BY <1>8, <1>a, <1>b, RegistryAssumption DEF GetRepositoryPolicy, Refused
<1>9. ASSUME NEW c \in Command, GetRole(c) PROVE World'
  BY <1>9, <1>a, <1>b, RegistryAssumption DEF GetRole, Refused
<1>10. ASSUME NEW c \in Command, SetRepositoryPolicy(c) PROVE World'
  <2>1. CASE UNCHANGED <<reader, granted, deleting>>
    BY <1>10, <2>1, <1>a DEF SetRepositoryPolicy
  <2> DEFINE readers == job[c].keep \cup {job[c].cl}
  <2>2. CASE /\ job[c].service \in repo /\ readers \subseteq role
             /\ reader' = [reader EXCEPT ![job[c].service] = readers]
    <3>1. reader' \in [Service -> SUBSET (role \cup {Stale})]
      BY <2>2, <1>a
    <3>2. granted' \subseteq role
      BY <1>10, <2>2, <1>a DEF SetRepositoryPolicy
    <3>3. \A s \in Service \ repo : reader'[s] = {}
      BY <2>2, <1>a
    <3>4. deleting' = deleting
      BY <1>10 DEF SetRepositoryPolicy
    <3> QED
      BY <1>10, <3>1, <3>2, <3>3, <3>4, <1>a DEF SetRepositoryPolicy
  <2> QED
    BY <1>10, <2>1, <2>2 DEF SetRepositoryPolicy
<1>11. ASSUME NEW c \in Command, Crash(c) PROVE World'
  <2>1. faults' \in 0..MaxFaults
    BY <1>11, <1>a, RegistryAssumption DEF Crash
  <2> QED
    BY <1>11, <2>1, <1>a DEF Crash
<1>12. ASSUME NEW c \in Command, NEW cl \in Cluster, GrantStart(c, cl) PROVE World'
  BY <1>12, <1>a, <1>b DEF GrantStart
<1>13. CASE RoleMade
  BY <1>13, <1>a, <1>b DEF RoleMade
<1>14. CASE RoleGone
  <2>1. PICK cl \in role :
             /\ role' = role \ {cl}
             /\ reader' = [s \in Service |-> IF cl \in reader[s] THEN (reader[s] \ {cl}) \cup {Stale}
                                              ELSE reader[s]]
             /\ granted' = granted \ {cl}
    BY <1>14 DEF RoleGone, Void
  <2>2. reader' \in [Service -> SUBSET (role' \cup {Stale})]
    BY <2>1, <1>a
  <2>3. \A s \in Service \ repo : reader'[s] = {}
    BY <2>1, <1>a
  <2> QED
    BY <1>14, <2>1, <2>2, <2>3, <1>a DEF RoleGone
<1>15. CASE Push
  <2>1. PICK s \in repo : images[s] < Images /\ images' = [images EXCEPT ![s] = @ + 1]
    BY <1>15 DEF Push
  <2>2. images' \in [Service -> 0..Images]
    BY <2>1, <1>a, RegistryAssumption
  <2>3. \A t \in Service \ repo : images'[t] = 0
    BY <2>1, <1>a
  <2> QED
    BY <1>15, <2>2, <2>3, <1>a DEF Push
<1>16. CASE UNCHANGED vars
  BY <1>16, <1>a, <1>b DEF vars
<1> QED
  BY <1>1, <1>2, <1>3, <1>4, <1>5, <1>6, <1>7, <1>8, <1>9, <1>10, <1>11, <1>12, <1>13, <1>14,
     <1>15, <1>16 DEF Next, Proceed

\* Every variable keeps its type.
LEMMA TypeStep == TypeOK /\ ManageServices /\ [Next]_vars => TypeOK'
<1> SUFFICES ASSUME TypeOK, ManageServices, [Next]_vars PROVE TypeOK'
  OBVIOUS
<1>1. World' /\ job' \in [Command -> Job]
  BY JobStep, WorldStep
<1> QED
  BY <1>1 DEF TypeOK, World, Job, Scope

\* The command goes on and all grants are void.
Voided(c) ==
    /\ granted' = granted \ Cluster
    /\ repo' = repo \ {job[c].service} /\ UNCHANGED role
    /\ reader' = [reader EXCEPT ![job[c].service] = {}]
    /\ job'[c].cmd = "empty" /\ job'[c].todo = job[c].todo \ {job[c].service}
    /\ \A d \in Command \ {c} :
           /\ job'[d].cmd = job[d].cmd /\ job'[d].cl = job[d].cl
           /\ job'[d].service = job[d].service
           /\ job'[d].todo = job[d].todo /\ job'[d].keep = job[d].keep
           /\ job[d].cl \in Cluster => job'[d].void
           /\ job[d].cl \notin Cluster => job'[d].void = job[d].void

\* A deleted repository makes all grants void.
LEMMA DeletedJobs ==
    ASSUME job \in [Command -> Job], NEW c \in Command, DeleteRepository(c)
    PROVE  \/ End(c) /\ UNCHANGED <<role, repo, reader, granted>>
           \/ Voided(c)
<1> DEFINE next == [job[c] EXCEPT !.cmd = "empty", !.todo = @ \ {job[c].service}]
<1>1. next \in Job /\ next.cmd = "empty" /\ next.todo = job[c].todo \ {job[c].service}
  BY DEF Job
<1>2. CASE Void(Cluster, [job EXCEPT ![c] = next])
  <2> HIDE DEF next
  <2> DEFINE all == [job EXCEPT ![c] = next]
  <2>1. all \in [Command -> Job] /\ Void(Cluster, all)
    BY <1>1, <1>2
  <2> HIDE DEF all
  <2>2. \A d \in Command :
            /\ job'[d].cmd = all[d].cmd /\ job'[d].cl = all[d].cl
            /\ job'[d].service = all[d].service
            /\ job'[d].todo = all[d].todo /\ job'[d].keep = all[d].keep
            /\ job'[d].void = IF job[d].cl \in Cluster THEN TRUE ELSE all[d].void
    BY <2>1 DEF Void, Job
  <2>3. granted' = granted \ Cluster
    BY <1>2 DEF Void
  <2>4. /\ job'[c].cmd = "empty" /\ job'[c].todo = job[c].todo \ {job[c].service}
        /\ \A d \in Command \ {c} :
               /\ job'[d].cmd = job[d].cmd /\ job'[d].cl = job[d].cl
               /\ job'[d].service = job[d].service
               /\ job'[d].todo = job[d].todo /\ job'[d].keep = job[d].keep
               /\ job[d].cl \in Cluster => job'[d].void
               /\ job[d].cl \notin Cluster => job'[d].void = job[d].void
    BY <2>2, <1>1 DEF all
  <2>5. CASE End(c) /\ UNCHANGED <<repo, reader, granted>>
    BY <2>5 DEF DeleteRepository
  <2>6. CASE repo' = repo \ {job[c].service} /\ reader' = [reader EXCEPT ![job[c].service] = {}]
    BY <2>3, <2>4, <2>6 DEF DeleteRepository, Voided
  <2> QED
    BY <2>5, <2>6 DEF DeleteRepository
<1> QED
  BY <1>2 DEF DeleteRepository

\* A command to create or delete takes its services from the registry.
LEMMA ManageStep == TypeOK /\ ManageServices /\ [Next]_vars => ManageServices'
<1> SUFFICES ASSUME TypeOK, ManageServices, [Next]_vars PROVE ManageServices'
  OBVIOUS
<1> USE DEF TypeOK, ManageServices, Manage, At, End, NoJob, Void, MayStart, Refused
<1>1. ASSUME NEW c \in Command, CreateStart(c) PROVE ManageServices'
  BY <1>1 DEF CreateStart
<1>2. ASSUME NEW c \in Command, DeleteStart(c) PROVE ManageServices'
  BY <1>2 DEF DeleteStart
<1>3. ASSUME NEW c \in Command, CreateRepository(c) PROVE ManageServices'
  BY <1>3 DEF CreateRepository
<1>4. ASSUME NEW c \in Command, CreateDone(c) PROVE ManageServices'
  BY <1>4 DEF CreateDone
<1>5. ASSUME NEW c \in Command, BatchDeleteImage(c) PROVE ManageServices'
  BY <1>5 DEF BatchDeleteImage
<1>6. ASSUME NEW c \in Command, DeleteRepository(c) PROVE ManageServices'
  <2>1. job \in [Command -> Job]
    BY DEF Job, Scope
  <2>2. CASE UNCHANGED <<role, repo, reader, granted>> /\ job' = [job EXCEPT ![c] = NoJob]
    BY <2>1, <2>2
  <2>3. CASE Voided(c)
    BY <1>6, <2>1, <2>3 DEF Voided, DeleteRepository
  <2> QED
    BY <1>6, <2>1, <2>2, <2>3, DeletedJobs
<1>7. ASSUME NEW c \in Command, DeleteDone(c) PROVE ManageServices'
  BY <1>7 DEF DeleteDone
<1>8. ASSUME NEW c \in Command, GetRepositoryPolicy(c) PROVE ManageServices'
  BY <1>8 DEF GetRepositoryPolicy
<1>9. ASSUME NEW c \in Command, GetRole(c) PROVE ManageServices'
  BY <1>9 DEF GetRole
<1>10. ASSUME NEW c \in Command, SetRepositoryPolicy(c) PROVE ManageServices'
  BY <1>10 DEF SetRepositoryPolicy
<1>11. ASSUME NEW c \in Command, Crash(c) PROVE ManageServices'
  BY <1>11 DEF Crash
<1>12. ASSUME NEW c \in Command, NEW cl \in Cluster, GrantStart(c, cl) PROVE ManageServices'
  BY <1>12 DEF GrantStart
<1>13. CASE RoleMade
  BY <1>13 DEF RoleMade
<1>14. CASE RoleGone
  BY <1>14 DEF RoleGone
<1>15. CASE Push
  BY <1>15 DEF Push
<1>16. CASE UNCHANGED vars
  BY <1>16 DEF vars
<1> QED
  BY <1>1, <1>2, <1>3, <1>4, <1>5, <1>6, <1>7, <1>8, <1>9, <1>10, <1>11, <1>12, <1>13, <1>14,
     <1>15, <1>16 DEF Next, Proceed

\* A grant waits for the one before it.
LEMMA OneGrantStep == ~Together /\ GrantIInv /\ [Next]_vars => OneGrant'
<1> SUFFICES ASSUME ~Together, GrantIInv, [Next]_vars PROVE OneGrant'
  OBVIOUS
<1> USE DEF GrantIInv, GrantInv, TypeOK, OneGrant, Granting, Grant, At, End, NoJob, Void,
      MayStart, Refused
<1>1. ASSUME NEW c \in Command, CreateStart(c) PROVE OneGrant'
  BY <1>1 DEF CreateStart
<1>2. ASSUME NEW c \in Command, DeleteStart(c) PROVE OneGrant'
  BY <1>2 DEF DeleteStart
<1>3. ASSUME NEW c \in Command, CreateRepository(c) PROVE OneGrant'
  BY <1>3 DEF CreateRepository
<1>4. ASSUME NEW c \in Command, CreateDone(c) PROVE OneGrant'
  BY <1>4 DEF CreateDone
<1>5. ASSUME NEW c \in Command, BatchDeleteImage(c) PROVE OneGrant'
  BY <1>5 DEF BatchDeleteImage
<1>6. ASSUME NEW c \in Command, DeleteRepository(c) PROVE OneGrant'
  <2>1. job \in [Command -> Job]
    BY DEF Job, Scope
  <2>2. CASE UNCHANGED <<role, repo, reader, granted>> /\ job' = [job EXCEPT ![c] = NoJob]
    BY <2>1, <2>2
  <2>3. CASE Voided(c)
    BY <1>6, <2>1, <2>3 DEF Voided, DeleteRepository
  <2> QED
    BY <1>6, <2>1, <2>2, <2>3, DeletedJobs
<1>7. ASSUME NEW c \in Command, DeleteDone(c) PROVE OneGrant'
  BY <1>7 DEF DeleteDone
<1>8. ASSUME NEW c \in Command, GetRepositoryPolicy(c) PROVE OneGrant'
  BY <1>8 DEF GetRepositoryPolicy
<1>9. ASSUME NEW c \in Command, GetRole(c) PROVE OneGrant'
  BY <1>9 DEF GetRole
<1>10. ASSUME NEW c \in Command, SetRepositoryPolicy(c) PROVE OneGrant'
  BY <1>10 DEF SetRepositoryPolicy
<1>11. ASSUME NEW c \in Command, Crash(c) PROVE OneGrant'
  BY <1>11 DEF Crash
<1>12. ASSUME NEW c \in Command, NEW cl \in Cluster, GrantStart(c, cl) PROVE OneGrant'
  BY <1>12 DEF GrantStart
<1>13. CASE RoleMade
  BY <1>13 DEF RoleMade
<1>14. CASE RoleGone
  BY <1>14 DEF RoleGone
<1>15. CASE Push
  BY <1>15 DEF Push
<1>16. CASE UNCHANGED vars
  BY <1>16 DEF vars
<1> QED
  BY <1>1, <1>2, <1>3, <1>4, <1>5, <1>6, <1>7, <1>8, <1>9, <1>10, <1>11, <1>12, <1>13, <1>14,
     <1>15, <1>16 DEF Next, Proceed

\* A grant under way is told when its role or a repository goes, and nobody writes a policy
\* beside it.
LEMMA GrantedSoFarStep == Refusable = {} /\ GrantIInv /\ [Next]_vars => GrantedSoFar'
<1> SUFFICES ASSUME Refusable = {}, GrantIInv, [Next]_vars PROVE GrantedSoFar'
  OBVIOUS
<1> USE DEF GrantIInv, GrantInv, TypeOK, OneGrant, GrantedSoFar, NobodyDropped, Granting, Grant,
      At, End, NoJob, Service, Void, MayStart, Refused
<1>1. ASSUME NEW c \in Command, CreateStart(c) PROVE GrantedSoFar'
  BY <1>1 DEF CreateStart
<1>2. ASSUME NEW c \in Command, DeleteStart(c) PROVE GrantedSoFar'
  BY <1>2 DEF DeleteStart
<1>3. ASSUME NEW c \in Command, CreateRepository(c) PROVE GrantedSoFar'
  <2>1. At(c, "create") /\ repo \subseteq repo' /\ UNCHANGED <<role, reader>>
    BY <1>3 DEF CreateRepository
  <2>2. ~(job'[c].cmd \in Grant) /\ \A d \in Command \ {c} : job'[d] = job[d]
    BY <1>3 DEF CreateRepository
  <2> QED
    BY <2>1, <2>2
<1>4. ASSUME NEW c \in Command, CreateDone(c) PROVE GrantedSoFar'
  BY <1>4 DEF CreateDone
<1>5. ASSUME NEW c \in Command, BatchDeleteImage(c) PROVE GrantedSoFar'
  BY <1>5 DEF BatchDeleteImage
<1>6. ASSUME NEW c \in Command, DeleteRepository(c) PROVE GrantedSoFar'
  <2>1. job \in [Command -> Job]
    BY DEF Job, Scope
  <2>2. CASE UNCHANGED <<role, repo, reader, granted>> /\ job' = [job EXCEPT ![c] = NoJob]
    BY <2>1, <2>2
  <2>3. CASE Voided(c)
    BY <1>6, <2>1, <2>3 DEF Voided, DeleteRepository
  <2> QED
    BY <1>6, <2>1, <2>2, <2>3, DeletedJobs
<1>7. ASSUME NEW c \in Command, DeleteDone(c) PROVE GrantedSoFar'
  BY <1>7 DEF DeleteDone
<1>8. ASSUME NEW c \in Command, GetRepositoryPolicy(c) PROVE GrantedSoFar'
  <2>1. CASE job' = [job EXCEPT ![c].cmd = "lookup", ![c].todo = reader[job[c].service]]
    BY <1>8, <2>1 DEF GetRepositoryPolicy
  <2>2. CASE job' = [job EXCEPT ![c].cmd = "lookup"]
    BY <1>8, <2>2 DEF GetRepositoryPolicy
  <2> QED
    BY <1>8, <2>1, <2>2 DEF GetRepositoryPolicy
<1>9. ASSUME NEW c \in Command, GetRole(c) PROVE GrantedSoFar'
  BY <1>9 DEF GetRole
<1>10. ASSUME NEW c \in Command, SetRepositoryPolicy(c) PROVE GrantedSoFar'
  BY <1>10 DEF SetRepositoryPolicy
<1>11. ASSUME NEW c \in Command, Crash(c) PROVE GrantedSoFar'
  BY <1>11 DEF Crash
<1>12. ASSUME NEW c \in Command, NEW cl \in Cluster, GrantStart(c, cl) PROVE GrantedSoFar'
  BY <1>12 DEF GrantStart
<1>13. CASE RoleMade
  BY <1>13 DEF RoleMade
<1>14. CASE RoleGone
  BY <1>14 DEF RoleGone
<1>15. CASE Push
  BY <1>15 DEF Push
<1>16. CASE UNCHANGED vars
  BY <1>16 DEF vars
<1> QED
  BY <1>1, <1>2, <1>3, <1>4, <1>5, <1>6, <1>7, <1>8, <1>9, <1>10, <1>11, <1>12, <1>13, <1>14,
     <1>15, <1>16 DEF Next, Proceed

\* What is read is taken over role by role.
LEMMA NobodyDroppedStep == Refusable = {} /\ GrantIInv /\ [Next]_vars => NobodyDropped'
<1> SUFFICES ASSUME Refusable = {}, GrantIInv, [Next]_vars PROVE NobodyDropped'
  OBVIOUS
<1> USE DEF GrantIInv, GrantInv, TypeOK, OneGrant, NobodyDropped, Granting, Grant, At, End,
      NoJob, Service, Void, MayStart, Refused
<1>1. ASSUME NEW c \in Command, CreateStart(c) PROVE NobodyDropped'
  BY <1>1 DEF CreateStart
<1>2. ASSUME NEW c \in Command, DeleteStart(c) PROVE NobodyDropped'
  BY <1>2 DEF DeleteStart
<1>3. ASSUME NEW c \in Command, CreateRepository(c) PROVE NobodyDropped'
  BY <1>3 DEF CreateRepository
<1>4. ASSUME NEW c \in Command, CreateDone(c) PROVE NobodyDropped'
  BY <1>4 DEF CreateDone
<1>5. ASSUME NEW c \in Command, BatchDeleteImage(c) PROVE NobodyDropped'
  BY <1>5 DEF BatchDeleteImage
<1>6. ASSUME NEW c \in Command, DeleteRepository(c) PROVE NobodyDropped'
  <2>1. job \in [Command -> Job]
    BY DEF Job, Scope
  <2>2. CASE UNCHANGED <<role, repo, reader, granted>> /\ job' = [job EXCEPT ![c] = NoJob]
    BY <2>1, <2>2
  <2>3. CASE Voided(c)
    BY <1>6, <2>1, <2>3 DEF Voided, DeleteRepository
  <2> QED
    BY <1>6, <2>1, <2>2, <2>3, DeletedJobs
<1>7. ASSUME NEW c \in Command, DeleteDone(c) PROVE NobodyDropped'
  BY <1>7 DEF DeleteDone
<1>8. ASSUME NEW c \in Command, GetRepositoryPolicy(c) PROVE NobodyDropped'
  BY <1>8 DEF GetRepositoryPolicy
<1>9. ASSUME NEW c \in Command, GetRole(c) PROVE NobodyDropped'
  <2>1. PICK r \in job[c].todo :
            job' = [job EXCEPT ![c].todo = @ \ {r}, ![c].keep = @ \cup ({r} \cap role)]
    BY <1>9 DEF GetRole
  <2>2. /\ job'[c].todo = job[c].todo \ {r} /\ job'[c].keep = job[c].keep \cup ({r} \cap role)
        /\ job'[c].service = job[c].service
        /\ \A d \in Command \ {c} : job'[d] = job[d]
    BY <2>1
  <2>3. At(c, "lookup") /\ UNCHANGED <<role, reader>>
    BY <1>9 DEF GetRole
  <2> QED
    BY <2>2, <2>3
<1>10. ASSUME NEW c \in Command, SetRepositoryPolicy(c) PROVE NobodyDropped'
  BY <1>10 DEF SetRepositoryPolicy
<1>11. ASSUME NEW c \in Command, Crash(c) PROVE NobodyDropped'
  BY <1>11 DEF Crash
<1>12. ASSUME NEW c \in Command, NEW cl \in Cluster, GrantStart(c, cl) PROVE NobodyDropped'
  BY <1>12 DEF GrantStart
<1>13. CASE RoleMade
  BY <1>13, RegistryAssumption DEF RoleMade
<1>14. CASE RoleGone
  BY <1>14, RegistryAssumption DEF RoleGone
<1>15. CASE Push
  BY <1>15 DEF Push
<1>16. CASE UNCHANGED vars
  BY <1>16 DEF vars
<1> QED
  BY <1>1, <1>2, <1>3, <1>4, <1>5, <1>6, <1>7, <1>8, <1>9, <1>10, <1>11, <1>12, <1>13, <1>14,
     <1>15, <1>16 DEF Next, Proceed

\* A policy that is written names whom it named before.
LEMMA GrantedKeepsStep == Refusable = {} /\ GrantIInv /\ [Next]_vars => GrantedKeeps'
<1> SUFFICES ASSUME Refusable = {}, GrantIInv, [Next]_vars PROVE GrantedKeeps'
  OBVIOUS
<1> USE DEF GrantIInv, GrantInv, TypeOK, OneGrant, GrantedSoFar, GrantedKeeps, NobodyDropped,
      Granting, Grant, At, End, NoJob, Service, Void, MayStart, Refused
<1>1. ASSUME NEW c \in Command, CreateStart(c) PROVE GrantedKeeps'
  BY <1>1 DEF CreateStart
<1>2. ASSUME NEW c \in Command, DeleteStart(c) PROVE GrantedKeeps'
  BY <1>2 DEF DeleteStart
<1>3. ASSUME NEW c \in Command, CreateRepository(c) PROVE GrantedKeeps'
  BY <1>3 DEF CreateRepository
<1>4. ASSUME NEW c \in Command, CreateDone(c) PROVE GrantedKeeps'
  BY <1>4 DEF CreateDone
<1>5. ASSUME NEW c \in Command, BatchDeleteImage(c) PROVE GrantedKeeps'
  BY <1>5 DEF BatchDeleteImage
<1>6. ASSUME NEW c \in Command, DeleteRepository(c) PROVE GrantedKeeps'
  <2>1. job \in [Command -> Job]
    BY DEF Job, Scope
  <2>2. CASE UNCHANGED <<role, repo, reader, granted>> /\ job' = [job EXCEPT ![c] = NoJob]
    BY <2>1, <2>2
  <2>3. CASE Voided(c)
    BY <1>6, <2>1, <2>3 DEF Voided, DeleteRepository
  <2> QED
    BY <1>6, <2>1, <2>2, <2>3, DeletedJobs
<1>7. ASSUME NEW c \in Command, DeleteDone(c) PROVE GrantedKeeps'
  BY <1>7 DEF DeleteDone
<1>8. ASSUME NEW c \in Command, GetRepositoryPolicy(c) PROVE GrantedKeeps'
  BY <1>8 DEF GetRepositoryPolicy
<1>9. ASSUME NEW c \in Command, GetRole(c) PROVE GrantedKeeps'
  BY <1>9 DEF GetRole
<1>10. ASSUME NEW c \in Command, SetRepositoryPolicy(c) PROVE GrantedKeeps'
  <2> DEFINE s == job[c].service
             readers == job[c].keep \cup {job[c].cl}
  <2>1. CASE UNCHANGED <<reader, granted>>
    BY <1>10, <2>1 DEF SetRepositoryPolicy
  <2>2. CASE s \in repo /\ reader' = [reader EXCEPT ![s] = readers]
    <3>1. \A cl \in granted : \A t \in Service : t \in repo /\ cl \in reader'[t]
      BY <1>10, <2>2 DEF SetRepositoryPolicy
    <3>2. CASE granted' = granted
      BY <1>10, <3>1, <3>2 DEF SetRepositoryPolicy
    <3>3. CASE ~(s < Services) /\ ~job[c].void /\ granted' = granted \cup {job[c].cl}
      <4>1. \A t \in Service : t \in repo /\ job[c].cl \in reader'[t]
        BY <1>10, <2>2, <3>3, RegistryAssumption DEF SetRepositoryPolicy
      <4> QED
        BY <1>10, <3>1, <3>3, <4>1 DEF SetRepositoryPolicy
    <3> QED
      BY <1>10, <2>2, <3>2, <3>3 DEF SetRepositoryPolicy
  <2> QED
    BY <1>10, <2>1, <2>2 DEF SetRepositoryPolicy
<1>11. ASSUME NEW c \in Command, Crash(c) PROVE GrantedKeeps'
  BY <1>11 DEF Crash
<1>12. ASSUME NEW c \in Command, NEW cl \in Cluster, GrantStart(c, cl) PROVE GrantedKeeps'
  BY <1>12 DEF GrantStart
<1>13. CASE RoleMade
  BY <1>13 DEF RoleMade
<1>14. CASE RoleGone
  BY <1>14 DEF RoleGone
<1>15. CASE Push
  BY <1>15 DEF Push
<1>16. CASE UNCHANGED vars
  BY <1>16 DEF vars
<1> QED
  BY <1>1, <1>2, <1>3, <1>4, <1>5, <1>6, <1>7, <1>8, <1>9, <1>10, <1>11, <1>12, <1>13, <1>14,
     <1>15, <1>16 DEF Next, Proceed

-------------------------------------------------------------------------------

\* Every run of the commands keeps the invariant.
LEMMA GrantInvariant ==
    ASSUME ~Together, Refusable = {}
    PROVE  Spec => []GrantIInv
<1>1. Init => GrantIInv
  BY GrantInit
<1>2. GrantIInv /\ [Next]_vars => GrantIInv'
  BY TypeStep, ManageStep, OneGrantStep, GrantedSoFarStep, NobodyDroppedStep, GrantedKeepsStep
     DEF GrantIInv, GrantInv
<1> QED
  BY <1>1, <1>2, PTL DEF Spec

\* A cluster that was granted can read every repository until its role or a repository is
\* deleted: the grants that follow keep it in the policies, although each of them reads a
\* policy, looks the roles up one by one and writes it whole, while clusters come and go and
\* registries are created and deleted, for any number of shells, clusters and services.
THEOREM GrantedClustersKeepAccess ==
    ASSUME ~Together, Refusable = {}
    PROVE  Spec => []GrantInv
<1>1. GrantIInv => GrantInv
  BY DEF GrantIInv
<1> QED
  BY <1>1, GrantInvariant, PTL

\* Whatever runs together and whichever calls are refused, the variables keep their types:
\* policies name roles that exist or are gone, and only repositories that exist have images.
THEOREM RegistryTypes == Spec => [](TypeOK /\ ManageServices)
<1>1. Init => TypeOK /\ ManageServices
  BY GrantInit DEF GrantIInv, GrantInv
<1>2. TypeOK /\ ManageServices /\ [Next]_vars => (TypeOK /\ ManageServices)'
  BY TypeStep, ManageStep
<1> QED
  BY <1>1, <1>2, PTL DEF Spec
===============================================================================
