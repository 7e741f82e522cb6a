---------------------------- MODULE RegistryAccess ----------------------------
(***************************************************************************)
(* sye aws registry-create, registry-grant-permission and registry-delete: *)
(* a container registry at ECR has one repository for each service, which  *)
(* several clusters may read from.  The policy of a repository names their *)
(* IAM roles; a grant reads each policy, adds the role of one cluster and  *)
(* writes it back.                                                         *)
(*                                                                         *)
(* ECR and IAM are external.  A policy names a role that has been deleted  *)
(* by an id, which no later role has, and ECR refuses to set a policy that *)
(* names it.  Roles come and go with cluster-create and cluster-delete     *)
(* (module ClusterIam), images with sye registry add-release.              *)
(***************************************************************************)
EXTENDS Integers, FiniteSetsExt

CONSTANTS
    Command,    \* shells in which commands are run
    Cluster,    \* clusters
    Services,   \* the number of services
    Images,     \* bound: the number of images in a repository
    Page,       \* how many images listImages returns
    Refusable,  \* the calls of a grant that may fail although they are valid
    Together,   \* TRUE: two grants may run at a time, or two commands that create or delete
    MaxFaults,  \* bound: commands that die and calls that are refused
    None, Stale

Service == 1..Services

ASSUME RegistryAssumption ==
    /\ Services \in Nat \ {0}
    /\ Page \in Nat \ {0}
    /\ Images \in Nat
    /\ Refusable \subseteq {"getRepositoryPolicy", "getRole"}
    /\ Together \in BOOLEAN
    /\ MaxFaults \in Nat
    /\ None \notin Cluster /\ Stale \notin Cluster

VARIABLES
    role,     \* the clusters that exist, with a role for their machines
    repo,     \* the services that have a repository
    images,   \* how many images there are in each
    reader,   \* whom its policy names, Stale for roles that are gone; {} without a policy
    granted,  \* history: clusters whose last grant still stands, as far as one can tell
    deleting, \* the operator wants the registry deleted
    job,      \* what each shell is doing
    faults

vars == <<role, repo, images, reader, granted, deleting, job, faults>>

NoJob == [cmd |-> "none", cl |-> None, void |-> FALSE, service |-> 1, todo |-> {}, keep |-> {}]

TypeOK ==
    /\ role \subseteq Cluster
    /\ repo \subseteq Service
    /\ images \in [Service -> 0..Images]
    /\ reader \in [Service -> SUBSET (role \cup {Stale})]
    /\ \A s \in Service \ repo : images[s] = 0 /\ reader[s] = {}
    /\ granted \subseteq role
    /\ deleting \in BOOLEAN
    /\ job \in [Command ->
           [cmd : {"none", "create", "empty", "remove", "read", "lookup"},
            cl : Cluster \cup {None}, void : BOOLEAN, service : Service,
            todo : SUBSET (Service \cup Cluster \cup {Stale}),
            keep : SUBSET (Cluster \cup {Stale})]]
    /\ faults \in 0..MaxFaults

Init ==
    /\ role = {}
    /\ repo = {}
    /\ images = [s \in Service |-> 0]
    /\ reader = [s \in Service |-> {}]
    /\ granted = {}
    /\ deleting = FALSE
    /\ job = [c \in Command |-> NoJob]
    /\ faults = 0

-------------------------------------------------------------------------------

At(c, cmd) == job[c].cmd = cmd

\* The command ends, after its last call or because a call failed.
End(c) == job' = [job EXCEPT ![c] = NoJob]

Grant == {"read", "lookup"}
Manage == {"create", "empty", "remove"}

MayStart(c, kind) == At(c, "none") /\ (Together \/ \A d \in Command : job[d].cmd \notin kind)

\* What has been granted so far comes to nothing, and so do the grants under way.
Void(clusters, next) ==
    /\ granted' = granted \ clusters
    /\ job' = [d \in Command |-> IF job[d].cl \in clusters THEN [next[d] EXCEPT !.void = TRUE]
                                 ELSE next[d]]

Refused(call) == call \in Refusable /\ faults < MaxFaults /\ faults' = faults + 1

-------------------------------------------------------------------------------
(* createRegistry *)

\* All repositories are asked for at the same time.
CreateStart(c) ==
    /\ MayStart(c, Manage) /\ ~deleting
    /\ job' = [job EXCEPT ![c] = [NoJob EXCEPT !.cmd = "create", !.todo = Service]]
    /\ UNCHANGED <<role, repo, images, reader, granted, deleting, faults>>

\* Promise.all: the first that exists ends the command.
CreateRepository(c) ==
    /\ At(c, "create")
    /\ \E s \in job[c].todo :
        \/ s \in repo /\ End(c) /\ UNCHANGED repo
        \/ /\ s \notin repo
           /\ repo' = repo \cup {s}
           /\ job' = [job EXCEPT ![c].todo = @ \ {s}]
    /\ UNCHANGED <<role, images, reader, granted, deleting, faults>>

CreateDone(c) ==
    /\ At(c, "create") /\ job[c].todo = {}
    /\ End(c)
    /\ UNCHANGED <<role, repo, images, reader, granted, deleting, faults>>

-------------------------------------------------------------------------------
(* deleteRegistry: one repository after the other. *)

\* showRegistry lists them, and fails when there is none.
DeleteStart(c) ==
    /\ MayStart(c, Manage) /\ repo # {}
    /\ job' = [job EXCEPT ![c] = [NoJob EXCEPT !.cmd = "empty", !.todo = repo]]
    /\ deleting' = TRUE
    /\ UNCHANGED <<role, repo, images, reader, granted, faults>>

\* Mutant of BatchDeleteImage: the images are left to ECR to delete.
BatchDeleteImageNot(c) ==
    /\ At(c, "empty")
    /\ job[c].todo # {}
    /\ LET s == Min(job[c].todo) IN
        \/ s \notin repo /\ End(c)
        \/ s \in repo /\ job' = [job EXCEPT ![c].cmd = "remove", ![c].service = s]
    /\ UNCHANGED <<role, repo, images, reader, granted, deleting, faults>>

\* listImages returns one page, which is deleted.
BatchDeleteImage(c) ==
    /\ At(c, "empty")
    /\ job[c].todo # {}
    /\ LET s == Min(job[c].todo) IN
        \/ s \notin repo /\ End(c) /\ UNCHANGED images
        \/ /\ s \in repo
           /\ images' = [images EXCEPT ![s] = @ - Min({@, Page})]
           /\ job' = [job EXCEPT ![c].cmd = "remove", ![c].service = s]
    /\ UNCHANGED <<role, repo, reader, granted, deleting, faults>>

\* A repository with images is not deleted.
DeleteRepository(c) ==
    /\ At(c, "remove")
    /\ LET s == job[c].service
           next == [job[c] EXCEPT !.cmd = "empty", !.todo = @ \ {s}]
       IN  \/ /\ s \notin repo \/ images[s] # 0
              /\ End(c)
              /\ UNCHANGED <<repo, reader, granted, deleting>>
           \/ /\ s \in repo /\ images[s] = 0
              /\ repo' = repo \ {s}
              /\ deleting' = (repo # {s})
              /\ reader' = [reader EXCEPT ![s] = {}]
              /\ Void(Cluster, [job EXCEPT ![c] = next])
    /\ UNCHANGED <<role, images, faults>>

DeleteDone(c) ==
    /\ At(c, "empty") /\ job[c].todo = {}
    /\ End(c)
    /\ UNCHANGED <<role, repo, images, reader, granted, deleting, faults>>

-------------------------------------------------------------------------------
(* grantPermissionRegistry: one service after the other. *)

\* The role of the cluster is taken from its instance profile.
GrantStart(c, cl) ==
    /\ MayStart(c, Grant) /\ cl \in role
    /\ job' = [job EXCEPT ![c] = [NoJob EXCEPT !.cmd = "read", !.cl = cl]]
    /\ UNCHANGED <<role, repo, images, reader, granted, deleting, faults>>

\* Mutant of GetRepositoryPolicy: the policy is not read but replaced.
GetNoRepositoryPolicy(c) ==
    /\ At(c, "read")
    /\ job' = [job EXCEPT ![c].cmd = "lookup"]
    /\ UNCHANGED <<role, repo, images, reader, granted, deleting, faults>>

\* Any error of getRepositoryPolicy is taken for "No policy is set".
GetRepositoryPolicy(c) ==
    /\ At(c, "read")
    /\ \/ job' = [job EXCEPT ![c].cmd = "lookup", ![c].todo = reader[job[c].service]] /\ UNCHANGED faults
       \/ job' = [job EXCEPT ![c].cmd = "lookup"] /\ Refused("getRepositoryPolicy")
    /\ UNCHANGED <<role, repo, images, reader, granted, deleting>>

\* Mutant of GetRole: whatever the policy names is kept.
GetRoleAlways(c) ==
    /\ At(c, "lookup")
    /\ \E r \in job[c].todo :
           job' = [job EXCEPT ![c].todo = @ \ {r}, ![c].keep = @ \cup {r}]
    /\ UNCHANGED <<role, repo, images, reader, granted, deleting, faults>>

\* A role that is not found is dropped, and so is one for which the call is refused.
GetRole(c) ==
    /\ At(c, "lookup")
    /\ \E r \in job[c].todo :
        \/ job' = [job EXCEPT ![c].todo = @ \ {r}, ![c].keep = @ \cup ({r} \cap role)] /\ UNCHANGED faults
        \/ job' = [job EXCEPT ![c].todo = @ \ {r}] /\ Refused("getRole")
    /\ UNCHANGED <<role, repo, images, reader, granted, deleting>>

\* The cluster itself is added to what was found.
SetRepositoryPolicy(c) ==
    /\ At(c, "lookup") /\ job[c].todo = {}
    /\ LET s == job[c].service
           readers == job[c].keep \cup {job[c].cl}
       IN  \/ /\ s \notin repo \/ ~(readers \subseteq role)
              /\ End(c)
              /\ UNCHANGED <<reader, granted, deleting>>
           \/ /\ s \in repo /\ readers \subseteq role
              /\ reader' = [reader EXCEPT ![s] = readers]
              /\ IF s < Services
                 THEN /\ job' = [job EXCEPT ![c].cmd = "read", ![c].service = s + 1, ![c].keep = {}]
                      /\ UNCHANGED granted
                 ELSE /\ granted' = granted \cup (IF job[c].void THEN {} ELSE {job[c].cl})
                      /\ End(c)
    /\ UNCHANGED <<role, repo, images, deleting, faults>>

-------------------------------------------------------------------------------
(* The rest of the world. *)

\* cluster-create makes the role of a cluster.
RoleMade ==
    /\ \E cl \in Cluster \ role : role' = role \cup {cl}
    /\ UNCHANGED <<repo, images, reader, granted, deleting, job, faults>>

\* cluster-delete removes it; what shells have read of policies still names it.
RoleGone ==
    /\ \E cl \in role :
        /\ role' = role \ {cl}
        /\ reader' = [s \in Service |-> IF cl \in reader[s] THEN (reader[s] \ {cl}) \cup {Stale}
                                        ELSE reader[s]]
        /\ Void({cl}, job)
    /\ UNCHANGED <<repo, images, deleting, faults>>

\* sye registry add-release pushes an image.
Push ==
    /\ \E s \in repo : images[s] < Images /\ images' = [images EXCEPT ![s] = @ + 1]
    /\ UNCHANGED <<role, repo, reader, granted, deleting, job, faults>>

Crash(c) ==
    /\ ~At(c, "none")
    /\ faults < MaxFaults
    /\ faults' = faults + 1
    /\ End(c)
    /\ UNCHANGED <<role, repo, images, reader, granted, deleting>>

Proceed(c) ==
    \/ CreateRepository(c) \/ CreateDone(c)
    \/ BatchDeleteImage(c) \/ DeleteRepository(c) \/ DeleteDone(c)
    \/ GetRepositoryPolicy(c) \/ GetRole(c) \/ SetRepositoryPolicy(c)

Next ==
    \/ \E c \in Command : CreateStart(c) \/ DeleteStart(c) \/ Proceed(c) \/ Crash(c)
    \/ \E c \in Command, cl \in Cluster : GrantStart(c, cl)
    \/ RoleMade \/ RoleGone \/ Push

Spec == Init /\ [][Next]_vars

\* Commands that have begun go on; the operator repeats a registry-delete that left
\* something, and a grant that came to nothing.
Fairness ==
    /\ \A c \in Command : WF_vars(Proceed(c))
    /\ SF_vars(\E c \in Command : deleting /\ DeleteStart(c))
    /\ \A cl \in Cluster : SF_vars(\E c \in Command : cl \notin granted /\ GrantStart(c, cl))

FairSpec == Spec /\ Fairness

-------------------------------------------------------------------------------
(* Properties. *)

\* "It can be shared by several sye clusters": a cluster that was granted keeps its
\* permission to all repositories until its role or a repository is deleted, whatever
\* other clusters are granted, created or deleted meanwhile.
GrantedKeeps == \A cl \in granted : \A s \in Service : s \in repo /\ cl \in reader[s]

\* The same, with the types of all variables.
GrantInv == TypeOK /\ GrantedKeeps

\* A registry-delete that is repeated deletes every repository in the end, however
\* many pages of images there are, unless images are pushed without end.
DeleteFinishes == <>[]deleting => []<><<Push>>_vars

\* A grant that is repeated succeeds in the end when the clusters and the repositories
\* are there, although the policies may name roles that are gone.
GrantFinishes == <>[](role = Cluster /\ repo = Service) => <>[](granted = Cluster)
================================================================================
