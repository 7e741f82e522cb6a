------------------------------ MODULE ClusterIam ------------------------------
(***************************************************************************)
(* sye aws cluster-create and cluster-delete: the bucket of a cluster and  *)
(* its two IAM roles, each with a policy and an instance profile.  Both    *)
(* commands work on the roles in two parallel chains of calls.  Creating   *)
(* tolerates nothing that exists; deleting takes any error for "not there".*)
(*                                                                         *)
(* IAM is external: it refuses to create what exists, and to delete what   *)
(* is still in use.  The bucket is never deleted.                          *)
(***************************************************************************)
EXTENDS Naturals

CONSTANTS
    Shell,      \* shells in which commands are run
    Kind,       \* the roles: that of scaling machines, and that of all others
    MaxFaults   \* bound: commands that die and calls that are refused

ASSUME IamAssumption == MaxFaults \in Nat

VARIABLES
    bucket,    \* whether the bucket is there, with all that belongs in it
    role,      \* the roles that exist
    policy,    \* the policies that exist
    attached,  \* the roles that have their policy attached
    profile,   \* the instance profiles that exist
    member,    \* the roles that are in their profile
    plan,      \* what the operator is about with the cluster
    cmd,       \* what each shell is doing
    at,        \* the next step of each of its chains
    refused,   \* history: whether a call of it was refused
    faults

iamVars == <<role, policy, attached, profile, member>>
clusterVars == <<bucket, iamVars, plan, cmd, at, refused, faults>>

CreateChain == {"role", "policy", "attach", "profile", "member"}

\* Each step with the one that follows when its call is refused, which is only logged.
AfterRefusal == [unmember |-> "unprofile", unprofile |-> "list", list |-> "unrole",
                 detach |-> "unpolicy", unpolicy |-> "unrole", unrole |-> "done"]

DeleteChain == DOMAIN AfterRefusal

ClusterTypeOK ==
    /\ bucket \in BOOLEAN
    /\ role \subseteq Kind /\ policy \subseteq Kind /\ profile \subseteq Kind
    /\ attached \subseteq role \cap policy
    /\ member \subseteq role \cap profile
    /\ plan \in {"absent", "create", "cleanup", "up", "delete"}
    /\ cmd \in [Shell -> {"none", "bucket", "create", "delete"}]
    /\ at \in [Shell -> [Kind -> CreateChain \cup DeleteChain \cup {"done"}]]
    /\ refused \in [Shell -> BOOLEAN]
    /\ faults \in 0..MaxFaults

ClusterInit ==
    /\ bucket = FALSE
    /\ role = {} /\ policy = {} /\ attached = {} /\ profile = {} /\ member = {}
    /\ plan = "absent"
    /\ cmd = [c \in Shell |-> "none"]
    /\ at = [c \in Shell |-> [k \in Kind |-> "done"]]
    /\ refused = [c \in Shell |-> FALSE]
    /\ faults = 0

-------------------------------------------------------------------------------

\* Both chains of a command begin.
Fork(c, command, step) ==
    /\ cmd' = [cmd EXCEPT ![c] = command]
    /\ at' = [at EXCEPT ![c] = [k \in Kind |-> step]]

\* Both chains are through: Promise.all.
Joined(c) == \A k \in Kind : at[c][k] = "done"

AtStep(c, k, command, step) == cmd[c] = command /\ at[c][k] = step

GotoCall(c, k, step) == at' = [at EXCEPT ![c][k] = step] /\ UNCHANGED cmd

\* The command ends.
EndShell(c) ==
    /\ cmd' = [cmd EXCEPT ![c] = "none"]
    /\ at' = [at EXCEPT ![c] = [k \in Kind |-> "done"]]

\* A command that creates ends because a call failed, and with it its other chain:
\* the operator has to clean up before the next attempt.
Fail(c) ==
    /\ EndShell(c)
    /\ plan' = IF cmd[c] \in {"bucket", "create"} THEN "cleanup" ELSE plan

ClusterCreating == \E c \in Shell : cmd[c] \in {"bucket", "create"}
ClusterDeleting == \E c \in Shell : cmd[c] = "delete"

-------------------------------------------------------------------------------
(* createCluster *)

\* The operator creates a cluster with one command at a time.
ClusterCreateStart(c) ==
    /\ cmd[c] = "none" /\ ~ClusterCreating /\ ~ClusterDeleting
    /\ plan \in {"absent", "create"}
    /\ plan' = "create"
    /\ cmd' = [cmd EXCEPT ![c] = "bucket"]
    /\ UNCHANGED <<bucket, iamVars, at, refused, faults>>

\* createBucket: "cluster-create will reuse the same bucket if it already exists".
CreateBucket(c) ==
    /\ cmd[c] = "bucket"
    /\ bucket' = TRUE
    /\ Fork(c, "create", "role")
    /\ UNCHANGED <<iamVars, plan, refused, faults>>

CreateRole(c, k) ==
    /\ AtStep(c, k, "create", "role")
    /\ \/ k \notin role /\ role' = role \cup {k} /\ GotoCall(c, k, "policy") /\ UNCHANGED plan
       \/ k \in role /\ Fail(c) /\ UNCHANGED role
    /\ UNCHANGED <<bucket, policy, attached, profile, member, refused, faults>>

CreatePolicy(c, k) ==
    /\ AtStep(c, k, "create", "policy")
    /\ \/ k \notin policy /\ policy' = policy \cup {k} /\ GotoCall(c, k, "attach") /\ UNCHANGED plan
       \/ k \in policy /\ Fail(c) /\ UNCHANGED policy
    /\ UNCHANGED <<bucket, role, attached, profile, member, refused, faults>>

AttachRolePolicy(c, k) ==
    /\ AtStep(c, k, "create", "attach")
    /\ attached' = attached \cup {k}
    /\ GotoCall(c, k, "profile")
    /\ UNCHANGED <<bucket, role, policy, profile, member, plan, refused, faults>>

CreateInstanceProfile(c, k) ==
    /\ AtStep(c, k, "create", "profile")
    /\ \/ /\ k \notin profile /\ profile' = profile \cup {k}
          /\ GotoCall(c, k, "member") /\ UNCHANGED plan
       \/ k \in profile /\ Fail(c) /\ UNCHANGED profile
    /\ UNCHANGED <<bucket, role, policy, attached, member, refused, faults>>

AddRoleToInstanceProfile(c, k) ==
    /\ AtStep(c, k, "create", "member")
    /\ member' = member \cup {k}
    /\ GotoCall(c, k, "done")
    /\ UNCHANGED <<bucket, role, policy, attached, profile, plan, refused, faults>>

\* Mutant of ClusterCreateDone: the first chain that is through ends the command.
ClusterCreateDoneAtFirst(c) ==
    /\ cmd[c] = "create" /\ \E k \in Kind : at[c][k] = "done"
    /\ plan' = "up"
    /\ EndShell(c)
    /\ UNCHANGED <<bucket, iamVars, refused, faults>>

ClusterCreateDone(c) ==
    /\ cmd[c] = "create" /\ Joined(c)
    /\ plan' = "up"
    /\ EndShell(c)
    /\ UNCHANGED <<bucket, iamVars, refused, faults>>

-------------------------------------------------------------------------------
(* deleteCluster *)

\* The operator deletes a cluster that is up, or what a failed command has left.
ClusterDeleteStart(c) ==
    /\ cmd[c] = "none" /\ ~ClusterCreating
    /\ plan \in {"up", "cleanup", "delete"}
    /\ plan' = IF plan = "up" THEN "delete" ELSE plan
    /\ Fork(c, "delete", "unmember")
    /\ refused' = [refused EXCEPT ![c] = FALSE]
    /\ UNCHANGED <<bucket, iamVars, faults>>

RemoveRoleFromInstanceProfile(c, k) ==
    /\ AtStep(c, k, "delete", "unmember")
    /\ member' = member \ {k}
    /\ GotoCall(c, k, "unprofile")
    /\ UNCHANGED <<bucket, role, policy, attached, profile, plan, refused, faults>>

\* A profile with a role in it is not deleted.
DeleteInstanceProfile(c, k) ==
    /\ AtStep(c, k, "delete", "unprofile")
    /\ profile' = profile \ ({k} \ member)
    /\ GotoCall(c, k, "list")
    /\ UNCHANGED <<bucket, role, policy, attached, member, plan, refused, faults>>

\* Mutant of ListAttachedRolePolicies: its error is taken for no policy, always.
ListNoPolicies(c, k) ==
    /\ AtStep(c, k, "delete", "list")
    /\ GotoCall(c, k, "unrole")
    /\ UNCHANGED <<bucket, iamVars, plan, refused, faults>>

\* Those policies are deleted that are attached to the role now.
ListAttachedRolePolicies(c, k) ==
    /\ AtStep(c, k, "delete", "list")
    /\ GotoCall(c, k, IF k \in attached THEN "detach" ELSE "unrole")
    /\ UNCHANGED <<bucket, iamVars, plan, refused, faults>>

\* Mutant of DetachRolePolicy: the policy is left to be deleted by someone else.
DetachRolePolicyOnly(c, k) ==
    /\ AtStep(c, k, "delete", "detach")
    /\ attached' = attached \ {k}
    /\ GotoCall(c, k, "unrole")
    /\ UNCHANGED <<bucket, role, policy, profile, member, plan, refused, faults>>

DetachRolePolicy(c, k) ==
    /\ AtStep(c, k, "delete", "detach")
    /\ attached' = attached \ {k}
    /\ GotoCall(c, k, "unpolicy")
    /\ UNCHANGED <<bucket, role, policy, profile, member, plan, refused, faults>>

\* Mutant of DeletePolicy: IAM deletes a policy that is attached.
DeletePolicyAttached(c, k) ==
    /\ AtStep(c, k, "delete", "unpolicy")
    /\ policy' = policy \ {k}
    /\ GotoCall(c, k, "unrole")
    /\ UNCHANGED <<bucket, role, attached, profile, member, plan, refused, faults>>

\* An attached policy is not deleted.
DeletePolicy(c, k) ==
    /\ AtStep(c, k, "delete", "unpolicy")
    /\ policy' = policy \ ({k} \ attached)
    /\ GotoCall(c, k, "unrole")
    /\ UNCHANGED <<bucket, role, attached, profile, member, plan, refused, faults>>

\* A role with a policy, or in a profile, is not deleted.
DeleteRole(c, k) ==
    /\ AtStep(c, k, "delete", "unrole")
    /\ role' = role \ ({k} \ (attached \cup member))
    /\ GotoCall(c, k, "done")
    /\ UNCHANGED <<bucket, policy, attached, profile, member, plan, refused, faults>>

\* "removeRoleFromInstanceProfile failed" and so on: the chain goes on.
DeleteRefused(c, k) ==
    /\ cmd[c] = "delete" /\ at[c][k] \in DeleteChain
    /\ faults < MaxFaults
    /\ faults' = faults + 1
    /\ refused' = [refused EXCEPT ![c] = TRUE]
    /\ GotoCall(c, k, AfterRefusal[at[c][k]])
    /\ UNCHANGED <<bucket, iamVars, plan>>

\* What was to be cleaned up is to be created again.
ClusterDeleteDone(c) ==
    /\ cmd[c] = "delete" /\ Joined(c)
    /\ plan' = CASE plan = "cleanup" -> "create"
                 [] plan = "delete"  -> "absent"
                 [] OTHER            -> plan
    /\ EndShell(c)
    /\ UNCHANGED <<bucket, iamVars, refused, faults>>

-------------------------------------------------------------------------------

\* The shell, its network or its credentials die.
ClusterCrash(c) ==
    /\ cmd[c] # "none"
    /\ faults < MaxFaults
    /\ faults' = faults + 1
    /\ Fail(c)
    /\ UNCHANGED <<bucket, iamVars, refused>>

CreateCall(c, k) ==
    \/ CreateRole(c, k) \/ CreatePolicy(c, k) \/ AttachRolePolicy(c, k)
    \/ CreateInstanceProfile(c, k) \/ AddRoleToInstanceProfile(c, k)

DeleteCall(c, k) ==
    \/ RemoveRoleFromInstanceProfile(c, k) \/ DeleteInstanceProfile(c, k)
    \/ ListAttachedRolePolicies(c, k) \/ DetachRolePolicy(c, k)
    \/ DeletePolicy(c, k) \/ DeleteRole(c, k)

\* A command that has begun goes on.
Proceed(c) ==
    \/ CreateBucket(c) \/ ClusterCreateDone(c) \/ ClusterDeleteDone(c)
    \/ \E k \in Kind : CreateCall(c, k) \/ DeleteCall(c, k)

ClusterNext ==
    \E c \in Shell :
        \/ ClusterCreateStart(c) \/ ClusterDeleteStart(c) \/ Proceed(c) \/ ClusterCrash(c)
        \/ \E k \in Kind : DeleteRefused(c, k)

ClusterSpec == ClusterInit /\ [][ClusterNext]_clusterVars

\* Commands that have begun go on.  The operator repeats a cluster-create that failed,
\* with a cluster-delete before each attempt, and a cluster-delete that died.
ClusterFairness ==
    /\ \A c \in Shell : WF_clusterVars(Proceed(c))
    /\ WF_clusterVars(\E c \in Shell : plan = "create" /\ ClusterCreateStart(c))
    /\ WF_clusterVars(\E c \in Shell : plan \in {"cleanup", "delete"} /\ ClusterDeleteStart(c))

ClusterFairSpec == ClusterSpec /\ ClusterFairness

-------------------------------------------------------------------------------
(* Properties. *)

\* cluster-create succeeds only with everything complete: each role has its policy
\* and is in its profile, whatever earlier commands have left behind.
CreatedMeansUsable ==
    [][\A c \in Shell : ClusterCreateDone(c) =>
          bucket /\ role = Kind /\ attached = Kind /\ member = Kind]_clusterVars

\* cluster-delete takes every error for "not there".  Unless a call of it was really
\* refused, no role and no profile is left when it ends, even if it repeats a
\* command that died half-way or runs beside another cluster-delete.
ClusterDeletedMeansGone ==
    [][\A c \in Shell : ClusterDeleteDone(c) /\ ~refused[c] =>
          role = {} /\ profile = {}]_clusterVars

\* A policy without its role: no cluster-delete finds it.
Orphaned == ~(policy \subseteq role)

\* A cluster-create that is begun succeeds in the end, whatever was left behind, unless
\* a policy was orphaned, for which something must have failed.
CreateFinishes ==
    plan \in {"create", "cleanup"} ~> (plan = "up" \/ (faults > 0 /\ []<>Orphaned))

\* The same without the exception.
CreateFinishesAlways == plan \in {"create", "cleanup"} ~> plan = "up"
================================================================================
