--------------------------- MODULE StorageCleanup ---------------------------
(***************************************************************************)
(* cleanup_local_pv of scripts/lifecycle.sh, the destroy provisioner of the *)
(* static-local volumes of a ShardedCluster.  Terraform runs one script per *)
(* volume, several at a time, either because DeleteShard trims the storage  *)
(* of the removed shards while the cluster lives on, or because the cluster *)
(* was deleted.  Each kubectl call is a step; between two of them           *)
(* Kubernetes goes on: pods end, start again and mount their claims,        *)
(* finalizers hold back what is in use.                                     *)
(*                                                                         *)
(* A claim is named by the volume that was prepared for it.  Volumes made   *)
(* before prepare_local_pv bound them in advance may be bound crosswise.    *)
(***************************************************************************)
EXTENDS Integers

CONSTANTS
  Volume,      \* the persistent volumes of the cluster; and their claims
  Trimmed,     \* the volumes of the shards that DeleteShard removes
  NoVolume,    \* not bound, or no claim
  MaxFaults    \* bound on failed kubectl calls, timeouts and kills

ASSUME StorageAssumption ==
  /\ Trimmed \subseteq Volume
  /\ NoVolume \notin Volume
  /\ MaxFaults \in Nat

VARIABLES
  cluster,     \* the MongoDB resource exists
  pv,          \* pv[v]: the persistent volume v
  claimRef,    \* claimRef[v]: the claim that v is bound to, or was last
  directory,   \* directory[v]: the directory of v on the storage node exists
  pvc,         \* pvc[c]: the claim c
  volumeName,  \* volumeName[c]: the volume that c is bound to
  pod,         \* pod[c]: the pod that mounts c
  pc,          \* pc[v]: where the script that cleans v is
  live,        \* live[v]: the script has found the MongoDB resource
  target,      \* target[v]: the claim it is going to delete
  faults       \* number of faults so far

kubernetes == <<cluster, pv, claimRef, directory, pvc, volumeName, pod>>
vars       == <<kubernetes, pc, live, target, faults>>

-----------------------------------------------------------------------------

\* The volumes that are destroyed, and the claims of the members that stay.
Doomed  == IF cluster THEN Trimmed ELSE Volume
Members == IF cluster THEN Volume \ Trimmed ELSE {}

Script == {"none", "exists", "claim", "bound", "users", "delete_pvc", "wait_pvc",
           "delete_pv", "wait_pv", "erase", "done", "failed"}

TypeOK ==
  /\ cluster \in BOOLEAN
  /\ pv \in [Volume -> {"present", "deleting", "gone"}]
  /\ claimRef \in [Volume -> Volume \cup {NoVolume}]
  /\ directory \in [Volume -> BOOLEAN]
  /\ pvc \in [Volume -> {"absent", "present", "deleting"}]
  /\ volumeName \in [Volume -> Volume \cup {NoVolume}]
  /\ pod \in [Volume -> {"none", "running", "terminating"}]
  /\ pc \in [Volume -> Script]
  /\ live \in [Volume -> BOOLEAN]
  /\ target \in [Volume -> Volume \cup {NoVolume}]
  /\ faults \in 0 .. MaxFaults
  /\ \A c \in Volume : pvc[c] = "absent" => volumeName[c] = NoVolume
  /\ \A v \in Volume : pc[v] = "done" => ~directory[v]

\* A cluster whose members are bound, each to one volume but perhaps not to its
\* own; volumes may be left over, and a claim may never have been made for a
\* volume that waits for it.  The pods of the members that go are on their way.
Init ==
  /\ cluster \in BOOLEAN
  /\ pv = [v \in Volume |-> "present"]
  /\ directory = [v \in Volume |-> TRUE]
  /\ \E bind \in [Volume -> Volume \cup {NoVolume}] :
       /\ \A c, d \in Volume : c # d /\ bind[c] = bind[d] => bind[c] = NoVolume
       /\ \A c \in Members : bind[c] # NoVolume
       /\ volumeName = bind
       /\ pvc = [c \in Volume |-> IF bind[c] = NoVolume THEN "absent" ELSE "present"]
       /\ pod \in [Volume -> {"none", "running", "terminating"}]
       /\ \A c \in Volume : /\ pvc[c] = "absent" => pod[c] = "none"
                            /\ (pod[c] = "running") = (c \in Members)
       /\ \E waits \in SUBSET {v \in Volume : bind[v] = NoVolume} :
            claimRef = [v \in Volume |->
              IF \E c \in Volume : bind[c] = v THEN CHOOSE c \in Volume : bind[c] = v
              ELSE IF v \in waits THEN v ELSE NoVolume]
  /\ pc = [v \in Volume |-> IF v \in Doomed THEN "exists" ELSE "none"]
  /\ live = [v \in Volume |-> FALSE]
  /\ target = [v \in Volume |-> NoVolume]
  /\ faults = 0

-----------------------------------------------------------------------------
(* The script.                                                              *)

Goto(v, p) == pc' = [pc EXCEPT ![v] = p]

Fault ==
  /\ faults < MaxFaults
  /\ faults' = faults + 1

\* A read that decides nothing by its exit status: a call that fails counts as
\* the answer that there is no such object, or that the field is empty.
Reads(answer, empty) ==
  \/ answer /\ UNCHANGED faults
  \/ empty /\ Fault

\* Mutant: the resource is looked for in another namespace.
FindCluster_Elsewhere(v) ==
  /\ pc[v] = "exists"
  /\ live' = [live EXCEPT ![v] = FALSE]
  /\ Goto(v, "claim")
  /\ UNCHANGED <<kubernetes, target, faults>>

\* get mongodb
FindCluster(v) ==
  /\ pc[v] = "exists"
  /\ Reads(live' = [live EXCEPT ![v] = cluster], live' = [live EXCEPT ![v] = FALSE])
  /\ Goto(v, "claim")
  /\ UNCHANGED <<kubernetes, target>>

\* Mutant: the PV's actual claim is never taken over Terraform's expectation.
TargetClaim_Expected(v, claim) == v

\* Which claim goes with the volume: the expected one while the cluster lives,
\* the one it is really bound to, if any, once the cluster is gone.
TargetClaim(v, claim) == IF live[v] THEN v ELSE claim

Mismatch(v, claim) == live[v] /\ claim \notin {v, NoVolume}

\* get pv, and the decision that follows.
ReadClaim(v) ==
  /\ pc[v] = "claim"
  /\ \E claim \in {claimRef[v], NoVolume} :
       /\ Reads(claim = IF pv[v] = "gone" THEN NoVolume ELSE claimRef[v],
                claim = NoVolume)
       /\ IF Mismatch(v, claim)
          THEN Goto(v, "failed") /\ UNCHANGED target
          ELSE /\ Goto(v, "bound")
               /\ target' = [target EXCEPT ![v] = TargetClaim(v, claim)]
  /\ UNCHANGED <<kubernetes, live>>

ClaimExists(c) == c # NoVolume /\ pvc[c] # "absent"

\* get pvc: a claim that is not there needs no cleanup.
NoClaim(v) ==
  /\ pc[v] = "bound"
  /\ Reads(~ClaimExists(target[v]), target[v] # NoVolume)
  /\ Goto(v, "delete_pv")
  /\ UNCHANGED <<kubernetes, live, target>>

\* get pvc again: a claim that is bound to another volume is refused.
ReadVolume(v) ==
  /\ pc[v] = "bound"
  /\ ClaimExists(target[v])
  /\ \/ /\ Reads(volumeName[target[v]] \in {v, NoVolume}, TRUE)
        /\ Goto(v, "users")
     \/ /\ volumeName[target[v]] \notin {v, NoVolume}
        /\ Goto(v, "failed")
        /\ UNCHANGED faults
  /\ UNCHANGED <<kubernetes, live, target>>

\* pvc_users, again and again: a failed call counts as a list without pods.
NoUsers(v) ==
  /\ pc[v] = "users"
  /\ Reads(pod[target[v]] = "none", TRUE)
  /\ Goto(v, "delete_pvc")
  /\ UNCHANGED <<kubernetes, live, target>>

DeleteClaim(v) ==
  /\ pc[v] = "delete_pvc"
  /\ pvc' = [pvc EXCEPT ![target[v]] = IF @ = "absent" THEN @ ELSE "deleting"]
  /\ Goto(v, "wait_pvc")
  /\ UNCHANGED <<cluster, pv, claimRef, directory, volumeName, pod, live, target, faults>>

ClaimDeleted(v) ==
  /\ pc[v] = "wait_pvc"
  /\ Reads(pvc[target[v]] = "absent", TRUE)
  /\ Goto(v, "delete_pv")
  /\ UNCHANGED <<kubernetes, live, target>>

DeleteVolume(v) ==
  /\ pc[v] = "delete_pv"
  /\ pv' = [pv EXCEPT ![v] = IF @ = "gone" THEN @ ELSE "deleting"]
  /\ Goto(v, "wait_pv")
  /\ UNCHANGED <<cluster, claimRef, directory, pvc, volumeName, pod, live, target, faults>>

\* Mutant: nothing waits for the persistent volume to be deleted.
VolumeDeleted_NotAwaited(v) ==
  /\ pc[v] = "wait_pv"
  /\ Goto(v, "erase")
  /\ UNCHANGED <<kubernetes, live, target, faults>>

VolumeDeleted(v) ==
  /\ pc[v] = "wait_pv"
  /\ Reads(pv[v] = "gone", TRUE)
  /\ Goto(v, "erase")
  /\ UNCHANGED <<kubernetes, live, target>>

\* Mutant: the directory is left to be emptied by hand.
Erase_Kept(v) ==
  /\ pc[v] = "erase"
  /\ Goto(v, "done")
  /\ UNCHANGED <<kubernetes, live, target, faults>>

\* rm -rf on the storage node.
Erase(v) ==
  /\ pc[v] = "erase"
  /\ directory' = [directory EXCEPT ![v] = FALSE]
  /\ Goto(v, "done")
  /\ UNCHANGED <<cluster, pv, claimRef, pvc, volumeName, pod, live, target, faults>>

\* A kubectl or docker call that must succeed does not, a bounded wait runs out,
\* or the script is killed: the apply fails.
Fails(v) ==
  /\ pc[v] \notin {"none", "done", "failed"}
  /\ Fault
  /\ Goto(v, "failed")
  /\ UNCHANGED <<kubernetes, live, target>>

\* The next apply runs the destroy provisioner again.
Rerun(v) ==
  /\ pc[v] = "failed"
  /\ Goto(v, "exists")
  /\ UNCHANGED <<kubernetes, live, target, faults>>

Cleanup(v) ==
  \/ FindCluster(v) \/ ReadClaim(v) \/ NoClaim(v) \/ ReadVolume(v) \/ NoUsers(v)
  \/ DeleteClaim(v) \/ ClaimDeleted(v) \/ DeleteVolume(v) \/ VolumeDeleted(v)
  \/ Erase(v)

-----------------------------------------------------------------------------
(* Kubernetes, external.                                                    *)

\* The pods of members that were asked to go are gone at last.
PodEnds(c) ==
  /\ pod[c] = "terminating"
  /\ pod' = [pod EXCEPT ![c] = "none"]
  /\ UNCHANGED <<cluster, pv, claimRef, directory, pvc, volumeName>>

\* The pvc-protection finalizer holds a claim back that a pod mounts, the
\* pv-protection finalizer a volume that is bound.
ClaimGone(c) ==
  /\ pvc[c] = "deleting" /\ pod[c] = "none"
  /\ pvc' = [pvc EXCEPT ![c] = "absent"]
  /\ volumeName' = [volumeName EXCEPT ![c] = NoVolume]
  /\ UNCHANGED <<cluster, pv, claimRef, directory, pod>>

VolumeGone(v) ==
  /\ pv[v] = "deleting" /\ \A c \in Volume : volumeName[c] # v
  /\ pv' = [pv EXCEPT ![v] = "gone"]
  /\ UNCHANGED <<cluster, claimRef, directory, pvc, volumeName, pod>>

\* A pod of a member that stays is lost, and its StatefulSet starts it again.
PodLost(c) ==
  /\ c \in Members /\ pod[c] = "running"
  /\ pod' = [pod EXCEPT ![c] = "none"]
  /\ UNCHANGED <<cluster, pv, claimRef, directory, pvc, volumeName>>

PodStarts(c) ==
  /\ c \in Members /\ pod[c] = "none" /\ pvc[c] = "present"
  /\ pod' = [pod EXCEPT ![c] = "running"]
  /\ UNCHANGED <<cluster, pv, claimRef, directory, pvc, volumeName>>

Released(v) == PodEnds(v) \/ ClaimGone(v) \/ VolumeGone(v)

Kubernetes(v) == /\ Released(v) \/ PodLost(v) \/ PodStarts(v)
                 /\ UNCHANGED <<pc, live, target, faults>>

Next == \E v \in Volume : Cleanup(v) \/ Fails(v) \/ Rerun(v) \/ Kubernetes(v)

Spec == Init /\ [][Next]_vars

\* Terraform lets every script run, and Kubernetes ends its terminating pods and
\* takes away what nothing holds any more.
FairSpec == /\ Spec
            /\ \A v \in Volume : /\ WF_vars(Cleanup(v))
                                 /\ WF_vars(Released(v) /\ UNCHANGED <<pc, live, target, faults>>)

-----------------------------------------------------------------------------
(* What the cleanup promises.                                               *)

\* No directory is removed under a pod that mounts its volume: one call that
\* fails is not enough for that, whichever it is, because Kubernetes holds back
\* what the script should not have deleted.
NeverUnderPod ==
  [][\A v, c \in Volume :
       directory[v] /\ ~directory'[v] /\ volumeName[c] = v /\ faults < 2
         => pod[c] = "none"]_vars

\* Trimming the storage of removed shards never deletes a claim of a member that
\* stays, however crosswise the volumes are bound, as long as no call fails.
MemberClaimKept ==
  [][\A c \in Members : faults = 0 /\ pvc[c] = "present" => pvc'[c] = "present"]_vars

\* Once no more faults happen, a script whose volume may go removes it for good,
\* wherever earlier runs of it had stopped: in a teardown that is every volume,
\* in a trim every one that has no other claim and whose claim no other volume.
ReleasedIsErased ==
  \A v \in Volume :
    (/\ pc[v] = "exists" /\ faults = MaxFaults
     /\ \/ ~cluster
        \/ /\ volumeName[v] \in {v, NoVolume}
           /\ \A c \in Volume : volumeName[c] = v \/ claimRef[v] = c => c = v)
      ~> ~directory[v]

-----------------------------------------------------------------------------
(* What the code's own texts say and a run refutes.                         *)

\* tests/test_lifecycle_script.py: a live cluster must never reinterpret a
\* mismatched PV as safe.  One failed "get mongodb" makes the cluster look
\* absent, and the volume's actual claim, that of a member which stays, is
\* deleted if its pod happens to be between two starts.
LiveNeverReinterpreted ==
  [][\A c \in Members : pvc[c] = "present" => pvc'[c] = "present"]_vars
=============================================================================
