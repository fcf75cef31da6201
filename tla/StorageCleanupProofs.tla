------------------------ MODULE StorageCleanupProofs ------------------------
(***************************************************************************)
(* Proofs about StorageCleanup, for any number of volumes, any binding of  *)
(* them and any number of failed calls: the inductive invariant            *)
(* CleanupInv, which counts the failed calls that each danger needs, and   *)
(* from it NeverUnderPod and MemberClaimKept.                              *)
(***************************************************************************)
EXTENDS StorageCleanup, TLAPS

-----------------------------------------------------------------------------
(* The inductive invariant.                                                 *)

\* A volume that a claim is bound to names that claim, and is not gone; only the
\* volumes that are to be removed have a script.
BindingInv ==
  \A v \in Volume :
    /\ \A c \in Volume : volumeName[c] = v => claimRef[v] = c /\ pv[v] # "gone"
    /\ pc[v] # "none" => v \in Doomed

\* Without a failed call a script knows whether the cluster lives.
FoundInv ==
  \A v \in Volume : pc[v] = "claim" => faults > 0 \/ live[v] = cluster

\* Without a failed call the claim it goes for is the one that is bound to its
\* volume, if any is, and never that of a member that stays.
TargetInv ==
  \A v \in Volume : pc[v] \in {"bound", "users", "delete_pvc"} =>
    \/ faults > 0
    \/ /\ target[v] \notin Members
       /\ \A c \in Volume : volumeName[c] = v => c = target[v]

\* A claim that is bound to v and has a pod, or gets one again.
InUse(c, v) == volumeName[c] = v /\ (c \in Members \/ pod[c] # "none")

\* One failed call leads past the pods, and another one past the volume they hold.
UseInv ==
  \A v, c \in Volume :
    /\ pc[v] \in {"delete_pvc", "wait_pvc", "delete_pv", "wait_pv"} =>
         (InUse(c, v) => faults > 0)
    /\ pc[v] = "erase" =>
         /\ volumeName[c] = v => faults > 0
         /\ InUse(c, v) => faults > 1

CleanupInv == TypeOK /\ BindingInv /\ FoundInv /\ TargetInv /\ UseInv

-----------------------------------------------------------------------------

\* The invariant holds before any script has run.
LEMMA InitCleanup == Init => CleanupInv
<1> SUFFICES ASSUME Init
             PROVE  CleanupInv
  OBVIOUS
<1>1. PICK bind \in [Volume -> Volume \cup {NoVolume}] :
        /\ \A c, d \in Volume : c # d /\ bind[c] = bind[d] => bind[c] = NoVolume
        /\ volumeName = bind
        /\ pvc = [c \in Volume |-> IF bind[c] = NoVolume THEN "absent" ELSE "present"]
        /\ pod \in [Volume -> {"none", "running", "terminating"}]
        /\ \E waits \in SUBSET {v \in Volume : bind[v] = NoVolume} :
             claimRef = [v \in Volume |->
               IF \E c \in Volume : bind[c] = v THEN CHOOSE c \in Volume : bind[c] = v
               ELSE IF v \in waits THEN v ELSE NoVolume]
  BY DEF Init
<1>2. /\ cluster \in BOOLEAN
      /\ pv = [v \in Volume |-> "present"] /\ directory = [v \in Volume |-> TRUE]
      /\ pc = [v \in Volume |-> IF v \in Doomed THEN "exists" ELSE "none"]
      /\ live = [v \in Volume |-> FALSE]
      /\ target = [v \in Volume |-> NoVolume]
      /\ faults = 0
  BY DEF Init
<1>3. \A v \in Volume : claimRef[v] \in Volume \cup {NoVolume}
  BY <1>1
<1>4. claimRef \in [Volume -> Volume \cup {NoVolume}]
  BY <1>1, <1>3
<1>5. \A v, c \in Volume : volumeName[c] = v => claimRef[v] = c
  <2> SUFFICES ASSUME NEW v \in Volume, NEW c \in Volume, bind[c] = v
               PROVE  claimRef[v] = c
    BY <1>1
  <2>1. claimRef[v] = CHOOSE d \in Volume : bind[d] = v
    BY <1>1
  <2>2. \A d \in Volume : bind[d] = v => d = c
    BY <1>1, StorageAssumption
  <2> QED
    BY <2>1, <2>2
<1>6. TypeOK
  <2>1. pc \in [Volume -> Script]
    BY <1>2 DEF Script
  <2>2. /\ pv \in [Volume -> {"present", "deleting", "gone"}]
        /\ directory \in [Volume -> BOOLEAN] /\ live \in [Volume -> BOOLEAN]
        /\ target \in [Volume -> Volume \cup {NoVolume}]
        /\ faults \in 0 .. MaxFaults
    BY <1>2, StorageAssumption
  <2>3. /\ pvc \in [Volume -> {"absent", "present", "deleting"}]
        /\ volumeName \in [Volume -> Volume \cup {NoVolume}]
        /\ \A c \in Volume : pvc[c] = "absent" => volumeName[c] = NoVolume
    BY <1>1
  <2>4. \A v \in Volume : pc[v] # "done"
    BY <1>2
  <2> QED
    BY <1>1, <1>2, <1>4, <2>1, <2>2, <2>3, <2>4 DEF TypeOK
<1>7. BindingInv
  BY <1>2, <1>5 DEF BindingInv
<1> QED
  BY <1>2, <1>6, <1>7 DEF CleanupInv, FoundInv, TargetInv, UseInv

\* A failed call is counted.
LEMMA FaultCounts ==
  ASSUME TypeOK, Fault
  PROVE  faults' = faults + 1 /\ faults' > 0 /\ faults' \in 0 .. MaxFaults
BY StorageAssumption DEF TypeOK, Fault

\* A read leaves the counter, or counts.
LEMMA ReadCounts ==
  ASSUME TypeOK, NEW answer, NEW empty, Reads(answer, empty)
  PROVE  /\ faults' \in 0 .. MaxFaults
         /\ \/ answer /\ faults' = faults
            \/ empty /\ faults' = faults + 1
BY FaultCounts DEF Reads, TypeOK

\* A step of a script takes no pod and no binding away: the invariant carries over
\* when it holds of the place the script has come to.
LEMMA ScriptStep ==
  ASSUME CleanupInv, NEW v \in Volume, NEW p \in Script, Goto(v, p), pc[v] # "none",
         UNCHANGED <<cluster, claimRef, volumeName, pod>>,
         pvc' \in [Volume -> {"absent", "present", "deleting"}],
         \A c \in Volume : pvc'[c] = "absent" => pvc[c] = "absent",
         pv' \in [Volume -> {"present", "deleting", "gone"}],
         \A w \in Volume : pv'[w] = "gone" => pv[w] = "gone",
         directory' \in [Volume -> BOOLEAN],
         \A w \in Volume : directory'[w] => directory[w],
         faults' \in 0 .. MaxFaults, faults' >= faults,
         live' \in [Volume -> BOOLEAN], target' \in [Volume -> Volume \cup {NoVolume}],
         \A w \in Volume : w # v => live'[w] = live[w] /\ target'[w] = target[w],
         p = "done" => ~directory'[v],
         p = "claim" => faults' > 0 \/ live'[v] = cluster,
         p \in {"bound", "users", "delete_pvc"} =>
           \/ faults' > 0
           \/ /\ target'[v] \notin Members
              /\ \A c \in Volume : volumeName[c] = v => c = target'[v],
         p \in {"delete_pvc", "wait_pvc", "delete_pv", "wait_pv"} =>
           \A c \in Volume : InUse(c, v) => faults' > 0,
         p = "erase" => \A c \in Volume : /\ volumeName[c] = v => faults' > 0
                                          /\ InUse(c, v) => faults' > 1
  PROVE  CleanupInv'
<1>1. /\ pc' \in [Volume -> Script] /\ pc'[v] = p
      /\ \A w \in Volume : w # v => pc'[w] = pc[w]
      /\ faults \in Nat /\ faults' \in Nat
  BY StorageAssumption DEF CleanupInv, TypeOK, Goto
<1>2. TypeOK'
  BY <1>1 DEF CleanupInv, TypeOK
<1>3. BindingInv'
  BY <1>1 DEF CleanupInv, BindingInv, Doomed
<1>4. FoundInv'
  <2> SUFFICES ASSUME NEW w \in Volume, pc'[w] = "claim"
               PROVE  faults' > 0 \/ live'[w] = cluster'
    BY DEF FoundInv
  <2>1. CASE w = v
    BY <1>1, <2>1
  <2>2. CASE w # v
    BY <1>1, <2>2 DEF CleanupInv, FoundInv
  <2> QED
    BY <2>1, <2>2
<1>5. Members' = Members /\ volumeName' = volumeName /\ pod' = pod
  BY DEF Members
<1>6. TargetInv'
  <2> SUFFICES ASSUME NEW w \in Volume, pc'[w] \in {"bound", "users", "delete_pvc"}
               PROVE  \/ faults' > 0
                      \/ /\ target'[w] \notin Members
                         /\ \A c \in Volume : volumeName[c] = w => c = target'[w]
    BY <1>5 DEF TargetInv
  <2>1. CASE w = v
    BY <1>1, <2>1
  <2>2. CASE w # v
    BY <1>1, <2>2 DEF CleanupInv, TargetInv
  <2> QED
    BY <2>1, <2>2
<1>7. UseInv'
  <2>1. \A w, c \in Volume : InUse(c, w)' <=> InUse(c, w)
    BY <1>5 DEF InUse
  <2>2. ASSUME NEW w \in Volume, NEW c \in Volume
        PROVE  /\ pc'[w] \in {"delete_pvc", "wait_pvc", "delete_pv", "wait_pv"} =>
                    (InUse(c, w) => faults' > 0)
               /\ pc'[w] = "erase" => /\ volumeName[c] = w => faults' > 0
                                      /\ InUse(c, w) => faults' > 1
    <3>1. CASE w = v
      BY <1>1, <3>1
    <3>2. CASE w # v
      BY <1>1, <3>2 DEF CleanupInv, UseInv
    <3> QED
      BY <3>1, <3>2
  <2> QED
    BY <1>5, <2>1, <2>2 DEF UseInv
<1> QED
  BY <1>2, <1>3, <1>4, <1>6, <1>7 DEF CleanupInv

\* What an action of the script for v that reads and decides leaves alone.
LEMMA Untouched ==
  ASSUME TypeOK, UNCHANGED kubernetes
  PROVE  /\ UNCHANGED <<cluster, claimRef, volumeName, pod>>
         /\ pvc' \in [Volume -> {"absent", "present", "deleting"}]
         /\ \A c \in Volume : pvc'[c] = "absent" => pvc[c] = "absent"
         /\ pv' \in [Volume -> {"present", "deleting", "gone"}]
         /\ \A w \in Volume : pv'[w] = "gone" => pv[w] = "gone"
         /\ directory' \in [Volume -> BOOLEAN]
         /\ \A w \in Volume : directory'[w] => directory[w]
BY DEF TypeOK, kubernetes

\* Looking for the cluster, and for the claim: in a cluster that lives the expected
\* claim, which is that of a member that goes; in one that is gone the bound one.
LEMMA SearchInv ==
  ASSUME CleanupInv, NEW v \in Volume, FindCluster(v) \/ ReadClaim(v)
  PROVE  CleanupInv'
<1>1. TypeOK /\ UNCHANGED kubernetes
  BY DEF CleanupInv, FindCluster, ReadClaim
<1>2. faults \in Nat
  BY <1>1 DEF TypeOK
<1>3. CASE FindCluster(v)
  <2>1. /\ faults' \in 0 .. MaxFaults
        /\ \/ live' = [live EXCEPT ![v] = cluster] /\ faults' = faults
           \/ live' = [live EXCEPT ![v] = FALSE] /\ faults' = faults + 1
        /\ pc[v] = "exists" /\ Goto(v, "claim") /\ target' = target
    BY <1>1, <1>3, ReadCounts DEF FindCluster
  <2>2. /\ live' \in [Volume -> BOOLEAN] /\ target' \in [Volume -> Volume \cup {NoVolume}]
        /\ \A w \in Volume : w # v => live'[w] = live[w] /\ target'[w] = target[w]
        /\ faults' >= faults /\ (faults' > 0 \/ live'[v] = cluster)
    <3>1. live \in [Volume -> BOOLEAN] /\ cluster \in BOOLEAN
          /\ target \in [Volume -> Volume \cup {NoVolume}]
      BY <1>1 DEF TypeOK
    <3>2. CASE live' = [live EXCEPT ![v] = cluster] /\ faults' = faults
      BY <1>2, <2>1, <3>1, <3>2
    <3>3. CASE live' = [live EXCEPT ![v] = FALSE] /\ faults' = faults + 1
      <4>1. live' \in [Volume -> BOOLEAN] /\ \A w \in Volume : w # v => live'[w] = live[w]
        BY <3>1, <3>3
      <4>2. faults' > 0 /\ faults' >= faults
        BY <1>2, <3>3
      <4> QED
        BY <2>1, <3>1, <4>1, <4>2
    <3> QED
      BY <2>1, <3>2, <3>3
  <2>3. "claim" \in Script
    BY DEF Script
  <2> QED
    BY <1>1, <2>1, <2>2, <2>3, Untouched, ScriptStep
<1>4. CASE ReadClaim(v)
  <2>1. PICK claim \in {claimRef[v], NoVolume} :
          /\ faults' \in 0 .. MaxFaults
          /\ \/ /\ claim = IF pv[v] = "gone" THEN NoVolume ELSE claimRef[v]
                /\ faults' = faults
             \/ claim = NoVolume /\ faults' = faults + 1
          /\ IF Mismatch(v, claim)
             THEN Goto(v, "failed") /\ UNCHANGED target
             ELSE /\ Goto(v, "bound")
                  /\ target' = [target EXCEPT ![v] = TargetClaim(v, claim)]
    BY <1>1, <1>4, ReadCounts DEF ReadClaim
  <2>2. pc[v] = "claim" /\ live' = live /\ claim \in Volume \cup {NoVolume}
    BY <1>1, <1>4 DEF ReadClaim, TypeOK
  <2>3. {"failed", "bound"} \subseteq Script /\ faults' >= faults
    BY <1>2, <2>1 DEF Script
  <2>4. CASE Mismatch(v, claim)
    BY <1>1, <2>1, <2>2, <2>3, <2>4, Untouched, ScriptStep DEF TypeOK
  <2>5. CASE ~Mismatch(v, claim)
    <3>1. /\ target' \in [Volume -> Volume \cup {NoVolume}]
          /\ target'[v] = TargetClaim(v, claim)
          /\ \A w \in Volume : w # v => target'[w] = target[w]
      BY <1>1, <2>1, <2>2, <2>5 DEF TypeOK, TargetClaim
    <3>2. CASE faults' > 0
      BY <1>1, <2>1, <2>2, <2>3, <2>5, <3>1, <3>2, Untouched, ScriptStep DEF TypeOK
    <3>3. CASE ~(faults' > 0)
      <4>1. /\ live[v] = cluster
            /\ claim = IF pv[v] = "gone" THEN NoVolume ELSE claimRef[v]
        BY <1>2, <2>1, <2>2, <3>3 DEF CleanupInv, FoundInv
      <4>2. \A c \in Volume : volumeName[c] = v => claim = c
        BY <4>1 DEF CleanupInv, BindingInv
      <4>3. \A c \in Volume : volumeName[c] = v => c = target'[v]
        BY <2>5, <3>1, <4>2, StorageAssumption DEF Mismatch, TargetClaim
      <4>4. target'[v] \notin Members
        BY <2>2, <3>1, <4>1 DEF CleanupInv, BindingInv, Doomed, Members, TargetClaim
      <4> QED
        BY <1>1, <2>1, <2>2, <2>3, <2>5, <3>1, <4>3, <4>4, Untouched, ScriptStep DEF TypeOK
    <3> QED
      BY <3>2, <3>3
  <2> QED
    BY <2>4, <2>5
<1> QED
  BY <1>3, <1>4

\* Looking at the claim and its pods: behind it no pod is left, but by a failed call.
LEMMA LookInv ==
  ASSUME CleanupInv, NEW v \in Volume, NoClaim(v) \/ ReadVolume(v) \/ NoUsers(v)
  PROVE  CleanupInv'
<1>1. /\ TypeOK /\ UNCHANGED kubernetes /\ faults \in Nat
      /\ live' = live /\ target' = target
      /\ {"delete_pv", "users", "failed", "delete_pvc"} \subseteq Script
  <2>1. TypeOK /\ faults \in Nat
    BY DEF CleanupInv, TypeOK
  <2>2. UNCHANGED <<kubernetes, live, target>>
    BY DEF NoClaim, ReadVolume, NoUsers
  <2>3. {"delete_pv", "users", "failed", "delete_pvc"} \subseteq Script
    BY DEF Script
  <2> QED
    BY <2>1, <2>2, <2>3
<1>2. \/ faults > 0
      \/ /\ target[v] \notin Members
         /\ \A c \in Volume : volumeName[c] = v => c = target[v]
  BY DEF CleanupInv, TargetInv, NoClaim, ReadVolume, NoUsers
<1>3. CASE NoClaim(v)
  <2>1. /\ faults' \in 0 .. MaxFaults
        /\ \/ ~ClaimExists(target[v]) /\ faults' = faults
           \/ faults' = faults + 1
        /\ pc[v] = "bound" /\ Goto(v, "delete_pv")
    BY <1>1, <1>3, ReadCounts DEF NoClaim
  <2>2. \A c \in Volume : InUse(c, v) => faults' > 0
    BY <1>1, <1>2, <2>1, StorageAssumption DEF InUse, ClaimExists, TypeOK
  <2> QED
    BY <1>1, <2>1, <2>2, Untouched, ScriptStep DEF TypeOK
<1>4. CASE ReadVolume(v)
  <2>1. PICK p \in {"users", "failed"} :
          /\ pc[v] = "bound" /\ Goto(v, p)
          /\ faults' \in 0 .. MaxFaults /\ faults' >= faults
    <3>1. CASE Reads(volumeName[target[v]] \in {v, NoVolume}, TRUE) /\ Goto(v, "users")
      <4>1. faults' \in 0 .. MaxFaults /\ (faults' = faults \/ faults' = faults + 1)
        BY <1>1, <3>1, ReadCounts
      <4>2. pc[v] = "bound" /\ faults' >= faults
        BY <1>1, <1>4, <4>1 DEF ReadVolume
      <4> QED
        BY <3>1, <4>1, <4>2
    <3>2. CASE Goto(v, "failed") /\ UNCHANGED faults
      BY <1>1, <1>4, <3>2 DEF ReadVolume, TypeOK
    <3> QED
      BY <1>4, <3>1, <3>2 DEF ReadVolume
  <2> QED
    BY <1>1, <1>2, <2>1, Untouched, ScriptStep DEF TypeOK
<1>5. CASE NoUsers(v)
  <2>1. /\ faults' \in 0 .. MaxFaults
        /\ \/ pod[target[v]] = "none" /\ faults' = faults
           \/ faults' = faults + 1
        /\ pc[v] = "users" /\ Goto(v, "delete_pvc")
    BY <1>1, <1>5, ReadCounts DEF NoUsers
  <2>2. \A c \in Volume : InUse(c, v) => faults' > 0
    BY <1>1, <1>2, <2>1 DEF InUse
  <2>3. \/ faults' > 0
        \/ /\ target'[v] \notin Members
           /\ \A c \in Volume : volumeName[c] = v => c = target'[v]
    BY <1>1, <1>2, <2>1
  <2> QED
    BY <1>1, <2>1, <2>2, <2>3, Untouched, ScriptStep DEF TypeOK
<1> QED
  BY <1>3, <1>4, <1>5

\* Deleting the claim and the volume, and waiting: a volume that is gone has no claim,
\* so whoever gets past it while one is bound has missed an answer.
LEMMA DeleteInv ==
  ASSUME CleanupInv, NEW v \in Volume,
         DeleteClaim(v) \/ ClaimDeleted(v) \/ DeleteVolume(v) \/ VolumeDeleted(v) \/ Erase(v)
  PROVE  CleanupInv'
<1>1. /\ TypeOK /\ faults \in Nat /\ faults \in 0 .. MaxFaults
      /\ live' = live /\ target' = target
      /\ {"wait_pvc", "delete_pv", "wait_pv", "erase", "done"} \subseteq Script
  <2>1. TypeOK /\ faults \in Nat /\ faults \in 0 .. MaxFaults
    BY DEF CleanupInv, TypeOK
  <2>2. UNCHANGED <<live, target>>
    BY DEF DeleteClaim, ClaimDeleted, DeleteVolume, VolumeDeleted, Erase
  <2>3. {"wait_pvc", "delete_pv", "wait_pv", "erase", "done"} \subseteq Script
    BY DEF Script
  <2> QED
    BY <2>1, <2>2, <2>3
<1>2. \A c \in Volume : pc[v] # "erase" /\ InUse(c, v) => faults > 0
  BY DEF CleanupInv, UseInv, DeleteClaim, ClaimDeleted, DeleteVolume, VolumeDeleted, Erase
<1>3. CASE DeleteClaim(v)
  <2>1. /\ pvc' \in [Volume -> {"absent", "present", "deleting"}]
        /\ \A c \in Volume : pvc'[c] = "absent" => pvc[c] = "absent"
    BY <1>1, <1>3 DEF DeleteClaim, TypeOK
  <2> QED
    BY <1>1, <1>2, <1>3, <2>1, ScriptStep DEF DeleteClaim, TypeOK
<1>4. CASE ClaimDeleted(v)
  <2>1. /\ faults' \in 0 .. MaxFaults /\ faults' >= faults
        /\ pc[v] = "wait_pvc" /\ Goto(v, "delete_pv") /\ UNCHANGED kubernetes
    <3>1. Reads(pvc[target[v]] = "absent", TRUE)
      BY <1>4 DEF ClaimDeleted
    <3>2. faults' \in 0 .. MaxFaults /\ (faults' = faults \/ faults' = faults + 1)
      BY <1>1, <3>1, ReadCounts
    <3> QED
      BY <1>1, <1>4, <3>2 DEF ClaimDeleted
  <2> QED
    BY <1>1, <1>2, <2>1, Untouched, ScriptStep DEF TypeOK
<1>5. CASE DeleteVolume(v)
  <2>1. /\ pv' \in [Volume -> {"present", "deleting", "gone"}]
        /\ \A w \in Volume : pv'[w] = "gone" => pv[w] = "gone"
    BY <1>1, <1>5 DEF DeleteVolume, TypeOK
  <2> QED
    BY <1>1, <1>2, <1>5, <2>1, ScriptStep DEF DeleteVolume, TypeOK
<1>6. CASE VolumeDeleted(v)
  <2>1. /\ faults' \in 0 .. MaxFaults
        /\ \/ pv[v] = "gone" /\ faults' = faults
           \/ faults' = faults + 1
        /\ pc[v] = "wait_pv" /\ Goto(v, "erase") /\ UNCHANGED kubernetes
    BY <1>1, <1>6, ReadCounts DEF VolumeDeleted
  <2>2. \A c \in Volume : volumeName[c] = v => faults' = faults + 1
    BY <2>1 DEF CleanupInv, BindingInv
  <2>3. \A c \in Volume : /\ volumeName[c] = v => faults' > 0
                          /\ InUse(c, v) => faults' > 1
    BY <1>1, <1>2, <2>1, <2>2 DEF InUse
  <2> QED
    BY <1>1, <2>1, <2>3, Untouched, ScriptStep DEF TypeOK
<1>7. CASE Erase(v)
  <2>1. /\ directory' \in [Volume -> BOOLEAN] /\ ~directory'[v]
        /\ \A w \in Volume : directory'[w] => directory[w]
    BY <1>1, <1>7 DEF Erase, TypeOK
  <2> QED
    BY <1>1, <1>7, <2>1, ScriptStep DEF Erase, TypeOK
<1> QED
  BY <1>3, <1>4, <1>5, <1>6, <1>7

\* A script that fails, and one that is run again.
LEMMA StopInv ==
  ASSUME CleanupInv, NEW v \in Volume, Fails(v) \/ Rerun(v)
  PROVE  CleanupInv'
<1>1. PICK p \in {"failed", "exists"} :
        /\ pc[v] # "none" /\ Goto(v, p)
        /\ UNCHANGED <<kubernetes, live, target>>
        /\ faults' \in 0 .. MaxFaults /\ faults' >= faults
  BY FaultCounts DEF CleanupInv, TypeOK, Fails, Rerun
<1>2. TypeOK /\ {"failed", "exists"} \subseteq Script
  BY DEF CleanupInv, Script
<1> QED
  BY <1>1, <1>2, Untouched, ScriptStep DEF TypeOK

\* Kubernetes brings back only the pods of members that stay, binds nothing and takes
\* no volume away that is bound.
LEMMA KubernetesInv ==
  ASSUME CleanupInv, NEW v \in Volume, Kubernetes(v)
  PROVE  CleanupInv'
<1>1. /\ UNCHANGED <<cluster, claimRef, directory, pc, live, target, faults>>
      /\ pod' \in [Volume -> {"none", "running", "terminating"}]
      /\ pvc' \in [Volume -> {"absent", "present", "deleting"}]
      /\ pv' \in [Volume -> {"present", "deleting", "gone"}]
      /\ volumeName' \in [Volume -> Volume \cup {NoVolume}]
      /\ \A c \in Volume : pvc'[c] = "absent" => volumeName'[c] = NoVolume
  BY DEF CleanupInv, TypeOK, Kubernetes, Released, PodEnds, ClaimGone, VolumeGone, PodLost,
         PodStarts
<1>2. \A c, w \in Volume : volumeName'[c] = w =>
        volumeName[c] = w /\ (pv[w] # "gone" => pv'[w] # "gone")
  <2>1. CASE VolumeGone(v)
    BY <2>1 DEF VolumeGone, CleanupInv, TypeOK
  <2>2. CASE ClaimGone(v)
    BY <2>2, StorageAssumption DEF ClaimGone, CleanupInv, TypeOK
  <2>3. CASE ~VolumeGone(v) /\ ~ClaimGone(v)
    BY <2>3 DEF Kubernetes, Released, PodEnds, PodLost, PodStarts
  <2> QED
    BY <2>1, <2>2, <2>3
<1>3. \A c \in Volume : pod'[c] # "none" => pod[c] # "none" \/ c \in Members
  BY DEF CleanupInv, TypeOK, Kubernetes, Released, PodEnds, ClaimGone, VolumeGone, PodLost,
     PodStarts
<1>4. Members' = Members /\ Doomed' = Doomed
  BY <1>1 DEF Members, Doomed
<1>5. TypeOK'
  BY <1>1 DEF CleanupInv, TypeOK
<1>6. BindingInv'
  BY <1>1, <1>2, <1>4 DEF CleanupInv, BindingInv
<1>7. FoundInv' /\ TargetInv'
  BY <1>1, <1>2, <1>4 DEF CleanupInv, FoundInv, TargetInv
<1>8. \A c, w \in Volume : InUse(c, w)' => InUse(c, w)
  BY <1>2, <1>3, <1>4 DEF InUse
<1>9. UseInv'
  BY <1>1, <1>2, <1>8 DEF CleanupInv, UseInv
<1> QED
  BY <1>5, <1>6, <1>7, <1>9 DEF CleanupInv

\* Every step keeps the invariant.
LEMMA NextCleanup ==
  ASSUME CleanupInv, [Next]_vars
  PROVE  CleanupInv'
<1>1. CASE Next
  BY <1>1, SearchInv, LookInv, DeleteInv, StopInv, KubernetesInv DEF Next, Cleanup
<1>2. CASE UNCHANGED vars
  BY <1>2 DEF vars, kubernetes, CleanupInv, TypeOK, BindingInv, FoundInv, TargetInv, UseInv,
              InUse, Doomed, Members
<1> QED
  BY <1>1, <1>2

-----------------------------------------------------------------------------
(* The theorems.                                                            *)

\* CleanupInv is an invariant of the scripts.
THEOREM CleanupCorrect == Spec => []CleanupInv
BY InitCleanup, NextCleanup, PTL DEF Spec

\* The variables stay in their types.
THEOREM TypeCorrect == Spec => []TypeOK
<1>1. CleanupInv => TypeOK
  BY DEF CleanupInv
<1> QED
  BY <1>1, CleanupCorrect, PTL

\* However the volumes are bound, one failed call is not enough to remove a
\* directory under a pod: it takes one to pass the pod and one to pass the volume.
THEOREM PodCorrect == Spec => NeverUnderPod
<1> DEFINE Spared == \A v, c \in Volume :
      directory[v] /\ ~directory'[v] /\ volumeName[c] = v /\ faults < 2 => pod[c] = "none"
<1>1. CleanupInv /\ [Next]_vars => [Spared]_vars
  <2> SUFFICES ASSUME CleanupInv, Next, NEW v \in Volume, NEW c \in Volume,
                      directory[v], ~directory'[v], volumeName[c] = v, faults < 2
               PROVE  pod[c] = "none"
    BY DEF vars
  <2>1. TypeOK
    BY DEF CleanupInv
  <2>2. PICK w \in Volume : Erase(w)
    BY DEF Next, Cleanup, FindCluster, ReadClaim, NoClaim, ReadVolume, NoUsers, DeleteClaim,
           ClaimDeleted, DeleteVolume, VolumeDeleted, Fails, Rerun, Kubernetes, Released,
           PodEnds, ClaimGone, VolumeGone, PodLost, PodStarts, kubernetes
  <2>3. w = v /\ pc[v] = "erase"
    BY <2>1, <2>2 DEF Erase, TypeOK
  <2>4. InUse(c, v) => faults > 1
    BY <2>3 DEF CleanupInv, UseInv
  <2> QED
    BY <2>1, <2>4 DEF InUse, TypeOK
<1> QED
  BY <1>1, CleanupCorrect, PTL DEF Spec, NeverUnderPod

\* However crosswise the volumes are bound, trimming deletes no claim of a member
\* that stays, as long as no call fails.
THEOREM ClaimCorrect == Spec => MemberClaimKept
<1> DEFINE Kept == \A c \in Members : faults = 0 /\ pvc[c] = "present" => pvc'[c] = "present"
<1>1. CleanupInv /\ [Next]_vars => [Kept]_vars
  <2> SUFFICES ASSUME CleanupInv, Next, NEW c \in Members, faults = 0, pvc[c] = "present",
                      pvc'[c] # "present"
               PROVE  FALSE
    BY DEF vars
  <2>1. TypeOK /\ c \in Volume
    BY DEF CleanupInv, Members
  <2>2. PICK v \in Volume : DeleteClaim(v) \/ ClaimGone(v)
    BY DEF Next, Cleanup, FindCluster, ReadClaim, NoClaim, ReadVolume, NoUsers, Erase,
           ClaimDeleted, DeleteVolume, VolumeDeleted, Fails, Rerun, Kubernetes, Released,
           PodEnds, VolumeGone, PodLost, PodStarts, kubernetes
  <2>3. CASE DeleteClaim(v)
    <3>1. target[v] # c
      BY <2>3 DEF CleanupInv, TargetInv, DeleteClaim
    <3> QED
      BY <2>1, <2>3, <3>1 DEF DeleteClaim, TypeOK
  <2>4. CASE ClaimGone(v)
    BY <2>1, <2>4 DEF ClaimGone, TypeOK
  <2> QED
    BY <2>2, <2>3, <2>4
<1> QED
  BY <1>1, CleanupCorrect, PTL DEF Spec, MemberClaimKept
=============================================================================
