--------------------------- MODULE TopologyChange ---------------------------
(***************************************************************************)
(* What AddShard and DeleteShard promise of one ShardedCluster, whatever   *)
(* is interrupted, repeated or run beside them: one change at a time is    *)
(* pending; while it is, only the shards between its two ends come and go; *)
(* the recorded count moves once, from its start to its target; and it is  *)
(* over only when exactly the shards of the target are there.              *)
(*                                                                         *)
(* ShardTopology implements it with the Vault record, the StatefulSets and *)
(* the deployment lock.                                                    *)
(***************************************************************************)
EXTENDS Integers

CONSTANTS
  MaxShards   \* the limit on the shards of a cluster

VARIABLES
  count,      \* the recorded number of shards
  live,       \* the shards that are there
  change      \* the pending change

Ordinals(n) == 0 .. n - 1

NoChange == [from |-> 0, to |-> 0]
Pending  == change # NoChange

\* The shards the pending change adds or removes.
Affected == (change.from .. change.to - 1) \cup (change.to .. change.from - 1)

Init ==
  /\ count \in 1 .. MaxShards
  /\ live = Ordinals(count)
  /\ change = NoChange

Begin(n) ==
  /\ ~Pending
  /\ n # count
  /\ change' = [from |-> count, to |-> n]
  /\ UNCHANGED <<count, live>>

AddOrRemove(i) ==
  /\ i \in Affected
  /\ live' \in {live \cup {i}, live \ {i}}
  /\ UNCHANGED <<count, change>>

Record ==
  /\ Pending
  /\ count' = change.to
  /\ UNCHANGED <<live, change>>

Complete ==
  /\ Pending
  /\ count = change.to
  /\ live = Ordinals(change.to)
  /\ change' = NoChange
  /\ UNCHANGED <<count, live>>

Next == \/ \E n \in 1 .. MaxShards : Begin(n)
        \/ \E i \in Ordinals(MaxShards) : AddOrRemove(i)
        \/ Record
        \/ Complete

Spec == Init /\ [][Next]_<<count, live, change>>
=============================================================================
