------------------------- MODULE DeploymentService -------------------------
(***************************************************************************)
(* What users of the controller may rely on, whatever goes on below: a     *)
(* catalogue of deployments, each of one type for as long as it is listed, *)
(* and databases that exist only in listed deployments.  A deployment      *)
(* leaves the catalogue, or changes its type, only while it holds no data. *)
(*                                                                         *)
(* DeploymentLifecycle implements it with the Vault records as the         *)
(* catalogue, over applies that stop anywhere.                             *)
(***************************************************************************)
CONSTANTS
  Name,   \* the names of deployments
  Type    \* their types

VARIABLES
  type,   \* type[n]: the type under which n is listed, or "none"
  data    \* data[n]: n holds databases

TypeOK ==
  /\ type \in [Name -> Type \cup {"none"}]
  /\ data \in [Name -> BOOLEAN]
  /\ \A n \in Name : data[n] => type[n] # "none"

Init ==
  /\ type \in [Name -> Type \cup {"none"}]
  /\ data = [n \in Name |-> FALSE]

Register(n, t) ==
  /\ type[n] = "none"
  /\ type' = [type EXCEPT ![n] = t]
  /\ UNCHANGED data

Retire(n) ==
  /\ ~data[n]
  /\ type' = [type EXCEPT ![n] = "none"]
  /\ UNCHANGED data

Store(n) ==
  /\ type[n] # "none"
  /\ data' = [data EXCEPT ![n] = TRUE]
  /\ UNCHANGED type

Drop(n) ==
  /\ type[n] # "none"
  /\ data' = [data EXCEPT ![n] = FALSE]
  /\ UNCHANGED type

Next == \E n \in Name : \/ \E t \in Type : Register(n, t)
                        \/ Retire(n)
                        \/ Store(n) \/ Drop(n)

Spec == Init /\ [][Next]_<<type, data>>
=============================================================================
