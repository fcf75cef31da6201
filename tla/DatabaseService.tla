-------------------------- MODULE DatabaseService --------------------------
(***************************************************************************)
(* What the customer of a database may rely on: commands asked for one at  *)
(* a time and answered, a record, an Owner policy, the database itself,    *)
(* and for each account at most one password that is valid, being the one  *)
(* Vault shows and the one Kubernetes gives MongoDB.  A valid password     *)
(* stays valid until the customer asks for another one or for a deletion,  *)
(* and whatever an answer says is so.                                      *)
(*                                                                         *)
(* DatabaseCredentials implements it over two places that cannot be read   *)
(* back and applies that stop anywhere.                                    *)
(***************************************************************************)
EXTENDS Naturals

CONSTANTS
  Account,    \* the accounts of the database
  Kinds       \* the commands

VARIABLES
  request,    \* the command that was asked for and not yet answered, or "none"
  answer,     \* the last answer
  version,    \* the rotation version on record, 0 for no record
  disabled,   \* the Owner policy on record
  valid,      \* valid[a]: the valid passwords of account a, one or none
  exists,     \* does the database exist?
  draws       \* how many passwords have been drawn, which also names the last

vars == <<request, answer, version, disabled, valid, exists, draws>>

Init ==
  /\ request = "none" /\ answer = "none"
  /\ version = 0 /\ disabled = FALSE
  /\ valid = [a \in Account |-> {}]
  /\ exists = FALSE
  /\ draws = 0

Ask(k) ==
  /\ request = "none"
  /\ request' = k /\ answer' = "none"
  /\ UNCHANGED <<version, disabled, valid, exists, draws>>

\* What a success says of the state it is reported in.
Holds(k) ==
  /\ k \in {"AddDatabase", "RotatePasswords"} =>
       version > 0 /\ \A a \in Account : valid[a] # {}
  /\ k = "DeleteDatabase" => version = 0 /\ ~exists
  /\ k = "DisableOwner" => disabled
  /\ k = "EnableOwner"  => version > 0 /\ ~disabled

Reply(r) ==
  /\ request # "none"
  /\ r = "succeeded" => Holds(request)
  /\ request' = "none" /\ answer' = r
  /\ UNCHANGED <<version, disabled, valid, exists, draws>>

\* Between the two, and only then, the system works on the request.

Record ==
  /\ request = "AddDatabase" /\ exists
  /\ version = 0 /\ version' = 1
  /\ UNCHANGED <<request, answer, disabled, valid, exists, draws>>

\* No old password is valid once the version has moved, nor ever again, as none of
\* them was drawn last.  The Owner may have been due.
Rotate ==
  /\ request = "RotatePasswords"
  /\ \A a \in Account : draws \notin valid[a]
  /\ version > 0 /\ version' = version + 1
  /\ disabled' \in {disabled, TRUE}
  /\ valid' = [a \in Account |-> {}]
  /\ UNCHANGED <<request, answer, exists, draws>>

SetOwner ==
  /\ request \in {"DisableOwner", "EnableOwner"}
  /\ version > 0
  /\ disabled' = (request = "DisableOwner")
  /\ UNCHANGED <<request, answer, version, valid, exists, draws>>

Draw ==
  /\ request # "none"
  /\ draws' = draws + 1
  /\ UNCHANGED <<request, answer, version, disabled, valid, exists>>

\* Only the password that was drawn last can become valid.
Settle(a) ==
  /\ request # "none"
  /\ version > 0 /\ valid[a] = {}
  /\ valid' = [valid EXCEPT ![a] = {draws}]
  /\ UNCHANGED <<request, answer, version, disabled, exists, draws>>

\* A deletion: the database first, the passwords, then the record.
Drop ==
  /\ request = "DeleteDatabase"
  /\ version > 0
  /\ exists' = FALSE
  /\ UNCHANGED <<request, answer, version, disabled, valid, draws>>

Erase(a) ==
  /\ request = "DeleteDatabase" /\ ~exists
  /\ valid' = [valid EXCEPT ![a] = {}]
  /\ UNCHANGED <<request, answer, version, disabled, exists, draws>>

Forget ==
  /\ request = "DeleteDatabase" /\ ~exists
  /\ \A a \in Account : valid[a] = {}
  /\ version' = 0 /\ disabled' = FALSE
  /\ UNCHANGED <<request, answer, valid, exists, draws>>

\* Any command brings a recorded database back that an interrupted deletion has
\* dropped.
Create ==
  /\ request = "AddDatabase" \/ (request # "none" /\ version > 0)
  /\ exists' = TRUE
  /\ UNCHANGED <<request, answer, version, disabled, valid, draws>>

Next ==
  \/ \E k \in Kinds : Ask(k)
  \/ \E r \in {"succeeded", "failed", "crashed"} : Reply(r)
  \/ Record \/ Rotate \/ SetOwner \/ Draw
  \/ Drop \/ Forget \/ Create
  \/ \E a \in Account : Settle(a) \/ Erase(a)

Spec == Init /\ [][Next]_vars
=============================================================================
