----------------------------- MODULE CallLedger -----------------------------
(***************************************************************************)
(* What a channel promises about the method calls between its participants *)
(* (pubsub-channel/calls.ts): a call is issued, then it is settled, once,  *)
(* with one outcome.  How often it is re-issued, answered, cancelled or    *)
(* timed out does not show here.                                           *)
(***************************************************************************)
CONSTANTS
  Call,      \* transport call ids
  Outcome    \* of a settled call

VARIABLE ledger

Issue(c) == ledger[c] = "none" /\ ledger' = [ledger EXCEPT ![c] = "pending"]
Settle(c, o) == ledger[c] = "pending" /\ ledger' = [ledger EXCEPT ![c] = o]

Init == ledger = [c \in Call |-> "none"]
Next == \E c \in Call : Issue(c) \/ \E o \in Outcome : Settle(c, o)
Spec == Init /\ [][Next]_ledger
=============================================================================
