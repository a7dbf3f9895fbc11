-------------------------------- MODULE Once --------------------------------
(***************************************************************************)
(* The promise of the importer, without its parts: every alert becomes at  *)
(* most one transaction, and only an alert that was claimed becomes one.   *)
(* A claim is for ever; an alert may stay without a transaction.           *)
(***************************************************************************)
EXTENDS Sequences

CONSTANT Alerts

VARIABLES
    claimed,   \* the alerts some process has taken
    posted     \* the alerts of the ledger, in the order of its transactions

vars == <<claimed, posted>>

Init == claimed = {} /\ posted = <<>>

Claim(a) ==
    /\ a \in Alerts \ claimed
    /\ claimed' = claimed \cup {a}
    /\ UNCHANGED posted

Post(a) ==
    /\ a \in claimed
    /\ \A i \in DOMAIN posted : posted[i] # a
    /\ posted' = Append(posted, a)
    /\ UNCHANGED claimed

Next == \E a \in Alerts : Claim(a) \/ Post(a)

Spec == Init /\ [][Next]_vars
=============================================================================
