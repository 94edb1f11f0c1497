-------------------------- MODULE DurableAccounts --------------------------
(***************************************************************************)
(* What the account store promises across crashes: the set of accounts the  *)
(* next Open will read changes by one account at a time, and a power loss   *)
(* takes back at most what was not yet settled on the disk.                 *)
(***************************************************************************)
CONSTANT Ids

VARIABLES
    accounts,  \* what the next Open reads
    settled    \* what no power loss can take back

DurableInit == accounts = {} /\ settled = {}

Add(id) == id \notin accounts /\ accounts' = accounts \cup {id} /\ UNCHANGED settled

Remove(id) == id \in accounts /\ accounts' = accounts \ {id} /\ UNCHANGED settled

Settle == settled' = accounts /\ UNCHANGED accounts

PowerLoss == accounts' \in {accounts, settled} /\ settled' = accounts'

DurableNext == Settle \/ PowerLoss \/ \E id \in Ids : Add(id) \/ Remove(id)

DurableSpec == DurableInit /\ [][DurableNext]_<<accounts, settled>>
=============================================================================
