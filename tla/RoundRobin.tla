----------------------------- MODULE RoundRobin -----------------------------
(***************************************************************************)
(* What the transaction broadcaster promises: the accounts of ACCOUNT_KEYS *)
(* take turns.  Only an account that has sent the fewest transfers sends   *)
(* the next one, so no account runs ahead and none is left out.            *)
(***************************************************************************)
EXTENDS Integers

CONSTANTS
    Senders,    \* the accounts of ACCOUNT_KEYS
    MaxSent     \* bound on the transfers of an account

VARIABLE sent   \* account -> its transfers so far

Init == sent = [a \in Senders |-> 0]

Fewest(a) == \A b \in Senders : sent[a] <= sent[b]

Turn(a) ==
    /\ Fewest(a)
    /\ sent[a] < MaxSent
    /\ sent' = [sent EXCEPT ![a] = @ + 1]

Next == \E a \in Senders : Turn(a)

Spec == Init /\ [][Next]_sent
FairSpec == Spec /\ WF_sent(Next)
=============================================================================
