---------------------------- MODULE StackingPlan ----------------------------
(***************************************************************************)
(* What the stacker promises to the network, told without polls, handlers  *)
(* and transactions: for every reward cycle it fixes one amount per slot,  *)
(* once and before the cycle begins; an account locks that amount for each *)
(* of its slots, from the next cycle on; and a lock that is about to end   *)
(* is extended, but never far beyond the next cycle.                       *)
(***************************************************************************)
EXTENDS PoxCalendar

CONSTANTS
    Accounts, StackingCycles,
    InitBurn, MaxBurn,  \* burn heights
    Slots,              \* account -> its target slots
    Amounts,            \* amounts per slot that may be fixed for a cycle
    Overlap             \* polls alive at once: each may extend once too often

VARIABLES
    burn,   \* the burn height
    fixed,  \* cycle -> amount per slot, 0 if not fixed
    lock    \* account -> its locked STX

vars == <<burn, fixed, lock>>

Cycles == {RewardCycleId(h) + 1 : h \in InitBurn..MaxBurn}
NextCycle == RewardCycleId(burn) + 1

Unlocked == [amount |-> 0, unlock |-> 0, pox5 |-> FALSE, first |-> 0]

Init ==
    /\ burn = InitBurn
    /\ fixed = [c \in Cycles |-> 0]
    /\ lock = [a \in Accounts |-> Unlocked]

(* The amount of a cycle is fixed once, at the latest in the cycle before. *)
Fix(c) ==
    /\ fixed[c] = 0
    /\ c <= NextCycle
    /\ \E amount \in Amounts : fixed' = [fixed EXCEPT ![c] = amount]
    /\ UNCHANGED <<burn, lock>>

(* An account that is not locked, or still in pox-4 when pox-5 is there,   *)
(* locks the amount fixed for the next cycle.                              *)
Lock(a) ==
    /\ fixed[NextCycle] # 0
    /\ \E pox5 \in BOOLEAN :
        /\ lock[a] = Unlocked \/ (pox5 /\ ~lock[a].pox5)
        /\ lock' = [lock EXCEPT ![a] =
              [amount |-> fixed[NextCycle] * Slots[a],
               unlock |-> (NextCycle + StackingCycles) * POX_REWARD_LENGTH,
               pox5   |-> pox5,
               first  |-> NextCycle]]
    /\ UNCHANGED <<burn, fixed>>

Extend(a) ==
    /\ lock[a] # Unlocked
    /\ lock[a].unlock <= (NextCycle + Overlap * StackingCycles) * POX_REWARD_LENGTH
    /\ lock' = [lock EXCEPT ![a].unlock = @ + StackingCycles * POX_REWARD_LENGTH]
    /\ UNCHANGED <<burn, fixed>>

(* A Bitcoin block arrives and releases the locks that end with it.        *)
Block ==
    /\ burn < MaxBurn
    /\ burn' = burn + 1
    /\ lock' = [a \in Accounts |->
                  IF lock[a].unlock <= burn + 1 THEN Unlocked ELSE lock[a]]
    /\ UNCHANGED fixed

Next ==
    \/ Block
    \/ \E c \in Cycles : Fix(c)
    \/ \E a \in Accounts : Lock(a) \/ Extend(a)

Spec == Init /\ [][Next]_vars
=============================================================================
