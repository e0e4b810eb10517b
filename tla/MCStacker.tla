----------------------------- MODULE MCStacker -----------------------------
(* Values for TLC: two accounts, the second with twice the slots.  In the  *)
(* runs about overlapping polls it cannot pay for its slots: its handler   *)
(* throws in every poll that wants it to stake, and leaves that of the     *)
(* first account to run on beside the next poll.                           *)
EXTENDS Stacker, TLC

CONSTANTS a1, a2, p1, p2

MCTargetSlots == [a \in Accounts |-> IF a = a1 THEN 1 ELSE 2]
MCBalance == [a \in Accounts |-> 50]
MCShortBalance == [a \in Accounts |-> IF a = a1 THEN 50 ELSE 10]
(* What run() read for a poll is dead once the loop has left the poll and    *)
(* its handlers have ended: such states differ in nothing a step looks at. *)
Live(p) == (loopPc = "settling" /\ poll = p) \/ \E a \in Accounts : task[p, a].pc # "done"
LiveView ==
    <<nodeVars, loopPc, IF loopPc = "settling" THEN {poll} ELSE {},
      lastPoxContractId, cycleStackingAmounts, startTxFee,
      [p \in {q \in Polls : Live(q)} |-> info[p]],
      {p \in Polls : Live(p) /\ txSubmitted[p]}, task, faults, restarts>>
PollSymmetry == Permutations(Polls)
=============================================================================
