---------------------------- MODULE PoxCalendar ----------------------------
(***************************************************************************)
(* The PoX calendar of docker/stacker/stacking/common.ts: how a Bitcoin    *)
(* (burn) height falls into reward cycles and their prepare phases.        *)
(***************************************************************************)
EXTENDS Integers

CONSTANTS
    POX_REWARD_LENGTH,      \* burn blocks in a reward cycle
    POX_PREPARE_LENGTH      \* burn blocks of its prepare phase, the last ones

ASSUME CalendarAssumption ==
    /\ POX_REWARD_LENGTH \in Nat \ {0}
    /\ POX_PREPARE_LENGTH \in Nat
    /\ POX_PREPARE_LENGTH < POX_REWARD_LENGTH

(* common.ts numbers cycles from 1; only differences of its results matter. *)
burnBlockToRewardCycle(burnBlock) == burnBlock \div POX_REWARD_LENGTH + 1

isPreparePhase(burnBlock) ==
    POX_REWARD_LENGTH - (burnBlock % POX_REWARD_LENGTH) <= POX_PREPARE_LENGTH

(* The node's own reward_cycle_id, as /v2/pox reports it: counted from 0. *)
RewardCycleId(burnBlock) == burnBlock \div POX_REWARD_LENGTH
=============================================================================
