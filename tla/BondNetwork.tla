---------------------------- MODULE BondNetwork -----------------------------
(***************************************************************************)
(* pox5-setup and bitcoin-staking on one chain, as the compose file starts *)
(* them: two processes that never talk to each other, and that by default  *)
(* count the nonces of one and the same account.  The containers have no   *)
(* restart policy: one that exited stays so until somebody starts it again.*)
(***************************************************************************)
EXTENDS Pox5Setup, BitcoinStaking

CONSTANT MaxDelay   \* burn blocks between a check of the deadline and the next
                    \* look at the contract

(* A look follows two requests and a sleep of two seconds; burn blocks are *)
(* 30 seconds apart, and five of them are left as a margin.                *)
ASSUME PaceAssumption == MaxDelay \in Nat /\ MaxDelay <= setupSafetyBlocks

vars == <<chainVars, pending, faults, restarts, setup, staking, raced>>

TypeOK ==
    /\ LedgerTypeOK
    /\ setup \in SetupStates
    /\ staking \in StakingStates
    /\ raced \subseteq Participants

Init ==
    /\ LedgerInit
    /\ setup = SetupStart
    /\ staking = StakingStart
    /\ raced = {}

-----------------------------------------------------------------------------
SetupRuns == SetupStep /\ UNCHANGED <<chainVars, restarts, staking, raced>>
SetupBreaks == SetupFails /\ UNCHANGED <<chainVars, restarts, staking, raced>>
StakingRuns == StakingStep /\ UNCHANGED <<chainVars, restarts, setup>>
StakingBreaks == StakingFails /\ UNCHANGED <<chainVars, restarts, setup>>

(* make restart, or docker start after an exit.                            *)
RestartSetup ==
    /\ restarts < MaxRestarts /\ restarts' = restarts + 1
    /\ setup' = SetupStart
    /\ UNCHANGED <<chainVars, pending, faults, staking, raced>>

RestartStaking ==
    /\ restarts < MaxRestarts /\ restarts' = restarts + 1
    /\ staking' = StakingStart
    /\ UNCHANGED <<chainVars, pending, faults, setup, raced>>

(* The pace that pox5-setup's safety margin relies on.                     *)
InPace ==
    setup.pc \in {"broadcast", "poll"} => burn < setup.checked + MaxDelay

MineAny == \E tx \in pending : Mine(tx)
Tick == BurnBlock /\ InPace

(* The chain goes on, and with it the stacker.                             *)
ChainRuns ==
    /\ MineAny \/ Tick \/ SignersRegister
    /\ UNCHANGED <<setup, staking, raced>>

(* What need not happen: a drop, a bond of somebody else.                  *)
ChainSurprises ==
    /\ \/ \E tx \in pending : Lose(tx)
       \/ \E b \in OtherBonds : OtherBond(b)
    /\ UNCHANGED <<setup, staking, raced>>

Next ==
    \/ SetupRuns \/ SetupBreaks \/ RestartSetup
    \/ StakingRuns \/ StakingBreaks \/ RestartStaking
    \/ ChainRuns \/ ChainSurprises

Spec == Init /\ [][Next]_vars

(* Both services keep polling and the chain goes on (up to its bound, so   *)
(* that every kind of its steps gets its turn).                            *)
Fairness == WF_vars(SetupRuns) /\ WF_vars(StakingRuns) /\ WF_vars(ChainRuns)

FairSpec == Spec /\ Fairness

-----------------------------------------------------------------------------
(* No account ever has a gap or a queue: whatever the two processes, their *)
(* restarts and somebody else's bonds do, an account has at most one       *)
(* transaction in the mempool, and it is the next one to be mined.  Two    *)
(* processes count nonces of one account (pox5-setup.ts:131, pox5.ts:235). *)
OneInFlight ==
    /\ \A tx \in pending : tx.nonce = conf[tx.acct]
    /\ \A t1, t2 \in pending : t1.acct = t2.acct => t1 = t2

(* While a deploy of pox5-setup is on its way within the deadline, the     *)
(* other process has not begun to use the account: the margin before Epoch *)
(* 4.0 keeps the two apart, whichever of them restarts.                    *)
SharedAccount ==
    setup.pc \in {"broadcast", "poll"} =>
        staking.pc \in {"starting", "exited"} /\ ours = {} /\ others = {}

(* When pox5-setup reports completion, both contracts came to exist before *)
(* Epoch 4.0, although the deadline is checked before the broadcast and    *)
(* the deploy is mined later.  (After a restart it reports completion for  *)
(* contracts that came too late, because it finds them deployed.)          *)
CompletesInTime ==
    restarts = 0 /\ setup.pc = "done" => deployed = Contracts /\ late = {}

(* Left alone, the two processes never get a broadcast refused for a nonce *)
(* that the other one, or an earlier step of their own, has used.          *)
NoClash ==
    restarts = 0 =>
        /\ setup.why # "refused"
        /\ setup.pc = "done" /\ sentOthers = {} => staking.why # "refused"

(* A participant gets more sBTC than the target only if its balance was    *)
(* read while an earlier mint was pending: after a restart between the     *)
(* mint and its confirmation, and never otherwise.                         *)
NoOvermint ==
    \A p \in Participants : sbtc[p] > targetBalance => p \in raced

(* Completion means that every participant is a member of the one bond     *)
(* that was selected.  (After a restart members of an earlier bond are     *)
(* skipped, and participants may end up in different bonds.)               *)
OneBond ==
    restarts = 0 /\ staking.pc = "done" =>
        \A p \in Participants : member[p] = staking.index

(* The sweep leaves out indices, because it moves the base and the offset, *)
(* it looks at bonds that change meanwhile, and after a restart it finds   *)
(* bonds of an earlier start.  Still it never selects a bond while one     *)
(* before it could be registered for: they all had started.                *)
Selected ==
    staking.pc \in {"nonce", "send", "wait", "balance", "membership", "window", "done"}

SelectsNext ==
    Selected => \A b \in configuredBondIndex..(staking.index - 1) :
                    staking.height >= bondStartBurnHeight(b)

(* Both processes come to an end, unless pox5-setup fails, which leaves    *)
(* bitcoin-staking waiting for its contract: no bond, sweep, registration  *)
(* window or lost transaction keeps one of them waiting for ever.          *)
Settled ==
    \/ setup.pc = "exited"
    \/ setup.pc = "done" /\ staking.pc \in {"done", "exited"}

Settles == []<>Settled
=============================================================================
