--------------------------- MODULE BitcoinStaking ---------------------------
(***************************************************************************)
(* The bitcoin-staking service, docker/stacker/stacking/bitcoin-staking.ts *)
(* with the calls of pox5.ts it makes: it waits for pox-5, the mock sBTC   *)
(* and the signers, selects a bond and sets it up, then mints sBTC for     *)
(* every participant and registers it for the bond, or exits with an error.*)
(* Its config, the terms of the bond and the signer manager of each        *)
(* participant are left out.                                               *)
(* A definition X_Fault before a definition X is X with a plausible fault, *)
(* used by no action: it shows which property would notice the fault.      *)
(***************************************************************************)
EXTENDS BondLedger

CONSTANTS
    configuredBondIndex,    \* BITCOIN_STAKING_BOND_INDEX
    mintMultiplier,         \* BITCOIN_STAKING_MINT_MULTIPLIER
    Sweep                   \* bonds looked at between two polls, 16 in the code

ASSUME StakingAssumption ==
    /\ configuredBondIndex \in Nat
    /\ mintMultiplier \in Nat \ {0}
    /\ Sweep \in Nat \ {0}

BOND_GAP_CYCLES == 2

(* The name says it: pox-5 starts a bond that many cycles after another.   *)
ASSUME GapAssumption == BondPeriod >= BOND_GAP_CYCLES * POX_REWARD_LENGTH

VARIABLES
    staking,        \* the service: where it is and its local variables
    raced           \* history: participants whose balance was read too early

(* What it sends, and the wait for its effect, has the same three steps    *)
(* for a setup-bond, a mint and a register-for-bond: task says which.      *)
Tasks == {"our-bond", "mint", "register"}

(* height is the burn height of the last sweep, p the participant whose    *)
(* turn it is, current the balance that was read for it.                   *)
StakingStart ==
    [pc |-> "starting", height |-> 0, base |-> configuredBondIndex, offset |-> 0,
     index |-> 0, task |-> "our-bond", p |-> 1, current |-> 0, nonce |-> 0,
     why |-> "none"]

TooLittle == 0..(AmountSats - 1)

StakingStates ==
    [pc : {"starting", "sbtc", "signers", "sweep", "bond", "nonce", "send", "wait",
           "balance", "membership", "window", "done", "exited"},
     height : Nat, base : Nat, offset : Nat, index : Nat, task : Tasks,
     p : Participants, current : TooLittle, nonce : Nat,
     why : {"none", "refused", "timeout", "started", "error"}]

StakingGoes(pc) == staking' = [staking EXCEPT !.pc = pc]
StakingExits(why) == staking' = [StakingStart EXCEPT !.pc = "exited", !.why = why]
Quiet == UNCHANGED <<pending, faults, raced>>

-----------------------------------------------------------------------------
(* waitForPox5, waitForSbtcContract and waitForSignerManagers poll.        *)
waitForPox5 ==
    /\ staking.pc = "starting" /\ Pox5Active
    /\ StakingGoes("sbtc")
    /\ Quiet

waitForSbtcContract ==
    /\ staking.pc = "sbtc" /\ "sbtc-token" \in deployed
    /\ StakingGoes("signers")
    /\ Quiet

waitForSignerManagers ==
    /\ staking.pc = "signers" /\ signers
    /\ StakingGoes("sweep")
    /\ Quiet

(* selectBondIndex reads the burn height once for a whole sweep.           *)
SweepHeight_First == IF staking.height = 0 THEN burn ELSE staking.height
SweepHeight == burn

BeginSweep ==
    /\ staking.pc = "sweep"
    /\ staking' = [staking EXCEPT !.pc = "bond", !.offset = 0, !.height = SweepHeight]
    /\ Quiet

bondIndex == staking.base + staking.offset

setupWindow == BOND_GAP_CYCLES * POX_REWARD_LENGTH
bondSetupOpenHeight_WiderWindow(start) == start - setupWindow - POX_REWARD_LENGTH
bondSetupOpenHeight(start) == IF start > setupWindow THEN start - setupWindow ELSE 0

(* The bond at hand has started: the base moves behind it, and so does the *)
(* offset.                                                                 *)
PastBond ==
    /\ staking.height >= bondStartBurnHeight(bondIndex)
    /\ staking' = [staking EXCEPT !.base = bondIndex + 1, !.offset = @ + 1]

(* selectBondIndex returns, and its own variables are gone.                *)
Select(pc) ==
    staking' = [staking EXCEPT !.pc = pc, !.task = "our-bond", !.index = bondIndex,
                               !.base = 0, !.offset = 0]

(* It is set up already, for the participants: there is nothing to set up. *)
ExistingBond ==
    /\ staking.height < bondStartBurnHeight(bondIndex)
    /\ bondIndex \in ours
    /\ Select("balance")

(* It is set up without them: the next one is tried.                       *)
ForeignBond ==
    /\ staking.height < bondStartBurnHeight(bondIndex)
    /\ bondIndex \in others
    /\ staking' = [staking EXCEPT !.offset = @ + 1]

(* It is free: its setup window is open, or everything waits for that.     *)
FreeBond ==
    /\ staking.height < bondStartBurnHeight(bondIndex)
    /\ bondIndex \notin ours \cup others
    /\ IF staking.height >= bondSetupOpenHeight(bondStartBurnHeight(bondIndex))
       THEN Select("nonce")
       ELSE StakingGoes("sweep")

selectBondIndex ==
    /\ staking.pc = "bond"
    /\ IF staking.offset < Sweep
       THEN PastBond \/ ExistingBond \/ ForeignBond \/ FreeBond
       ELSE StakingGoes("sweep")
    /\ Quiet

-----------------------------------------------------------------------------
(* setupBond, mintSbtcIfNeeded and registerForBond: read the nonce, send,  *)
(* wait for the effect.                                                    *)
Sender == IF staking.task = "our-bond" THEN BondAdmin ELSE staking.p

ReadStakingNonce ==
    /\ staking.pc = "nonce"
    /\ staking' = [staking EXCEPT !.pc = "send", !.nonce = conf[Sender]]
    /\ Quiet

targetBalance == AmountSats * mintMultiplier
amountToMint_All == targetBalance
amountToMint == targetBalance - staking.current

StakingTx ==
    [acct |-> Sender, nonce |-> staking.nonce, call |-> staking.task,
     bond |-> IF staking.task = "mint" THEN 0 ELSE staking.index,
     amount |-> IF staking.task = "mint" THEN amountToMint ELSE 0]

(* broadcastOrThrow: a refusal ends the service.                           *)
SendTask ==
    /\ staking.pc = "send"
    /\ IF Admits(StakingTx)
       THEN /\ pending' = pending \cup {StakingTx}
            /\ staking' = [staking EXCEPT !.pc = "wait", !.nonce = 0, !.current = 0]
       ELSE UNCHANGED pending /\ StakingExits("refused")
    /\ UNCHANGED <<faults, raced>>

Arrived_Assumed == TRUE
Arrived ==
    \/ staking.task = "our-bond" /\ staking.index \in ours
    \/ staking.task = "mint" /\ sbtc[staking.p] >= AmountSats
    \/ staking.task = "register" /\ member[staking.p] # NoBond

(* All participants are funded before the first one registers.             *)
NextParticipant_OneMore(pc, after) ==
    staking' = IF staking.p <= NumParticipants
               THEN [staking EXCEPT !.pc = pc, !.p = @ + 1]
               ELSE [staking EXCEPT !.pc = after, !.p = 1]
NextParticipant(pc, after) ==
    staking' = IF staking.p < NumParticipants
               THEN [staking EXCEPT !.pc = pc, !.p = @ + 1]
               ELSE [staking EXCEPT !.pc = after, !.p = 1]

NextMint == NextParticipant("balance", "membership")
NextRegistration == NextParticipant("membership", "done")

TaskDone ==
    /\ staking.pc = "wait" /\ Arrived
    /\ \/ /\ staking.task = "our-bond"
          /\ StakingGoes("balance")
       \/ staking.task = "mint" /\ NextMint
       \/ staking.task = "register" /\ NextRegistration
    /\ Quiet

(* The 120 looks run out, at any look: how long they last is left open.    *)
TaskTimesOut ==
    /\ staking.pc = "wait" /\ ~Arrived
    /\ StakingExits("timeout")
    /\ Quiet

(* mintSbtcIfNeeded reads the balance first.                               *)
MintPending(p) == \E m \in pending : m.acct = p /\ m.call = "mint"

mintSbtcIfNeeded ==
    /\ staking.pc = "balance"
    /\ IF sbtc[staking.p] >= AmountSats
       THEN NextMint /\ UNCHANGED raced
       ELSE /\ staking' = [staking EXCEPT !.pc = "nonce", !.task = "mint",
                                          !.current = sbtc[staking.p]]
            /\ raced' = IF MintPending(staking.p) THEN raced \cup {staking.p} ELSE raced
    /\ UNCHANGED <<pending, faults>>

(* registerForBond skips a participant that is a member already.           *)
registerForBond ==
    /\ staking.pc = "membership"
    /\ IF member[staking.p] # NoBond THEN NextRegistration ELSE StakingGoes("window")
    /\ Quiet

waitForRegistrationWindow ==
    /\ staking.pc = "window"
    /\ \/ /\ burn >= bondStartBurnHeight(staking.index)
          /\ StakingExits("started")
       \/ /\ burn < bondStartBurnHeight(staking.index)
          /\ ~isPreparePhase(burn)
          /\ staking' = [staking EXCEPT !.pc = "nonce", !.task = "register"]
    /\ Quiet

(* Any call that fails, after waitForSetup, ends the service; contractExists *)
(* in waitForSbtcContract takes an error for "no".  What failed to be sent *)
(* may have reached the mempool.                                           *)
StakingFails ==
    /\ staking.pc \notin {"sbtc", "done", "exited"}
    /\ faults < MaxFaults /\ faults' = faults + 1
    /\ StakingExits("error")
    /\ \/ UNCHANGED pending
       \/ /\ staking.pc = "send" /\ Admits(StakingTx)
          /\ pending' = pending \cup {StakingTx}
    /\ UNCHANGED raced

(* A fair step of the service: all but failures.                           *)
StakingStep ==
    \/ waitForPox5 \/ waitForSbtcContract \/ waitForSignerManagers
    \/ BeginSweep \/ selectBondIndex \/ ReadStakingNonce \/ SendTask
    \/ TaskDone \/ TaskTimesOut \/ mintSbtcIfNeeded
    \/ registerForBond \/ waitForRegistrationWindow
=============================================================================
