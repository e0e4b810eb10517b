----------------------------- MODULE Pox5Setup ------------------------------
(***************************************************************************)
(* The pox5-setup service, docker/stacker/stacking/pox5-setup.ts: before   *)
(* Epoch 4.0 it deploys the two sBTC contracts that pox-5 needs, with a    *)
(* nonce it reads once, and exits with an error when it comes too late.    *)
(* The network, the service's config and its keys are taken as valid.      *)
(* A definition X_Fault before a definition X is X with a plausible fault, *)
(* used by no action: it shows which property would notice the fault.      *)
(***************************************************************************)
EXTENDS BondLedger

CONSTANTS
    STACKS_30_HEIGHT,
    setupSafetyBlocks       \* POX_5_SETUP_SAFETY_BLOCKS

ASSUME SetupAssumption ==
    /\ STACKS_30_HEIGHT \in Nat
    /\ setupSafetyBlocks \in Nat

VARIABLE setup              \* the service: where it is and its local variables

(* checked is the burn height the last assertBeforeEpoch4 saw, why the     *)
(* reason of an exit.                                                      *)
SetupStart ==
    [pc |-> "waiting", contract |-> "sbtc-token", nonce |-> 0, checked |-> 0,
     why |-> "none"]

SetupStates ==
    [pc : {"waiting", "nonce", "exists", "check", "broadcast", "poll", "recheck",
           "done", "exited"},
     contract : Contracts, nonce : Nat, checked : Nat,
     why : {"none", "late", "refused", "timeout", "error"}]

SetupGoes(pc) == setup' = [setup EXCEPT !.pc = pc]
SetupExits(why) == setup' = [SetupStart EXCEPT !.pc = "exited", !.why = why]

-----------------------------------------------------------------------------
(* waitForNode asks until Nakamoto is active; a failed call is repeated.   *)
waitForNode ==
    /\ setup.pc = "waiting"
    /\ burn > STACKS_30_HEIGHT
    /\ SetupGoes("nonce")
    /\ UNCHANGED <<pending, faults>>

(* The nonce is read once, for both deploys.                               *)
ReadSetupNonce ==
    /\ setup.pc = "nonce"
    /\ setup' = [setup EXCEPT !.pc = "exists", !.nonce = conf[Deployer]]
    /\ UNCHANGED <<pending, faults>>

(* deployIfMissing says whether it deployed, and only then run() counts.   *)
NonceAfter_Always(isNew) == setup.nonce + 1
NonceAfter(isNew) == IF isNew THEN setup.nonce + 1 ELSE setup.nonce

(* The contract is there: on to the second one, or complete.               *)
NextContract(isNew) ==
    setup' = [setup EXCEPT
        !.pc = IF setup.contract = "sbtc-token" THEN "exists" ELSE "done",
        !.contract = "sbtc-registry",
        !.nonce = NonceAfter(isNew),
        !.checked = 0]

(* contractExists before the deploy; it takes an error for "no".           *)
deployIfMissing ==
    /\ setup.pc = "exists"
    /\ \/ /\ setup.contract \in deployed
          /\ NextContract(FALSE)
          /\ UNCHANGED faults
       \/ /\ setup.contract \notin deployed
          /\ SetupGoes("check")
          /\ UNCHANGED faults
       \/ /\ setup.contract \in deployed
          /\ faults < MaxFaults /\ faults' = faults + 1
          /\ SetupGoes("check")
    /\ UNCHANGED pending

(* assertBeforeEpoch4, before the broadcast and after each look.           *)
InTime_AtEpoch(h) == h < STACKS_40_HEIGHT
InTime_Never(h) == TRUE
InTime(h) == h < STACKS_40_HEIGHT - setupSafetyBlocks

assertBeforeEpoch4 ==
    /\ setup.pc \in {"check", "recheck"}
    /\ IF InTime(burn)
       THEN setup' = [setup EXCEPT
                !.pc = IF setup.pc = "check" THEN "broadcast" ELSE "poll",
                !.checked = burn]
       ELSE SetupExits("late")
    /\ UNCHANGED <<pending, faults>>

SetupTx ==
    [acct |-> Deployer, nonce |-> setup.nonce, call |-> setup.contract,
     bond |-> 0, amount |-> 0]

(* broadcastOrThrow: a refusal ends the service.                           *)
deployContract ==
    /\ setup.pc = "broadcast"
    /\ IF Admits(SetupTx)
       THEN pending' = pending \cup {SetupTx} /\ SetupGoes("poll")
       ELSE UNCHANGED pending /\ SetupExits("refused")
    /\ UNCHANGED faults

(* One of the 90 looks of waitForContract; an error counts as "no".        *)
waitForContract ==
    /\ setup.pc = "poll"
    /\ \/ /\ setup.contract \in deployed
          /\ NextContract(TRUE)
          /\ UNCHANGED faults
       \/ /\ setup.contract \notin deployed
          /\ SetupGoes("recheck")
          /\ UNCHANGED faults
       \/ /\ setup.contract \in deployed
          /\ faults < MaxFaults /\ faults' = faults + 1
          /\ SetupGoes("recheck")
    /\ UNCHANGED pending

(* They may run out at any look: how long 90 looks last is left open.      *)
SetupTimesOut ==
    /\ setup.pc = "poll"
    /\ setup.contract \notin deployed
    /\ SetupExits("timeout")
    /\ UNCHANGED <<pending, faults>>

(* Any other call that fails ends the service; a deploy whose broadcast    *)
(* fails may have reached the mempool.                                     *)
SetupFails ==
    /\ setup.pc \in {"nonce", "check", "recheck", "broadcast"}
    /\ faults < MaxFaults /\ faults' = faults + 1
    /\ SetupExits("error")
    /\ \/ UNCHANGED pending
       \/ /\ setup.pc = "broadcast" /\ Admits(SetupTx)
          /\ pending' = pending \cup {SetupTx}

(* A fair step of the service: all but failures.                           *)
SetupStep ==
    \/ waitForNode \/ ReadSetupNonce \/ deployIfMissing \/ assertBeforeEpoch4
    \/ deployContract \/ waitForContract \/ SetupTimesOut
=============================================================================
