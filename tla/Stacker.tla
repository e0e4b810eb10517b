------------------------------ MODULE Stacker ------------------------------
(***************************************************************************)
(* The stacker service: docker/stacker/stacking/stacking.ts with           *)
(* pox5-signer-manager.ts.  One poll of run() reads the PoX info, then the *)
(* status of every account, and then starts one asynchronous handler per   *)
(* account.  Every await of a handler ends a step, so handlers interleave  *)
(* with each other and with the node.                                      *)
(*                                                                         *)
(* A handler that throws makes Promise.all reject and the loop go on, but  *)
(* the other handlers of that poll are not cancelled: they run on beside   *)
(* those of later polls.  Polls is the set of polls alive at the same time.*)
(*                                                                         *)
(* A definition X_Fault before a definition X is X with a plausible fault, *)
(* used by no action: it shows which property would notice the fault.      *)
(***************************************************************************)
EXTENDS StacksNode

CONSTANTS
    Polls,          \* identities of overlapping polls (bound)
    TargetSlots,    \* account -> STACKING_SLOT_DISTRO entry
    Balance,        \* account -> its STX, locked or not
    CALL_FEE,       \* POX_5_CALL_FEE
    DEPLOY_FEE,     \* POX_5_DEPLOY_FEE
    StartTxFee,     \* initial startTxFee
    MaxTxFee,       \* bound on startTxFee
    MaxFaults,      \* bound: RPC calls that fail
    MaxRestarts     \* bound: restarts of the container

ASSUME StackerAssumption ==
    /\ TargetSlots \in [Accounts -> Nat \ {0}]
    /\ Balance \in [Accounts -> Nat]
    /\ CALL_FEE \in Nat /\ DEPLOY_FEE \in Nat
    /\ StartTxFee \in Nat /\ MaxTxFee \in Nat /\ StartTxFee <= MaxTxFee
    /\ MaxFaults \in Nat /\ MaxRestarts \in Nat

VARIABLES
    loopPc,                 \* where loop() is
    poll,                   \* the poll loop() waits for
    lastPoxContractId,
    cycleStackingAmounts,   \* cycle -> fixed amount per slot, 0 if not set
    startTxFee,
    info,                   \* poll -> its poxInfo and poxTransitioned
    txSubmitted,            \* poll -> its txSubmitted
    task,                   \* <<poll, account>> -> the account's handler
    faults, restarts        \* how many have happened

stackerVars == <<loopPc, poll, lastPoxContractId, cycleStackingAmounts,
                 startTxFee, info, txSubmitted, task, faults, restarts>>
vars == <<nodeVars, stackerVars>>

Tasks == Polls \X Accounts
Acct(t) == t[2]

Contracts == {"pox-3", "pox-4", "pox-5"}
PoxInfos == [contract : Contracts, height : Heights,
             threshold : Thresholds, transitioned : BOOLEAN]

(* A handler: its next step, the status read for its account, and the      *)
(* nonce, fee, amount and call of the transaction it works towards.        *)
Pcs == {"done", "status", "ready", "nonce", "exists", "deploy", "await",
        "check", "register", "submit"}
NoTask == [pc |-> "done", locked |-> FALSE, unlock |-> 0, call |-> "stake",
           nonce |-> 0, fee |-> 0, amount |-> 0]
TaskRecords == [pc : Pcs, locked : BOOLEAN, unlock : Nat, call : Calls,
                nonce : Nat, fee : Nat, amount : Nat]

StackerTypeOK ==
    /\ loopPc \in {"starting", "idle", "settling", "postwait"}
    /\ poll \in Polls
    /\ lastPoxContractId \in Contracts \cup {""}
    /\ cycleStackingAmounts \in [Cycles -> Nat]
    /\ startTxFee \in Nat
    /\ info \in [Polls -> PoxInfos]
    /\ txSubmitted \in [Polls -> BOOLEAN]
    /\ task \in [Tasks -> TaskRecords]
    /\ faults \in Nat
    /\ restarts \in Nat

(* Every variable of the node and of the stacker keeps its type: nonces    *)
(* and fees stay naturals, every pending transaction is well formed.       *)
TypeOK == NodeTypeOK /\ StackerTypeOK

StackerInit ==
    /\ loopPc = "starting"
    /\ poll \in Polls
    /\ lastPoxContractId = ""
    /\ cycleStackingAmounts = [c \in Cycles |-> 0]
    /\ startTxFee = StartTxFee
    /\ info = [p \in Polls |-> [contract |-> "pox-3", height |-> InitBurn,
                                threshold |-> threshold, transitioned |-> FALSE]]
    /\ txSubmitted = [p \in Polls |-> FALSE]
    /\ task = [t \in Tasks |-> NoTask]
    /\ faults = 0 /\ restarts = 0

Init == NodeInit /\ StackerInit

-----------------------------------------------------------------------------
(* loop() and the part of run() before the handlers.                       *)

waitForSetup ==
    /\ loopPc = "starting"
    /\ loopPc' = "idle"
    /\ UNCHANGED <<nodeVars, poll, lastPoxContractId, cycleStackingAmounts,
                   startTxFee, info, txSubmitted, task, faults, restarts>>

PoxInfo == [contract |-> poxContract(burn), height |-> burn,
            threshold |-> threshold,
            transitioned |-> lastPoxContractId \notin {"", poxContract(burn)}]

SkipsPoll ==
    \/ poxContract(burn) \notin {"pox-4", "pox-5"}
    \/ poxContract(burn) = "pox-5" /\ isPreparePhase(burn)

(* run() returns early; it has noted the contract id by then.              *)
SkipRun ==
    /\ loopPc = "idle"
    /\ SkipsPoll
    /\ lastPoxContractId' = poxContract(burn)
    /\ UNCHANGED <<nodeVars, loopPc, poll, cycleStackingAmounts, startTxFee,
                   info, txSubmitted, task, faults, restarts>>

BeginRun(p) ==
    /\ loopPc = "idle"
    /\ ~SkipsPoll
    /\ \A a \in Accounts : task[p, a].pc = "done"
    /\ loopPc' = "settling" /\ poll' = p
    /\ lastPoxContractId' = poxContract(burn)
    /\ info' = [info EXCEPT ![p] = PoxInfo]
    /\ txSubmitted' = [txSubmitted EXCEPT ![p] = FALSE]
    /\ task' = [t \in Tasks |-> IF t[1] = p THEN [NoTask EXCEPT !.pc = "status"]
                                ELSE task[t]]
    /\ UNCHANGED <<nodeVars, cycleStackingAmounts, startTxFee, faults, restarts>>

(* getAccountStatus of one account.                                        *)
ReadStatus(t) ==
    /\ task[t].pc = "status"
    /\ task' = [task EXCEPT ![t].pc = "ready",
                            ![t].locked = lock[Acct(t)] # Unlocked,
                            ![t].unlock = lock[Acct(t)].unlock]
    /\ UNCHANGED <<nodeVars, loopPc, poll, lastPoxContractId,
                   cycleStackingAmounts, startTxFee, info, txSubmitted,
                   faults, restarts>>

-----------------------------------------------------------------------------
(* The handlers.                                                           *)

(* The handler of t throws.  loop() stops waiting for its poll; the other  *)
(* handlers of the poll live on, unless it was still reading statuses.     *)
Reject(t) ==
    /\ task' = IF task[t].pc = "status"
               THEN [u \in Tasks |-> IF u[1] = t[1] THEN NoTask ELSE task[u]]
               ELSE [task EXCEPT ![t] = NoTask]
    /\ loopPc' = IF loopPc = "settling" /\ poll = t[1] THEN "idle" ELSE loopPc

(* The transaction a handler would broadcast now for a call.               *)
TxOf(t, call, fee) ==
    [acct |-> Acct(t), nonce |-> task[t].nonce, fee |-> fee, call |-> call,
     amount |-> task[t].amount, cycle |-> RewardCycleId(info[t[1]].height)]

DeployTx_Ahead(t)   == [TxOf(t, "deploy", DEPLOY_FEE) EXCEPT !.nonce = @ + 1]
RegisterTx_Ahead(t) == [TxOf(t, "register", CALL_FEE) EXCEPT !.nonce = @ + 1]

DeployTx(t)   == TxOf(t, "deploy", DEPLOY_FEE)
RegisterTx(t) == TxOf(t, "register", CALL_FEE)
CallTx(t)     == TxOf(t, task[t].call, task[t].fee)

NextCycle(t) == RewardCycleId(info[t[1]].height) + 1

(* The locked STX run out at the start of the cycle after the poll's.      *)
UnlocksNext_OrLater(t) ==
    burnBlockToRewardCycle(task[t].unlock)
        >= burnBlockToRewardCycle(info[t[1]].height) + 1

UnlocksNext_Now(t) ==
    burnBlockToRewardCycle(task[t].unlock) = burnBlockToRewardCycle(info[t[1]].height)

UnlocksNext(t) ==
    burnBlockToRewardCycle(task[t].unlock)
        = burnBlockToRewardCycle(info[t[1]].height) + 1

(* SLOT_MULTIPLIER is 1.1.                                                 *)
getFixedStackingAmount_Current(cycle, currentThreshold) ==
    (currentThreshold * 11) \div 10

getFixedStackingAmount(cycle, currentThreshold) ==
    IF cycleStackingAmounts[cycle] # 0 THEN cycleStackingAmounts[cycle]
    ELSE (currentThreshold * 11) \div 10

(* All statuses of the poll are in, so its handlers have started.          *)
Started(t) ==
    /\ task[t].pc = "ready"
    /\ \A a \in Accounts : task[t[1], a].pc # "status"

(* The handler settles on a call and goes on to read its nonce.            *)
Settle(t, call, fee, amount) ==
    task' = [task EXCEPT ![t] = [NoTask EXCEPT !.pc = "nonce", !.call = call,
                                               !.fee = fee, !.amount = amount]]

(* The head of stackStx and of stakePox5: fix the amount of the cycle, and *)
(* throw if the account cannot pay for its slots.                          *)
StartLocking(t, call, fee) ==
    LET fixed == getFixedStackingAmount(NextCycle(t), info[t[1]].threshold)
        amountToStack == fixed * TargetSlots[Acct(t)]
    IN  /\ cycleStackingAmounts' =
              [cycleStackingAmounts EXCEPT ![NextCycle(t)] = fixed]
        /\ \/ /\ Balance[Acct(t)] < amountToStack
              /\ Reject(t)
              /\ UNCHANGED startTxFee
           \/ /\ Balance[Acct(t)] >= amountToStack
              /\ Settle(t, call, fee, amountToStack)
              /\ startTxFee' = startTxFee + (IF call = "stack" THEN 1 ELSE 0)
              /\ UNCHANGED loopPc

(* hasPox5Stake; a handler takes a failed read for "no stake".             *)
hasPox5Stake(t) == lock[Acct(t)].pox5

hasActivePox5Stake(t) == ~info[t[1]].transitioned /\ hasPox5Stake(t)

DecidePox5(t) ==
    /\ Started(t)
    /\ info[t[1]].contract = "pox-5"
    /\ \/ /\ ~hasActivePox5Stake(t)
          /\ StartLocking(t, "stake", CALL_FEE)
          /\ UNCHANGED faults
       \/ /\ hasActivePox5Stake(t)
          /\ faults < MaxFaults /\ faults' = faults + 1
          /\ StartLocking(t, "stake", CALL_FEE)
       \/ /\ hasActivePox5Stake(t) /\ UnlocksNext(t)
          /\ Settle(t, "update", CALL_FEE, 0)
          /\ UNCHANGED <<cycleStackingAmounts, startTxFee, loopPc, faults>>
       \/ /\ hasActivePox5Stake(t) /\ ~UnlocksNext(t)
          /\ task' = [task EXCEPT ![t] = NoTask]
          /\ UNCHANGED <<cycleStackingAmounts, startTxFee, loopPc, faults>>
    /\ UNCHANGED <<nodeVars, poll, lastPoxContractId, info, txSubmitted, restarts>>

DecidePox4(t) ==
    /\ Started(t)
    /\ info[t[1]].contract = "pox-4"
    /\ startTxFee < MaxTxFee
    /\ \/ ~task[t].locked /\ StartLocking(t, "stack", startTxFee)
       \/ /\ task[t].locked /\ UnlocksNext(t)
          /\ Settle(t, "extend", startTxFee, 0)
          /\ startTxFee' = startTxFee + 1
          /\ UNCHANGED <<cycleStackingAmounts, loopPc>>
       \/ /\ task[t].locked /\ ~UnlocksNext(t)
          /\ task' = [task EXCEPT ![t] = NoTask]
          /\ UNCHANGED <<cycleStackingAmounts, startTxFee, loopPc>>
    /\ UNCHANGED <<nodeVars, poll, lastPoxContractId, info, txSubmitted,
                   faults, restarts>>

(* getNonce: by ensurePox5Signer for pox-5, by the client for pox-4.       *)
getNonce_LastUsed(t) == conf[Acct(t)] - 1
getNonce(t) == conf[Acct(t)]

GetNonce(t) ==
    /\ task[t].pc = "nonce"
    /\ task' = [task EXCEPT ![t].nonce = getNonce(t),
                            ![t].pc = IF task[t].call \in {"stake", "update"}
                                      THEN "exists" ELSE "submit"]
    /\ UNCHANGED <<nodeVars, loopPc, poll, lastPoxContractId,
                   cycleStackingAmounts, startTxFee, info, txSubmitted,
                   faults, restarts>>

(* contractExists, which takes a failed read for "does not exist".         *)
ContractExists(t) ==
    /\ task[t].pc = "exists"
    /\ \/ /\ task' = [task EXCEPT ![t].pc = IF Acct(t) \in deployed
                                            THEN "check" ELSE "deploy"]
          /\ UNCHANGED faults
       \/ /\ faults < MaxFaults /\ faults' = faults + 1
          /\ task' = [task EXCEPT ![t].pc = "deploy"]
    /\ UNCHANGED <<nodeVars, loopPc, poll, lastPoxContractId,
                   cycleStackingAmounts, startTxFee, info, txSubmitted, restarts>>

(* waitForContract saw the contract, or has used up its attempts.          *)
WaitForContract(t) ==
    /\ task[t].pc = "await"
    /\ \/ /\ Acct(t) \in deployed
          /\ task' = [task EXCEPT ![t].pc = "check", ![t].nonce = @ + 1]
          /\ UNCHANGED loopPc
       \/ /\ Acct(t) \notin deployed
          /\ Reject(t)
    /\ UNCHANGED <<nodeVars, poll, lastPoxContractId, cycleStackingAmounts,
                   startTxFee, info, txSubmitted, faults, restarts>>

(* signerRegistered: a registered signer needs no register-self.           *)
signerRegistered_IfDeployed(t) == Acct(t) \in deployed
signerRegistered(t) == Acct(t) \in registered

CheckRegistered(t) ==
    /\ task[t].pc = "check"
    /\ task' = [task EXCEPT ![t].pc = IF signerRegistered(t)
                                      THEN "submit" ELSE "register"]
    /\ UNCHANGED <<nodeVars, loopPc, poll, lastPoxContractId,
                   cycleStackingAmounts, startTxFee, info, txSubmitted,
                   faults, restarts>>

(* A broadcast of ensurePox5Signer: broadcastOrThrow, the deploy or the    *)
(* register-self, whose nonce is then used up.                             *)
BroadcastDeploy(t) ==
    /\ task[t].pc = "deploy"
    /\ \/ /\ Admits(DeployTx(t))
          /\ mempool' = Put(DeployTx(t))
          /\ task' = [task EXCEPT ![t].pc = "await"]
          /\ UNCHANGED loopPc
       \/ /\ ~Admits(DeployTx(t))
          /\ Reject(t)
          /\ UNCHANGED mempool
    /\ UNCHANGED <<burn, threshold, conf, deployed, registered, lock, lost,
                   poll, lastPoxContractId, cycleStackingAmounts, startTxFee,
                   info, txSubmitted, faults, restarts>>

BroadcastRegister(t) ==
    /\ task[t].pc = "register"
    /\ \/ /\ Admits(RegisterTx(t))
          /\ mempool' = Put(RegisterTx(t))
          /\ task' = [task EXCEPT ![t].pc = "submit", ![t].nonce = @ + 1]
          /\ UNCHANGED loopPc
       \/ /\ ~Admits(RegisterTx(t))
          /\ Reject(t)
          /\ UNCHANGED mempool
    /\ UNCHANGED <<burn, threshold, conf, deployed, registered, lock, lost,
                   poll, lastPoxContractId, cycleStackingAmounts, startTxFee,
                   info, txSubmitted, faults, restarts>>

(* The last broadcast of a handler, then txSubmitted = true.  The pox-5    *)
(* calls throw when the node refuses the transaction; the results of       *)
(* client.stack and client.stackExtend are only logged.                    *)
Submit(t) ==
    /\ task[t].pc = "submit"
    /\ \/ /\ Admits(CallTx(t)) \/ task[t].call \in {"stack", "extend"}
          /\ mempool' = IF Admits(CallTx(t)) THEN Put(CallTx(t)) ELSE mempool
          /\ task' = [task EXCEPT ![t] = NoTask]
          /\ txSubmitted' = [txSubmitted EXCEPT ![t[1]] = TRUE]
          /\ UNCHANGED loopPc
       \/ /\ ~Admits(CallTx(t)) /\ task[t].call \in {"stake", "update"}
          /\ Reject(t)
          /\ UNCHANGED <<mempool, txSubmitted>>
    /\ UNCHANGED <<burn, threshold, conf, deployed, registered, lock, lost,
                   poll, lastPoxContractId, cycleStackingAmounts, startTxFee,
                   info, faults, restarts>>

(* An RPC of a handler fails and the handler throws; a broadcast may have  *)
(* reached the node all the same.                                          *)
Throwing == {"status", "nonce", "check", "deploy", "register", "submit"}

RpcFails(t) ==
    /\ task[t].pc \in Throwing
    /\ faults < MaxFaults
    /\ faults' = faults + 1
    /\ Reject(t)
    /\ \/ UNCHANGED mempool
       \/ \E tx \in {DeployTx(t), RegisterTx(t), CallTx(t)} :
            /\ \/ task[t].pc = "deploy" /\ tx = DeployTx(t)
               \/ task[t].pc = "register" /\ tx = RegisterTx(t)
               \/ task[t].pc = "submit" /\ tx = CallTx(t)
            /\ Admits(tx)
            /\ mempool' = Put(tx)
    /\ UNCHANGED <<burn, threshold, conf, deployed, registered, lock, lost,
                   poll, lastPoxContractId, cycleStackingAmounts, startTxFee,
                   info, txSubmitted, restarts>>

-----------------------------------------------------------------------------
(* The end of run(), and the container.                                    *)

(* Promise.all resolves: wait postTxWait if a transaction was submitted.   *)
SettleRun ==
    /\ loopPc = "settling"
    /\ \A a \in Accounts : task[poll, a].pc = "done"
    /\ loopPc' = IF txSubmitted[poll] THEN "postwait" ELSE "idle"
    /\ UNCHANGED <<nodeVars, poll, lastPoxContractId, cycleStackingAmounts,
                   startTxFee, info, txSubmitted, task, faults, restarts>>

PostWaitEnds ==
    /\ loopPc = "postwait"
    /\ loopPc' = "idle"
    /\ UNCHANGED <<nodeVars, poll, lastPoxContractId, cycleStackingAmounts,
                   startTxFee, info, txSubmitted, task, faults, restarts>>

(* The container restarts: everything kept in memory is gone.              *)
Restart ==
    /\ restarts < MaxRestarts
    /\ restarts' = restarts + 1
    /\ loopPc' = "starting"
    /\ lastPoxContractId' = ""
    /\ cycleStackingAmounts' = [c \in Cycles |-> 0]
    /\ startTxFee' = StartTxFee
    /\ txSubmitted' = [p \in Polls |-> FALSE]
    /\ task' = [t \in Tasks |-> NoTask]
    /\ UNCHANGED <<nodeVars, poll, info, faults>>

Handler(t) ==
    \/ ReadStatus(t) \/ DecidePox5(t) \/ DecidePox4(t) \/ GetNonce(t)
    \/ ContractExists(t) \/ WaitForContract(t) \/ CheckRegistered(t)
    \/ BroadcastDeploy(t) \/ BroadcastRegister(t) \/ Submit(t)

Loop ==
    waitForSetup \/ SkipRun \/ SettleRun \/ PostWaitEnds \/ \E p \in Polls : BeginRun(p)

Environment == NodeNext /\ UNCHANGED stackerVars

Next == Loop \/ Restart \/ Environment \/ \E t \in Tasks : Handler(t) \/ RpcFails(t)

Spec == Init /\ [][Next]_vars
-----------------------------------------------------------------------------
(* Properties.                                                             *)

(* Nonces at which the mempool holds, or has dropped, a transaction of a.  *)
Covered(a, n) ==
    \/ \E tx \in mempool : tx.acct = a /\ tx.nonce = n
    \/ <<a, n>> \in lost

ContiguousTo(a, n) == \A k \in conf[a]..(n - 1) : Covered(a, k)

(* The stacker never opens a gap in an account's nonces: below every       *)
(* pending transaction there are pending transactions down to the          *)
(* confirmed nonce, whatever polls overlap, fail or restart.  A gap would  *)
(* block the account for good, for every later poll reads the confirmed    *)
(* nonce and the stuck transaction is never mined.  This is what the       *)
(* hand-made nonce + 1 of ensurePox5Signer has to get right.               *)
NoNonceGap == \A tx \in mempool : ContiguousTo(tx.acct, tx.nonce)

(* Its inductive form: the nonce a handler carries across its awaits is    *)
(* contiguous too, and while it awaits its contract, so is the next one.   *)
Carrying == {"exists", "deploy", "await", "check", "register", "submit"}

CarriedNonce(t) ==
    IF task[t].pc = "await" THEN task[t].nonce + 1 ELSE task[t].nonce

NonceInv ==
    /\ NoNonceGap
    /\ \A t \in Tasks : task[t].pc \in Carrying =>
          ContiguousTo(Acct(t), CarriedNonce(t))

(* Two accounts whose locks start in the same reward cycle have locked in  *)
(* proportion to their target slots, whatever the threshold did between    *)
(* the polls that stacked them (getFixedStackingAmount).                   *)
ProportionalWeights ==
    \A a, b \in Accounts :
        (lock[a].amount # 0 /\ lock[b].amount # 0 /\ lock[a].first = lock[b].first)
            => lock[a].amount * TargetSlots[b] = lock[b].amount * TargetSlots[a]

(* Its inductive form: the amount of every lock, of every pending stake or *)
(* stack and of every handler on its way to one is the amount fixed for    *)
(* its cycle, times the account's slots.                                   *)
Weighted(a, amount, cycle) ==
    /\ cycleStackingAmounts[cycle] # 0
    /\ amount = cycleStackingAmounts[cycle] * TargetSlots[a]

Locking == {"stake", "stack"}

WeightInv ==
    /\ restarts = 0
    /\ \A a \in Accounts :
          lock[a] # Unlocked => Weighted(a, lock[a].amount, lock[a].first)
    /\ \A tx \in mempool : tx.call \in Locking /\ tx.cycle + 1 \in Cycles =>
          Weighted(tx.acct, tx.amount, tx.cycle + 1)
    /\ \A t \in Tasks : task[t].pc \in Carrying \cup {"nonce"} /\ task[t].call \in Locking =>
          Weighted(Acct(t), task[t].amount, NextCycle(t))

(* A stake or stake-update is mined only for an account whose signer is    *)
(* registered: register-self always goes first, and is never skipped.      *)
SignerFirst ==
    \A tx \in mempool :
        tx.call \in {"stake", "update"} /\ tx.nonce = conf[tx.acct]
            => tx.acct \in registered

(* An extension is not repeated without end.  A poll that acts on a status *)
(* read before the last extension was mined extends once too often, so     *)
(* there is one surplus extension for every poll alive at the same time,   *)
(* but a poll that sees a lock beyond the next cycle leaves it alone.      *)
LockHorizon ==
    \A a \in Accounts :
        lock[a].unlock <=
            (RewardCycleId(burn) + 1 + (1 + Cardinality(Polls)) * StackingCycles)
                * POX_REWARD_LENGTH

(* The stacker implements StackingPlan: whatever threshold a poll has read *)
(* and whenever its handlers come to lock or extend, in pox-4 or pox-5,    *)
(* what happens to the accounts' STX is that one amount per slot is fixed  *)
(* for a cycle, in time and for good, and locked and extended as planned.  *)
Plan == INSTANCE StackingPlan WITH
            fixed <- cycleStackingAmounts,
            Slots <- TargetSlots,
            Amounts <- {(x * 11) \div 10 : x \in Thresholds},
            Overlap <- Cardinality(Polls)

FollowsPlan == Plan!Spec

(* POST_TX_WAIT is the time "to wait after a stacking transaction is       *)
(* broadcast before continuing the loop": the loop does not go on at once  *)
(* from a poll that has broadcast one.                                     *)
PostTxWaitHonoured ==
    [][loopPc = "settling" /\ loopPc' = "idle" => ~txSubmitted[poll]]_vars

(* Polls, handlers and timeouts go on, blocks arrive and transactions are  *)
(* mined; failures, drops, restarts and threshold moves need not happen.   *)
Fairness ==
    /\ WF_vars(waitForSetup) /\ WF_vars(SettleRun) /\ WF_vars(PostWaitEnds)
    /\ WF_vars(\E p \in Polls : BeginRun(p))
    /\ \A t \in Tasks : WF_vars(Handler(t))
    /\ WF_vars(BurnBlock /\ UNCHANGED stackerVars)
    /\ \A a \in Accounts :
         WF_vars(\E tx \in mempool : tx.acct = a /\ Mine(tx) /\ UNCHANGED stackerVars)

FairSpec == Spec /\ Fairness

(* In the end every account that can pay for its slots is locked beyond the *)
(* next cycle, whatever was lost, failed or timed out on the way, and even *)
(* if another account throws in every poll (the height stops at MaxBurn).  *)
CanPay(a) ==
    \A x \in Thresholds : Balance[a] >= ((x * 11) \div 10) * TargetSlots[a]

EventuallyLocked ==
    <>[](\A a \in Accounts : CanPay(a) =>
          lock[a].unlock > (RewardCycleId(burn) + 1) * POX_REWARD_LENGTH)
=============================================================================
