--------------------------- MODULE StackerProofs ---------------------------
(***************************************************************************)
(* Theorems about Stacker, for every number of accounts and overlapping    *)
(* polls, every calendar and every bound on failures.                      *)
(***************************************************************************)
EXTENDS Stacker, TLAPS

-----------------------------------------------------------------------------
(* Type correctness.                                                       *)

(* A reward cycle counted from a height is a natural number.               *)
LEMMA CycleNat ==
    ASSUME NEW h \in Nat
    PROVE  RewardCycleId(h) \in Nat
BY CalendarAssumption DEF RewardCycleId

LEMMA HeightsNat == Heights \subseteq Nat
BY NodeAssumption DEF Heights

LEMMA CyclesNat == Cycles \subseteq Nat
BY CycleNat, HeightsNat DEF Cycles

LEMMA Successor == \A n \in Nat : n + 1 \in Nat
OBVIOUS

LEMMA LockFields ==
    ASSUME NEW x \in Locks
    PROVE  x.unlock \in Nat /\ x.amount \in Nat
<1>1. CASE x = Unlocked
  BY <1>1 DEF Unlocked
<1>2. CASE x # Unlocked
  BY <1>2 DEF Locks
<1> QED
  BY <1>1, <1>2

(* The transactions of a handler are well formed.                          *)
LEMMA TxType ==
    ASSUME TypeOK, NEW t \in Tasks
    PROVE  /\ DeployTx(t) \in Transactions
           /\ RegisterTx(t) \in Transactions
           /\ CallTx(t) \in Transactions
<1>1. /\ t[1] \in Polls /\ Acct(t) \in Accounts
      /\ task[t] \in TaskRecords
      /\ info[t[1]].height \in Nat
  BY HeightsNat DEF TypeOK, StackerTypeOK, Tasks, Acct, PoxInfos
<1>2. RewardCycleId(info[t[1]].height) \in Nat
  BY <1>1, CycleNat
<1>3. \A call \in Calls, fee \in Nat : TxOf(t, call, fee) \in Transactions
  BY <1>1, <1>2 DEF TxOf, Transactions, TaskRecords
<1>4. "deploy" \in Calls /\ "register" \in Calls
  BY DEF Calls
<1>5. /\ task[t].call \in Calls
      /\ task[t].fee \in Nat
  BY <1>1 DEF TaskRecords
<1> QED
  BY <1>3, <1>4, <1>5, StackerAssumption DEF DeployTx, RegisterTx, CallTx

LEMMA NoTaskType == NoTask \in TaskRecords
BY DEF NoTask, TaskRecords, Pcs, Calls

LEMMA RejectType ==
    ASSUME TypeOK, NEW t \in Tasks, Reject(t)
    PROVE  /\ task' \in [Tasks -> TaskRecords]
           /\ loopPc' \in {"starting", "idle", "settling", "postwait"}
BY NoTaskType DEF TypeOK, StackerTypeOK, Reject

LEMMA PutType ==
    ASSUME TypeOK, NEW tx \in Transactions
    PROVE  Put(tx) \subseteq Transactions
BY DEF TypeOK, NodeTypeOK, Put

LEMMA UpdatesLocked ==
    ASSUME NEW tx \in mempool, Succeeds(tx), tx.call \in {"update", "extend"}
    PROVE  lock[tx.acct] # Unlocked
<1>1. CASE tx.call = "update"
  <2>1. lock[tx.acct].pox5
    BY <1>1 DEF Succeeds
  <2>2. ~Unlocked.pox5
    BY DEF Unlocked
  <2> QED
    BY <2>1, <2>2, Zenon
<1>2. CASE tx.call = "extend"
  BY <1>2 DEF Succeeds
<1> QED
  BY <1>1, <1>2

LEMMA LockType ==
    ASSUME TypeOK, NEW tx \in mempool, Succeeds(tx),
           tx.call \notin {"deploy", "register"}
    PROVE  LockAfter(tx) \in Locks
<1> USE NodeAssumption, CalendarAssumption
<1>1. tx \in Transactions /\ lock[tx.acct] \in Locks
  BY DEF TypeOK, NodeTypeOK, Transactions
<1>2. CASE tx.call \in {"stake", "stack"}
  <2>1. RewardCycleId(burn) \in Nat /\ RewardCycleId(burn) + 1 \in Cycles
    BY CycleNat, HeightsNat DEF TypeOK, NodeTypeOK, Cycles
  <2>2. tx.cycle = RewardCycleId(burn)
    BY <1>2 DEF Succeeds
  <2>3. (tx.cycle + 1 + StackingCycles) * POX_REWARD_LENGTH \in Nat
    BY <2>1, <2>2
  <2> QED
    BY <1>1, <1>2, <2>1, <2>2, <2>3 DEF LockAfter, NewLock, Locks, Transactions
<1>3. CASE tx.call \in {"update", "extend"}
  <2>0. lock[tx.acct] # Unlocked
    BY <1>3, UpdatesLocked
  <2>1. lock[tx.acct] \in [amount : Nat, unlock : Nat, pox5 : BOOLEAN, first : Cycles]
    BY <1>1, <2>0 DEF Locks
  <2>2. lock[tx.acct].unlock + StackingCycles * POX_REWARD_LENGTH \in Nat
    BY <2>1
  <2> QED
    BY <1>3, <2>1, <2>2 DEF LockAfter, Locks
<1> QED
  BY <1>1, <1>2, <1>3 DEF Transactions, Calls

(* Every step of the node keeps the types.                                 *)
LEMMA NodeType == TypeOK /\ Environment => TypeOK'
<1> SUFFICES ASSUME TypeOK, Environment PROVE TypeOK'
  OBVIOUS
<1>0. StackerTypeOK'
  BY DEF TypeOK, StackerTypeOK, Environment, stackerVars
<1>1. ASSUME NEW tx \in mempool, Mine(tx) PROVE NodeTypeOK'
  <2>1. tx \in Transactions /\ tx.acct \in Accounts
    BY DEF TypeOK, NodeTypeOK, Transactions
  <2>2. /\ conf' = [conf EXCEPT ![tx.acct] = @ + 1]
        /\ mempool' = mempool \ {tx}
        /\ UNCHANGED <<burn, threshold, lost>>
    BY <1>1, Zenon DEF Mine
  <2>3. PICK ok \in Outcomes(tx) :
          /\ deployed' = IF ok /\ tx.call = "deploy"
                         THEN deployed \cup {tx.acct} ELSE deployed
          /\ registered' = IF ok /\ tx.call = "register" /\ tx.acct \in deployed
                           THEN registered \cup {tx.acct} ELSE registered
          /\ lock' = IF ok /\ tx.call \notin {"deploy", "register"}
                     THEN [lock EXCEPT ![tx.acct] = LockAfter(tx)] ELSE lock
    BY <1>1, Zenon DEF Mine
  <2>4. deployed' \subseteq Accounts /\ registered' \subseteq Accounts
    BY <2>1, <2>3 DEF TypeOK, NodeTypeOK
  <2>5. ok => Succeeds(tx)
    BY <2>3, Zenon DEF Outcomes
  <2>6. ok /\ tx.call \notin {"deploy", "register"} => LockAfter(tx) \in Locks
    BY <2>5, LockType, Zenon
  <2>7. lock' \in [Accounts -> Locks]
    BY <2>1, <2>3, <2>6 DEF TypeOK, NodeTypeOK
  <2>8. conf' \in [Accounts -> Nat] /\ mempool' \subseteq Transactions
    BY <2>2, <2>1 DEF TypeOK, NodeTypeOK
  <2> QED
    BY <2>2, <2>4, <2>7, <2>8 DEF TypeOK, NodeTypeOK
<1>2. ASSUME NEW tx \in mempool, Lose(tx) PROVE NodeTypeOK'
  <2>1. tx.acct \in Accounts /\ tx.nonce \in Nat
    BY DEF TypeOK, NodeTypeOK, Transactions
  <2> QED
    BY <1>2, <2>1 DEF Lose, TypeOK, NodeTypeOK
<1>3. ASSUME BurnBlock PROVE NodeTypeOK'
  <2>1. burn \in Heights /\ burn < MaxBurn /\ burn' = burn + 1
    BY <1>3 DEF BurnBlock, TypeOK, NodeTypeOK
  <2>2. burn' \in Heights
    BY <2>1, NodeAssumption DEF Heights
  <2>3. lock' \in [Accounts -> Locks]
    BY <1>3 DEF BurnBlock, TypeOK, NodeTypeOK, Locks
  <2> QED
    BY <1>3, <2>2, <2>3 DEF BurnBlock, TypeOK, NodeTypeOK
<1>4. ASSUME ThresholdMoves PROVE NodeTypeOK'
  BY <1>4 DEF ThresholdMoves, TypeOK, NodeTypeOK
<1> QED
  BY <1>0, <1>1, <1>2, <1>3, <1>4
     DEF TypeOK, Environment, NodeNext, MineNext, LoseNext

(* The amount fixed for a cycle is a natural number.                       *)
LEMMA FixedType ==
    ASSUME TypeOK, NEW t \in Tasks
    PROVE  /\ NextCycle(t) \in Cycles
           /\ getFixedStackingAmount(NextCycle(t), info[t[1]].threshold) \in Nat
<1>1. /\ info[t[1]].height \in Heights
      /\ info[t[1]].threshold \in Nat
  BY NodeAssumption DEF TypeOK, StackerTypeOK, Tasks, PoxInfos
<1>2. NextCycle(t) \in Cycles
  BY <1>1 DEF NextCycle, Cycles
<1>3. (info[t[1]].threshold * 11) \div 10 \in Nat
  BY <1>1
<1> QED
  BY <1>2, <1>3 DEF TypeOK, StackerTypeOK, getFixedStackingAmount

(* A handler that settles on a call keeps its type.                        *)
LEMMA SettleType ==
    ASSUME TypeOK, NEW t \in Tasks, NEW call \in Calls, NEW fee \in Nat,
           NEW amount \in Nat, Settle(t, call, fee, amount)
    PROVE  task' \in [Tasks -> TaskRecords]
<1>1. [NoTask EXCEPT !.pc = "nonce", !.call = call, !.fee = fee, !.amount = amount]
        \in TaskRecords
  BY DEF NoTask, TaskRecords, Pcs
<1> QED
  BY <1>1 DEF Settle, TypeOK, StackerTypeOK

LEMMA StartLockingType ==
    ASSUME TypeOK, NEW t \in Tasks, NEW call \in Calls, NEW fee \in Nat,
           StartLocking(t, call, fee)
    PROVE  /\ task' \in [Tasks -> TaskRecords]
           /\ loopPc' \in {"starting", "idle", "settling", "postwait"}
           /\ cycleStackingAmounts' \in [Cycles -> Nat]
           /\ startTxFee' \in Nat
<1> DEFINE fixed == getFixedStackingAmount(NextCycle(t), info[t[1]].threshold)
           amount == fixed * TargetSlots[Acct(t)]
<1>1. NextCycle(t) \in Cycles /\ fixed \in Nat
  BY FixedType
<1>2. TargetSlots[Acct(t)] \in Nat
  BY StackerAssumption DEF Tasks, Acct
<1>3. amount \in Nat
  BY <1>1, <1>2
<1> HIDE DEF fixed, amount
<1>4. /\ cycleStackingAmounts' = [cycleStackingAmounts EXCEPT ![NextCycle(t)] = fixed]
      /\ \/ Reject(t) /\ UNCHANGED startTxFee
         \/ /\ Settle(t, call, fee, amount)
            /\ startTxFee' = startTxFee + (IF call = "stack" THEN 1 ELSE 0)
            /\ UNCHANGED loopPc
  BY Zenon DEF StartLocking, fixed, amount
<1>5. CASE Reject(t) /\ UNCHANGED startTxFee
  BY <1>1, <1>4, <1>5, RejectType DEF TypeOK, StackerTypeOK
<1>6. CASE /\ Settle(t, call, fee, amount)
           /\ startTxFee' = startTxFee + (IF call = "stack" THEN 1 ELSE 0)
           /\ UNCHANGED loopPc
  <2>1. task' \in [Tasks -> TaskRecords]
    BY <1>3, <1>6, SettleType
  <2>2. startTxFee' \in Nat
    <3>1. startTxFee \in Nat
      BY DEF TypeOK, StackerTypeOK
    <3>2. startTxFee' = startTxFee + 1 \/ startTxFee' = startTxFee + 0
      BY <1>6, Zenon
    <3> QED
      BY <3>1, <3>2
  <2> QED
    BY <1>1, <1>4, <1>6, <2>1, <2>2 DEF TypeOK, StackerTypeOK
<1> QED
  BY <1>4, <1>5, <1>6

(* A handler that moves on to another step keeps its type.                 *)
LEMMA PcType ==
    ASSUME TypeOK, NEW t \in Tasks, NEW pc \in Pcs
    PROVE  /\ [task EXCEPT ![t].pc = pc] \in [Tasks -> TaskRecords]
           /\ [task EXCEPT ![t].pc = pc, ![t].nonce = @ + 1]
                  \in [Tasks -> TaskRecords]
<1>1. task \in [Tasks -> TaskRecords] /\ task[t] \in TaskRecords
  BY DEF TypeOK, StackerTypeOK
<1>2. [task EXCEPT ![t].pc = pc] \in [Tasks -> TaskRecords]
  BY <1>1 DEF TaskRecords
<1>3. [task EXCEPT ![t].pc = pc, ![t].nonce = @ + 1] \in [Tasks -> TaskRecords]
  <2>1. task[t].nonce + 1 \in Nat
    BY <1>1 DEF TaskRecords
  <2>2. [task[t] EXCEPT !.pc = pc, !.nonce = @ + 1] \in TaskRecords
    BY <1>1, <2>1 DEF TaskRecords
  <2>3. [task EXCEPT ![t].pc = pc, ![t].nonce = @ + 1]
          = [task EXCEPT ![t] = [task[t] EXCEPT !.pc = pc, !.nonce = @ + 1]]
    BY <1>1 DEF TaskRecords
  <2> QED
    BY <1>1, <2>2, <2>3
<1> QED
  BY <1>2, <1>3

(* So it does when it throws instead.                                      *)
LEMMA MoveOrThrowType ==
    ASSUME TypeOK, NEW t \in Tasks, NEW pc \in Pcs,
           \/ /\ \/ task' = [task EXCEPT ![t].pc = pc]
                 \/ task' = [task EXCEPT ![t].pc = pc, ![t].nonce = @ + 1]
              /\ UNCHANGED loopPc
           \/ Reject(t)
    PROVE  /\ task' \in [Tasks -> TaskRecords]
           /\ loopPc' \in {"starting", "idle", "settling", "postwait"}
<1>1. CASE Reject(t)
  BY <1>1, RejectType
<1>2. CASE /\ \/ task' = [task EXCEPT ![t].pc = pc]
              \/ task' = [task EXCEPT ![t].pc = pc, ![t].nonce = @ + 1]
           /\ UNCHANGED loopPc
  <2>1. loopPc' \in {"starting", "idle", "settling", "postwait"}
    BY <1>2 DEF TypeOK, StackerTypeOK
  <2> QED
    <3>1. /\ [task EXCEPT ![t].pc = pc] \in [Tasks -> TaskRecords]
          /\ [task EXCEPT ![t].pc = pc, ![t].nonce = @ + 1] \in [Tasks -> TaskRecords]
      BY PcType
    <3> QED
      BY <1>2, <2>1, <3>1
<1> QED
  BY <1>1, <1>2

(* A broadcast leaves a well-formed mempool.                               *)
LEMMA BroadcastType ==
    ASSUME TypeOK, NEW t \in Tasks,
           \/ UNCHANGED mempool
           \/ mempool' = Put(DeployTx(t))
           \/ mempool' = Put(RegisterTx(t))
           \/ mempool' = Put(CallTx(t))
    PROVE  mempool' \subseteq Transactions
<1>1. CASE UNCHANGED mempool
  BY <1>1 DEF TypeOK, NodeTypeOK
<1> QED
  BY <1>1, TxType, PutType

(* A handler that throws, or that sends one of its transactions, leaves    *)
(* the node well typed.                                                    *)
LEMMA HandlerType ==
    ASSUME TypeOK, NEW t \in Tasks, Handler(t) \/ RpcFails(t)
    PROVE  TypeOK'
<1> USE DEF TypeOK, StackerTypeOK
<1>0. /\ task[t] \in TaskRecords /\ Acct(t) \in Accounts /\ t[1] \in Polls
      /\ t \in Tasks
  BY DEF Tasks, Acct
<1>1. CASE ReadStatus(t)
  <2>1. lock[Acct(t)].unlock \in Nat
    <3>1. lock[Acct(t)] \in Locks
      BY <1>0 DEF NodeTypeOK
    <3> QED
      BY <3>1, LockFields, Zenon
  <2>2. task' \in [Tasks -> TaskRecords]
    BY <1>0, <1>1, <2>1 DEF ReadStatus, TaskRecords, Pcs
  <2> QED
    BY <1>1, <2>2 DEF ReadStatus, nodeVars, NodeTypeOK
<1>2. CASE DecidePox5(t)
  <2>1. "stake" \in Calls /\ "update" \in Calls /\ CALL_FEE \in Nat /\ 0 \in Nat
    BY StackerAssumption DEF Calls
  <2>2. faults' \in Nat
    <3>1. UNCHANGED faults \/ faults' = faults + 1
      BY <1>2, Zenon DEF DecidePox5
    <3> QED
      BY <3>1, Successor, Zenon
  <2>3. \/ StartLocking(t, "stake", CALL_FEE)
        \/ /\ Settle(t, "update", CALL_FEE, 0)
           /\ UNCHANGED <<cycleStackingAmounts, startTxFee, loopPc>>
        \/ /\ task' = [task EXCEPT ![t] = NoTask]
           /\ UNCHANGED <<cycleStackingAmounts, startTxFee, loopPc>>
    BY <1>2, Zenon DEF DecidePox5
  <2>4. UNCHANGED <<nodeVars, poll, lastPoxContractId, info, txSubmitted, restarts>>
    BY <1>2, Zenon DEF DecidePox5
  <2>5. /\ task' \in [Tasks -> TaskRecords]
        /\ loopPc' \in {"starting", "idle", "settling", "postwait"}
        /\ cycleStackingAmounts' \in [Cycles -> Nat]
        /\ startTxFee' \in Nat
    <3>1. CASE StartLocking(t, "stake", CALL_FEE)
      BY <2>1, <3>1, StartLockingType
    <3>2. CASE UNCHANGED <<cycleStackingAmounts, startTxFee, loopPc>>
      <4>1. task' \in [Tasks -> TaskRecords]
        BY <2>1, <2>3, StartLockingType, SettleType, NoTaskType
      <4> QED
        BY <3>2, <4>1
    <3> QED
      BY <2>3, <3>1, <3>2
  <2> QED
    BY <2>2, <2>4, <2>5 DEF nodeVars, NodeTypeOK
<1>3. CASE DecidePox4(t)
  <2>1. "stack" \in Calls /\ "extend" \in Calls /\ startTxFee \in Nat /\ 0 \in Nat
    BY DEF Calls
  <2>2. \/ StartLocking(t, "stack", startTxFee)
        \/ /\ Settle(t, "extend", startTxFee, 0)
           /\ startTxFee' = startTxFee + 1
           /\ UNCHANGED <<cycleStackingAmounts, loopPc>>
        \/ /\ task' = [task EXCEPT ![t] = NoTask]
           /\ UNCHANGED <<cycleStackingAmounts, startTxFee, loopPc>>
    BY <1>3, Zenon DEF DecidePox4
  <2>3. UNCHANGED <<nodeVars, poll, lastPoxContractId, info, txSubmitted,
                    faults, restarts>>
    BY <1>3, Zenon DEF DecidePox4
  <2>4. /\ task' \in [Tasks -> TaskRecords]
        /\ loopPc' \in {"starting", "idle", "settling", "postwait"}
        /\ cycleStackingAmounts' \in [Cycles -> Nat]
        /\ startTxFee' \in Nat
    <3>1. CASE StartLocking(t, "stack", startTxFee)
      BY <2>1, <3>1, StartLockingType
    <3>2. CASE UNCHANGED <<cycleStackingAmounts, loopPc>>
      <4>1. task' \in [Tasks -> TaskRecords]
        BY <2>1, <2>2, StartLockingType, SettleType, NoTaskType
      <4>2. CASE startTxFee' = startTxFee + 1 \/ UNCHANGED startTxFee
        BY <3>2, <4>1, <4>2, Successor, Zenon
      <4> QED
        BY <2>1, <2>2, <4>2, StartLockingType
    <3> QED
      BY <2>2, <3>1, <3>2
  <2> QED
    BY <2>3, <2>4 DEF nodeVars, NodeTypeOK
<1>4. CASE GetNonce(t)
  <2>1. conf[Acct(t)] \in Nat
    BY <1>0 DEF NodeTypeOK
  <2> QED
    BY <1>0, <1>4, <2>1 DEF GetNonce, getNonce, nodeVars, NodeTypeOK, TaskRecords, Pcs
<1>5. CASE ContractExists(t)
  <2>1. PICK pc \in {"check", "deploy"} : task' = [task EXCEPT ![t].pc = pc]
    BY <1>5, Zenon DEF ContractExists
  <2>2. task' \in [Tasks -> TaskRecords]
    BY <2>1, PcType DEF Pcs
  <2>3. faults' \in Nat
    <3>1. UNCHANGED faults \/ faults' = faults + 1
      BY <1>5, Zenon DEF ContractExists
    <3> QED
      BY <3>1, Successor, Zenon
  <2> QED
    BY <1>5, <2>2, <2>3 DEF ContractExists, nodeVars, NodeTypeOK
<1>6. CASE WaitForContract(t)
  <2>1. /\ task' \in [Tasks -> TaskRecords]
        /\ loopPc' \in {"starting", "idle", "settling", "postwait"}
    <3>1. \/ /\ task' = [task EXCEPT ![t].pc = "check", ![t].nonce = @ + 1]
             /\ UNCHANGED loopPc
          \/ Reject(t)
      BY <1>6, Zenon DEF WaitForContract
    <3>2. "check" \in Pcs
      BY DEF Pcs
    <3> QED
      BY <3>1, <3>2, MoveOrThrowType
  <2> QED
    BY <1>6, <2>1 DEF WaitForContract, nodeVars, NodeTypeOK
<1>7. CASE CheckRegistered(t)
  BY <1>0, <1>7 DEF CheckRegistered, nodeVars, NodeTypeOK, TaskRecords, Pcs
<1>8. CASE BroadcastDeploy(t)
  <2>1. /\ task' \in [Tasks -> TaskRecords]
        /\ loopPc' \in {"starting", "idle", "settling", "postwait"}
    <3>1. \/ /\ task' = [task EXCEPT ![t].pc = "await"]
             /\ UNCHANGED loopPc
          \/ Reject(t)
      BY <1>8, Zenon DEF BroadcastDeploy
    <3>2. "await" \in Pcs
      BY DEF Pcs
    <3> QED
      BY <3>1, <3>2, MoveOrThrowType
  <2>2. mempool' \subseteq Transactions
    <3>1. UNCHANGED mempool \/ mempool' = Put(DeployTx(t))
      BY <1>8, Zenon DEF BroadcastDeploy
    <3> QED
      BY <3>1, BroadcastType
  <2> QED
    BY <1>8, <2>1, <2>2 DEF BroadcastDeploy, NodeTypeOK
<1>9. CASE BroadcastRegister(t)
  <2>1. /\ task' \in [Tasks -> TaskRecords]
        /\ loopPc' \in {"starting", "idle", "settling", "postwait"}
    <3>1. \/ /\ task' = [task EXCEPT ![t].pc = "submit", ![t].nonce = @ + 1]
             /\ UNCHANGED loopPc
          \/ Reject(t)
      BY <1>9, Zenon DEF BroadcastRegister
    <3>2. "submit" \in Pcs
      BY DEF Pcs
    <3> QED
      BY <3>1, <3>2, MoveOrThrowType
  <2>2. mempool' \subseteq Transactions
    <3>1. UNCHANGED mempool \/ mempool' = Put(RegisterTx(t))
      BY <1>9, Zenon DEF BroadcastRegister
    <3> QED
      BY <3>1, BroadcastType
  <2> QED
    BY <1>9, <2>1, <2>2 DEF BroadcastRegister, NodeTypeOK
<1>10. CASE Submit(t)
  <2>1. /\ task' \in [Tasks -> TaskRecords]
        /\ loopPc' \in {"starting", "idle", "settling", "postwait"}
        /\ txSubmitted' \in [Polls -> BOOLEAN]
    BY <1>0, <1>10, RejectType, NoTaskType DEF Submit
  <2>2. mempool' \subseteq Transactions
    <3>1. UNCHANGED mempool \/ mempool' = Put(CallTx(t))
      BY <1>10, Zenon DEF Submit
    <3> QED
      BY <3>1, BroadcastType
  <2> QED
    BY <1>10, <2>1, <2>2 DEF Submit, NodeTypeOK
<1>11. CASE RpcFails(t)
  <2>1. /\ task' \in [Tasks -> TaskRecords]
        /\ loopPc' \in {"starting", "idle", "settling", "postwait"}
    BY <1>11, RejectType DEF RpcFails
  <2>2. mempool' \subseteq Transactions
    <3>1. \/ UNCHANGED mempool
          \/ mempool' = Put(DeployTx(t))
          \/ mempool' = Put(RegisterTx(t))
          \/ mempool' = Put(CallTx(t))
      BY <1>11, Zenon DEF RpcFails
    <3> QED
      BY <3>1, BroadcastType
  <2>3. /\ faults' = faults + 1
        /\ UNCHANGED <<burn, threshold, conf, deployed, registered, lock, lost,
                       poll, lastPoxContractId, cycleStackingAmounts, startTxFee,
                       info, txSubmitted, restarts>>
    BY <1>11, Zenon DEF RpcFails
  <2>4. faults' \in Nat
    BY <2>3, Successor, Zenon
  <2> QED
    BY <2>1, <2>2, <2>3, <2>4 DEF NodeTypeOK
<1> QED
  BY <1>1, <1>2, <1>3, <1>4, <1>5, <1>6, <1>7, <1>8, <1>9, <1>10, <1>11 DEF Handler

(* The polling loop and restarts keep the types.                           *)
LEMMA LoopType ==
    ASSUME TypeOK, Loop \/ Restart
    PROVE  TypeOK'
<1> USE DEF TypeOK, StackerTypeOK
<1>1. PoxInfo \in PoxInfos /\ poxContract(burn) \in Contracts
  BY DEF PoxInfo, PoxInfos, Contracts, poxContract, NodeTypeOK
<1>2. CASE waitForSetup
  BY <1>2 DEF waitForSetup, nodeVars, NodeTypeOK
<1>3. CASE SkipRun
  BY <1>1, <1>3 DEF SkipRun, nodeVars, NodeTypeOK
<1>4. CASE SettleRun
  BY <1>4 DEF SettleRun, nodeVars, NodeTypeOK
<1>5. CASE PostWaitEnds
  BY <1>5 DEF PostWaitEnds, nodeVars, NodeTypeOK
<1>6. ASSUME NEW p \in Polls, BeginRun(p) PROVE TypeOK'
  <2>1. [NoTask EXCEPT !.pc = "status"] \in TaskRecords
    BY NoTaskType DEF TaskRecords, Pcs
  <2>2. task' \in [Tasks -> TaskRecords]
    BY <1>6, <2>1 DEF BeginRun
  <2> QED
    BY <1>1, <1>6, <2>2 DEF BeginRun, nodeVars, NodeTypeOK
<1>7. CASE Restart
  <2>1. /\ task' \in [Tasks -> TaskRecords]
        /\ cycleStackingAmounts' \in [Cycles -> Nat]
        /\ txSubmitted' \in [Polls -> BOOLEAN]
        /\ startTxFee' \in Nat
    BY <1>7, NoTaskType, StackerAssumption DEF Restart
  <2>2. restarts' \in Nat
    BY <1>7, Successor, Zenon DEF Restart
  <2> QED
    BY <1>7, <2>1, <2>2 DEF Restart, nodeVars, NodeTypeOK
<1> QED
  BY <1>2, <1>3, <1>4, <1>5, <1>6, <1>7 DEF Loop

LEMMA InitType == Init => TypeOK
<1> SUFFICES ASSUME Init PROVE TypeOK
  OBVIOUS
<1>1. NodeTypeOK
  BY NodeAssumption DEF Init, NodeInit, NodeTypeOK, Heights, Locks
<1>2. [p \in Polls |-> [contract |-> "pox-3", height |-> InitBurn,
                        threshold |-> threshold, transitioned |-> FALSE]]
        \in [Polls -> PoxInfos]
  BY <1>1, NodeAssumption DEF NodeTypeOK, PoxInfos, Contracts, Heights
<1>3. StackerTypeOK
  BY <1>2, NoTaskType, StackerAssumption
     DEF Init, StackerInit, StackerTypeOK
<1> QED
  BY <1>1, <1>3 DEF TypeOK

(* Every step of the system keeps the types.                               *)
LEMMA StepType == TypeOK /\ [Next]_vars => TypeOK'
<1> SUFFICES ASSUME TypeOK, [Next]_vars PROVE TypeOK'
  OBVIOUS
<1>1. CASE UNCHANGED vars
  BY <1>1 DEF vars, nodeVars, stackerVars, TypeOK, NodeTypeOK, StackerTypeOK
<1>2. CASE Next
  BY <1>2, NodeType, LoopType, HandlerType DEF Next
<1> QED
  BY <1>1, <1>2

(* The types of the node and of the stacker hold in every state: pending   *)
(* transactions, locks and handlers stay well formed.                      *)
THEOREM TypeCorrect == Spec => []TypeOK
<1>1. Init => TypeOK
  BY InitType
<1>2. TypeOK /\ [Next]_vars => TypeOK'
  BY StepType
<1> QED
  BY <1>1, <1>2, PTL DEF Spec

-----------------------------------------------------------------------------
(* No nonce gap.                                                           *)

(* What covers a nonce that is not yet used up goes on covering it.        *)
Carries ==
    \A a \in Accounts :
        /\ conf'[a] >= conf[a]
        /\ \A k \in Nat : conf'[a] <= k /\ Covered(a, k) => Covered(a, k)'

LEMMA ContiguousCarries ==
    ASSUME TypeOK, TypeOK', Carries, NEW a \in Accounts, NEW n \in Nat,
           ContiguousTo(a, n)
    PROVE  ContiguousTo(a, n)'
<1>1. conf[a] \in Nat /\ conf'[a] \in Nat
  BY DEF TypeOK, NodeTypeOK
<1>2. ASSUME NEW k \in conf'[a]..(n - 1) PROVE Covered(a, k)'
  <2>1. conf'[a] >= conf[a]
    BY DEF Carries
  <2>2. k \in Nat /\ conf'[a] <= k /\ k \in conf[a]..(n - 1)
    BY <1>1, <2>1
  <2>3. Covered(a, k)
    BY <2>2 DEF ContiguousTo
  <2> QED
    BY <2>2, <2>3 DEF Carries
<1> QED
  BY <1>2 DEF ContiguousTo

(* A step keeps the invariant if it carries coverage on, every new         *)
(* transaction is contiguous, and every handler ends, stays as it was, or  *)
(* carries a contiguous nonce.                                             *)
LEMMA NonceStep ==
    ASSUME TypeOK, TypeOK', NonceInv, Carries,
           \A tx \in mempool' : tx \in mempool \/ ContiguousTo(tx.acct, tx.nonce),
           \A t \in Tasks : \/ task'[t].pc \notin Carrying
                           \/ task'[t] = task[t]
                           \/ ContiguousTo(Acct(t), CarriedNonce(t))'
    PROVE  NonceInv'
<1>1. ASSUME NEW tx \in mempool' PROVE ContiguousTo(tx.acct, tx.nonce)'
  <2>1. tx.acct \in Accounts /\ tx.nonce \in Nat
    BY DEF TypeOK, NodeTypeOK, Transactions
  <2>2. ContiguousTo(tx.acct, tx.nonce)
    BY DEF NonceInv, NoNonceGap
  <2> QED
    BY <2>1, <2>2, ContiguousCarries
<1>2. ASSUME NEW t \in Tasks, task'[t].pc \in Carrying
      PROVE  ContiguousTo(Acct(t), CarriedNonce(t))'
  <2>1. CASE ContiguousTo(Acct(t), CarriedNonce(t))'
    BY <2>1
  <2>2. CASE task'[t] = task[t]
    <3>1. Acct(t) \in Accounts /\ CarriedNonce(t) \in Nat
      <4>1. task[t] \in TaskRecords /\ Acct(t) \in Accounts
        BY DEF TypeOK, StackerTypeOK, Tasks, Acct
      <4>2. task[t].nonce \in Nat
        BY <4>1 DEF TaskRecords
      <4> QED
        BY <4>1, <4>2, Successor, Zenon DEF CarriedNonce
    <3>2. PICK n \in Nat : n = CarriedNonce(t)
      BY <3>1
    <3>3. n = CarriedNonce(t)'
      BY <2>2, <3>2 DEF CarriedNonce
    <3>4. ContiguousTo(Acct(t), n)
      BY <1>2, <2>2, <3>2 DEF NonceInv
    <3>5. ContiguousTo(Acct(t), n)'
      <4>1. PICK a \in Accounts : a = Acct(t)
        BY <3>1
      <4>2. ContiguousTo(a, n)'
        BY <3>4, <4>1, ContiguousCarries
      <4> QED
        BY <4>1, <4>2 DEF Acct
    <3> QED
      BY <3>3, <3>5 DEF ContiguousTo
  <2> QED
    BY <1>2, <2>1, <2>2
<1> QED
  BY <1>1, <1>2 DEF NonceInv, NoNonceGap

LEMMA QuietCarries ==
    ASSUME TypeOK, UNCHANGED <<conf, mempool, lost>>
    PROVE  Carries
BY DEF Carries, Covered, TypeOK, NodeTypeOK

LEMMA PutCarries ==
    ASSUME TypeOK, NEW x \in Transactions, mempool' = Put(x),
           UNCHANGED <<conf, lost>>
    PROVE  /\ Carries
           /\ Covered(x.acct, x.nonce)'
           /\ \A tx \in mempool' : tx \in mempool \/ tx = x
<1>1. ASSUME NEW a \in Accounts, NEW k \in Nat, Covered(a, k)
      PROVE  Covered(a, k)'
  BY <1>1 DEF Covered, Put, SameSlot
<1>2. \A a \in Accounts : conf'[a] >= conf[a]
  BY DEF TypeOK, NodeTypeOK
<1> QED
  BY <1>1, <1>2 DEF Carries, Covered, Put

LEMMA ContiguousExtends ==
    ASSUME TypeOK, TypeOK', Carries, NEW a \in Accounts, NEW n \in Nat,
           ContiguousTo(a, n), Covered(a, n)'
    PROVE  ContiguousTo(a, n + 1)'
<1>1. ContiguousTo(a, n)'
  BY ContiguousCarries
<1>2. conf'[a] \in Nat
  BY DEF TypeOK, NodeTypeOK
<1>3. \A k \in conf'[a]..((n + 1) - 1) : k = n \/ k \in conf'[a]..(n - 1)
  BY <1>2
<1> QED
  BY <1>1, <1>3 DEF ContiguousTo

LEMMA NodeNonce == TypeOK /\ TypeOK' /\ NonceInv /\ Environment => NonceInv'
<1> SUFFICES ASSUME TypeOK, TypeOK', NonceInv, Environment PROVE NonceInv'
  OBVIOUS
<1>1. \A t \in Tasks : task'[t] = task[t]
  BY DEF Environment, stackerVars
<1>2. ASSUME NEW x \in mempool, Mine(x) PROVE NonceInv'
  <2>1. x.acct \in Accounts /\ x.nonce \in Nat
    BY DEF TypeOK, NodeTypeOK, Transactions
  <2>2. /\ x.nonce = conf[x.acct]
        /\ conf' = [conf EXCEPT ![x.acct] = @ + 1]
        /\ mempool' = mempool \ {x}
        /\ lost' = lost
    BY <1>2, Zenon DEF Mine
  <2>3. conf \in [Accounts -> Nat]
    BY DEF TypeOK, NodeTypeOK
  <2>4. \A a \in Accounts : conf'[a] >= conf[a]
    BY <2>1, <2>2, <2>3
  <2>5. ASSUME NEW a \in Accounts, NEW k \in Nat, conf'[a] <= k, Covered(a, k)
        PROVE  Covered(a, k)'
    <3>1. CASE <<a, k>> \in lost
      BY <2>2, <3>1 DEF Covered
    <3>2. ASSUME NEW m \in mempool, m.acct = a, m.nonce = k PROVE Covered(a, k)'
      <4>1. m # x
        BY <2>1, <2>2, <2>3, <2>5, <3>2
      <4> QED
        BY <2>2, <3>2, <4>1 DEF Covered
    <3> QED
      BY <2>5, <3>1, <3>2 DEF Covered
  <2>6. Carries
    BY <2>4, <2>5 DEF Carries
  <2> QED
    BY <1>1, <2>2, <2>6, NonceStep
<1>3. ASSUME NEW x \in mempool, Lose(x) PROVE NonceInv'
  <2>1. /\ mempool' = mempool \ {x}
        /\ lost' = lost \cup {<<x.acct, x.nonce>>}
        /\ conf' = conf
    BY <1>3, Zenon DEF Lose
  <2>2. \A a \in Accounts, k \in Nat : Covered(a, k) => Covered(a, k)'
    BY <2>1 DEF Covered
  <2>3. Carries
    BY <2>1, <2>2 DEF Carries, TypeOK, NodeTypeOK
  <2> QED
    BY <1>1, <2>1, <2>3, NonceStep
<1>4. CASE BurnBlock \/ ThresholdMoves
  <2>1. UNCHANGED <<conf, mempool, lost>>
    BY <1>4 DEF BurnBlock, ThresholdMoves
  <2> QED
    BY <1>1, <2>1, QuietCarries, NonceStep
<1> QED
  BY <1>2, <1>3, <1>4 DEF Environment, NodeNext, MineNext, LoseNext

(* A handler that throws ends, and so may others of its poll.              *)
LEMMA RejectEnds ==
    ASSUME TypeOK, NEW t \in Tasks, Reject(t), NEW u \in Tasks
    PROVE  task'[u].pc \notin Carrying \/ (u # t /\ task'[u] = task[u])
BY DEF Reject, NoTask, Carrying, TypeOK, StackerTypeOK

LEMMA LoopNonce ==
    ASSUME TypeOK, TypeOK', NonceInv, Loop \/ Restart
    PROVE  NonceInv'
<1>1. UNCHANGED <<conf, mempool, lost>>
  BY DEF Loop, Restart, waitForSetup, SkipRun, SettleRun, PostWaitEnds,
         BeginRun, nodeVars
<1>2. ASSUME NEW t \in Tasks
      PROVE  task'[t].pc \notin Carrying \/ task'[t] = task[t]
  <2>1. CASE task' = task
    BY <2>1
  <2>2. ASSUME NEW p \in Polls, BeginRun(p)
        PROVE  task'[t].pc \notin Carrying \/ task'[t] = task[t]
    BY <2>2 DEF BeginRun, NoTask, Carrying
  <2>3. CASE Restart
    BY <2>3 DEF Restart, NoTask, Carrying
  <2> QED
    BY <2>1, <2>2, <2>3
       DEF Loop, waitForSetup, SkipRun, SettleRun, PostWaitEnds
<1> QED
  BY <1>1, <1>2, QuietCarries, NonceStep

(* A handler of t that leaves the node alone keeps the invariant if it     *)
(* ends or carries a contiguous nonce.                                     *)
LEMMA QuietHandlerNonce ==
    ASSUME TypeOK, TypeOK', NonceInv, NEW t \in Tasks,
           UNCHANGED <<conf, mempool, lost>>,
           \A u \in Tasks : u # t => task'[u] = task[u],
           task'[t].pc \in Carrying => ContiguousTo(Acct(t), CarriedNonce(t))'
    PROVE  NonceInv'
BY QuietCarries, NonceStep

(* What the invariant says of the nonce of a handler that carries one.     *)
LEMMA Carried ==
    ASSUME TypeOK, NonceInv, NEW t \in Tasks, task[t].pc \in Carrying
    PROVE  /\ Acct(t) \in Accounts /\ task[t].nonce \in Nat
           /\ task[t].pc # "await" => ContiguousTo(Acct(t), task[t].nonce)
           /\ task[t].pc = "await" => ContiguousTo(Acct(t), task[t].nonce + 1)
<1>1. task[t] \in TaskRecords /\ Acct(t) \in Accounts
  BY DEF TypeOK, StackerTypeOK, Tasks, Acct
<1>2. task[t].nonce \in Nat
  BY <1>1 DEF TaskRecords
<1>3. ContiguousTo(Acct(t), CarriedNonce(t))
  BY DEF NonceInv
<1> QED
  BY <1>1, <1>2, <1>3 DEF CarriedNonce

(* Handlers that only read, or end without a broadcast.                    *)
LEMMA ReadingNonce ==
    ASSUME TypeOK, TypeOK', NonceInv, NEW t \in Tasks,
           UNCHANGED <<conf, mempool, lost>>,
           \A u \in Tasks : u # t => task'[u] = task[u],
           \/ task'[t].pc \notin Carrying
           \/ /\ task[t].pc \in Carrying \ {"await"}
              /\ task'[t].pc # "await" /\ task'[t].nonce = task[t].nonce
           \/ /\ task[t].pc = "await"
              /\ task'[t].pc # "await" /\ task'[t].nonce = task[t].nonce + 1
           \/ task'[t].pc # "await" /\ task'[t].nonce = conf[Acct(t)]
    PROVE  NonceInv'
<1>1. Carries
  BY QuietCarries
<1>2. PICK a \in Accounts : a = Acct(t)
  BY DEF Tasks, Acct
<1>3. ASSUME NEW n \in Nat, task'[t].pc # "await", task'[t].nonce = n,
             ContiguousTo(a, n)
      PROVE  NonceInv'
  <2>1. ContiguousTo(a, n)'
    BY <1>1, <1>3, ContiguousCarries
  <2>2. CarriedNonce(t)' = n
    BY <1>3 DEF CarriedNonce
  <2>3. ContiguousTo(Acct(t), CarriedNonce(t))'
    BY <1>2, <2>1, <2>2 DEF ContiguousTo, Acct
  <2> QED
    BY <2>3, QuietHandlerNonce
<1>4. CASE task'[t].pc \notin Carrying
  BY <1>4, QuietHandlerNonce
<1>5. CASE /\ task[t].pc \in Carrying \ {"await"}
           /\ task'[t].pc # "await" /\ task'[t].nonce = task[t].nonce
  BY <1>2, <1>3, <1>5, Carried
<1>6. CASE /\ task[t].pc = "await"
           /\ task'[t].pc # "await" /\ task'[t].nonce = task[t].nonce + 1
  <2>1. task[t].pc \in Carrying
    BY <1>6 DEF Carrying
  <2>2. task[t].nonce + 1 \in Nat
    BY <2>1, Carried, Successor, Zenon
  <2> QED
    BY <1>2, <1>3, <1>6, <2>1, <2>2, Carried
<1>7. CASE task'[t].pc # "await" /\ task'[t].nonce = conf[Acct(t)]
  <2>1. conf[a] \in Nat
    BY DEF TypeOK, NodeTypeOK
  <2>2. ContiguousTo(a, conf[a])
    BY <2>1 DEF ContiguousTo
  <2> QED
    BY <1>2, <1>3, <1>7, <2>1, <2>2
<1> QED
  BY <1>4, <1>5, <1>6, <1>7

(* A broadcast of a handler at the nonce it carries.                       *)
LEMMA BroadcastNonce ==
    ASSUME TypeOK, TypeOK', NonceInv, NEW t \in Tasks, NEW x \in Transactions,
           task[t].pc \in Carrying \ {"await"},
           x.acct = Acct(t), x.nonce = task[t].nonce,
           mempool' = Put(x), UNCHANGED <<conf, lost>>,
           \A u \in Tasks : u # t => task'[u].pc \notin Carrying \/ task'[u] = task[u],
           task'[t].pc \in Carrying => CarriedNonce(t)' = task[t].nonce + 1
    PROVE  NonceInv'
<1>1. /\ Carries
      /\ Covered(x.acct, x.nonce)'
      /\ \A tx \in mempool' : tx \in mempool \/ tx = x
  BY PutCarries
<1>2. /\ x.acct \in Accounts /\ x.nonce \in Nat
      /\ ContiguousTo(x.acct, x.nonce)
  BY Carried
<1>3. ContiguousTo(x.acct, x.nonce + 1)'
  BY <1>1, <1>2, ContiguousExtends
<1>4. task'[t].pc \in Carrying => ContiguousTo(Acct(t), CarriedNonce(t))'
  BY <1>3 DEF ContiguousTo, Acct
<1> QED
  BY <1>1, <1>2, <1>4, NonceStep

LEMMA TxFields ==
    ASSUME NEW t \in Tasks
    PROVE  /\ DeployTx(t).acct = Acct(t) /\ DeployTx(t).nonce = task[t].nonce
           /\ RegisterTx(t).acct = Acct(t) /\ RegisterTx(t).nonce = task[t].nonce
           /\ CallTx(t).acct = Acct(t) /\ CallTx(t).nonce = task[t].nonce
BY DEF DeployTx, RegisterTx, CallTx, TxOf

LEMMA HandlerNonce ==
    ASSUME TypeOK, TypeOK', NonceInv, NEW t \in Tasks, Handler(t) \/ RpcFails(t)
    PROVE  NonceInv'
<1>0. task \in [Tasks -> TaskRecords] /\ task[t] \in TaskRecords
  BY DEF TypeOK, StackerTypeOK
<1>1. CASE ReadStatus(t)
  <2>1. task'[t].pc = "ready" /\ \A u \in Tasks : u # t => task'[u] = task[u]
    BY <1>0, <1>1 DEF ReadStatus, TaskRecords
  <2>2. UNCHANGED <<conf, mempool, lost>>
    BY <1>1 DEF ReadStatus, nodeVars
  <2> QED
    BY <2>1, <2>2, ReadingNonce DEF Carrying
<1>2. CASE DecidePox5(t) \/ DecidePox4(t)
  <2>1. UNCHANGED <<conf, mempool, lost>>
    BY <1>2 DEF DecidePox5, DecidePox4, nodeVars
  <2>2. \/ Reject(t) \/ task' = [task EXCEPT ![t] = NoTask]
        \/ \E call, fee, amount : Settle(t, call, fee, amount)
    BY <1>2, Zenon DEF DecidePox5, DecidePox4, StartLocking
  <2>3. ASSUME NEW u \in Tasks
        PROVE  task'[u].pc \notin Carrying \/ task'[u] = task[u]
    <3>1. CASE Reject(t)
      BY <3>1, RejectEnds
    <3>2. CASE task' = [task EXCEPT ![t] = NoTask]
      BY <1>0, <3>2 DEF NoTask, Carrying
    <3>3. ASSUME NEW call, NEW fee, NEW amount, Settle(t, call, fee, amount)
          PROVE  task'[u].pc \notin Carrying \/ task'[u] = task[u]
      BY <1>0, <3>3 DEF Settle, NoTask, Carrying
    <3> QED
      BY <2>2, <3>1, <3>2, <3>3
  <2> QED
    BY <2>1, <2>3, QuietCarries, NonceStep
<1>3. CASE GetNonce(t)
  <2>1. /\ task'[t].nonce = conf[Acct(t)] /\ task'[t].pc # "await"
        /\ \A u \in Tasks : u # t => task'[u] = task[u]
    BY <1>0, <1>3 DEF GetNonce, getNonce, TaskRecords
  <2>2. UNCHANGED <<conf, mempool, lost>>
    BY <1>3 DEF GetNonce, nodeVars
  <2> QED
    BY <2>1, <2>2, ReadingNonce
<1>4. CASE ContractExists(t) \/ CheckRegistered(t)
  <2>1. /\ task[t].pc \in {"exists", "check"}
        /\ \E pc \in {"check", "deploy", "submit", "register"} :
              task' = [task EXCEPT ![t].pc = pc]
    BY <1>4, Zenon DEF ContractExists, CheckRegistered
  <2>2. /\ task'[t].nonce = task[t].nonce /\ task'[t].pc # "await"
        /\ \A u \in Tasks : u # t => task'[u] = task[u]
    BY <1>0, <2>1 DEF TaskRecords
  <2>3. UNCHANGED <<conf, mempool, lost>>
    BY <1>4 DEF ContractExists, CheckRegistered, nodeVars
  <2> QED
    BY <2>1, <2>2, <2>3, ReadingNonce DEF Carrying
<1>5. CASE WaitForContract(t)
  <2>1. UNCHANGED <<conf, mempool, lost>> /\ task[t].pc = "await"
    BY <1>5 DEF WaitForContract, nodeVars
  <2>2. CASE Reject(t)
    BY <2>1, <2>2, RejectEnds, QuietCarries, NonceStep
  <2>3. CASE task' = [task EXCEPT ![t].pc = "check", ![t].nonce = @ + 1]
    <3>1. /\ task'[t].nonce = task[t].nonce + 1 /\ task'[t].pc # "await"
          /\ \A u \in Tasks : u # t => task'[u] = task[u]
      BY <1>0, <2>3 DEF TaskRecords
    <3> QED
      BY <2>1, <3>1, ReadingNonce
  <2> QED
    BY <1>5, <2>2, <2>3 DEF WaitForContract
<1>6. ASSUME NEW x \in Transactions, x.acct = Acct(t), x.nonce = task[t].nonce,
             task[t].pc \in {"deploy", "register", "submit"},
             UNCHANGED <<conf, lost>>,
             \/ /\ UNCHANGED mempool
                /\ Reject(t) \/ task' = [task EXCEPT ![t] = NoTask]
             \/ /\ mempool' = Put(x)
                /\ \/ Reject(t)
                   \/ task' = [task EXCEPT ![t] = NoTask]
                   \/ task' = [task EXCEPT ![t].pc = "await"]
                   \/ task' = [task EXCEPT ![t].pc = "submit", ![t].nonce = @ + 1]
      PROVE  NonceInv'
  <2>1. \A u \in Tasks : u # t => task'[u].pc \notin Carrying \/ task'[u] = task[u]
    BY <1>0, <1>6, RejectEnds
  <2>2. task[t].pc \in Carrying \ {"await"}
    BY <1>6 DEF Carrying
  <2>3. ASSUME task'[t].pc \notin Carrying
        PROVE  NonceInv'
    <3>1. CASE UNCHANGED mempool
      BY <1>6, <2>1, <2>3, <3>1, QuietCarries, NonceStep
    <3>2. CASE mempool' = Put(x)
      BY <1>6, <2>1, <2>2, <2>3, <3>2, BroadcastNonce
    <3> QED
      BY <1>6, <3>1, <3>2
  <2>4. CASE Reject(t)
    BY <2>3, <2>4, RejectEnds
  <2>5. CASE task' = [task EXCEPT ![t] = NoTask]
    BY <1>0, <2>3, <2>5 DEF NoTask, Carrying
  <2>6. CASE /\ mempool' = Put(x)
             /\ \/ task' = [task EXCEPT ![t].pc = "await"]
                \/ task' = [task EXCEPT ![t].pc = "submit", ![t].nonce = @ + 1]
    <3>1. CarriedNonce(t)' = task[t].nonce + 1
      BY <1>0, <2>6 DEF CarriedNonce, TaskRecords
    <3> QED
      BY <1>6, <2>1, <2>2, <2>6, <3>1, BroadcastNonce
  <2> QED
    BY <1>6, <2>4, <2>5, <2>6
<1>7. CASE BroadcastDeploy(t)
  <2>1. /\ task[t].pc = "deploy" /\ UNCHANGED <<conf, lost>>
        /\ \/ UNCHANGED mempool /\ Reject(t)
           \/ /\ mempool' = Put(DeployTx(t))
              /\ task' = [task EXCEPT ![t].pc = "await"]
    BY <1>7 DEF BroadcastDeploy
  <2> QED
    BY <1>6, <2>1, TxType, TxFields
<1>8. CASE BroadcastRegister(t)
  <2>1. /\ task[t].pc = "register" /\ UNCHANGED <<conf, lost>>
        /\ \/ UNCHANGED mempool /\ Reject(t)
           \/ /\ mempool' = Put(RegisterTx(t))
              /\ task' = [task EXCEPT ![t].pc = "submit", ![t].nonce = @ + 1]
    BY <1>8 DEF BroadcastRegister
  <2> QED
    BY <1>6, <2>1, TxType, TxFields
<1>9. CASE Submit(t)
  <2>1. /\ task[t].pc = "submit" /\ UNCHANGED <<conf, lost>>
        /\ UNCHANGED mempool \/ mempool' = Put(CallTx(t))
        /\ Reject(t) \/ task' = [task EXCEPT ![t] = NoTask]
    BY <1>9 DEF Submit
  <2> QED
    BY <1>6, <2>1, TxType, TxFields
<1>10. CASE RpcFails(t)
  <2>1. Reject(t) /\ UNCHANGED <<conf, lost>>
    BY <1>10, Zenon DEF RpcFails
  <2>2. CASE UNCHANGED mempool
    BY <2>1, <2>2, RejectEnds, QuietCarries, NonceStep
  <2>3. ASSUME NEW x \in {DeployTx(t), RegisterTx(t), CallTx(t)},
               task[t].pc \in {"deploy", "register", "submit"}, mempool' = Put(x)
        PROVE  NonceInv'
    BY <1>6, <2>1, <2>3, TxType, TxFields
  <2>4. \/ UNCHANGED mempool
        \/ \E x \in {DeployTx(t), RegisterTx(t), CallTx(t)} :
             /\ task[t].pc \in {"deploy", "register", "submit"}
             /\ mempool' = Put(x)
    BY <1>10, Zenon DEF RpcFails
  <2> QED
    BY <2>2, <2>3, <2>4
<1> QED
  BY <1>1, <1>2, <1>3, <1>4, <1>5, <1>7, <1>8, <1>9, <1>10 DEF Handler

(* NonceInv holds in every reachable state: the nonce that a handler       *)
(* carries over its awaits extends what is confirmed and pending.          *)
THEOREM NonceInvariant == Spec => []NonceInv
<1>1. Init => NonceInv
  <2> SUFFICES ASSUME Init PROVE NonceInv
    OBVIOUS
  <2>1. mempool = {} /\ \A t \in Tasks : task[t] = NoTask
    BY DEF Init, NodeInit, StackerInit
  <2>2. NoTask.pc \notin Carrying
    BY DEF NoTask, Carrying
  <2> QED
    BY <2>1, <2>2 DEF NonceInv, NoNonceGap
<1>2. TypeOK /\ TypeOK' /\ NonceInv /\ [Next]_vars => NonceInv'
  <2> SUFFICES ASSUME TypeOK, TypeOK', NonceInv, [Next]_vars PROVE NonceInv'
    OBVIOUS
  <2>1. CASE UNCHANGED vars
    <3>1. UNCHANGED <<conf, mempool, lost, task>>
      BY <2>1 DEF vars, nodeVars, stackerVars
    <3> QED
      BY <3>1, QuietCarries, NonceStep
  <2>2. CASE Next
    BY <2>2, NodeNonce, LoopNonce, HandlerNonce DEF Next
  <2> QED
    BY <2>1, <2>2
<1> QED
  BY <1>1, <1>2, TypeCorrect, PTL DEF Spec

(* For any accounts, polls, failures, drops and restarts, the stacker      *)
(* never leaves a gap in the nonces of an account.                         *)
THEOREM NonceContiguity == Spec => []NoNonceGap
<1>1. NonceInv => NoNonceGap
  BY DEF NonceInv
<1> QED
  BY <1>1, NonceInvariant, PTL

-----------------------------------------------------------------------------
(* Proportional weights, as long as the container is not restarted.        *)

(* A cycle whose amount is fixed keeps it.                                 *)
FixedStays ==
    \A c \in Cycles : cycleStackingAmounts[c] # 0 =>
        cycleStackingAmounts'[c] = cycleStackingAmounts[c]

LEMMA WeightedStays ==
    ASSUME FixedStays, NEW a, NEW amount, NEW c \in Cycles, Weighted(a, amount, c)
    PROVE  Weighted(a, amount, c)'
BY DEF FixedStays, Weighted

LEMMA FixedPositive ==
    ASSUME TypeOK, NEW t \in Tasks
    PROVE  getFixedStackingAmount(NextCycle(t), info[t[1]].threshold) # 0
<1>1. info[t[1]].threshold \in Nat \ {0}
  BY NodeAssumption DEF TypeOK, StackerTypeOK, Tasks, PoxInfos
<1>2. (info[t[1]].threshold * 11) \div 10 # 0
  BY <1>1
<1> QED
  BY <1>2 DEF getFixedStackingAmount

LEMMA StartLockingFixes ==
    ASSUME TypeOK, NEW t \in Tasks, NEW call, NEW fee,
           StartLocking(t, call, fee), UNCHANGED info
    PROVE  /\ FixedStays
           /\ \/ Reject(t)
              \/ \E amount : /\ Settle(t, call, fee, amount)
                             /\ Weighted(Acct(t), amount, NextCycle(t))'
<1>1. PICK fixed \in Nat :
        fixed = getFixedStackingAmount(NextCycle(t), info[t[1]].threshold)
  BY FixedType
<1>2. /\ NextCycle(t) \in Cycles /\ fixed # 0
      /\ cycleStackingAmounts \in [Cycles -> Nat]
  BY <1>1, FixedType, FixedPositive DEF TypeOK, StackerTypeOK
<1>3. cycleStackingAmounts' = [cycleStackingAmounts EXCEPT ![NextCycle(t)] = fixed]
  BY <1>1, Zenon DEF StartLocking
<1>4. PICK amount : amount = fixed * TargetSlots[Acct(t)]
  OBVIOUS
<1>5. Reject(t) \/ Settle(t, call, fee, amount)
  BY <1>1, <1>4, Zenon DEF StartLocking
<1>6. FixedStays
  <2>1. cycleStackingAmounts[NextCycle(t)] # 0
          => fixed = cycleStackingAmounts[NextCycle(t)]
    BY <1>1, Zenon DEF getFixedStackingAmount
  <2> QED
    BY <1>2, <1>3, <2>1 DEF FixedStays
<1>7. Weighted(Acct(t), amount, NextCycle(t))'
  <2>1. cycleStackingAmounts'[NextCycle(t)] = fixed
    BY <1>2, <1>3
  <2>2. NextCycle(t)' = NextCycle(t) /\ Acct(t)' = Acct(t)
    BY DEF NextCycle, Acct
  <2>3. cycleStackingAmounts'[NextCycle(t)'] = fixed
    BY <2>1, <2>2
  <2> QED
    BY <1>2, <1>4, <2>2, <2>3 DEF Weighted
<1> QED
  BY <1>5, <1>6, <1>7

(* The parts of the invariant a step of the stacker can disturb: if fixed  *)
(* amounts stay, new transactions are weighted and every handler ends,     *)
(* keeps its call, amount and poll, or is weighted, then it is kept.       *)
Heading == Carrying \cup {"nonce"}

KeepsCall(t) ==
    /\ task[t].pc \in Heading
    /\ task'[t].call = task[t].call /\ task'[t].amount = task[t].amount
    /\ info'[t[1]] = info[t[1]]

WeightedTx(tx) ==
    tx.call \in Locking /\ tx.cycle + 1 \in Cycles =>
        Weighted(tx.acct, tx.amount, tx.cycle + 1)

LEMMA NextCycleType ==
    ASSUME TypeOK, NEW t \in Tasks PROVE NextCycle(t) \in Cycles
BY FixedType

LEMMA StackerWeight ==
    ASSUME TypeOK, WeightInv, FixedStays, UNCHANGED <<lock, restarts>>,
           \A tx \in mempool' : tx \in mempool \/ WeightedTx(tx),
           \A t \in Tasks : \/ task'[t].pc \notin Heading
                           \/ KeepsCall(t)
                           \/ task'[t].call \notin Locking
                           \/ Weighted(Acct(t), task[t].amount, NextCycle(t))'
    PROVE  WeightInv'
<1>1. ASSUME NEW a \in Accounts, lock'[a] # Unlocked
      PROVE  Weighted(a, lock[a].amount, lock[a].first)'
  <2>1. lock[a] \in Locks /\ lock[a] # Unlocked /\ lock'[a] = lock[a]
    BY <1>1 DEF TypeOK, NodeTypeOK
  <2>2. lock[a].first \in Cycles
    BY <2>1 DEF Locks
  <2>3. Weighted(a, lock[a].amount, lock[a].first)
    BY <2>1 DEF WeightInv
  <2> QED
    BY <2>1, <2>2, <2>3 DEF Weighted, FixedStays
<1>2. ASSUME NEW tx \in mempool', tx.call \in Locking, tx.cycle + 1 \in Cycles
      PROVE  Weighted(tx.acct, tx.amount, tx.cycle + 1)'
  <2>1. Weighted(tx.acct, tx.amount, tx.cycle + 1)
    BY <1>2 DEF WeightInv, WeightedTx
  <2> QED
    BY <1>2, <2>1, WeightedStays
<1>3. ASSUME NEW t \in Tasks, task'[t].pc \in Heading, task'[t].call \in Locking
      PROVE  Weighted(Acct(t), task[t].amount, NextCycle(t))'
  <2>1. CASE KeepsCall(t)
    <3>1. Weighted(Acct(t), task[t].amount, NextCycle(t))
      BY <1>3, <2>1 DEF KeepsCall, WeightInv, Heading
    <3>2. NextCycle(t)' = NextCycle(t) /\ task'[t].amount = task[t].amount
      BY <2>1 DEF KeepsCall, NextCycle
    <3> QED
      BY <3>1, <3>2, NextCycleType DEF Weighted, FixedStays, Acct
  <2> QED
    BY <1>3, <2>1
<1>4. restarts' = 0
  BY DEF WeightInv
<1> QED
  BY <1>1, <1>2, <1>3, <1>4 DEF WeightInv, Heading
LEMMA NodeWeight == TypeOK /\ WeightInv /\ Environment => WeightInv'
<1> SUFFICES ASSUME TypeOK, WeightInv, Environment PROVE WeightInv'
  OBVIOUS
<1>0. /\ UNCHANGED <<cycleStackingAmounts, info, task, restarts>>
      /\ FixedStays
  BY DEF Environment, stackerVars, FixedStays
<1>1. ASSUME mempool' \subseteq mempool,
             \A a \in Accounts :
                lock'[a] # Unlocked => Weighted(a, lock[a].amount, lock[a].first)'
      PROVE  WeightInv'
  <2>1. ASSUME NEW t \in Tasks, task[t].pc \in Heading, task[t].call \in Locking
        PROVE  Weighted(Acct(t), task[t].amount, NextCycle(t))'
    BY <1>0, <2>1 DEF WeightInv, Heading, Weighted, NextCycle, Acct
  <2>2. ASSUME NEW tx \in mempool', tx.call \in Locking, tx.cycle + 1 \in Cycles
        PROVE  Weighted(tx.acct, tx.amount, tx.cycle + 1)'
    BY <1>0, <1>1, <2>2 DEF WeightInv, Weighted
  <2> QED
    BY <1>0, <1>1, <2>1, <2>2 DEF WeightInv, Heading
<1>2. ASSUME NEW a \in Accounts, lock'[a] = lock[a], lock[a] # Unlocked
      PROVE  Weighted(a, lock[a].amount, lock[a].first)'
  BY <1>0, <1>2 DEF WeightInv, Weighted
<1>3. ASSUME NEW x \in mempool, Mine(x) PROVE WeightInv'
  <2>1. x \in Transactions /\ lock \in [Accounts -> Locks] /\ burn \in Heights
    BY DEF TypeOK, NodeTypeOK
  <2>2. x.acct \in Accounts
    BY <2>1 DEF Transactions
  <2>3. mempool' \subseteq mempool
    BY <1>3 DEF Mine
  <2>4. \/ lock' = lock
        \/ /\ lock' = [lock EXCEPT ![x.acct] = LockAfter(x)]
           /\ Succeeds(x) /\ x.call \notin {"deploy", "register"}
    BY <1>3, Zenon DEF Mine, Outcomes
  <2>5. CASE lock' = lock
    BY <1>1, <1>2, <2>3, <2>5
  <2>6. CASE /\ lock' = [lock EXCEPT ![x.acct] = LockAfter(x)]
             /\ Succeeds(x) /\ x.call \notin {"deploy", "register"}
    <3>1. lock'[x.acct] = LockAfter(x)
      BY <2>1, <2>2, <2>6
    <3>2. CASE x.call \in Locking
      <4>1. x.cycle = RewardCycleId(burn) /\ x.cycle + 1 \in Cycles
        BY <2>1, <2>6, <3>2 DEF Succeeds, Locking, Cycles
      <4>2. Weighted(x.acct, x.amount, x.cycle + 1)
        BY <3>2, <4>1 DEF WeightInv
      <4>3. /\ LockAfter(x).amount = x.amount
            /\ LockAfter(x).first = x.cycle + 1
        BY <3>2 DEF LockAfter, NewLock, Locking
      <4>4. Weighted(x.acct, lock[x.acct].amount, lock[x.acct].first)'
        BY <1>0, <3>1, <4>2, <4>3 DEF Weighted
      <4> QED
        BY <1>1, <1>2, <2>1, <2>3, <2>6, <4>4
    <3>3. CASE x.call \notin Locking
      <4>1. x.call \in {"update", "extend"}
        BY <2>1, <2>6, <3>3 DEF Transactions, Calls, Locking
      <4>2. lock[x.acct] # Unlocked
        BY <2>6, <4>1, UpdatesLocked
      <4>3. lock[x.acct] \in [amount : Nat, unlock : Nat, pox5 : BOOLEAN, first : Cycles]
        BY <2>1, <2>2, <4>2 DEF Locks
      <4>4. /\ LockAfter(x).amount = lock[x.acct].amount
            /\ LockAfter(x).first = lock[x.acct].first
        BY <4>1, <4>3 DEF LockAfter
      <4>5. Weighted(x.acct, lock[x.acct].amount, lock[x.acct].first)
        BY <2>2, <4>2 DEF WeightInv
      <4>6. Weighted(x.acct, lock[x.acct].amount, lock[x.acct].first)'
        BY <1>0, <3>1, <4>4, <4>5 DEF Weighted
      <4> QED
        BY <1>1, <1>2, <2>1, <2>3, <2>6, <4>6
    <3> QED
      BY <3>2, <3>3
  <2> QED
    BY <2>4, <2>5, <2>6
<1>4. ASSUME NEW x \in mempool, Lose(x) PROVE WeightInv'
  <2>1. mempool' \subseteq mempool /\ lock' = lock
    BY <1>4 DEF Lose
  <2> QED
    BY <1>1, <1>2, <2>1
<1>5. CASE BurnBlock
  <2>1. /\ mempool' = mempool
        /\ \A a \in Accounts : lock'[a] = Unlocked \/ lock'[a] = lock[a]
    BY <1>5 DEF BurnBlock
  <2> QED
    BY <1>1, <1>2, <2>1
<1>6. CASE ThresholdMoves
  <2>1. mempool' = mempool /\ lock' = lock
    BY <1>6 DEF ThresholdMoves
  <2> QED
    BY <1>1, <1>2, <2>1
<1> QED
  BY <1>3, <1>4, <1>5, <1>6 DEF Environment, NodeNext, MineNext, LoseNext

LEMMA LoopWeight ==
    ASSUME TypeOK, WeightInv, MaxRestarts = 0, Loop \/ Restart
    PROVE  WeightInv'
<1>1. ~Restart
  BY DEF Restart, WeightInv
<1>2. /\ UNCHANGED <<lock, restarts, mempool, cycleStackingAmounts>>
      /\ FixedStays
  BY <1>1 DEF Loop, waitForSetup, SkipRun, SettleRun, PostWaitEnds, BeginRun,
              nodeVars, FixedStays
<1>3. ASSUME NEW t \in Tasks
      PROVE  task'[t].pc \notin Heading \/ KeepsCall(t)
  <2>1. CASE task' = task /\ info' = info
    BY <2>1 DEF KeepsCall
  <2>2. ASSUME NEW p \in Polls, BeginRun(p)
        PROVE  task'[t].pc \notin Heading \/ KeepsCall(t)
    <3>1. CASE t[1] = p
      BY <2>2, <3>1 DEF BeginRun, NoTask, Heading, Carrying
    <3>2. CASE t[1] # p
      <4>1. info \in [Polls -> PoxInfos] /\ t[1] \in Polls
        BY DEF TypeOK, StackerTypeOK, Tasks
      <4>2. info'[t[1]] = info[t[1]] /\ task'[t] = task[t]
        BY <2>2, <3>2, <4>1 DEF BeginRun
      <4> QED
        BY <4>2 DEF KeepsCall
    <3> QED
      BY <3>1, <3>2
  <2> QED
    BY <1>1, <2>1, <2>2 DEF Loop, waitForSetup, SkipRun, SettleRun, PostWaitEnds
<1> QED
  BY <1>2, <1>3, StackerWeight

(* The other handlers of a poll only end or stay as they were.             *)
LEMMA OthersKeep ==
    ASSUME TypeOK, NEW t \in Tasks, UNCHANGED info,
           \/ Reject(t)
           \/ \E r : task' = [task EXCEPT ![t] = r],
           NEW u \in Tasks, u # t
    PROVE  task'[u].pc \notin Heading \/ KeepsCall(u)
<1>1. task'[u] = NoTask \/ task'[u] = task[u]
  BY DEF Reject, TypeOK, StackerTypeOK
<1>2. NoTask.pc \notin Heading
  BY DEF NoTask, Heading, Carrying
<1>3. info'[u[1]] = info[u[1]]
  OBVIOUS
<1> QED
  BY <1>1, <1>2, <1>3 DEF KeepsCall

LEMMA RejectedEnds ==
    ASSUME TypeOK, NEW t \in Tasks, Reject(t)
    PROVE  task'[t].pc \notin Heading
BY DEF Reject, NoTask, Heading, Carrying, TypeOK, StackerTypeOK

(* A call on its way is weighted, and so is its transaction.               *)
LEMMA TxWeight ==
    ASSUME WeightInv, NEW t \in Tasks, task[t].pc \in Carrying
    PROVE  WeightedTx(DeployTx(t)) /\ WeightedTx(RegisterTx(t)) /\ WeightedTx(CallTx(t))
<1>1. /\ DeployTx(t).call \notin Locking /\ RegisterTx(t).call \notin Locking
  BY DEF DeployTx, RegisterTx, TxOf, Locking
<1>2. /\ CallTx(t).call = task[t].call /\ CallTx(t).amount = task[t].amount
      /\ CallTx(t).acct = Acct(t) /\ CallTx(t).cycle + 1 = NextCycle(t)
  BY DEF CallTx, TxOf, NextCycle
<1>3. task[t].call \in Locking => Weighted(Acct(t), task[t].amount, NextCycle(t))
  BY DEF WeightInv
<1> QED
  BY <1>1, <1>2, <1>3 DEF WeightedTx

(* A handler that goes on with its call, or throws.                        *)
LEMMA ContinuingWeight ==
    ASSUME TypeOK, WeightInv, NEW t \in Tasks,
           task[t].pc \in Heading,
           UNCHANGED <<lock, restarts, info, cycleStackingAmounts>>,
           \A tx \in mempool' : tx \in mempool \/ WeightedTx(tx),
           \/ Reject(t)
           \/ task' = [task EXCEPT ![t] = NoTask]
           \/ \E pc : task' = [task EXCEPT ![t].pc = pc]
           \/ \E pc, n : task' = [task EXCEPT ![t].pc = pc, ![t].nonce = n]
    PROVE  WeightInv'
<1>0. task \in [Tasks -> TaskRecords] /\ task[t] \in TaskRecords
  BY DEF TypeOK, StackerTypeOK
<1>1. FixedStays
  BY DEF FixedStays
<1>2. CASE Reject(t)
  BY <1>1, <1>2, OthersKeep, RejectedEnds, StackerWeight
<1>3. CASE task' = [task EXCEPT ![t] = NoTask]
  <2>1. task'[t].pc \notin Heading
    BY <1>0, <1>3 DEF NoTask, Heading, Carrying
  <2>2. \A u \in Tasks : u # t => task'[u].pc \notin Heading \/ KeepsCall(u)
    BY <1>3, OthersKeep
  <2> QED
    BY <1>1, <2>1, <2>2, StackerWeight
<1>4. ASSUME NEW r, task' = [task EXCEPT ![t] = r],
             r.call = task[t].call, r.amount = task[t].amount
      PROVE  WeightInv'
  <2>1. KeepsCall(t)
    BY <1>0, <1>4 DEF KeepsCall
  <2>2. \A u \in Tasks : u # t => task'[u].pc \notin Heading \/ KeepsCall(u)
    BY <1>4, OthersKeep
  <2> QED
    BY <1>1, <2>1, <2>2, StackerWeight
<1>5. ASSUME NEW pc, task' = [task EXCEPT ![t].pc = pc] PROVE WeightInv'
  <2>1. task' = [task EXCEPT ![t] = [task[t] EXCEPT !.pc = pc]]
    BY <1>0, <1>5
  <2>2. /\ [task[t] EXCEPT !.pc = pc].call = task[t].call
        /\ [task[t] EXCEPT !.pc = pc].amount = task[t].amount
    BY <1>0 DEF TaskRecords
  <2> QED
    BY <1>4, <2>1, <2>2
<1>6. ASSUME NEW pc, NEW n, task' = [task EXCEPT ![t].pc = pc, ![t].nonce = n]
      PROVE  WeightInv'
  <2>1. task' = [task EXCEPT ![t] = [task[t] EXCEPT !.pc = pc, !.nonce = n]]
    BY <1>0, <1>6 DEF TaskRecords
  <2>2. /\ [task[t] EXCEPT !.pc = pc, !.nonce = n].call = task[t].call
        /\ [task[t] EXCEPT !.pc = pc, !.nonce = n].amount = task[t].amount
    BY <1>0 DEF TaskRecords
  <2> QED
    BY <1>4, <2>1, <2>2
<1> QED
  BY <1>2, <1>3, <1>5, <1>6

(* A handler that has read its account's status decides.                   *)
LEMMA DecideWeight ==
    ASSUME TypeOK, WeightInv, NEW t \in Tasks, DecidePox5(t) \/ DecidePox4(t)
    PROVE  WeightInv'
<1>0. task \in [Tasks -> TaskRecords]
  BY DEF TypeOK, StackerTypeOK
<1>1. /\ UNCHANGED <<lock, restarts, mempool, info>>
  BY DEF DecidePox5, DecidePox4, nodeVars
<1>2. \/ \E call, fee : StartLocking(t, call, fee)
      \/ /\ UNCHANGED cycleStackingAmounts
         /\ \/ task' = [task EXCEPT ![t] = NoTask]
            \/ \E call \in {"update", "extend"} : \E fee : Settle(t, call, fee, 0)
  BY Zenon DEF DecidePox5, DecidePox4
<1>3. ASSUME NEW r, task' = [task EXCEPT ![t] = r], FixedStays,
             \/ r.pc \notin Heading
             \/ r.call \notin Locking
             \/ Weighted(Acct(t), r.amount, NextCycle(t))'
      PROVE  WeightInv'
  <2>1. \A u \in Tasks : u # t => task'[u].pc \notin Heading \/ KeepsCall(u)
    BY <1>1, <1>3, OthersKeep
  <2>2. task'[t] = r
    BY <1>0, <1>3
  <2> QED
    BY <1>1, <1>3, <2>1, <2>2, StackerWeight DEF Weighted
<1>4. ASSUME NEW call, NEW fee, NEW amount, Settle(t, call, fee, amount), FixedStays,
             call \notin Locking \/ Weighted(Acct(t), amount, NextCycle(t))'
      PROVE  WeightInv'
  <2> DEFINE r == [NoTask EXCEPT !.pc = "nonce", !.call = call, !.fee = fee,
                                 !.amount = amount]
  <2>1. r.call = call /\ r.amount = amount
    BY DEF NoTask
  <2>2. task' = [task EXCEPT ![t] = r]
    BY <1>4 DEF Settle
  <2> HIDE DEF r
  <2> QED
    BY <1>3, <1>4, <2>1, <2>2
<1>5. ASSUME NEW call, NEW fee, StartLocking(t, call, fee) PROVE WeightInv'
  <2>1. /\ FixedStays
        /\ \/ Reject(t)
           \/ \E amount : /\ Settle(t, call, fee, amount)
                          /\ Weighted(Acct(t), amount, NextCycle(t))'
    BY <1>1, <1>5, StartLockingFixes
  <2>2. CASE Reject(t)
    BY <1>1, <2>1, <2>2, OthersKeep, RejectedEnds, StackerWeight
  <2> QED
    BY <1>4, <2>1, <2>2
<1>6. ASSUME UNCHANGED cycleStackingAmounts,
             \/ task' = [task EXCEPT ![t] = NoTask]
             \/ \E call \in {"update", "extend"} : \E fee : Settle(t, call, fee, 0)
      PROVE  WeightInv'
  <2>1. FixedStays
    BY <1>6 DEF FixedStays
  <2>2. CASE task' = [task EXCEPT ![t] = NoTask]
    <3>1. NoTask.pc \notin Heading
      BY DEF NoTask, Heading, Carrying
    <3> QED
      BY <1>3, <2>1, <2>2, <3>1
  <2>3. ASSUME NEW call \in {"update", "extend"}, NEW fee, Settle(t, call, fee, 0)
        PROVE  WeightInv'
    BY <1>4, <2>1, <2>3 DEF Locking
  <2> QED
    BY <1>6, <2>2, <2>3
<1> QED
  BY <1>2, <1>5, <1>6

LEMMA HandlerWeight ==
    ASSUME TypeOK, WeightInv, NEW t \in Tasks, Handler(t) \/ RpcFails(t)
    PROVE  WeightInv'
<1>0. task \in [Tasks -> TaskRecords]
  BY DEF TypeOK, StackerTypeOK
<1>1. CASE ReadStatus(t)
  <2>1. UNCHANGED <<lock, restarts, mempool, info, cycleStackingAmounts>>
    BY <1>1 DEF ReadStatus, nodeVars
  <2>2. \E r : task' = [task EXCEPT ![t] = r] /\ r.pc \notin Heading
    <3> DEFINE r == [task[t] EXCEPT !.pc = "ready",
                                    !.locked = lock[Acct(t)] # Unlocked,
                                    !.unlock = lock[Acct(t)].unlock]
    <3>1. task' = [task EXCEPT ![t] = r]
      BY <1>0, <1>1 DEF ReadStatus, TaskRecords
    <3>2. r.pc \notin Heading
      BY <1>0 DEF TaskRecords, Heading, Carrying
    <3> QED
      BY <3>1, <3>2
  <2>3. FixedStays
    BY <2>1 DEF FixedStays
  <2>4. task'[t].pc \notin Heading
    BY <1>0, <2>2
  <2>5. \A u \in Tasks : u # t => task'[u].pc \notin Heading \/ KeepsCall(u)
    BY <2>1, <2>2, OthersKeep
  <2> QED
    BY <2>1, <2>3, <2>4, <2>5, StackerWeight
<1>2. CASE DecidePox5(t) \/ DecidePox4(t)
  BY <1>2, DecideWeight
<1>3. CASE GetNonce(t)
  <2>1. \E pc, n : task' = [task EXCEPT ![t].pc = pc, ![t].nonce = n]
    <3>1. task' = [task EXCEPT ![t].pc = IF task[t].call \in {"stake", "update"}
                                         THEN "exists" ELSE "submit",
                               ![t].nonce = conf[Acct(t)]]
      BY <1>0, <1>3 DEF GetNonce, getNonce, TaskRecords
    <3> QED
      BY <3>1, Zenon
  <2>2. /\ task[t].pc = "nonce"
        /\ UNCHANGED <<lock, restarts, mempool, info, cycleStackingAmounts>>
    BY <1>3 DEF GetNonce, nodeVars
  <2> QED
    BY <2>1, <2>2, ContinuingWeight DEF Heading
<1>4. CASE ContractExists(t) \/ CheckRegistered(t)
  <2>1. \E pc : task' = [task EXCEPT ![t].pc = pc]
    BY <1>4, Zenon DEF ContractExists, CheckRegistered
  <2>2. /\ task[t].pc \in {"exists", "check"}
        /\ UNCHANGED <<lock, restarts, mempool, info, cycleStackingAmounts>>
    BY <1>4 DEF ContractExists, CheckRegistered, nodeVars
  <2> QED
    BY <2>1, <2>2, ContinuingWeight DEF Heading, Carrying
<1>5. CASE WaitForContract(t)
  <2>1. \/ Reject(t)
        \/ \E pc, n : task' = [task EXCEPT ![t].pc = pc, ![t].nonce = n]
    BY <1>5, Zenon DEF WaitForContract
  <2>2. /\ task[t].pc = "await"
        /\ UNCHANGED <<lock, restarts, mempool, info, cycleStackingAmounts>>
    BY <1>5 DEF WaitForContract, nodeVars
  <2> QED
    BY <2>1, <2>2, ContinuingWeight DEF Heading, Carrying
<1>6. CASE BroadcastDeploy(t) \/ BroadcastRegister(t) \/ Submit(t) \/ RpcFails(t)
  <2>1. UNCHANGED <<lock, restarts, info, cycleStackingAmounts>>
    BY <1>6 DEF BroadcastDeploy, BroadcastRegister, Submit, RpcFails
  <2>2. \/ Reject(t)
        \/ task' = [task EXCEPT ![t] = NoTask]
        \/ \E pc : task' = [task EXCEPT ![t].pc = pc]
        \/ \E pc, n : task' = [task EXCEPT ![t].pc = pc, ![t].nonce = n]
    BY <1>6, Zenon DEF BroadcastDeploy, BroadcastRegister, Submit, RpcFails
  <2>3. CASE UNCHANGED mempool /\ Reject(t)
    <3>1. FixedStays
      BY <2>1 DEF FixedStays
    <3> QED
      BY <2>1, <2>3, <3>1, OthersKeep, RejectedEnds, StackerWeight
  <2>4. CASE task[t].pc \in {"deploy", "register", "submit"}
    <3>1. task[t].pc \in Heading /\ task[t].pc \in Carrying
      BY <2>4 DEF Heading, Carrying
    <3>2. \/ UNCHANGED mempool
          \/ \E x \in {DeployTx(t), RegisterTx(t), CallTx(t)} : mempool' = Put(x)
      BY <1>6, Zenon DEF BroadcastDeploy, BroadcastRegister, Submit, RpcFails
    <3>3. \A tx \in mempool' : tx \in mempool \/ WeightedTx(tx)
      BY <3>1, <3>2, TxWeight DEF Put
    <3> QED
      BY <2>1, <2>2, <3>1, <3>3, ContinuingWeight
  <2>5. \/ UNCHANGED mempool /\ Reject(t)
        \/ task[t].pc \in {"deploy", "register", "submit"}
    BY <1>6 DEF BroadcastDeploy, BroadcastRegister, Submit, RpcFails
  <2> QED
    BY <2>3, <2>4, <2>5
<1> QED
  BY <1>1, <1>2, <1>3, <1>4, <1>5, <1>6 DEF Handler

(* Amounts fixed per cycle are proportional amounts.                       *)
LEMMA WeightedProportional ==
    ASSUME lock \in [Accounts -> Locks], cycleStackingAmounts \in [Cycles -> Nat],
           \A a \in Accounts :
              lock[a] # Unlocked => Weighted(a, lock[a].amount, lock[a].first)
    PROVE  ProportionalWeights
<1> SUFFICES ASSUME NEW a \in Accounts, NEW b \in Accounts,
                    lock[a].amount # 0, lock[b].amount # 0,
                    lock[a].first = lock[b].first
             PROVE  lock[a].amount * TargetSlots[b] = lock[b].amount * TargetSlots[a]
  BY DEF ProportionalWeights
<1>1. lock[a] # Unlocked /\ lock[b] # Unlocked
  BY DEF Unlocked
<1>2. PICK f \in Nat : f = cycleStackingAmounts[lock[a].first]
  <2>1. lock[a].first \in Cycles
    BY <1>1 DEF Locks
  <2> QED
    BY <2>1
<1>3. PICK x \in Nat : x = TargetSlots[a]
  BY StackerAssumption
<1>4. PICK y \in Nat : y = TargetSlots[b]
  BY StackerAssumption
<1>5. lock[a].amount = f * x /\ lock[b].amount = f * y
  BY <1>1, <1>2, <1>3, <1>4 DEF Weighted
<1>6. (f * x) * y = (f * y) * x
  OBVIOUS
<1> QED
  BY <1>3, <1>4, <1>5, <1>6

(* As long as the container is not restarted, every amount that is locked, *)
(* pending or carried by a handler is the one fixed for its cycle.         *)
THEOREM WeightInvariant ==
    ASSUME MaxRestarts = 0
    PROVE  Spec => []WeightInv
<1>1. Init => WeightInv
  <2> SUFFICES ASSUME Init PROVE WeightInv
    OBVIOUS
  <2>1. /\ restarts = 0 /\ mempool = {}
        /\ \A a \in Accounts : lock[a] = Unlocked
        /\ \A t \in Tasks : task[t] = NoTask
    BY DEF Init, NodeInit, StackerInit
  <2>2. NoTask.pc \notin Heading
    BY DEF NoTask, Heading, Carrying
  <2> QED
    BY <2>1, <2>2 DEF WeightInv, Heading
<1>2. TypeOK /\ WeightInv /\ [Next]_vars => WeightInv'
  <2> SUFFICES ASSUME TypeOK, WeightInv, [Next]_vars PROVE WeightInv'
    OBVIOUS
  <2>1. CASE UNCHANGED vars
    <3>1. /\ UNCHANGED <<lock, restarts, mempool, task, info>>
          /\ FixedStays
      BY <2>1 DEF vars, nodeVars, stackerVars, FixedStays
    <3>2. \A t \in Tasks : task'[t].pc \notin Heading \/ KeepsCall(t)
      BY <3>1 DEF KeepsCall
    <3> QED
      BY <3>1, <3>2, StackerWeight
  <2>2. CASE Next
    BY <2>2, NodeWeight, LoopWeight, HandlerWeight DEF Next
  <2> QED
    BY <2>1, <2>2
<1> QED
  BY <1>1, <1>2, TypeCorrect, PTL DEF Spec

(* As long as the container is not restarted, accounts whose locks start   *)
(* in the same cycle have locked in proportion to their slots.             *)
THEOREM WeightsProportional ==
    ASSUME MaxRestarts = 0
    PROVE  Spec => []ProportionalWeights
<1>1. TypeOK /\ WeightInv => ProportionalWeights
  BY WeightedProportional DEF TypeOK, NodeTypeOK, StackerTypeOK, WeightInv
<1> QED
  BY <1>1, WeightInvariant, TypeCorrect, PTL
=============================================================================
