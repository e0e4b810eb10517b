----------------------------- MODULE PlanProofs -----------------------------
(***************************************************************************)
(* That the stacker implements StackingPlan, for any accounts, slots,      *)
(* thresholds and overlapping polls, and what the plan itself guarantees.  *)
(***************************************************************************)
EXTENDS HorizonProofs

-----------------------------------------------------------------------------
(* The plan's words are the model's.                                       *)
LEMMA PlanWords ==
    /\ Plan!Cycles = Cycles /\ Plan!Unlocked = Unlocked
    /\ \A h : Plan!RewardCycleId(h) = RewardCycleId(h)
  BY DEF Plan!Cycles, Cycles, Heights, Plan!Unlocked, Unlocked, RewardCycleId,
         Plan!RewardCycleId

(* A poll that has begun knows the height of a block that has come.        *)
LEMMA PollsCycle ==
    ASSUME TypeOK, HorizonInv, NEW t \in Tasks
    PROVE  NextCycle(t) \in Cycles /\ NextCycle(t) <= Plan!NextCycle
<1>1. /\ info[t[1]].height \in Nat /\ burn \in Nat
      /\ info[t[1]].height <= burn
  BY HeightsNat DEF TypeOK, StackerTypeOK, NodeTypeOK, Tasks, PoxInfos, HorizonInv
<1>2. /\ RewardCycleId(info[t[1]].height) <= RewardCycleId(burn)
      /\ RewardCycleId(info[t[1]].height) \in Nat /\ RewardCycleId(burn) \in Nat
  BY <1>1, CycleGrows, CycleNat
<1> QED BY <1>2, NextCycleType, PlanWords DEF NextCycle, Plan!NextCycle

-----------------------------------------------------------------------------
(* The head of stackStx and stakePox5 fixes the amount of its cycle, or    *)
(* finds it fixed.                                                         *)
LEMMA StartLockingPlanned ==
    ASSUME TypeOK, HorizonInv, NEW t \in Tasks, NEW call, NEW fee,
           StartLocking(t, call, fee), UNCHANGED <<burn, lock>>
    PROVE  [Plan!Next]_(Plan!vars)
<1> DEFINE c == NextCycle(t)
           amount == (info[t[1]].threshold * 11) \div 10
<1>1. /\ c \in Cycles /\ c <= Plan!NextCycle
      /\ cycleStackingAmounts \in [Cycles -> Nat]
  BY PollsCycle DEF TypeOK, StackerTypeOK
<1>2. cycleStackingAmounts' =
        [cycleStackingAmounts EXCEPT ![c] = getFixedStackingAmount(c, info[t[1]].threshold)]
  BY Zenon DEF StartLocking
<1>3. CASE cycleStackingAmounts[c] # 0
  <2>1. getFixedStackingAmount(c, info[t[1]].threshold) = cycleStackingAmounts[c]
    BY <1>3 DEF getFixedStackingAmount
  <2>2. UNCHANGED cycleStackingAmounts
    BY <1>1, <1>2, <2>1
  <2> QED BY <2>2 DEF Plan!vars
<1>4. CASE cycleStackingAmounts[c] = 0
  <2>1. getFixedStackingAmount(c, info[t[1]].threshold) = amount
    BY <1>4 DEF getFixedStackingAmount
  <2>2. amount \in {(x * 11) \div 10 : x \in Thresholds}
    BY DEF TypeOK, StackerTypeOK, Tasks, PoxInfos
  <2>3. cycleStackingAmounts' = [cycleStackingAmounts EXCEPT ![c] = amount]
    BY <1>2, <2>1
  <2> HIDE DEF c, amount
  <2>4. Plan!Fix(c)
    BY <1>1, <1>4, <2>2, <2>3 DEF Plan!Fix
  <2> QED BY <1>1, <2>4, PlanWords DEF Plan!Next
<1> QED BY <1>3, <1>4

(* All other steps of the stacker are stutters: they leave the chain and   *)
(* the fixed amounts alone.                                                *)
LEMMA StackerPlanned ==
    ASSUME TypeOK, WeightInv, MaxRestarts = 0, HorizonInv,
           \/ Loop \/ Restart
           \/ \E t \in Tasks : Handler(t) \/ RpcFails(t)
    PROVE  [Plan!Next]_(Plan!vars)
<1>1. ~Restart
  BY DEF Restart, WeightInv
<1>2. CASE Loop
  BY <1>2 DEF Loop, waitForSetup, SkipRun, SettleRun, PostWaitEnds, BeginRun,
              nodeVars, Plan!vars
<1>3. ASSUME NEW t \in Tasks, DecidePox5(t) \/ DecidePox4(t)
      PROVE  [Plan!Next]_(Plan!vars)
  <2>1. UNCHANGED <<burn, lock>>
    BY <1>3 DEF DecidePox5, DecidePox4, nodeVars
  <2>2. \/ \E call, fee : StartLocking(t, call, fee)
        \/ UNCHANGED cycleStackingAmounts
    BY <1>3, Zenon DEF DecidePox5, DecidePox4
  <2> QED BY <2>1, <2>2, StartLockingPlanned DEF Plan!vars
<1>4. ASSUME NEW t \in Tasks, ~DecidePox5(t), ~DecidePox4(t), Handler(t) \/ RpcFails(t)
      PROVE  UNCHANGED Plan!vars
  BY <1>4 DEF Handler, RpcFails, ReadStatus, GetNonce, ContractExists,
       WaitForContract, CheckRegistered, BroadcastDeploy, BroadcastRegister,
       Submit, nodeVars, Plan!vars
<1> QED BY <1>1, <1>2, <1>3, <1>4

-----------------------------------------------------------------------------
(* The node.  A stake or stack that succeeds locks what is planned, for it *)
(* was signed for the cycle it is mined in, and carries the fixed amount.  *)
LEMMA LockPlanned ==
    ASSUME TypeOK, WeightInv, NEW x \in mempool, Succeeds(x), x.call \in Locking,
           lock' = [lock EXCEPT ![x.acct] = LockAfter(x)],
           UNCHANGED <<burn, cycleStackingAmounts>>
    PROVE  Plan!Lock(x.acct) /\ x.acct \in Accounts
<1>1. x \in Transactions /\ x.acct \in Accounts /\ lock[x.acct] \in Locks
  BY DEF TypeOK, NodeTypeOK, Transactions
<1>2. x.cycle = RewardCycleId(burn) /\ x.cycle \in Nat
  BY <1>1 DEF Succeeds, Locking, Transactions
<1>3. x.cycle + 1 = Plan!NextCycle
  BY <1>2, PlanWords DEF Plan!NextCycle
<1>4. x.cycle + 1 \in Cycles
  BY <1>2 DEF Cycles, TypeOK, NodeTypeOK
<1>5. Weighted(x.acct, x.amount, x.cycle + 1)
  BY <1>4 DEF WeightInv
<1>6. LockAfter(x) =
        [amount |-> cycleStackingAmounts[Plan!NextCycle] * TargetSlots[x.acct],
         unlock |-> (Plan!NextCycle + StackingCycles) * POX_REWARD_LENGTH,
         pox5   |-> x.call = "stake",
         first  |-> Plan!NextCycle]
  BY <1>3, <1>5 DEF LockAfter, NewLock, Locking, Weighted
<1>7. lock[x.acct] = Unlocked \/ ((x.call = "stake") /\ ~lock[x.acct].pox5)
  BY DEF Succeeds, Locking
<1>8. cycleStackingAmounts[Plan!NextCycle] # 0
  BY <1>3, <1>5 DEF Weighted
<1>9. (x.call = "stake") \in BOOLEAN
  OBVIOUS
<1> HIDE DEF Locking
<1> QED BY <1>1, <1>6, <1>7, <1>8, <1>9, PlanWords DEF Plan!Lock

(* An update or extend that succeeds is one the plan allows, because the   *)
(* lock it leaves is within the horizon.                                   *)
LEMMA ExtendPlanned ==
    ASSUME IsFiniteSet(Polls), TypeOK, LockHorizon',
           NEW x \in mempool, Succeeds(x), x.call \in Extensions,
           lock' = [lock EXCEPT ![x.acct] = LockAfter(x)],
           UNCHANGED <<burn, cycleStackingAmounts>>
    PROVE  Plan!Extend(x.acct) /\ x.acct \in Accounts
<1>1. x.acct \in Accounts /\ lock \in [Accounts -> Locks] /\ burn \in Nat
  BY HeightsNat DEF TypeOK, NodeTypeOK, Transactions
<1>2. lock[x.acct] # Unlocked
  BY UpdatesLocked DEF Extensions
<1>3. LockAfter(x) = [lock[x.acct] EXCEPT !.unlock = @ + StackingCycles * POX_REWARD_LENGTH]
  BY DEF LockAfter, Extensions
<1>4. lock' = [lock EXCEPT ![x.acct].unlock = @ + StackingCycles * POX_REWARD_LENGTH]
  BY <1>1, <1>3
<1>5. lock[x.acct] \in [amount : Nat, unlock : Nat, pox5 : BOOLEAN, first : Cycles]
  BY <1>1, <1>2 DEF Locks
<1>6. lock'[x.acct].unlock = lock[x.acct].unlock + Extent
  BY <1>1, <1>3, <1>5 DEF Extent
<1>7. lock'[x.acct].unlock <=
        (RewardCycleId(burn) + 1 + (1 + Cardinality(Polls)) * StackingCycles)
            * POX_REWARD_LENGTH
  BY <1>1 DEF LockHorizon, RewardCycleId
<1>8. \A c, n \in Nat :
        (c + 1 + (1 + n) * StackingCycles) * POX_REWARD_LENGTH
          = (c + 1 + n * StackingCycles) * POX_REWARD_LENGTH + Extent
  BY NodeAssumption, CalendarAssumption DEF Extent
<1>9. lock[x.acct].unlock <=
        (RewardCycleId(burn) + 1 + Cardinality(Polls) * StackingCycles)
            * POX_REWARD_LENGTH
  <2>1. PICK c \in Nat, n \in Nat : c = RewardCycleId(burn) /\ n = Cardinality(Polls)
    BY <1>1, CycleNat, FS_CardinalityType
  <2>2. (c + 1 + n * StackingCycles) * POX_REWARD_LENGTH \in Nat
    BY <2>1, NodeAssumption, CalendarAssumption
  <2>3. lock[x.acct].unlock + Extent
          <= (c + 1 + n * StackingCycles) * POX_REWARD_LENGTH + Extent
    BY <1>6, <1>7, <1>8, <2>1
  <2>4. lock[x.acct].unlock \in Nat
    BY <1>5
  <2> QED BY <2>1, <2>2, <2>3, <2>4, ExtentNat
<1> QED BY <1>1, <1>2, <1>4, <1>9, PlanWords DEF Plan!Extend, Plan!NextCycle

LEMMA NodePlanned ==
    ASSUME IsFiniteSet(Polls), TypeOK, WeightInv, LockHorizon',
           Environment
    PROVE  [Plan!Next]_(Plan!vars)
<1>1. UNCHANGED cycleStackingAmounts
  BY DEF Environment, stackerVars
<1>2. CASE BurnBlock
  <2>1. Plan!Block
    BY <1>1, <1>2, PlanWords DEF BurnBlock, Plan!Block
  <2> QED BY <2>1 DEF Plan!Next
<1>3. CASE ThresholdMoves \/ LoseNext
  BY <1>1, <1>3 DEF ThresholdMoves, LoseNext, Lose, Plan!vars
<1>4. ASSUME NEW x \in mempool, Mine(x) PROVE [Plan!Next]_(Plan!vars)
  <2>1. UNCHANGED burn /\ x.call \in Calls
    BY <1>4 DEF Mine, TypeOK, NodeTypeOK, Transactions
  <2>2. \/ lock' = lock
        \/ /\ lock' = [lock EXCEPT ![x.acct] = LockAfter(x)]
           /\ Succeeds(x) /\ x.call \notin {"deploy", "register"}
    BY <1>4, Zenon DEF Mine, Outcomes
  <2>3. CASE lock' = lock
    BY <1>1, <2>1, <2>3 DEF Plan!vars
  <2>4. CASE /\ lock' = [lock EXCEPT ![x.acct] = LockAfter(x)]
             /\ Succeeds(x) /\ x.call \notin {"deploy", "register"}
    <3>1. x.call \in Locking \/ x.call \in Extensions
      BY <2>1, <2>4 DEF Calls, Locking, Extensions
    <3> QED BY <1>1, <2>1, <2>4, <3>1, LockPlanned, ExtendPlanned DEF Plan!Next
  <2> QED BY <2>2, <2>3, <2>4
<1> QED BY <1>2, <1>3, <1>4 DEF Environment, NodeNext, MineNext

(* As long as the container is not restarted, every step of the stacker    *)
(* and of its node is a step of StackingPlan or a stutter: handlers fix    *)
(* amounts, and the transactions they leave behind lock and extend only    *)
(* what the plan allows, whenever they are mined.                          *)
THEOREM ImplementsPlan ==
    ASSUME MaxRestarts = 0, IsFiniteSet(Polls)
    PROVE  Spec => FollowsPlan
<1>1. Init => Plan!Init
  BY PlanWords DEF Init, NodeInit, StackerInit, Plan!Init
<1>2. TypeOK /\ WeightInv /\ HorizonInv /\ LockHorizon' /\ [Next]_vars
        => [Plan!Next]_(Plan!vars)
  <2> SUFFICES ASSUME TypeOK, WeightInv, HorizonInv, LockHorizon', [Next]_vars
               PROVE  [Plan!Next]_(Plan!vars)
    OBVIOUS
  <2>1. CASE UNCHANGED vars
    BY <2>1 DEF vars, nodeVars, stackerVars, Plan!vars
  <2>2. CASE Next
    BY <2>2, NodePlanned, StackerPlanned DEF Next
  <2> QED BY <2>1, <2>2
<1> QED
  BY <1>1, <1>2, TypeCorrect, WeightInvariant, HorizonInvariant,
     HorizonHolds, PTL DEF Spec, FollowsPlan, Plan!Spec

-----------------------------------------------------------------------------
(* What the plan guarantees by itself: types, amounts, and the horizon.    *)
PlanInv ==
    /\ burn \in Heights
    /\ lock \in [Accounts -> Locks]
    /\ cycleStackingAmounts \in [Cycles -> Nat]
    /\ \A a \in Accounts :
          lock[a] # Unlocked => Weighted(a, lock[a].amount, lock[a].first)
    /\ LockHorizon

(* The end of the horizon never comes nearer.                              *)
LEMMA HorizonBounds ==
    ASSUME IsFiniteSet(Polls), NEW h \in Nat, NEW k \in Nat, h <= k,
           NEW u \in Nat,
           u <= (RewardCycleId(h) + 1 + (1 + Cardinality(Polls)) * StackingCycles)
                  * POX_REWARD_LENGTH
    PROVE  u <= (RewardCycleId(k) + 1 + (1 + Cardinality(Polls)) * StackingCycles)
                  * POX_REWARD_LENGTH
<1>1. PICK c \in Nat, d \in Nat, s \in Nat :
        /\ c = RewardCycleId(h) /\ d = RewardCycleId(k) /\ c <= d
        /\ s = (1 + Cardinality(Polls)) * StackingCycles
  <2>1. PICK n \in Nat : n = 1 + Cardinality(Polls)
    BY FS_CardinalityType
  <2>2. n * StackingCycles \in Nat
    BY NodeAssumption
  <2> QED BY <2>1, <2>2, CycleNat, CycleGrows
<1>2. (c + 1 + s) * POX_REWARD_LENGTH <= (d + 1 + s) * POX_REWARD_LENGTH
  BY <1>1, TimesMonotone, CalendarAssumption
<1>3. /\ (c + 1 + s) * POX_REWARD_LENGTH \in Nat
      /\ (d + 1 + s) * POX_REWARD_LENGTH \in Nat
  BY <1>1, CalendarAssumption
<1> QED BY <1>1, <1>2, <1>3

LEMMA PlanFixes ==
    ASSUME PlanInv, NEW c \in Cycles, Plan!Fix(c) PROVE PlanInv'
<1>1. PICK x \in Thresholds :
        cycleStackingAmounts' = [cycleStackingAmounts EXCEPT ![c] = (x * 11) \div 10]
  BY DEF Plan!Fix
<1>2. (x * 11) \div 10 \in Nat
  BY NodeAssumption
<1>3. /\ cycleStackingAmounts' \in [Cycles -> Nat]
      /\ \A d \in Cycles : cycleStackingAmounts[d] # 0 =>
            cycleStackingAmounts'[d] = cycleStackingAmounts[d]
  BY <1>1, <1>2 DEF PlanInv, Plan!Fix
<1>4. burn' = burn /\ lock' = lock
  BY DEF Plan!Fix
<1>5. ASSUME NEW a \in Accounts, lock[a] # Unlocked
      PROVE  Weighted(a, lock[a].amount, lock[a].first)'
  <2>1. lock[a].first \in Cycles /\ Weighted(a, lock[a].amount, lock[a].first)
    BY <1>5 DEF PlanInv, Locks
  <2> QED BY <1>3, <1>4, <2>1 DEF Weighted
<1>6. LockHorizon'
  BY <1>4 DEF PlanInv, LockHorizon, RewardCycleId
<1> QED BY <1>3, <1>4, <1>5, <1>6 DEF PlanInv

LEMMA PlanLocks ==
    ASSUME IsFiniteSet(Polls), PlanInv, NEW a \in Accounts, Plan!Lock(a)
    PROVE  PlanInv'
<1>1. PICK c \in Nat, f \in Nat, s \in Nat, n \in Nat :
        /\ c = RewardCycleId(burn) + 1 /\ c \in Cycles
        /\ f = cycleStackingAmounts[c] /\ f # 0
        /\ s = TargetSlots[a] /\ n = Cardinality(Polls)
  <2>1. burn \in Nat /\ RewardCycleId(burn) \in Nat
    BY HeightsNat, CycleNat DEF PlanInv
  <2>2. RewardCycleId(burn) + 1 \in Cycles
    BY DEF PlanInv, Cycles
  <2>3. Plan!NextCycle = RewardCycleId(burn) + 1
    BY PlanWords DEF Plan!NextCycle
  <2>4. cycleStackingAmounts[RewardCycleId(burn) + 1] \in Nat \ {0}
    BY <2>2, <2>3 DEF PlanInv, Plan!Lock
  <2> QED BY <2>1, <2>2, <2>4, StackerAssumption, FS_CardinalityType
<1>2. PICK pox5 \in BOOLEAN :
        lock' = [lock EXCEPT ![a] =
                   [amount |-> f * s, unlock |-> (c + StackingCycles) * POX_REWARD_LENGTH,
                    pox5 |-> pox5, first |-> c]]
  <2>1. Plan!NextCycle = c
    BY <1>1, PlanWords DEF Plan!NextCycle
  <2> QED BY <1>1, <2>1 DEF Plan!Lock
<1>3. burn' = burn /\ cycleStackingAmounts' = cycleStackingAmounts
  BY DEF Plan!Lock
<1>4. f * s \in Nat /\ (c + StackingCycles) * POX_REWARD_LENGTH \in Nat
  BY <1>1, NodeAssumption, CalendarAssumption
<1> DEFINE r == [amount |-> f * s, unlock |-> (c + StackingCycles) * POX_REWARD_LENGTH,
                 pox5 |-> pox5, first |-> c]
<1>5. /\ r \in Locks /\ r.amount = f * s /\ r.first = c
      /\ r.unlock = (c + StackingCycles) * POX_REWARD_LENGTH
  BY <1>1, <1>4 DEF Locks
<1> HIDE DEF r
<1>6. lock' = [lock EXCEPT ![a] = r]
  BY <1>2 DEF r
<1>7. /\ lock' \in [Accounts -> Locks] /\ lock'[a] = r
      /\ \A b \in Accounts : b # a => lock'[b] = lock[b]
  BY <1>5, <1>6 DEF PlanInv
<1>8. \A b \in Accounts :
        lock'[b] # Unlocked => Weighted(b, lock[b].amount, lock[b].first)'
  <2>1. Weighted(a, lock[a].amount, lock[a].first)'
    BY <1>1, <1>3, <1>5, <1>7 DEF Weighted
  <2>2. ASSUME NEW b \in Accounts, b # a, lock'[b] # Unlocked
        PROVE  Weighted(b, lock[b].amount, lock[b].first)'
    BY <1>3, <1>7, <2>2 DEF PlanInv, Weighted
  <2> QED BY <2>1, <2>2
<1>9. LockHorizon'
  <2>1. \A m \in Nat : (c + StackingCycles) * POX_REWARD_LENGTH
                         <= (c + (1 + m) * StackingCycles) * POX_REWARD_LENGTH
    <3> SUFFICES ASSUME NEW m \in Nat
                 PROVE  (c + StackingCycles) * POX_REWARD_LENGTH
                          <= (c + (1 + m) * StackingCycles) * POX_REWARD_LENGTH
      OBVIOUS
    <3>1. /\ c + StackingCycles \in Nat /\ c + (1 + m) * StackingCycles \in Nat
          /\ c + StackingCycles <= c + (1 + m) * StackingCycles
      BY NodeAssumption
    <3> QED BY <3>1, TimesMonotone, CalendarAssumption
  <2>2. r.unlock <= (c + (1 + n) * StackingCycles) * POX_REWARD_LENGTH
    BY <1>1, <1>5, <2>1
  <2> QED BY <1>1, <1>3, <1>7, <2>2 DEF PlanInv, LockHorizon, RewardCycleId
<1> QED BY <1>3, <1>7, <1>8, <1>9 DEF PlanInv

LEMMA PlanExtends ==
    ASSUME IsFiniteSet(Polls), PlanInv, NEW a \in Accounts, Plan!Extend(a)
    PROVE  PlanInv'
<1>1. /\ lock \in [Accounts -> Locks] /\ lock[a] # Unlocked
      /\ lock[a] \in [amount : Nat, unlock : Nat, pox5 : BOOLEAN, first : Cycles]
  BY PlanWords DEF PlanInv, Plan!Extend, Locks
<1>2. PICK r : /\ r = [lock[a] EXCEPT !.unlock = @ + StackingCycles * POX_REWARD_LENGTH]
               /\ lock' = [lock EXCEPT ![a] = r]
  BY <1>1 DEF Plan!Extend
<1>3. /\ r \in Locks /\ r.amount = lock[a].amount /\ r.first = lock[a].first
      /\ r.unlock = lock[a].unlock + Extent
  <2>1. StackingCycles * POX_REWARD_LENGTH \in Nat
    BY NodeAssumption, CalendarAssumption
  <2> QED BY <1>1, <1>2, <2>1 DEF Locks, Extent
<1>4. burn' = burn /\ cycleStackingAmounts' = cycleStackingAmounts
  BY DEF Plan!Extend
<1>5. /\ lock' \in [Accounts -> Locks] /\ lock'[a] = r
      /\ \A b \in Accounts : b # a => lock'[b] = lock[b]
  BY <1>1, <1>2, <1>3
<1>6. \A b \in Accounts :
        lock'[b] # Unlocked => Weighted(b, lock[b].amount, lock[b].first)'
  BY <1>1, <1>3, <1>4, <1>5 DEF PlanInv, Weighted
<1>7. LockHorizon'
  <2>1. PICK c \in Nat, n \in Nat : c = RewardCycleId(burn) /\ n = Cardinality(Polls)
    BY HeightsNat, CycleNat, FS_CardinalityType DEF PlanInv
  <2>2. lock[a].unlock <= (c + 1 + n * StackingCycles) * POX_REWARD_LENGTH
    BY <2>1, PlanWords DEF Plan!Extend, Plan!NextCycle
  <2>3. (c + 1 + (1 + n) * StackingCycles) * POX_REWARD_LENGTH
          = (c + 1 + n * StackingCycles) * POX_REWARD_LENGTH + Extent
    BY NodeAssumption, CalendarAssumption DEF Extent
  <2>4. (c + 1 + n * StackingCycles) * POX_REWARD_LENGTH \in Nat /\ lock[a].unlock \in Nat
    BY <1>1, NodeAssumption, CalendarAssumption
  <2>5. r.unlock <= (c + 1 + (1 + n) * StackingCycles) * POX_REWARD_LENGTH
    BY <1>3, <2>2, <2>3, <2>4, ExtentNat
  <2> QED BY <1>4, <1>5, <2>1, <2>5 DEF PlanInv, LockHorizon, RewardCycleId
<1> QED BY <1>4, <1>5, <1>6, <1>7 DEF PlanInv

LEMMA PlanBlock ==
    ASSUME IsFiniteSet(Polls), PlanInv, Plan!Block PROVE PlanInv'
<1>1. /\ burn' \in Heights /\ burn \in Nat /\ burn' \in Nat /\ burn <= burn'
      /\ cycleStackingAmounts' = cycleStackingAmounts
  BY NodeAssumption, HeightsNat DEF PlanInv, Heights, Plan!Block
<1>2. \A a \in Accounts : lock'[a] = Unlocked \/ lock'[a] = lock[a]
  BY PlanWords DEF Plan!Block
<1>3. Unlocked \in Locks /\ Unlocked.unlock = 0
  BY DEF Unlocked, Locks
<1>4. lock' \in [Accounts -> Locks]
  BY <1>3, PlanWords DEF PlanInv, Plan!Block
<1>5. \A a \in Accounts :
        lock'[a] # Unlocked => Weighted(a, lock[a].amount, lock[a].first)'
  BY <1>1, <1>2 DEF PlanInv, Weighted
<1>6. LockHorizon'
  <2> SUFFICES ASSUME NEW a \in Accounts
               PROVE  lock'[a].unlock <=
                        (RewardCycleId(burn') + 1
                            + (1 + Cardinality(Polls)) * StackingCycles)
                          * POX_REWARD_LENGTH
    BY DEF LockHorizon, RewardCycleId
  <2>1. lock[a].unlock \in Nat /\ lock'[a].unlock \in Nat /\ lock'[a].unlock <= lock[a].unlock
    BY <1>2, <1>3, <1>4, LockFields DEF PlanInv
  <2>2. lock[a].unlock <=
          (RewardCycleId(burn') + 1 + (1 + Cardinality(Polls)) * StackingCycles)
            * POX_REWARD_LENGTH
    BY <1>1, <2>1, HorizonBounds DEF PlanInv, LockHorizon
  <2>3. PICK d \in Nat, n \in Nat : d = RewardCycleId(burn') /\ n = Cardinality(Polls)
    BY <1>1, CycleNat, FS_CardinalityType
  <2>4. (d + 1 + (1 + n) * StackingCycles) * POX_REWARD_LENGTH \in Nat
    BY NodeAssumption, CalendarAssumption
  <2> QED BY <2>1, <2>2, <2>3, <2>4
<1> QED BY <1>1, <1>4, <1>5, <1>6 DEF PlanInv

(* Whatever keeps to the plan keeps the weights of a cycle proportional to *)
(* the slots and locks nobody further ahead than the overlap of its polls  *)
(* explains: StackingPlan is all of stacking.ts these two promises need.   *)
THEOREM PlanPromises ==
    ASSUME IsFiniteSet(Polls)
    PROVE  Plan!Spec => []ProportionalWeights /\ []LockHorizon
<1>1. Plan!Init => PlanInv
  <2> SUFFICES ASSUME Plan!Init PROVE PlanInv
    OBVIOUS
  <2>1. /\ burn = InitBurn /\ cycleStackingAmounts = [c \in Cycles |-> 0]
        /\ lock = [a \in Accounts |-> Unlocked]
    BY PlanWords DEF Plan!Init
  <2>2. Unlocked \in Locks /\ Unlocked.unlock = 0
    BY DEF Unlocked, Locks
  <2>3. PICK c \in Nat, n \in Nat : c = RewardCycleId(burn) /\ n = Cardinality(Polls)
    BY <2>1, NodeAssumption, CycleNat, FS_CardinalityType
  <2>4. 0 <= (c + 1 + (1 + n) * StackingCycles) * POX_REWARD_LENGTH
    BY NodeAssumption, CalendarAssumption
  <2>5. LockHorizon
    BY <2>1, <2>2, <2>3, <2>4 DEF LockHorizon
  <2> QED BY <2>1, <2>2, <2>5, NodeAssumption DEF PlanInv, Heights
<1>2. PlanInv /\ [Plan!Next]_(Plan!vars) => PlanInv'
  <2> SUFFICES ASSUME PlanInv, [Plan!Next]_(Plan!vars) PROVE PlanInv'
    OBVIOUS
  <2>1. CASE UNCHANGED Plan!vars
    BY <2>1 DEF Plan!vars, PlanInv, Weighted, LockHorizon, RewardCycleId
  <2>2. CASE Plan!Next
    BY <2>2, PlanWords, PlanFixes, PlanLocks, PlanExtends, PlanBlock DEF Plan!Next
  <2> QED BY <2>1, <2>2
<1>3. PlanInv => ProportionalWeights /\ LockHorizon
  BY WeightedProportional DEF PlanInv
<1> QED BY <1>1, <1>2, <1>3, PTL DEF Plan!Spec
=============================================================================
