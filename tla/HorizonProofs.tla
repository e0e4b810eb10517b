--------------------------- MODULE HorizonProofs ---------------------------
(***************************************************************************)
(* Why extensions do not pile up: how far ahead of the chain the stacker   *)
(* ever locks an account, for every calendar and any number of overlapping *)
(* polls, through pox-4, pox-5 and the switch between them.                *)
(***************************************************************************)
EXTENDS StackerProofs, FiniteSetTheorems

-----------------------------------------------------------------------------
(* Arithmetic: lengths in blocks, so that the rest is addition.            *)

(* The blocks an extension adds, and the start of the cycle after h.       *)
Extent == StackingCycles * POX_REWARD_LENGTH
NextStart(h) == (RewardCycleId(h) + 1) * POX_REWARD_LENGTH
OnBoundary(u) == \E k \in Nat : u = k * POX_REWARD_LENGTH

LEMMA ExtentNat == Extent \in Nat
  BY NodeAssumption, CalendarAssumption DEF Extent

LEMMA TimesMonotone ==
    ASSUME NEW m \in Nat, NEW n \in Nat, m <= n, NEW x \in Nat
    PROVE  m * x \in Nat /\ n * x \in Nat /\ m * x <= n * x
  OBVIOUS

LEMMA TimesSuccessor ==
    ASSUME NEW m \in Nat, NEW x \in Nat
    PROVE  (m + 1) * x = m * x + x
  OBVIOUS

LEMMA CycleGrows ==
    ASSUME NEW h \in Nat, NEW k \in Nat, h <= k
    PROVE  RewardCycleId(h) <= RewardCycleId(k)
  BY CalendarAssumption DEF RewardCycleId

LEMMA NextStartNat ==
    ASSUME NEW h \in Nat PROVE NextStart(h) \in Nat /\ OnBoundary(NextStart(h))
<1>1. PICK k \in Nat : k = RewardCycleId(h) + 1
  BY CycleNat
<1>2. NextStart(h) = k * POX_REWARD_LENGTH
  BY <1>1 DEF NextStart
<1> QED BY <1>2, CalendarAssumption DEF OnBoundary

LEMMA NextStartGrows ==
    ASSUME NEW h \in Nat, NEW k \in Nat, h <= k
    PROVE  NextStart(h) <= NextStart(k)
<1>1. /\ RewardCycleId(h) + 1 \in Nat /\ RewardCycleId(k) + 1 \in Nat
      /\ RewardCycleId(h) + 1 <= RewardCycleId(k) + 1
  BY CycleNat, CycleGrows
<1> QED BY <1>1, TimesMonotone, CalendarAssumption DEF NextStart

(* A lock ends where a cycle starts, so one that ends in the next cycle    *)
(* ends at its very start.                                                 *)
LEMMA EndsAtNextStart ==
    ASSUME NEW u, OnBoundary(u), NEW h \in Nat,
           burnBlockToRewardCycle(u) = burnBlockToRewardCycle(h) + 1
    PROVE  u = NextStart(h)
<1>1. PICK k \in Nat : u = k * POX_REWARD_LENGTH
  BY DEF OnBoundary
<1>2. (k * POX_REWARD_LENGTH) \div POX_REWARD_LENGTH = k
  BY CalendarAssumption
<1>3. h \div POX_REWARD_LENGTH \in Nat
  BY CalendarAssumption
<1>4. k = h \div POX_REWARD_LENGTH + 1
  BY <1>1, <1>2, <1>3 DEF burnBlockToRewardCycle
<1> QED BY <1>1, <1>4 DEF NextStart, RewardCycleId

(* The end of a lock that starts in the cycle after h, and of an extended  *)
(* one.                                                                    *)
LEMMA NewLockEnds ==
    ASSUME NEW c \in Nat
    PROVE  (c + 1 + StackingCycles) * POX_REWARD_LENGTH
             = (c + 1) * POX_REWARD_LENGTH + Extent
  BY NodeAssumption, CalendarAssumption DEF Extent

LEMMA ExtentOnBoundary ==
    ASSUME NEW u, OnBoundary(u) PROVE u \in Nat /\ OnBoundary(u + Extent)
<1>1. PICK k \in Nat : u = k * POX_REWARD_LENGTH
  BY DEF OnBoundary
<1>2. u + Extent = (k + StackingCycles) * POX_REWARD_LENGTH
  BY <1>1, NodeAssumption, CalendarAssumption DEF Extent
<1> QED BY <1>1, <1>2, NodeAssumption, CalendarAssumption DEF OnBoundary

-----------------------------------------------------------------------------
(* A handler is bound for an extension from the moment it has read that    *)
(* the lock ends in the next cycle; an account's surplus is the number of  *)
(* its handlers that are, and of its pending extensions.                   *)
Extensions == {"update", "extend"}

Extending(t) ==
    \/ task[t].pc = "ready" /\ UnlocksNext(t)
    \/ task[t].pc \in Heading /\ task[t].call \in Extensions

Extenders(a) == {p \in Polls : Extending(<<p, a>>)}
Pending(a) == \E tx \in mempool : tx.acct = a /\ tx.call \in Extensions
Surplus(a) == Cardinality(Extenders(a)) + (IF Pending(a) THEN 1 ELSE 0)

(* What a lock has left of the horizon covers its account's surplus.       *)
Horizon(a) ==
    lock[a].unlock + Surplus(a) * Extent
        <= NextStart(burn) + (Cardinality(Polls) + 1) * Extent

(* There is never more than one extension pending for an account: all of   *)
(* them have the confirmed nonce, for an extension is decided for a locked *)
(* account, and the signer of a pox-5 lock needs no transactions of its    *)
(* own before it.                                                          *)
LocksInv ==
    /\ registered \subseteq deployed
    /\ \A a \in Accounts :
          OnBoundary(lock[a].unlock) /\ (lock[a].pox5 => a \in registered)

ExtensionTx(tx) ==
    /\ tx.nonce >= conf[tx.acct]
    /\ tx.call \in Extensions => tx.nonce = conf[tx.acct]

ExtensionTask(t) ==
    /\ task[t].pc \in Heading /\ task[t].call = "update" =>
          Acct(t) \in registered /\ task[t].pc \notin {"await", "register"}
    /\ task[t].pc \in Carrying /\ task[t].call = "extend" => task[t].pc = "submit"
    /\ task[t].pc \in Carrying /\ task[t].call \in Extensions =>
          task[t].nonce <= conf[Acct(t)]

OnePerSlot == \A m, n \in mempool : SameSlot(m, n) => m = n

HorizonInv ==
    /\ LocksInv
    /\ \A tx \in mempool : ExtensionTx(tx)
    /\ OnePerSlot
    /\ \A t \in Tasks : ExtensionTask(t)
    /\ \A p \in Polls : info[p].height <= burn
    /\ \A a \in Accounts : Horizon(a)

-----------------------------------------------------------------------------
(* Counting the surplus.                                                   *)
LEMMA ExtendersFinite ==
    ASSUME IsFiniteSet(Polls), NEW a
    PROVE  /\ IsFiniteSet(Extenders(a)) /\ Cardinality(Extenders(a)) \in Nat
           /\ Cardinality(Polls) \in Nat
           /\ Cardinality(Extenders(a)) <= Cardinality(Polls)
<1>1. Extenders(a) \in SUBSET Polls
  BY DEF Extenders
<1> QED BY <1>1, FS_Subset, FS_CardinalityType

LEMMA SurplusNat ==
    ASSUME IsFiniteSet(Polls), NEW a
    PROVE  /\ Surplus(a) \in Nat /\ Cardinality(Polls) \in Nat
           /\ Surplus(a) <= Cardinality(Polls) + 1
           /\ ~Pending(a) => Surplus(a) <= Cardinality(Polls)
  BY ExtendersFinite DEF Surplus

LEMMA SurplusKept ==
    ASSUME IsFiniteSet(Polls), NEW a,
           Extenders(a)' \subseteq Extenders(a), Pending(a)' => Pending(a)
    PROVE  Surplus(a)' \in Nat /\ Surplus(a)' <= Surplus(a)
<1>1. /\ Cardinality(Extenders(a)') \in Nat /\ Cardinality(Extenders(a)) \in Nat
      /\ Cardinality(Extenders(a)') <= Cardinality(Extenders(a))
  <2>1. Extenders(a)' \in SUBSET Extenders(a)
    OBVIOUS
  <2> QED BY <2>1, ExtendersFinite, FS_Subset, FS_CardinalityType
<1> QED BY <1>1 DEF Surplus

(* A handler that ends lets an extension be pending instead.               *)
LEMMA SurplusMoves ==
    ASSUME IsFiniteSet(Polls), NEW a, NEW p \in Extenders(a),
           Extenders(a)' \subseteq Extenders(a) \ {p}
    PROVE  Surplus(a)' \in Nat /\ Surplus(a)' <= Surplus(a)
<1> DEFINE E == Extenders(a) \ {p}
<1>1. IsFiniteSet(E) /\ Cardinality(E) = Cardinality(Extenders(a)) - 1
  BY ExtendersFinite, FS_RemoveElement
<1>2. Extenders(a)' \in SUBSET E
  OBVIOUS
<1>3. /\ Cardinality(Extenders(a)') \in Nat
      /\ Cardinality(Extenders(a)') <= Cardinality(E)
  BY <1>1, <1>2, FS_Subset, FS_CardinalityType
<1>4. Cardinality(Extenders(a)) \in Nat
  BY ExtendersFinite
<1> QED BY <1>1, <1>3, <1>4 DEF Surplus

(* A lock that ends in the next cycle, or before, leaves room for anything. *)
LEMMA NearHorizon ==
    ASSUME IsFiniteSet(Polls), NEW a, NEW u \in Nat, NEW h \in Nat,
           NEW n \in Nat, u <= NextStart(h), n <= Cardinality(Polls) + 1
    PROVE  u + n * Extent <= NextStart(h) + (Cardinality(Polls) + 1) * Extent
<1>1. Cardinality(Polls) + 1 \in Nat
  BY FS_CardinalityType
<1>2. /\ n * Extent \in Nat /\ (Cardinality(Polls) + 1) * Extent \in Nat
      /\ n * Extent <= (Cardinality(Polls) + 1) * Extent
  BY <1>1, ExtentNat, TimesMonotone
<1> QED BY <1>2, NextStartNat

LEMMA HorizonImplies ==
    ASSUME IsFiniteSet(Polls), TypeOK, HorizonInv PROVE LockHorizon
<1> SUFFICES ASSUME NEW a \in Accounts
             PROVE  lock[a].unlock <=
                      (RewardCycleId(burn) + 1 + (1 + Cardinality(Polls)) * StackingCycles)
                          * POX_REWARD_LENGTH
  BY DEF LockHorizon
<1>0. /\ burn \in Nat /\ RewardCycleId(burn) \in Nat /\ lock[a].unlock \in Nat
      /\ Surplus(a) \in Nat /\ Cardinality(Polls) \in Nat
  BY HeightsNat, CycleNat, LockFields, SurplusNat DEF TypeOK, NodeTypeOK
<1>1. Surplus(a) * Extent \in Nat
  BY <1>0, ExtentNat, TimesMonotone
<1>2. lock[a].unlock <= NextStart(burn) + (Cardinality(Polls) + 1) * Extent
  <2>1. (Cardinality(Polls) + 1) * Extent \in Nat
    BY <1>0, ExtentNat, TimesMonotone
  <2> QED BY <1>0, <1>1, <2>1, NextStartNat DEF HorizonInv, Horizon
<1>3. \A c, n \in Nat : (c + 1) * POX_REWARD_LENGTH + (n + 1) * Extent
                          = (c + 1 + (1 + n) * StackingCycles) * POX_REWARD_LENGTH
  BY NodeAssumption, CalendarAssumption DEF Extent
<1> QED BY <1>0, <1>2, <1>3 DEF NextStart

-----------------------------------------------------------------------------
(* A step keeps an account's horizon if its lock does not grow and its     *)
(* surplus does not either, or if the lock ends in the next cycle.         *)
LEMMA HorizonKept ==
    ASSUME IsFiniteSet(Polls), TypeOK, TypeOK', NEW a \in Accounts, Horizon(a),
           burn' >= burn, lock'[a].unlock <= lock[a].unlock,
           Surplus(a)' \in Nat, Surplus(a)' <= Surplus(a)
    PROVE  Horizon(a)'
<1>1. /\ burn \in Nat /\ burn' \in Nat
      /\ lock[a].unlock \in Nat /\ lock'[a].unlock \in Nat
  BY HeightsNat, LockFields DEF TypeOK, NodeTypeOK
<1>2. /\ NextStart(burn) \in Nat /\ NextStart(burn') \in Nat
      /\ NextStart(burn) <= NextStart(burn')
  BY <1>1, NextStartNat, NextStartGrows
<1>3. PICK m \in Nat, n \in Nat : m = Surplus(a)' /\ n = Surplus(a) /\ m <= n
  BY SurplusNat
<1>4. m * Extent \in Nat /\ n * Extent \in Nat /\ m * Extent <= n * Extent
  BY <1>3, ExtentNat, TimesMonotone
<1>5. (Cardinality(Polls) + 1) * Extent \in Nat
  BY SurplusNat, ExtentNat, TimesMonotone
<1>6. lock[a].unlock + n * Extent <= NextStart(burn) + (Cardinality(Polls) + 1) * Extent
  BY <1>3 DEF Horizon
<1>7. lock'[a].unlock + m * Extent <= NextStart(burn') + (Cardinality(Polls) + 1) * Extent
  BY <1>1, <1>2, <1>4, <1>5, <1>6
<1>8. NextStart(burn)' = NextStart(burn')
  BY DEF NextStart, RewardCycleId
<1> QED BY <1>3, <1>7, <1>8 DEF Horizon

LEMMA HorizonNear ==
    ASSUME IsFiniteSet(Polls), TypeOK', NEW a \in Accounts,
           lock'[a].unlock <= NextStart(burn'),
           Surplus(a)' \in Nat, Surplus(a)' <= Cardinality(Polls) + 1
    PROVE  Horizon(a)'
<1>1. burn' \in Nat /\ lock'[a].unlock \in Nat
  BY HeightsNat, LockFields DEF TypeOK, NodeTypeOK
<1>2. PICK m \in Nat : m = Surplus(a)'
  OBVIOUS
<1>3. lock'[a].unlock + m * Extent <= NextStart(burn') + (Cardinality(Polls) + 1) * Extent
  BY <1>1, <1>2, NearHorizon
<1>4. NextStart(burn)' = NextStart(burn')
  BY DEF NextStart, RewardCycleId
<1> QED BY <1>2, <1>3, <1>4 DEF Horizon

-----------------------------------------------------------------------------
(* The node.                                                               *)

(* What mining does to a lock: it ends one extension after the start of    *)
(* the next cycle, or one extension later than before.                     *)
LEMMA MinedLock ==
    ASSUME TypeOK, HorizonInv, NEW x \in mempool, Mine(x)
    PROVE  /\ \A b \in Accounts : b # x.acct => lock'[b] = lock[b]
           /\ \/ lock'[x.acct] = lock[x.acct]
              \/ /\ x.call \in Extensions
                 /\ lock'[x.acct].unlock = lock[x.acct].unlock + Extent
                 /\ lock'[x.acct].pox5 => lock[x.acct].pox5
              \/ /\ lock'[x.acct].unlock = NextStart(burn) + Extent
                 /\ lock'[x.acct].pox5 => x.acct \in registered
<1>1. x \in Transactions /\ x.acct \in Accounts /\ x.call \in Calls
  BY DEF TypeOK, NodeTypeOK, Transactions
<1>2. lock \in [Accounts -> Locks] /\ burn \in Nat
  BY HeightsNat DEF TypeOK, NodeTypeOK
<1>3. \/ lock' = lock
      \/ /\ lock' = [lock EXCEPT ![x.acct] = LockAfter(x)]
         /\ Succeeds(x) /\ x.call \notin {"deploy", "register"}
  BY Zenon DEF Mine, Outcomes
<1>4. CASE lock' = lock
  BY <1>4
<1>5. CASE /\ lock' = [lock EXCEPT ![x.acct] = LockAfter(x)]
           /\ Succeeds(x) /\ x.call \notin {"deploy", "register"}
  <2>1. lock'[x.acct] = LockAfter(x) /\ \A b \in Accounts : b # x.acct => lock'[b] = lock[b]
    BY <1>1, <1>2, <1>5
  <2>2. CASE x.call \in Locking
    <3>1. LockAfter(x) = NewLock(x) /\ x.cycle = RewardCycleId(burn)
      BY <1>5, <2>2 DEF LockAfter, Succeeds, Locking
    <3>2. NewLock(x).unlock = NextStart(burn) + Extent
      BY <1>2, <3>1, CycleNat, NewLockEnds DEF NewLock, NextStart
    <3>3. NewLock(x).pox5 => x.acct \in registered
      BY <1>5 DEF NewLock, Succeeds
    <3> QED BY <2>1, <3>1, <3>2, <3>3
  <2>3. CASE x.call \notin Locking
    <3>1. x.call \in Extensions
      BY <1>1, <1>5, <2>3 DEF Calls, Locking, Extensions
    <3>2. lock[x.acct] # Unlocked
      BY <1>5, <3>1, UpdatesLocked DEF Extensions
    <3>3. lock[x.acct] \in [amount : Nat, unlock : Nat, pox5 : BOOLEAN, first : Cycles]
      BY <1>1, <1>2, <3>2 DEF Locks
    <3>4. /\ LockAfter(x).unlock = lock[x.acct].unlock + Extent
          /\ LockAfter(x).pox5 = lock[x.acct].pox5
      BY <3>1, <3>3 DEF LockAfter, Extensions, Extent
    <3> QED BY <2>1, <3>1, <3>4
  <2> QED BY <2>2, <2>3
<1> QED BY <1>3, <1>4, <1>5

(* And to the signers.                                                     *)
LEMMA MinedSigners ==
    ASSUME TypeOK, LocksInv, NEW x \in mempool, Mine(x)
    PROVE  /\ registered' \subseteq deployed'
           /\ registered \subseteq registered' /\ deployed \subseteq deployed'
<1>1. /\ \/ deployed' = deployed \/ deployed' = deployed \cup {x.acct}
      /\ \/ registered' = registered
         \/ registered' = registered \cup {x.acct} /\ x.acct \in deployed
  BY Zenon DEF Mine
<1> QED BY <1>1 DEF LocksInv

(* The handlers that were bound for an extension still are.                *)
LEMMA SameExtenders ==
    ASSUME NEW a, UNCHANGED <<task, info>>
    PROVE  Extenders(a)' = Extenders(a)
  BY DEF Extenders, Extending, UnlocksNext, burnBlockToRewardCycle

(* Mining leaves no extension of the account pending: the one that was has *)
(* the confirmed nonce, so it is the one that is mined.                    *)
LEMMA MinedPending ==
    ASSUME TypeOK, HorizonInv, NEW x \in mempool, Mine(x)
    PROVE  /\ ~Pending(x.acct)'
           /\ x.call \in Extensions => Pending(x.acct)
           /\ \A b : Pending(b)' => Pending(b)
<1>1. x.nonce = conf[x.acct] /\ mempool' = mempool \ {x}
  BY Zenon DEF Mine
<1>2. \A tx \in mempool : tx.acct = x.acct /\ tx.call \in Extensions => tx = x
  BY <1>1 DEF HorizonInv, ExtensionTx, OnePerSlot, SameSlot
<1> QED BY <1>1, <1>2 DEF Pending

LEMMA HorizonMines ==
    ASSUME IsFiniteSet(Polls), TypeOK, TypeOK', HorizonInv,
           NEW x \in mempool, Mine(x), UNCHANGED <<task, info>>
    PROVE  HorizonInv'
<1>0. /\ x.acct \in Accounts /\ conf \in [Accounts -> Nat] /\ burn \in Nat
      /\ lock \in [Accounts -> Locks] /\ lock' \in [Accounts -> Locks]
  BY HeightsNat DEF TypeOK, NodeTypeOK, Transactions
<1>1. /\ x.nonce = conf[x.acct] /\ conf' = [conf EXCEPT ![x.acct] = @ + 1]
      /\ mempool' = mempool \ {x} /\ burn' = burn
  BY Zenon DEF Mine
<1>2. /\ registered' \subseteq deployed'
      /\ registered \subseteq registered' /\ deployed \subseteq deployed'
  BY MinedSigners DEF HorizonInv
<1>3. LocksInv'
  <2>1. ASSUME NEW a \in Accounts
        PROVE  OnBoundary(lock'[a].unlock) /\ (lock'[a].pox5 => a \in registered')
    <3>1. OnBoundary(lock[a].unlock) /\ (lock[a].pox5 => a \in registered)
      BY DEF HorizonInv, LocksInv
    <3>2. OnBoundary(lock[a].unlock + Extent)
      BY <3>1, ExtentOnBoundary
    <3>3. OnBoundary(NextStart(burn) + Extent)
      BY <1>0, NextStartNat, ExtentOnBoundary
    <3> QED BY <1>2, <3>1, <3>2, <3>3, MinedLock
  <2>2. \A a \in Accounts : OnBoundary(lock[a].unlock)' <=> OnBoundary(lock'[a].unlock)
    BY DEF OnBoundary
  <2> QED BY <1>2, <2>1, <2>2 DEF LocksInv
<1>4. \A tx \in mempool' : ExtensionTx(tx)'
  <2> SUFFICES ASSUME NEW tx \in mempool' PROVE ExtensionTx(tx)'
    OBVIOUS
  <2>1. tx \in mempool /\ tx # x /\ tx \in Transactions
    BY <1>1 DEF TypeOK, NodeTypeOK
  <2>2. tx.acct \in Accounts /\ tx.nonce \in Nat
    BY <2>1 DEF Transactions
  <2>3. ExtensionTx(tx)
    BY <2>1 DEF HorizonInv
  <2>4. CASE tx.acct # x.acct
    BY <1>0, <1>1, <2>2, <2>3, <2>4 DEF ExtensionTx
  <2>5. CASE tx.acct = x.acct
    <3>1. tx.nonce # conf[x.acct]
      BY <1>1, <2>1, <2>5 DEF HorizonInv, OnePerSlot, SameSlot
    <3>2. tx.nonce >= conf[x.acct] + 1 /\ tx.call \notin Extensions
      BY <1>0, <2>2, <2>3, <2>5, <3>1 DEF ExtensionTx
    <3> QED BY <1>0, <1>1, <2>5, <3>2 DEF ExtensionTx
  <2> QED BY <2>4, <2>5
<1>5. OnePerSlot'
  BY <1>1 DEF HorizonInv, OnePerSlot, SameSlot
<1>6. \A t \in Tasks : ExtensionTask(t)'
  <2> SUFFICES ASSUME NEW t \in Tasks PROVE ExtensionTask(t)'
    OBVIOUS
  <2>1. Acct(t) \in Accounts /\ ExtensionTask(t) /\ task[t] \in TaskRecords
    BY DEF Tasks, Acct, HorizonInv, TypeOK, StackerTypeOK
  <2>2. conf[Acct(t)] \in Nat /\ conf'[Acct(t)] \in Nat /\ conf[Acct(t)] <= conf'[Acct(t)]
    BY <1>0, <1>1, <2>1
  <2>3. task[t].nonce \in Nat
    BY <2>1 DEF TaskRecords
  <2>4. task'[t] = task[t] /\ Acct(t)' = Acct(t)
    BY DEF Acct
  <2> QED BY <1>2, <2>1, <2>2, <2>3, <2>4 DEF ExtensionTask, Acct
<1>7. \A a \in Accounts : Horizon(a)'
  <2> SUFFICES ASSUME NEW a \in Accounts PROVE Horizon(a)'
    OBVIOUS
  <2>1. Horizon(a) /\ lock[a].unlock \in Nat /\ burn' >= burn
    BY <1>0, <1>1, LockFields DEF HorizonInv
  <2>2. Surplus(a)' \in Nat /\ Surplus(a)' <= Surplus(a)
    BY SameExtenders, MinedPending, SurplusKept
  <2>3. CASE lock'[a] = lock[a]
    BY <2>1, <2>2, <2>3, HorizonKept
  <2>4. CASE /\ a = x.acct /\ x.call \in Extensions
             /\ lock'[a].unlock = lock[a].unlock + Extent
    <3>1. PICK n \in Nat : n = Cardinality(Extenders(a))
      BY ExtendersFinite
    <3>2. Surplus(a) = n + 1 /\ Surplus(a)' = n
      BY <2>4, <3>1, SameExtenders, MinedPending DEF Surplus
    <3>3. (n + 1) * Extent = n * Extent + Extent /\ n * Extent \in Nat
      BY <3>1, ExtentNat, TimesSuccessor, TimesMonotone
    <3>4. NextStart(burn)' = NextStart(burn)
      BY <1>1 DEF NextStart, RewardCycleId
    <3>5. lock[a].unlock + (n * Extent + Extent)
            <= NextStart(burn) + (Cardinality(Polls) + 1) * Extent
      BY <2>1, <3>2, <3>3 DEF Horizon
    <3>6. (lock[a].unlock + Extent) + n * Extent
            = lock[a].unlock + (n * Extent + Extent)
      BY <2>1, <3>3, ExtentNat
    <3> QED BY <2>4, <3>2, <3>4, <3>5, <3>6 DEF Horizon
  <2>5. CASE a = x.acct /\ lock'[a].unlock = NextStart(burn) + Extent
    <3>1. /\ Surplus(a)' <= Cardinality(Polls) /\ Cardinality(Polls) \in Nat
      <4>1. /\ Cardinality(Extenders(a)) \in Nat /\ Cardinality(Polls) \in Nat
            /\ Cardinality(Extenders(a)) <= Cardinality(Polls)
        BY ExtendersFinite
      <4>2. Surplus(a)' = Cardinality(Extenders(a)) + 0
        BY <2>5, SameExtenders, MinedPending DEF Surplus
      <4> QED BY <4>1, <4>2
    <3>2. PICK m \in Nat, n \in Nat : m = Surplus(a)' /\ n = Cardinality(Polls) /\ m <= n
      BY <2>2, <3>1
    <3>3. /\ m * Extent \in Nat /\ n * Extent \in Nat /\ m * Extent <= n * Extent
          /\ (n + 1) * Extent = n * Extent + Extent
      BY <3>2, ExtentNat, TimesMonotone, TimesSuccessor
    <3>4. NextStart(burn)' = NextStart(burn) /\ NextStart(burn) \in Nat
      BY <1>0, <1>1, NextStartNat DEF NextStart, RewardCycleId
    <3>5. (NextStart(burn) + Extent) + m * Extent <= NextStart(burn) + (n + 1) * Extent
      BY <3>3, <3>4, ExtentNat
    <3> QED BY <2>5, <3>2, <3>4, <3>5 DEF Horizon
  <2> QED BY <2>3, <2>4, <2>5, MinedLock
<1>8. \A p \in Polls : info'[p].height <= burn'
  BY <1>1 DEF HorizonInv
<1> QED BY <1>3, <1>4, <1>5, <1>6, <1>7, <1>8 DEF HorizonInv

LEMMA HorizonNode ==
    ASSUME IsFiniteSet(Polls), TypeOK, TypeOK', HorizonInv, Environment
    PROVE  HorizonInv'
<1>0. UNCHANGED <<task, info>>
  BY DEF Environment, stackerVars
<1>1. ASSUME NEW x \in mempool, Mine(x) PROVE HorizonInv'
  BY <1>0, <1>1, HorizonMines
<1>2. ASSUME UNCHANGED <<conf, deployed, registered>>, mempool' \subseteq mempool,
             burn' >= burn,
             \A a \in Accounts : lock'[a] = lock[a] \/ lock'[a] = Unlocked
      PROVE  HorizonInv'
  <2>1. /\ burn \in Nat /\ burn' \in Nat
        /\ \A a \in Accounts : lock[a].unlock \in Nat
        /\ \A p \in Polls : info[p].height \in Nat
    BY HeightsNat, LockFields DEF TypeOK, NodeTypeOK, StackerTypeOK, PoxInfos
  <2>2. Unlocked.unlock = 0 /\ ~Unlocked.pox5 /\ OnBoundary(Unlocked.unlock)
    <3>1. 0 = 0 * POX_REWARD_LENGTH
      BY CalendarAssumption
    <3> QED BY <3>1 DEF Unlocked, OnBoundary
  <2>3. LocksInv'
    BY <1>2, <2>2 DEF HorizonInv, LocksInv, OnBoundary
  <2>4. /\ \A tx \in mempool' : ExtensionTx(tx)'
        /\ OnePerSlot'
    BY <1>2 DEF HorizonInv, ExtensionTx, OnePerSlot, SameSlot
  <2>5. \A t \in Tasks : ExtensionTask(t)'
    BY <1>0, <1>2 DEF HorizonInv, ExtensionTask, Acct
  <2>6. \A p \in Polls : info'[p].height <= burn'
    BY <1>0, <1>2, <2>1 DEF HorizonInv
  <2>7. ASSUME NEW a \in Accounts PROVE Horizon(a)'
    <3>1. Pending(a)' => Pending(a)
      BY <1>2 DEF Pending
    <3>2. Surplus(a)' \in Nat /\ Surplus(a)' <= Surplus(a)
      BY <1>0, <3>1, SameExtenders, SurplusKept
    <3>3. lock'[a].unlock <= lock[a].unlock
      BY <1>2, <2>1, <2>2
    <3> QED BY <1>2, <3>2, <3>3, HorizonKept DEF HorizonInv
  <2> QED BY <2>3, <2>4, <2>5, <2>6, <2>7 DEF HorizonInv
<1>3. burn \in Nat
  BY HeightsNat DEF TypeOK, NodeTypeOK
<1>4. ASSUME NEW x \in mempool, Lose(x) PROVE HorizonInv'
  BY <1>2, <1>3, <1>4 DEF Lose
<1>5. CASE BurnBlock
  BY <1>2, <1>3, <1>5 DEF BurnBlock
<1>6. CASE ThresholdMoves
  BY <1>2, <1>3, <1>6 DEF ThresholdMoves
<1> QED
  BY <1>1, <1>4, <1>5, <1>6 DEF Environment, NodeNext, MineNext, LoseNext

-----------------------------------------------------------------------------
(* The loop.                                                               *)
LEMMA HorizonInit ==
    ASSUME IsFiniteSet(Polls), TypeOK, Init PROVE HorizonInv
<1>1. /\ conf = [a \in Accounts |-> 0] /\ mempool = {} /\ registered = {}
      /\ lock = [a \in Accounts |-> Unlocked] /\ burn = InitBurn
      /\ task = [t \in Tasks |-> NoTask]
      /\ \A p \in Polls : info[p].height = InitBurn
  BY DEF Init, NodeInit, StackerInit
<1>2. NoTask.pc = "done"
  BY DEF NoTask
<1>3. burn \in Nat
  BY HeightsNat DEF TypeOK, NodeTypeOK
<1>4. Unlocked.unlock = 0 /\ ~Unlocked.pox5 /\ OnBoundary(Unlocked.unlock)
  <2>1. 0 = 0 * POX_REWARD_LENGTH
    BY CalendarAssumption
  <2> QED BY <2>1 DEF Unlocked, OnBoundary
<1>5. LocksInv
  BY <1>1, <1>4 DEF LocksInv
<1>6. \A t \in Tasks : ExtensionTask(t)
  BY <1>1, <1>2 DEF ExtensionTask, Heading, Carrying
<1>7. ASSUME NEW a \in Accounts PROVE Horizon(a)
  <2>1. PICK n \in Nat : n = Surplus(a) /\ n <= Cardinality(Polls) + 1
    BY SurplusNat
  <2>2. lock[a].unlock = 0 /\ 0 <= NextStart(burn)
    BY <1>1, <1>3, <1>4, NextStartNat
  <2> QED BY <1>3, <2>1, <2>2, NearHorizon DEF Horizon
<1> QED BY <1>1, <1>3, <1>5, <1>6, <1>7 DEF HorizonInv, OnePerSlot

(* A handler that is left alone, or ends, is bound for no new extension.   *)
LEMMA LeftAlone ==
    ASSUME NEW u \in Tasks, UNCHANGED <<conf, registered>>,
           \/ task'[u] = task[u] /\ info'[u[1]] = info[u[1]]
           \/ task'[u].pc \in {"done", "status"}
    PROVE  /\ Extending(u)' => Extending(u)
           /\ ExtensionTask(u) => ExtensionTask(u)'
<1>1. CASE task'[u] = task[u] /\ info'[u[1]] = info[u[1]]
  BY <1>1 DEF Extending, ExtensionTask, UnlocksNext, burnBlockToRewardCycle, Acct
<1>2. CASE task'[u].pc \in {"done", "status"}
  BY <1>2 DEF Extending, ExtensionTask, Heading, Carrying
<1> QED BY <1>1, <1>2

LEMMA HorizonLoop ==
    ASSUME IsFiniteSet(Polls), TypeOK, TypeOK', HorizonInv, Loop \/ Restart
    PROVE  HorizonInv'
<1>1. UNCHANGED <<burn, lock, conf, deployed, registered, mempool>>
  BY DEF Loop, Restart, waitForSetup, SkipRun, SettleRun, PostWaitEnds,
         BeginRun, nodeVars
<1>2. burn \in Nat
  BY HeightsNat DEF TypeOK, NodeTypeOK
<1>3. NoTask.pc = "done" /\ [NoTask EXCEPT !.pc = "status"].pc = "status"
  BY DEF NoTask
<1>4. \A u \in Tasks : /\ Extending(u)' => Extending(u)
                       /\ ExtensionTask(u)'
  <2> SUFFICES ASSUME NEW u \in Tasks
               PROVE  (Extending(u)' => Extending(u)) /\ ExtensionTask(u)'
    OBVIOUS
  <2>1. \/ task'[u] = task[u] /\ info'[u[1]] = info[u[1]]
        \/ task'[u].pc \in {"done", "status"}
    <3>1. CASE UNCHANGED <<task, info>>
      BY <3>1
    <3>2. ASSUME NEW p \in Polls, BeginRun(p)
          PROVE  \/ task'[u] = task[u] /\ info'[u[1]] = info[u[1]]
                 \/ task'[u].pc = "status"
      <4>1. task'[u] = IF u[1] = p THEN [NoTask EXCEPT !.pc = "status"] ELSE task[u]
        BY <3>2 DEF BeginRun
      <4>2. u[1] # p => info'[u[1]] = info[u[1]]
        BY <3>2 DEF BeginRun, TypeOK, StackerTypeOK, Tasks
      <4> QED BY <1>3, <4>1, <4>2
    <3>3. CASE Restart
      BY <1>3, <3>3 DEF Restart
    <3> QED
      BY <3>1, <3>2, <3>3 DEF Loop, waitForSetup, SkipRun, SettleRun, PostWaitEnds
  <2> QED BY <1>1, <2>1, LeftAlone DEF HorizonInv
<1>5. \A p \in Polls : info'[p].height <= burn'
  <2>1. CASE info' = info
    BY <1>1, <2>1 DEF HorizonInv
  <2>2. ASSUME NEW q \in Polls, BeginRun(q)
        PROVE  \A p \in Polls : info'[p].height <= burn'
    <3> DEFINE r == PoxInfo
    <3>0. r.height = burn
      BY DEF PoxInfo
    <3> HIDE DEF r
    <3>1. info' = [info EXCEPT ![q] = r]
      BY <2>2, Zenon DEF BeginRun, r
    <3>2. \A p \in Polls : info'[p] = IF p = q THEN r ELSE info[p]
      BY <3>1 DEF TypeOK, StackerTypeOK
    <3> QED BY <1>1, <1>2, <3>0, <3>2 DEF HorizonInv
  <2> QED
    BY <2>1, <2>2 DEF Loop, Restart, waitForSetup, SkipRun, SettleRun, PostWaitEnds
<1>6. ASSUME NEW a \in Accounts PROVE Horizon(a)'
  <2>1. Extenders(a)' \subseteq Extenders(a)
    BY <1>4 DEF Extenders, Tasks
  <2>2. Pending(a)' => Pending(a)
    BY <1>1 DEF Pending
  <2>3. Surplus(a)' \in Nat /\ Surplus(a)' <= Surplus(a)
    BY <2>1, <2>2, SurplusKept
  <2>4. lock[a].unlock \in Nat
    BY LockFields DEF TypeOK, NodeTypeOK
  <2> QED BY <1>1, <1>2, <2>3, <2>4, HorizonKept DEF HorizonInv
<1>7. LocksInv' /\ OnePerSlot' /\ \A tx \in mempool' : ExtensionTx(tx)'
  BY <1>1 DEF HorizonInv, LocksInv, OnBoundary, OnePerSlot, SameSlot, ExtensionTx
<1> QED BY <1>4, <1>5, <1>6, <1>7 DEF HorizonInv

-----------------------------------------------------------------------------
(* A handler.  It keeps its account's horizon if it does not become bound  *)
(* for an extension, or becomes so for a lock that ends in the next cycle; *)
(* if it sends one, it was bound for it and no longer is.                  *)
LEMMA HorizonStep ==
    ASSUME IsFiniteSet(Polls), TypeOK, TypeOK', HorizonInv, NEW t \in Tasks,
           UNCHANGED <<burn, lock, conf, deployed, registered, info>>,
           \A u \in Tasks : u # t => task'[u] \in {task[u], NoTask},
           ExtensionTask(t)',
           \/ /\ Extending(t)' => Extending(t)
              /\ \/ UNCHANGED mempool
                 \/ \E x : /\ ExtensionTx(x) /\ x.call \notin Extensions
                           /\ mempool' = Put(x)
           \/ UNCHANGED mempool /\ lock[Acct(t)].unlock <= NextStart(burn)
           \/ /\ Extending(t) /\ ~Extending(t)'
              /\ \E x : /\ ExtensionTx(x) /\ x.acct = Acct(t)
                        /\ mempool' = Put(x)
    PROVE  HorizonInv'
<1>1. NoTask.pc = "done"
  BY DEF NoTask
<1>2. burn \in Nat /\ t = <<t[1], Acct(t)>> /\ t[1] \in Polls
  BY HeightsNat DEF TypeOK, NodeTypeOK, Tasks, Acct
<1>3. \A u \in Tasks : u # t => /\ Extending(u)' => Extending(u)
                                /\ ExtensionTask(u)'
  BY <1>1, LeftAlone DEF HorizonInv
<1>4. UNCHANGED mempool \/ \E x : ExtensionTx(x) /\ mempool' = Put(x)
  OBVIOUS
<1>5. OnePerSlot' /\ \A tx \in mempool' : ExtensionTx(tx)'
  <2>1. CASE UNCHANGED mempool
    BY <2>1 DEF HorizonInv, OnePerSlot, SameSlot, ExtensionTx
  <2>2. ASSUME NEW x, ExtensionTx(x), mempool' = Put(x)
        PROVE  OnePerSlot' /\ \A tx \in mempool' : ExtensionTx(tx)'
    <3>1. \A m \in mempool' : m = x \/ (m \in mempool /\ ~SameSlot(m, x))
      BY <2>2 DEF Put
    <3>2. \A m \in mempool' : ExtensionTx(m)'
      BY <2>2, <3>1 DEF HorizonInv, ExtensionTx
    <3>3. OnePerSlot'
      BY <3>1 DEF HorizonInv, OnePerSlot, SameSlot
    <3> QED BY <3>2, <3>3
  <2> QED BY <1>4, <2>1, <2>2
<1>6. LocksInv' /\ \A p \in Polls : info'[p].height <= burn'
  BY DEF HorizonInv, LocksInv, OnBoundary
<1>7. ASSUME NEW a \in Accounts PROVE Horizon(a)'
  <2>0. lock[a].unlock \in Nat
    BY LockFields DEF TypeOK, NodeTypeOK
  <2>1. ASSUME Surplus(a)' \in Nat, Surplus(a)' <= Surplus(a) PROVE Horizon(a)'
    BY <1>2, <2>0, <2>1, HorizonKept DEF HorizonInv
  <2>2. \A p \in Polls : <<p, a>> \in Tasks /\ (<<p, a>> = t => a = Acct(t))
    BY DEF Tasks, Acct
  <2>3. a # Acct(t) \/ (Extending(t)' => Extending(t)) =>
            Extenders(a)' \subseteq Extenders(a)
    BY <1>3, <2>2 DEF Extenders
  <2>4. CASE \/ UNCHANGED mempool
             \/ \E x : /\ mempool' = Put(x)
                       /\ x.acct # a \/ x.call \notin Extensions
    <3>1. Pending(a)' => Pending(a)
      BY <2>4 DEF Pending, Put
    <3>2. CASE a # Acct(t) \/ (Extending(t)' => Extending(t))
      BY <2>1, <2>3, <3>1, <3>2, SurplusKept
    <3>3. CASE a = Acct(t) /\ lock[a].unlock <= NextStart(burn)
      <4>1. Surplus(a)' \in Nat /\ Surplus(a)' <= Cardinality(Polls) + 1
        <5>1. Extenders(a)' \in SUBSET Polls
          BY DEF Extenders
        <5>2. /\ Cardinality(Extenders(a)') \in Nat /\ Cardinality(Polls) \in Nat
              /\ Cardinality(Extenders(a)') <= Cardinality(Polls)
          BY <5>1, FS_Subset, FS_CardinalityType
        <5>3. PICK i \in {0, 1} : i = IF Pending(a)' THEN 1 ELSE 0
          OBVIOUS
        <5>4. Surplus(a)' = Cardinality(Extenders(a)') + i
          BY <5>3 DEF Surplus
        <5> QED BY <5>2, <5>4
      <4> QED BY <3>3, <4>1, HorizonNear
    <3> QED BY <3>2, <3>3
  <2>5. CASE /\ a = Acct(t) /\ Extending(t) /\ ~Extending(t)'
    <3>1. t[1] \in Extenders(a)
      BY <1>2, <2>5 DEF Extenders
    <3>2. Extenders(a)' \subseteq Extenders(a) \ {t[1]}
      BY <1>2, <2>3, <2>5 DEF Extenders
    <3> QED BY <2>1, <3>1, <3>2, SurplusMoves
  <2> QED BY <2>4, <2>5
<1> QED BY <1>3, <1>5, <1>6, <1>7 DEF HorizonInv

(* A handler that throws ends, whatever the broadcast that failed left.    *)
LEMMA HorizonRejects ==
    ASSUME IsFiniteSet(Polls), TypeOK, TypeOK', HorizonInv, NEW t \in Tasks, Reject(t),
           UNCHANGED <<burn, lock, conf, deployed, registered, info>>,
           \/ UNCHANGED mempool
           \/ \E x : /\ ExtensionTx(x) /\ x.acct = Acct(t) /\ mempool' = Put(x)
                     /\ x.call \in Extensions => Extending(t)
    PROVE  HorizonInv'
<1>1. \A u \in Tasks : task'[u] \in {task[u], NoTask}
  BY DEF Reject, TypeOK, StackerTypeOK
<1>2. task'[t] = NoTask
  BY DEF Reject, TypeOK, StackerTypeOK
<1>3. task'[t].pc = "done"
  BY <1>2 DEF NoTask
<1>4. ~Extending(t)' /\ ExtensionTask(t)'
  BY <1>3 DEF Extending, ExtensionTask, Heading, Carrying
<1> QED BY <1>1, <1>4, HorizonStep

(* A step of one handler that sends nothing, or no extension.              *)
LEMMA HorizonMoves ==
    ASSUME IsFiniteSet(Polls), TypeOK, TypeOK', HorizonInv, NEW t \in Tasks,
           NEW r, task' = [task EXCEPT ![t] = r],
           UNCHANGED <<burn, lock, conf, deployed, registered, info>>,
           \/ UNCHANGED mempool
           \/ \E x : /\ ExtensionTx(x) /\ x.call \notin Extensions
                     /\ mempool' = Put(x),
           r = task'[t] => ExtensionTask(t)' /\ (Extending(t)' => Extending(t))
    PROVE  HorizonInv'
<1>1. task'[t] = r /\ \A u \in Tasks : u # t => task'[u] = task[u]
  BY DEF TypeOK, StackerTypeOK
<1> QED BY <1>1, HorizonStep

(* A handler that has read that its lock ends in the next cycle.           *)
LEMMA HorizonReadStatus ==
    ASSUME IsFiniteSet(Polls), TypeOK, TypeOK', HorizonInv, NEW t \in Tasks, ReadStatus(t)
    PROVE  HorizonInv'
<1>0. /\ task \in [Tasks -> TaskRecords] /\ task[t] \in TaskRecords
      /\ Acct(t) \in Accounts /\ t[1] \in Polls /\ burn \in Nat
      /\ info[t[1]].height \in Nat /\ info[t[1]].height <= burn
      /\ OnBoundary(lock[Acct(t)].unlock)
  BY HeightsNat DEF TypeOK, StackerTypeOK, NodeTypeOK, Tasks, Acct, PoxInfos,
                    HorizonInv, LocksInv
<1>1. /\ UNCHANGED <<burn, lock, conf, deployed, registered, info, mempool>>
      /\ task' = [task EXCEPT ![t].pc = "ready",
                              ![t].locked = lock[Acct(t)] # Unlocked,
                              ![t].unlock = lock[Acct(t)].unlock]
  BY DEF ReadStatus, nodeVars
<1>2. task'[t].pc = "ready" /\ task'[t].unlock = lock[Acct(t)].unlock
  BY <1>0, <1>1 DEF TaskRecords
<1>3. ExtensionTask(t)'
  BY <1>2 DEF ExtensionTask, Heading, Carrying
<1>4. \A u \in Tasks : u # t => task'[u] = task[u]
  BY <1>0, <1>1
<1>5. CASE Extending(t)'
  <2>1. UnlocksNext(t)'
    BY <1>2, <1>5 DEF Extending, Heading, Carrying
  <2>2. burnBlockToRewardCycle(lock[Acct(t)].unlock)
          = burnBlockToRewardCycle(info[t[1]].height) + 1
    BY <1>1, <1>2, <2>1 DEF UnlocksNext, burnBlockToRewardCycle
  <2>3. lock[Acct(t)].unlock = NextStart(info[t[1]].height)
    BY <1>0, <2>2, EndsAtNextStart
  <2>4. lock[Acct(t)].unlock <= NextStart(burn)
    BY <1>0, <2>3, NextStartGrows
  <2> QED BY <1>1, <1>3, <1>4, <2>4, HorizonStep
<1>6. CASE ~Extending(t)'
  BY <1>1, <1>3, <1>4, <1>6, HorizonStep
<1> QED BY <1>5, <1>6

LEMMA HorizonDecides ==
    ASSUME IsFiniteSet(Polls), TypeOK, TypeOK', HorizonInv, NEW t \in Tasks,
           DecidePox5(t) \/ DecidePox4(t)
    PROVE  HorizonInv'
<1>0. /\ task \in [Tasks -> TaskRecords] /\ task[t].pc = "ready"
      /\ Acct(t) \in Accounts /\ (lock[Acct(t)].pox5 => Acct(t) \in registered)
  BY DEF TypeOK, StackerTypeOK, Tasks, Acct, DecidePox5, DecidePox4, Started,
         HorizonInv, LocksInv
<1>1. UNCHANGED <<burn, lock, conf, deployed, registered, info, mempool>>
  BY DEF DecidePox5, DecidePox4, nodeVars
<1>2. \/ Reject(t) \/ task' = [task EXCEPT ![t] = NoTask]
      \/ \E call, fee, amount :
            /\ Settle(t, call, fee, amount)
            /\ call \in Extensions => UnlocksNext(t)
            /\ call = "update" => lock[Acct(t)].pox5
  <2>1. "stake" \notin Extensions /\ "stack" \notin Extensions /\ "extend" # "update"
        /\ "stake" # "update" /\ "stack" # "update"
    BY DEF Extensions
  <2>2. CASE DecidePox5(t)
    BY <2>1, <2>2, Zenon DEF DecidePox5, StartLocking, hasActivePox5Stake, hasPox5Stake
  <2>3. CASE DecidePox4(t)
    BY <2>1, <2>3, Zenon DEF DecidePox4, StartLocking
  <2> QED BY <2>2, <2>3
<1>3. CASE Reject(t)
  BY <1>1, <1>3, HorizonRejects
<1>4. CASE task' = [task EXCEPT ![t] = NoTask]
  <2>1. NoTask = task'[t] => ExtensionTask(t)' /\ ~Extending(t)'
    BY DEF NoTask, ExtensionTask, Extending, Heading, Carrying
  <2> QED BY <1>1, <1>4, <2>1, HorizonMoves
<1>5. ASSUME NEW call, NEW fee, NEW amount, Settle(t, call, fee, amount),
             call \in Extensions => UnlocksNext(t),
             call = "update" => lock[Acct(t)].pox5
      PROVE  HorizonInv'
  <2> DEFINE r == [NoTask EXCEPT !.pc = "nonce", !.call = call,
                                 !.fee = fee, !.amount = amount]
  <2>1. task' = [task EXCEPT ![t] = r]
    BY <1>5 DEF Settle
  <2>2. r.pc = "nonce" /\ r.call = call
    BY DEF NoTask
  <2> HIDE DEF r
  <2>3. r = task'[t] => ExtensionTask(t)'
    BY <1>0, <1>1, <1>5, <2>2 DEF ExtensionTask, Heading, Carrying, Acct
  <2>4. r = task'[t] => (Extending(t)' => Extending(t))
    BY <1>0, <1>5, <2>2 DEF Extending
  <2> QED BY <1>1, <2>1, <2>3, <2>4, HorizonMoves
<1> QED BY <1>2, <1>3, <1>4, <1>5

(* The other handlers that only read.                                      *)
LEMMA HorizonReads ==
    ASSUME IsFiniteSet(Polls), TypeOK, TypeOK', HorizonInv, NEW t \in Tasks,
           \/ GetNonce(t) \/ ContractExists(t) \/ CheckRegistered(t) \/ WaitForContract(t)
    PROVE  HorizonInv'
<1>0. /\ task \in [Tasks -> TaskRecords] /\ task[t] \in TaskRecords
      /\ Acct(t) \in Accounts /\ conf[Acct(t)] \in Nat
      /\ ExtensionTask(t) /\ Acct(t)' = Acct(t)
  BY DEF TypeOK, StackerTypeOK, NodeTypeOK, Tasks, Acct, HorizonInv
<1>1. UNCHANGED <<burn, lock, conf, deployed, registered, info, mempool>>
  BY DEF GetNonce, ContractExists, CheckRegistered, WaitForContract, nodeVars
<1>2. ASSUME NEW r, task' = [task EXCEPT ![t] = r], task[t].pc \in Heading,
             r.pc \in Carrying, r.call = task[t].call,
             r = task'[t] => ExtensionTask(t)'
      PROVE  HorizonInv'
  <2>1. Extending(t)' /\ r = task'[t] => Extending(t)
    BY <1>2 DEF Extending, Heading, Carrying
  <2> QED BY <1>1, <1>2, <2>1, HorizonMoves
<1>3. CASE GetNonce(t)
  <2>1. PICK r : /\ task' = [task EXCEPT ![t] = r]
                 /\ r = [task[t] EXCEPT !.nonce = conf[Acct(t)],
                            !.pc = IF task[t].call \in {"stake", "update"}
                                   THEN "exists" ELSE "submit"]
    BY <1>0, <1>3 DEF GetNonce, getNonce, TaskRecords
  <2>2. /\ r.pc = IF task[t].call \in {"stake", "update"} THEN "exists" ELSE "submit"
        /\ r.call = task[t].call /\ r.nonce = conf[Acct(t)]
    BY <1>0, <2>1 DEF TaskRecords
  <2>3. task[t].pc \in Heading /\ r.pc \in Carrying
    BY <1>3, <2>2 DEF GetNonce, Heading, Carrying
  <2>4. r = task'[t] => ExtensionTask(t)'
    BY <1>0, <1>1, <2>2, <2>3 DEF ExtensionTask
  <2> QED BY <1>2, <2>1, <2>2, <2>3, <2>4
<1>4. CASE ContractExists(t) \/ CheckRegistered(t)
  <2>1. PICK pc \in {"check", "deploy", "submit", "register"} :
          /\ task' = [task EXCEPT ![t].pc = pc]
          /\ pc = "register" => Acct(t) \notin registered
    BY <1>4 DEF ContractExists, CheckRegistered, signerRegistered
  <2>2. PICK r : task' = [task EXCEPT ![t] = r] /\ r = [task[t] EXCEPT !.pc = pc]
    BY <2>1
  <2>3. r.pc = pc /\ r.call = task[t].call /\ r.nonce = task[t].nonce
    BY <1>0, <2>2 DEF TaskRecords
  <2>4. /\ task[t].pc \in Heading /\ task[t].pc \in Carrying
        /\ task[t].pc # "submit" /\ r.pc \in Carrying
    BY <1>4, <2>1, <2>3 DEF ContractExists, CheckRegistered, Heading, Carrying
  <2>5. r = task'[t] => ExtensionTask(t)'
    BY <1>0, <1>1, <2>1, <2>3, <2>4 DEF ExtensionTask
  <2> QED BY <1>2, <2>2, <2>3, <2>4, <2>5
<1>5. CASE WaitForContract(t)
  <2>1. CASE Reject(t)
    BY <1>1, <2>1, HorizonRejects
  <2>2. CASE task' = [task EXCEPT ![t].pc = "check", ![t].nonce = @ + 1]
    <3>1. PICK r : /\ task' = [task EXCEPT ![t] = r]
                   /\ r = [task[t] EXCEPT !.pc = "check", !.nonce = @ + 1]
      BY <1>0, <2>2 DEF TaskRecords
    <3>2. r.pc = "check" /\ r.call = task[t].call
      BY <1>0, <3>1 DEF TaskRecords
    <3>3. task[t].pc \in Heading /\ r.pc \in Carrying /\ task[t].call \notin Extensions
      BY <1>0, <1>5, <3>2 DEF WaitForContract, ExtensionTask, Extensions, Heading, Carrying
    <3>4. r = task'[t] => ExtensionTask(t)'
      BY <3>2, <3>3 DEF ExtensionTask, Extensions
    <3> QED BY <1>2, <3>1, <3>2, <3>3, <3>4
  <2> QED BY <1>5, <2>1, <2>2 DEF WaitForContract
<1> QED BY <1>3, <1>4, <1>5

(* What a handler broadcasts, and when the node takes it.                  *)
LEMMA ExtensionsSent ==
    ASSUME TypeOK, HorizonInv, NEW t \in Tasks
    PROVE  /\ task[t].pc = "deploy" /\ Admits(DeployTx(t)) =>
                /\ ExtensionTx(DeployTx(t)) /\ DeployTx(t).call \notin Extensions
                /\ task[t].call \notin Extensions
           /\ task[t].pc = "register" /\ Admits(RegisterTx(t)) =>
                /\ ExtensionTx(RegisterTx(t)) /\ RegisterTx(t).call \notin Extensions
                /\ task[t].call \notin Extensions
           /\ task[t].pc = "submit" /\ Admits(CallTx(t)) =>
                /\ ExtensionTx(CallTx(t))
                /\ CallTx(t).call \in Extensions => Extending(t)
<1>1. /\ DeployTx(t).call = "deploy" /\ RegisterTx(t).call = "register"
      /\ CallTx(t).call = task[t].call
  BY DEF DeployTx, RegisterTx, CallTx, TxOf
<1>2. Acct(t) \in Accounts /\ conf[Acct(t)] \in Nat /\ task[t].nonce \in Nat
  BY DEF TypeOK, StackerTypeOK, NodeTypeOK, Tasks, Acct, TaskRecords
<1>3. ExtensionTask(t) /\ registered \subseteq deployed
  BY DEF HorizonInv, LocksInv
<1>4. CASE task[t].pc = "deploy" /\ Admits(DeployTx(t))
  <2>1. Acct(t) \notin deployed /\ task[t].nonce >= conf[Acct(t)]
    BY <1>1, <1>4, TxFields DEF Admits
  <2>2. task[t].call \notin Extensions
    BY <1>3, <1>4, <2>1 DEF ExtensionTask, Extensions, Heading, Carrying
  <2>3. ExtensionTx(DeployTx(t)) /\ DeployTx(t).call \notin Extensions
    BY <1>1, <2>1, TxFields DEF ExtensionTx, Extensions
  <2> QED BY <1>4, <2>2, <2>3
<1>5. CASE task[t].pc = "register" /\ Admits(RegisterTx(t))
  <2>1. task[t].nonce >= conf[Acct(t)]
    BY <1>5, TxFields DEF Admits
  <2>2. task[t].call \notin Extensions
    BY <1>3, <1>5 DEF ExtensionTask, Extensions, Heading, Carrying
  <2>3. ExtensionTx(RegisterTx(t)) /\ RegisterTx(t).call \notin Extensions
    BY <1>1, <2>1, TxFields DEF ExtensionTx, Extensions
  <2> QED BY <1>5, <2>2, <2>3
<1>6. CASE task[t].pc = "submit" /\ Admits(CallTx(t))
  <2>1. task[t].nonce >= conf[Acct(t)]
    BY <1>6, TxFields DEF Admits
  <2>2. task[t].call \in Extensions => task[t].nonce = conf[Acct(t)] /\ Extending(t)
    BY <1>2, <1>3, <1>6, <2>1 DEF ExtensionTask, Extending, Heading, Carrying
  <2> QED BY <1>1, <1>6, <2>1, <2>2, TxFields DEF ExtensionTx
<1> QED BY <1>4, <1>5, <1>6

LEMMA HorizonSends ==
    ASSUME IsFiniteSet(Polls), TypeOK, TypeOK', HorizonInv, NEW t \in Tasks,
           BroadcastDeploy(t) \/ BroadcastRegister(t) \/ Submit(t) \/ RpcFails(t)
    PROVE  HorizonInv'
<1>0. /\ task \in [Tasks -> TaskRecords] /\ task[t] \in TaskRecords
      /\ ExtensionTask(t) /\ CallTx(t).acct = Acct(t)
      /\ DeployTx(t).acct = Acct(t) /\ RegisterTx(t).acct = Acct(t)
  BY TxFields DEF TypeOK, StackerTypeOK, HorizonInv
<1>1. UNCHANGED <<burn, lock, conf, deployed, registered, info>>
  BY DEF BroadcastDeploy, BroadcastRegister, Submit, RpcFails
<1>2. ASSUME NEW r, task' = [task EXCEPT ![t] = r], task[t].call \notin Extensions,
             r.pc \in Carrying, r.call = task[t].call,
             \E x : ExtensionTx(x) /\ x.call \notin Extensions /\ mempool' = Put(x)
      PROVE  HorizonInv'
  <2>1. r = task'[t] => ExtensionTask(t)' /\ ~Extending(t)'
    BY <1>2 DEF ExtensionTask, Extending, Extensions, Heading, Carrying
  <2> QED BY <1>1, <1>2, <2>1, HorizonMoves
<1>3. CASE BroadcastDeploy(t)
  <2>1. CASE Reject(t) /\ UNCHANGED mempool
    BY <1>1, <2>1, HorizonRejects
  <2>2. CASE /\ Admits(DeployTx(t)) /\ mempool' = Put(DeployTx(t))
             /\ task' = [task EXCEPT ![t].pc = "await"]
    <3>1. /\ ExtensionTx(DeployTx(t)) /\ DeployTx(t).call \notin Extensions
          /\ task[t].call \notin Extensions
      BY <1>3, <2>2, ExtensionsSent DEF BroadcastDeploy
    <3>2. PICK r : task' = [task EXCEPT ![t] = r] /\ r = [task[t] EXCEPT !.pc = "await"]
      BY <2>2
    <3>3. r.pc \in Carrying /\ r.call = task[t].call
      BY <1>0, <3>2 DEF TaskRecords, Carrying
    <3> QED BY <1>2, <2>2, <3>1, <3>2, <3>3
  <2> QED BY <1>3, <2>1, <2>2 DEF BroadcastDeploy
<1>4. CASE BroadcastRegister(t)
  <2>1. CASE Reject(t) /\ UNCHANGED mempool
    BY <1>1, <2>1, HorizonRejects
  <2>2. CASE /\ Admits(RegisterTx(t)) /\ mempool' = Put(RegisterTx(t))
             /\ task' = [task EXCEPT ![t].pc = "submit", ![t].nonce = @ + 1]
    <3>1. /\ ExtensionTx(RegisterTx(t)) /\ RegisterTx(t).call \notin Extensions
          /\ task[t].call \notin Extensions
      BY <1>4, <2>2, ExtensionsSent DEF BroadcastRegister
    <3>2. PICK r : /\ task' = [task EXCEPT ![t] = r]
                   /\ r = [task[t] EXCEPT !.pc = "submit", !.nonce = @ + 1]
      BY <1>0, <2>2 DEF TaskRecords
    <3>3. r.pc \in Carrying /\ r.call = task[t].call
      BY <1>0, <3>2 DEF TaskRecords, Carrying
    <3> QED BY <1>2, <2>2, <3>1, <3>2, <3>3
  <2> QED BY <1>4, <2>1, <2>2 DEF BroadcastRegister
<1>5. CASE Submit(t)
  <2>1. CASE Reject(t) /\ UNCHANGED mempool
    BY <1>1, <2>1, HorizonRejects
  <2>2. CASE /\ task' = [task EXCEPT ![t] = NoTask]
             /\ mempool' = IF Admits(CallTx(t)) THEN Put(CallTx(t)) ELSE mempool
    <3>1. NoTask = task'[t] => ExtensionTask(t)' /\ ~Extending(t)'
      BY DEF NoTask, ExtensionTask, Extending, Heading, Carrying
    <3>2. CASE UNCHANGED mempool
      BY <1>1, <2>2, <3>1, <3>2, HorizonMoves
    <3>3. CASE Admits(CallTx(t)) /\ mempool' = Put(CallTx(t))
      <4>1. /\ ExtensionTx(CallTx(t))
            /\ CallTx(t).call \in Extensions => Extending(t)
        BY <1>5, <3>3, ExtensionsSent DEF Submit
      <4>2. task'[t] = NoTask /\ \A u \in Tasks : u # t => task'[u] = task[u]
        BY <1>0, <2>2
      <4> QED BY <1>0, <1>1, <3>1, <3>3, <4>1, <4>2, HorizonStep
    <3> QED BY <2>2, <3>2, <3>3
  <2> QED BY <1>5, <2>1, <2>2 DEF Submit
<1>6. CASE RpcFails(t)
  <2>1. Reject(t)
    BY <1>6, Zenon DEF RpcFails
  <2>2. \/ UNCHANGED mempool
        \/ /\ task[t].pc = "deploy" /\ Admits(DeployTx(t))
           /\ mempool' = Put(DeployTx(t))
        \/ /\ task[t].pc = "register" /\ Admits(RegisterTx(t))
           /\ mempool' = Put(RegisterTx(t))
        \/ /\ task[t].pc = "submit" /\ Admits(CallTx(t))
           /\ mempool' = Put(CallTx(t))
    BY <1>6, Zenon DEF RpcFails
  <2>3. \/ UNCHANGED mempool
        \/ \E x : /\ ExtensionTx(x) /\ x.acct = Acct(t) /\ mempool' = Put(x)
                  /\ x.call \in Extensions => Extending(t)
    BY <1>0, <2>2, ExtensionsSent
  <2> QED BY <1>1, <2>1, <2>3, HorizonRejects
<1> QED BY <1>3, <1>4, <1>5, <1>6

-----------------------------------------------------------------------------
(* The invariant behind it: what a lock has left of the horizon always     *)
(* covers the extensions that are pending or that a handler is bound for.  *)
THEOREM HorizonInvariant ==
    ASSUME IsFiniteSet(Polls)
    PROVE  Spec => []HorizonInv
<1>1. TypeOK /\ TypeOK' /\ HorizonInv /\ [Next]_vars => HorizonInv'
  <2> SUFFICES ASSUME TypeOK, TypeOK', HorizonInv, [Next]_vars PROVE HorizonInv'
    OBVIOUS
  <2>1. CASE UNCHANGED vars
    <3>1. UNCHANGED <<burn, lock, conf, deployed, registered, mempool, task, info>>
      BY <2>1 DEF vars, nodeVars, stackerVars
    <3>2. LocksInv' /\ OnePerSlot' /\ \A tx \in mempool' : ExtensionTx(tx)'
      BY <3>1 DEF HorizonInv, LocksInv, OnBoundary, OnePerSlot, SameSlot, ExtensionTx
    <3>3. \A t \in Tasks : ExtensionTask(t)'
      BY <3>1 DEF HorizonInv, ExtensionTask, Acct
    <3>4. ASSUME NEW a \in Accounts PROVE Horizon(a)'
      <4>1. burn \in Nat /\ lock[a].unlock \in Nat
        BY HeightsNat, LockFields DEF TypeOK, NodeTypeOK
      <4>2. Extenders(a)' = Extenders(a) /\ (Pending(a)' => Pending(a))
        BY <3>1, SameExtenders DEF Pending
      <4>3. Surplus(a)' \in Nat /\ Surplus(a)' <= Surplus(a)
        BY <4>2, SurplusKept
      <4> QED BY <3>1, <4>1, <4>3, HorizonKept DEF HorizonInv
    <3> QED BY <3>1, <3>2, <3>3, <3>4 DEF HorizonInv
  <2>2. CASE Next
    BY <2>2, HorizonNode, HorizonLoop, HorizonReadStatus, HorizonDecides,
       HorizonReads, HorizonSends DEF Next, Handler
  <2> QED BY <2>1, <2>2
<1>2. TypeOK /\ Init => HorizonInv
  BY HorizonInit
<1> QED BY <1>1, <1>2, TypeCorrect, PTL DEF Spec

(* However many polls of the stacker overlap, and whatever fails, is lost  *)
(* or restarted: an account is never locked further than one extension     *)
(* beyond a new lock for every poll alive at the same time, because a poll *)
(* extends only a lock it has seen to end in the next cycle                *)
(* (stacking.ts:172-174 and 215-217).                                       *)
THEOREM HorizonHolds ==
    ASSUME IsFiniteSet(Polls)
    PROVE  Spec => []LockHorizon
<1>1. TypeOK /\ HorizonInv => LockHorizon
  BY HorizonImplies
<1> QED BY <1>1, HorizonInvariant, TypeCorrect, PTL
=============================================================================
