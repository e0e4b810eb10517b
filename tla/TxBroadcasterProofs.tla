------------------------ MODULE TxBroadcasterProofs ------------------------
(***************************************************************************)
(* Proofs about TxBroadcaster, for any set of accounts and any bounds: its *)
(* type, its balance, and that it implements the safety half of RoundRobin.*)
(***************************************************************************)
EXTENDS TxBroadcaster, TLAPS

(* Adding one to a natural number gives a natural number.                  *)
LEMMA Successor == \A n \in Nat : n + 1 \in Nat
  OBVIOUS

(* A pending transfer is a pair of an account and a nonce.                 *)
LEMMA TransferPair ==
    ASSUME NEW tx \in Senders \X Nat
    PROVE  tx[1] \in Senders /\ tx[2] \in Nat /\ tx = <<tx[1], tx[2]>>
  OBVIOUS

(* TypeOK holds at the start.                                              *)
LEMMA TypeInit == Init => TypeOK
  BY BroadcasterAssumption DEF Init, TypeOK, NothingRead, Unread

(* TypeOK is kept by every step of the service and of the node.            *)
LEMMA TypeStep == TypeOK /\ [Next]_vars => TypeOK'
<1> SUFFICES ASSUME TypeOK, [Next]_vars PROVE TypeOK'
  OBVIOUS
<1> USE DEF TypeOK
<1>0. NothingRead \in [Senders -> Nat \cup {Unread}]
  BY DEF NothingRead
<1>1. CASE waitForNakamoto
  BY <1>1, <1>0 DEF waitForNakamoto, nodeVars
<1>2. CASE BeginRun
  BY <1>2, <1>0 DEF BeginRun, nodeVars
<1>3. CASE Wake
  BY <1>3 DEF Wake, nodeVars
<1>4. ASSUME NEW a \in Senders, ReadNonce(a) PROVE TypeOK'
  BY <1>4 DEF ReadNonce, nodeVars
<1>5. ASSUME NEW a \in Senders, Broadcast(a) PROVE TypeOK'
  <2>1. transferNonce(a) \in Nat
    BY <1>5 DEF Broadcast, transferNonce, AllRead
  <2>2. pending' \subseteq Senders \X Nat
    BY <2>1, <1>5 DEF Broadcast
  <2>3. faults' \in Nat
    BY <1>5, Successor DEF Broadcast
  <2> QED BY <2>2, <2>3, <1>0, <1>5 DEF Broadcast, NothingRead
<1>6. CASE RunFails
  BY <1>6, <1>0, Successor DEF RunFails, nodeVars, NothingRead
<1>7. CASE Restart
  BY <1>7, <1>0, Successor DEF Restart, nodeVars, NothingRead
<1>8. ASSUME NEW a \in Senders, Mine(a) PROVE TypeOK'
  BY <1>8, Successor DEF Mine, NothingRead
<1>9. CASE Lose
  BY <1>9, Successor DEF Lose, NothingRead
<1>10. CASE BurnBlock
  BY <1>10, BroadcasterAssumption DEF BurnBlock, NothingRead
<1>11. CASE UNCHANGED vars
  BY <1>11 DEF vars, NothingRead
<1> QED
  BY <1>1, <1>2, <1>3, <1>4, <1>5, <1>6, <1>7, <1>8, <1>9, <1>10, <1>11
  DEF Next, Service, MineAny

(* The types of TypeOK hold in every reachable state, and the nonces that  *)
(* a run has read never outlive it.                                        *)
THEOREM TypeCorrect == Spec => []TypeOK
  BY TypeInit, TypeStep, PTL DEF Spec

(* BalanceInv is kept by every step: only a broadcast can add a transfer,  *)
(* and only mining one can move a confirmed nonce.                         *)
LEMMA BalanceStep == TypeOK /\ BalanceInv /\ [Next]_vars => BalanceInv'
<1> SUFFICES ASSUME TypeOK, BalanceInv, [Next]_vars PROVE BalanceInv'
  OBVIOUS
<1> USE DEF TypeOK, BalanceInv, Balanced
<1>1. ASSUME NEW a \in Senders, ReadNonce(a) PROVE BalanceInv'
  BY <1>1 DEF ReadNonce, nodeVars, Unread
<1>2. ASSUME NEW a \in Senders, Broadcast(a) PROVE BalanceInv'
  <2> DEFINE n == transferNonce(a)
  <2>1. n \in Nat /\ \A b \in Senders : n <= conf[b]
    BY <1>2 DEF Broadcast, AllRead, IsSender, transferNonce, Unread
  <2>2. n < MaxSent
    BY <1>2 DEF Broadcast
  <2>3. \A tx \in pending' : tx \in pending \/ (tx = <<a, n>> /\ n >= conf[a])
    BY <1>2 DEF Broadcast, Admits
  <2>4. \A tx \in pending' : /\ tx[2] = conf[tx[1]]
                             /\ tx[2] < MaxSent
                             /\ \A b \in Senders : tx[2] <= conf[b]
    BY <2>1, <2>2, <2>3
  <2> QED BY <2>4, <1>2 DEF Broadcast, NothingRead
<1>3. ASSUME NEW a \in Senders, Mine(a) PROVE BalanceInv'
  <2>1. \A b \in Senders : conf[a] <= conf[b]
    BY <1>3 DEF Mine
  <2>2. \A b \in Senders : conf'[b] = IF b = a THEN conf[a] + 1 ELSE conf[b]
    BY <1>3 DEF Mine
  <2>3. Balanced'
    BY <2>1, <2>2
  <2>4. ASSUME NEW tx \in pending'
        PROVE  /\ tx[2] = conf'[tx[1]]
               /\ tx[2] < MaxSent
               /\ \A b \in Senders : tx[2] <= conf'[b]
    <3>1. tx \in pending /\ tx # <<a, conf[a]>>
      BY <2>4, <1>3 DEF Mine
    <3>2. tx[1] \in Senders /\ tx[2] \in Nat /\ tx = <<tx[1], tx[2]>>
      BY <3>1, TransferPair
    <3>3. tx[1] # a
      BY <3>1, <3>2
    <3> QED BY <3>1, <3>2, <3>3, <2>2
  <2>5. \A b \in Senders : nonces[b] # Unread => nonces[b] <= conf'[b]
    BY <2>2 DEF Unread
  <2> QED BY <2>3, <2>4, <2>5, <1>3 DEF Mine
<1>4. CASE Lose
  BY <1>4 DEF Lose
<1>5. CASE nonces' = NothingRead /\ UNCHANGED <<conf, pending>>
  BY <1>5 DEF NothingRead
<1>6. CASE UNCHANGED <<conf, pending, nonces>>
  BY <1>6
<1>7. CASE waitForNakamoto \/ Wake \/ BurnBlock \/ UNCHANGED vars
  BY <1>6, <1>7 DEF waitForNakamoto, Wake, BurnBlock, nodeVars, vars
<1>8. CASE BeginRun \/ RunFails \/ Restart
  BY <1>5, <1>8 DEF BeginRun, RunFails, Restart, nodeVars
<1> QED
  BY <1>1, <1>2, <1>3, <1>4, <1>7, <1>8 DEF Next, Service, MineAny

(* BalanceInv holds in every reachable state.                              *)
THEOREM BalanceInvariant == Spec => []BalanceInv
<1>1. Init => BalanceInv
  BY DEF Init, BalanceInv, Balanced, NothingRead
<1> QED BY <1>1, TypeCorrect, BalanceStep, PTL DEF Spec

(* Whatever the number of accounts, their order and the failures, no       *)
(* account is ever more than one transfer ahead of another.                *)
THEOREM BalanceHolds == Spec => []Balanced
<1>1. BalanceInv => Balanced
  BY DEF BalanceInv
<1> QED BY <1>1, BalanceInvariant, PTL

(* Every step of the broadcaster is a turn of RoundRobin or a stutter.     *)
LEMMA StepIsTurn == TypeOK /\ BalanceInv /\ [Next]_vars => [RR!Next]_conf
<1> SUFFICES ASSUME TypeOK, BalanceInv, [Next]_vars PROVE [RR!Next]_conf
  OBVIOUS
<1>1. ASSUME NEW a \in Senders, Mine(a) PROVE RR!Turn(a)
  <2>1. conf[a] < MaxSent /\ \A b \in Senders : conf[a] <= conf[b]
    BY <1>1 DEF Mine, BalanceInv
  <2> QED BY <2>1, <1>1 DEF Mine, RR!Turn, RR!Fewest
<1>2. CASE MineAny
  BY <1>1, <1>2 DEF MineAny, RR!Next
<1>3. CASE waitForNakamoto \/ BeginRun \/ Wake \/ RunFails \/ Restart
  BY <1>3 DEF waitForNakamoto, BeginRun, Wake, RunFails, Restart, nodeVars
<1>4. ASSUME NEW a \in Senders, ReadNonce(a) \/ Broadcast(a)
      PROVE  UNCHANGED conf
  BY <1>4 DEF ReadNonce, Broadcast, nodeVars
<1>5. CASE Lose \/ BurnBlock \/ UNCHANGED vars
  BY <1>5 DEF Lose, BurnBlock, vars
<1> QED BY <1>2, <1>3, <1>4, <1>5 DEF Next, Service

(* The broadcaster implements RoundRobin: only an account that has sent    *)
(* the fewest transfers ever gets the next one mined.                      *)
THEOREM ImplementsRoundRobin == Spec => RR!Spec
<1>1. Init => RR!Init
  BY DEF Init, RR!Init
<1> QED BY <1>1, StepIsTurn, TypeCorrect, BalanceInvariant, PTL DEF Spec, RR!Spec
=============================================================================
