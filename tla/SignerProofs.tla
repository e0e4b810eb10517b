---------------------------- MODULE SignerProofs ----------------------------
(***************************************************************************)
(* Why the stacker's signer always comes first in pox-5: on a node that    *)
(* runs pox-5 from the start, whatever is dropped; and on one that goes    *)
(* from pox-4 to pox-5, where handlers left over from pox-4 spend nonces   *)
(* as well, as long as nothing is dropped.                                 *)
(***************************************************************************)
EXTENDS StackerProofs, FiniteSetTheorems

-----------------------------------------------------------------------------
(* Until its contract is deployed an account has sent nothing but deploys, *)
(* all with its very first nonce; and after that, until its signer is      *)
(* registered, the only transaction that can be mined is a register-self.  *)
Untouched(a) == a \notin deployed => conf[a] = 0 /\ a \notin registered

OrderedTx(tx) ==
    /\ tx.call \in {"deploy", "register", "stake", "update"}
    /\ tx.acct \notin deployed => tx.call = "deploy" /\ tx.nonce = 0
    /\ tx.acct \in deployed => tx.call # "deploy"
    /\ tx.acct \notin registered /\ tx.call \in {"stake", "update"} =>
          tx.nonce > conf[tx.acct]

OrderedTask(t) ==
    /\ task[t].call \in {"stake", "update"}
    /\ Acct(t) \notin deployed /\ task[t].pc \in Carrying =>
          task[t].nonce = 0 /\ task[t].pc \notin {"check", "register", "submit"}
    /\ Acct(t) \notin registered /\ task[t].pc = "submit" =>
          task[t].nonce > conf[Acct(t)]

OneEach == \A m, n \in mempool : SameSlot(m, n) => m = n

SignerInv ==
    /\ \A a \in Accounts : Untouched(a)
    /\ \A tx \in mempool : OrderedTx(tx)
    /\ \A t \in Tasks : OrderedTask(t)
    /\ OneEach
    /\ \A p \in Polls : info[p].contract # "pox-4"

LEMMA SignerInvImplies == TypeOK /\ SignerInv => SignerFirst
<1> SUFFICES ASSUME TypeOK, SignerInv, NEW tx \in mempool,
                    tx.call \in {"stake", "update"}, tx.nonce = conf[tx.acct],
                    tx.acct \notin registered
             PROVE  FALSE
  BY DEF SignerFirst
<1>1. tx.nonce > conf[tx.acct] /\ tx.nonce \in Nat
  BY DEF SignerInv, OrderedTx, TypeOK, NodeTypeOK, Transactions
<1> QED BY <1>1

LEMMA SignerInit == Init => SignerInv
<1> SUFFICES ASSUME Init PROVE SignerInv
  OBVIOUS
<1>1. /\ conf = [a \in Accounts |-> 0] /\ mempool = {} /\ registered = {}
      /\ task = [t \in Tasks |-> NoTask]
      /\ \A p \in Polls : info[p].contract = "pox-3"
  BY DEF Init, NodeInit, StackerInit
<1>2. NoTask.call = "stake" /\ NoTask.pc = "done"
  BY DEF NoTask
<1> QED BY <1>1, <1>2 DEF SignerInv, Untouched, OrderedTask, OneEach, Carrying

-----------------------------------------------------------------------------
(* A handler that carries nothing is in order, and so is one that is left  *)
(* alone while its account's nonce and contract are.                       *)
LEMMA OrderedStays ==
    ASSUME NEW u \in Tasks, OrderedTask(u),
           UNCHANGED <<conf, deployed, registered>>,
           \/ task'[u] = task[u]
           \/ task'[u].pc \notin Carrying /\ task'[u].call \in {"stake", "update"}
    PROVE  OrderedTask(u)'
<1>1. CASE task'[u] = task[u]
  BY <1>1 DEF OrderedTask
<1>2. CASE task'[u].pc \notin Carrying /\ task'[u].call \in {"stake", "update"}
  BY <1>2 DEF OrderedTask, Carrying
<1> QED BY <1>1, <1>2

(* A step that leaves the node's part alone needs only its handlers.       *)
LEMMA SignerQuiet ==
    ASSUME SignerInv, UNCHANGED <<conf, deployed, registered, mempool>>,
           \A u \in Tasks : OrderedTask(u)',
           \A p \in Polls : info'[p].contract # "pox-4"
    PROVE  SignerInv'
BY DEF SignerInv, Untouched, OrderedTx, OneEach, SameSlot

(* A broadcast of a transaction in order.                                  *)
LEMMA SignerPut ==
    ASSUME SignerInv, UNCHANGED <<conf, deployed, registered, info>>,
           NEW x, OrderedTx(x), mempool' = Put(x),
           \A u \in Tasks : OrderedTask(u)'
    PROVE  SignerInv'
<1>1. \A m \in mempool' : m = x \/ (m \in mempool /\ ~SameSlot(m, x))
  BY DEF Put
<1>2. \A m \in mempool' : OrderedTx(m)'
  BY <1>1 DEF SignerInv, OrderedTx
<1>3. OneEach'
  BY <1>1 DEF SignerInv, OneEach, SameSlot
<1> QED BY <1>2, <1>3 DEF SignerInv, Untouched

(* A handler that throws ends, and so may others of its poll.              *)
LEMMA RejectsOrdered ==
    ASSUME TypeOK, SignerInv, NEW t \in Tasks, Reject(t),
           UNCHANGED <<conf, deployed, registered>>
    PROVE  \A u \in Tasks : OrderedTask(u)'
<1> SUFFICES ASSUME NEW u \in Tasks PROVE OrderedTask(u)'
  OBVIOUS
<1>1. NoTask.pc \notin Carrying /\ NoTask.call = "stake"
  BY DEF NoTask, Carrying
<1>2. task'[u] = NoTask \/ task'[u] = task[u]
  BY DEF Reject, TypeOK, StackerTypeOK
<1>3. task'[u] = task[u] \/ (task'[u].pc \notin Carrying /\ task'[u].call \in {"stake", "update"})
  BY <1>1, <1>2
<1> QED BY <1>3, OrderedStays DEF SignerInv

(* A step of one handler leaves the others in order.                       *)
LEMMA OthersOrdered ==
    ASSUME TypeOK, SignerInv, NEW t \in Tasks, NEW r, task' = [task EXCEPT ![t] = r],
           UNCHANGED <<conf, deployed, registered>>, OrderedTask(t)'
    PROVE  \A u \in Tasks : OrderedTask(u)'
<1> SUFFICES ASSUME NEW u \in Tasks, u # t PROVE OrderedTask(u)'
  OBVIOUS
<1>1. task'[u] = task[u]
  BY DEF TypeOK, StackerTypeOK
<1> QED BY <1>1, OrderedStays DEF SignerInv

-----------------------------------------------------------------------------
(* The node.  Mining is what moves nonces: of an account without contract  *)
(* it mines the deploy, of one without signer the register-self.           *)
LEMMA SignerMines ==
    ASSUME TypeOK, SignerInv, NEW x \in mempool, Mine(x), UNCHANGED <<task, info>>
    PROVE  SignerInv'
<1> DEFINE a == x.acct
<1>0. x \in Transactions /\ a \in Accounts /\ x.nonce = conf[a] /\ conf[a] \in Nat
  BY DEF TypeOK, NodeTypeOK, Transactions, Mine
<1>1. /\ conf' = [conf EXCEPT ![a] = @ + 1]
      /\ mempool' = mempool \ {x}
  BY Zenon DEF Mine
<1>2. /\ conf'[a] = conf[a] + 1
      /\ \A b \in Accounts : b # a => conf'[b] = conf[b]
  BY <1>0, <1>1 DEF TypeOK, NodeTypeOK
<1>3. x.call \in {"deploy", "register"} =>
        /\ deployed' = IF x.call = "deploy" THEN deployed \cup {a} ELSE deployed
        /\ registered' = IF x.call = "register" /\ a \in deployed
                         THEN registered \cup {a} ELSE registered
  <2> SUFFICES ASSUME x.call \in {"deploy", "register"}
               PROVE  /\ deployed' = IF x.call = "deploy" THEN deployed \cup {a} ELSE deployed
                      /\ registered' = IF x.call = "register" /\ a \in deployed
                                       THEN registered \cup {a} ELSE registered
    OBVIOUS
  <2>1. Succeeds(x)
    BY DEF Succeeds
  <2>2. Outcomes(x) = {TRUE}
    BY <2>1 DEF Outcomes
  <2> QED BY <2>2 DEF Mine
<1>4. x.call \in {"stake", "update"} => UNCHANGED <<deployed, registered>>
  BY DEF Mine
<1>5. OrderedTx(x) /\ Untouched(a)
  BY <1>0 DEF SignerInv
<1>6. OneEach'
  BY <1>1 DEF SignerInv, OneEach, SameSlot
<1>7. /\ \A b \in Accounts : b # a =>
            (b \in deployed' <=> b \in deployed) /\ (b \in registered' <=> b \in registered)
      /\ deployed \subseteq deployed' /\ registered \subseteq registered'
  BY <1>3, <1>4, <1>5 DEF OrderedTx
<1>8. \A b \in Accounts : Untouched(b)'
  <2>1. ASSUME NEW b \in Accounts, b # a PROVE Untouched(b)'
    BY <1>2, <1>7, <2>1 DEF SignerInv, Untouched
  <2>2. a \in deployed'
    BY <1>3, <1>5, <1>7 DEF OrderedTx
  <2> QED BY <2>1, <2>2 DEF Untouched
<1>9. \A t \in Tasks : OrderedTask(t)'
  <2> SUFFICES ASSUME NEW t \in Tasks PROVE OrderedTask(t)'
    OBVIOUS
  <2>1. Acct(t) \in Accounts /\ OrderedTask(t) /\ task'[t] = task[t]
    BY DEF Tasks, Acct, SignerInv
  <2>2. CASE Acct(t) # a
    BY <2>1, <2>2, <1>2, <1>7 DEF OrderedTask
  <2>3. CASE Acct(t) = a /\ a \notin deployed
    <3>1. a \in deployed'
      BY <1>3, <1>5, <2>3 DEF OrderedTx
    <3>2. task[t].pc # "submit"
      BY <2>1, <2>3 DEF OrderedTask, Carrying
    <3> QED BY <2>1, <2>3, <3>1, <3>2 DEF OrderedTask
  <2>4. CASE Acct(t) = a /\ a \in deployed
    <3>1. a \in deployed' /\ a \in registered'
      BY <1>0, <1>3, <1>4, <1>5, <1>7, <2>4 DEF OrderedTx
    <3> QED BY <2>1, <2>4, <3>1 DEF OrderedTask
  <2> QED BY <2>2, <2>3, <2>4
<1>10. \A tx \in mempool' : OrderedTx(tx)'
  <2> SUFFICES ASSUME NEW tx \in mempool' PROVE OrderedTx(tx)'
    OBVIOUS
  <2>1. tx \in mempool /\ tx # x /\ OrderedTx(tx) /\ tx.acct \in Accounts
    BY <1>1 DEF SignerInv, TypeOK, NodeTypeOK, Transactions
  <2>2. CASE tx.acct # a
    BY <2>1, <2>2, <1>2, <1>7 DEF OrderedTx
  <2>3. CASE tx.acct = a /\ a \notin deployed
    <3>1. SameSlot(tx, x)
      BY <2>1, <2>3, <1>5 DEF OrderedTx, SameSlot
    <3> QED BY <2>1, <3>1 DEF SignerInv, OneEach
  <2>4. CASE tx.acct = a /\ a \in deployed
    <3>1. a \in deployed' /\ a \in registered'
      BY <1>0, <1>3, <1>4, <1>5, <1>7, <2>4 DEF OrderedTx
    <3> QED BY <2>1, <2>4, <3>1 DEF OrderedTx
  <2> QED BY <2>2, <2>3, <2>4
<1> QED BY <1>6, <1>8, <1>9, <1>10 DEF SignerInv

LEMMA SignerNode ==
    ASSUME TypeOK, SignerInv, Environment
    PROVE  SignerInv'
<1>0. UNCHANGED <<task, info>>
  BY DEF Environment, stackerVars
<1>1. ASSUME NEW x \in mempool, Mine(x) PROVE SignerInv'
  BY <1>0, <1>1, SignerMines
<1>2. ASSUME NEW x \in mempool, Lose(x) PROVE SignerInv'
  <2>1. mempool' \subseteq mempool /\ UNCHANGED <<conf, deployed, registered>>
    BY <1>2, Zenon DEF Lose
  <2> QED
    BY <1>0, <2>1 DEF SignerInv, Untouched, OrderedTx, OrderedTask, OneEach, SameSlot
<1>3. CASE BurnBlock \/ ThresholdMoves
  <2>1. UNCHANGED <<conf, deployed, registered, mempool>>
    BY <1>3 DEF BurnBlock, ThresholdMoves
  <2> QED
    BY <1>0, <2>1 DEF SignerInv, Untouched, OrderedTx, OrderedTask, OneEach, SameSlot
<1> QED
  BY <1>1, <1>2, <1>3 DEF Environment, NodeNext, MineNext, LoseNext

-----------------------------------------------------------------------------
(* The loop: a poll that begins in pox-5 notes pox-5.                      *)
LEMMA SignerLoop ==
    ASSUME STACKS_40_HEIGHT <= InitBurn, TypeOK, SignerInv, Loop \/ Restart
    PROVE  SignerInv'
<1>1. UNCHANGED <<conf, deployed, registered, mempool>>
  BY DEF Loop, Restart, waitForSetup, SkipRun, SettleRun, PostWaitEnds,
         BeginRun, nodeVars
<1>2. \A p \in Polls : info'[p].contract # "pox-4"
  <2>1. CASE info' = info
    BY <2>1 DEF SignerInv
  <2>2. ASSUME NEW q \in Polls, BeginRun(q)
        PROVE  \A p \in Polls : info'[p].contract # "pox-4"
    <3>1. burn >= STACKS_40_HEIGHT
      BY NodeAssumption DEF TypeOK, NodeTypeOK, Heights
    <3>2. PoxInfo.contract = "pox-5"
      BY <3>1 DEF PoxInfo, poxContract
    <3>3. info' = [info EXCEPT ![q] = PoxInfo]
      BY <2>2 DEF BeginRun
    <3> QED BY <3>2, <3>3 DEF SignerInv, TypeOK, StackerTypeOK
  <2> QED
    BY <2>1, <2>2 DEF Loop, Restart, waitForSetup, SkipRun, SettleRun, PostWaitEnds
<1>3. ASSUME NEW t \in Tasks PROVE OrderedTask(t)'
  <2>0. \A r : r = [NoTask EXCEPT !.pc = "status"] \/ r = NoTask =>
            r.pc \notin Carrying /\ r.call = "stake"
    BY DEF NoTask, Carrying
  <2>1. CASE task' = task
    BY <1>1, <2>1, OrderedStays DEF SignerInv
  <2>2. ASSUME NEW p \in Polls, BeginRun(p) PROVE OrderedTask(t)'
    <3>1. task'[t] = task[t] \/ task'[t] = [NoTask EXCEPT !.pc = "status"]
      BY <2>2 DEF BeginRun
    <3> QED BY <1>1, <2>0, <3>1, OrderedStays DEF SignerInv
  <2>3. CASE Restart
    <3>1. task'[t] = NoTask
      BY <2>3 DEF Restart
    <3> QED BY <1>1, <2>0, <3>1, OrderedStays DEF SignerInv
  <2> QED
    BY <2>1, <2>2, <2>3 DEF Loop, waitForSetup, SkipRun, SettleRun, PostWaitEnds
<1> QED BY <1>1, <1>2, <1>3, SignerQuiet

-----------------------------------------------------------------------------
(* The handlers that only read.                                            *)
LEMMA SignerReads ==
    ASSUME TypeOK, SignerInv, NEW t \in Tasks,
           \/ ReadStatus(t) \/ DecidePox5(t) \/ DecidePox4(t) \/ GetNonce(t)
           \/ ContractExists(t) \/ CheckRegistered(t) \/ WaitForContract(t)
    PROVE  SignerInv'
<1>0. /\ task \in [Tasks -> TaskRecords] /\ task[t] \in TaskRecords
      /\ Acct(t) \in Accounts /\ conf[Acct(t)] \in Nat
      /\ OrderedTask(t) /\ Untouched(Acct(t))
  BY DEF TypeOK, StackerTypeOK, NodeTypeOK, Tasks, Acct, SignerInv
<1>1. UNCHANGED <<conf, deployed, registered, mempool, info>>
  BY DEF ReadStatus, DecidePox5, DecidePox4, GetNonce, ContractExists,
         CheckRegistered, WaitForContract, nodeVars
<1> SUFFICES \A u \in Tasks : OrderedTask(u)'
  BY <1>1, SignerQuiet DEF SignerInv
<1>2. ASSUME NEW r, task' = [task EXCEPT ![t] = r], r = task'[t] => OrderedTask(t)'
      PROVE  \A u \in Tasks : OrderedTask(u)'
  BY <1>0, <1>1, <1>2, OthersOrdered
<1>3. CASE ReadStatus(t)
  <2>1. PICK r : /\ task' = [task EXCEPT ![t] = r]
                 /\ r = [task[t] EXCEPT !.pc = "ready", !.locked = lock[Acct(t)] # Unlocked,
                                        !.unlock = lock[Acct(t)].unlock]
    BY <1>0, <1>3 DEF ReadStatus, TaskRecords
  <2>2. r.pc = "ready" /\ r.call = task[t].call
    BY <1>0, <2>1 DEF TaskRecords
  <2>3. r = task'[t] => OrderedTask(t)'
    BY <1>0, <2>2 DEF OrderedTask, Carrying
  <2> QED BY <1>2, <2>1, <2>3
<1>4. CASE DecidePox5(t) \/ DecidePox4(t)
  <2>1. ~DecidePox4(t)
    BY <1>0 DEF DecidePox4, SignerInv, Tasks
  <2>2. \/ Reject(t) \/ task' = [task EXCEPT ![t] = NoTask]
        \/ \E call \in {"stake", "update"} : \E fee, amount : Settle(t, call, fee, amount)
    BY <1>4, <2>1, Zenon DEF DecidePox5, StartLocking
  <2>3. CASE Reject(t)
    BY <1>1, <2>3, RejectsOrdered
  <2>4. CASE task' = [task EXCEPT ![t] = NoTask]
    <3>1. NoTask = task'[t] => OrderedTask(t)'
      BY DEF OrderedTask, Carrying, NoTask
    <3> QED BY <1>2, <2>4, <3>1
  <2>5. ASSUME NEW call \in {"stake", "update"}, NEW fee, NEW amount,
               Settle(t, call, fee, amount)
        PROVE  \A u \in Tasks : OrderedTask(u)'
    <3> DEFINE r == [NoTask EXCEPT !.pc = "nonce", !.call = call,
                                   !.fee = fee, !.amount = amount]
    <3>1. task' = [task EXCEPT ![t] = r]
      BY <2>5 DEF Settle
    <3>2. r.pc = "nonce" /\ r.call = call
      BY DEF NoTask
    <3> HIDE DEF r
    <3>3. r = task'[t] => OrderedTask(t)'
      BY <3>2 DEF OrderedTask, Carrying
    <3> QED BY <1>2, <3>1, <3>3
  <2> QED BY <2>2, <2>3, <2>4, <2>5
<1>5. CASE GetNonce(t)
  <2>1. PICK r : /\ task' = [task EXCEPT ![t] = r]
                 /\ r = [task[t] EXCEPT !.nonce = conf[Acct(t)],
                            !.pc = IF task[t].call \in {"stake", "update"}
                                   THEN "exists" ELSE "submit"]
    BY <1>0, <1>5 DEF GetNonce, getNonce, TaskRecords
  <2>2. r.pc = "exists" /\ r.call = task[t].call /\ r.nonce = conf[Acct(t)]
    BY <1>0, <2>1 DEF TaskRecords, OrderedTask
  <2>3. r = task'[t] => OrderedTask(t)'
    BY <1>0, <1>1, <2>2 DEF OrderedTask, Untouched
  <2> QED BY <1>2, <2>1, <2>3
<1>6. CASE ContractExists(t)
  <2>1. PICK pc \in {"check", "deploy"} :
          /\ task' = [task EXCEPT ![t].pc = pc]
          /\ pc = "check" => Acct(t) \in deployed
    BY <1>6 DEF ContractExists
  <2>2. PICK r : task' = [task EXCEPT ![t] = r] /\ r = [task[t] EXCEPT !.pc = pc]
    BY <2>1
  <2>3. r.pc = pc /\ r.call = task[t].call /\ r.nonce = task[t].nonce
    BY <1>0, <2>2 DEF TaskRecords
  <2>4. task[t].pc = "exists"
    BY <1>6 DEF ContractExists
  <2>5. r = task'[t] => OrderedTask(t)'
    BY <1>0, <1>1, <2>1, <2>3, <2>4 DEF OrderedTask, Carrying
  <2> QED BY <1>2, <2>2, <2>5
<1>7. CASE CheckRegistered(t)
  <2>1. PICK pc \in {"submit", "register"} :
          /\ task' = [task EXCEPT ![t].pc = pc]
          /\ pc = "submit" => Acct(t) \in registered
    BY <1>7 DEF CheckRegistered, signerRegistered
  <2>2. PICK r : task' = [task EXCEPT ![t] = r] /\ r = [task[t] EXCEPT !.pc = pc]
    BY <2>1
  <2>3. r.pc = pc /\ r.call = task[t].call /\ r.nonce = task[t].nonce
    BY <1>0, <2>2 DEF TaskRecords
  <2>4. Acct(t) \in deployed
    BY <1>0, <1>7 DEF CheckRegistered, OrderedTask, Carrying
  <2>5. r = task'[t] => OrderedTask(t)'
    BY <1>0, <1>1, <2>1, <2>3, <2>4 DEF OrderedTask
  <2> QED BY <1>2, <2>2, <2>5
<1>8. CASE WaitForContract(t)
  <2>1. CASE Reject(t)
    BY <1>1, <2>1, RejectsOrdered
  <2>2. CASE Acct(t) \in deployed /\ task' = [task EXCEPT ![t].pc = "check", ![t].nonce = @ + 1]
    <3>1. PICK r : /\ task' = [task EXCEPT ![t] = r]
                   /\ r = [task[t] EXCEPT !.pc = "check", !.nonce = @ + 1]
      BY <1>0, <2>2 DEF TaskRecords
    <3>2. r.pc = "check" /\ r.call = task[t].call
      BY <1>0, <3>1 DEF TaskRecords
    <3>3. r = task'[t] => OrderedTask(t)'
      BY <1>0, <1>1, <2>2, <3>2 DEF OrderedTask
    <3> QED BY <1>2, <3>1, <3>3
  <2> QED BY <1>8, <2>1, <2>2 DEF WaitForContract
<1> QED BY <1>3, <1>4, <1>5, <1>6, <1>7, <1>8

-----------------------------------------------------------------------------
(* What the transaction of a broadcast is, and when the node takes it.     *)
LEMMA OrderedDeploy ==
    ASSUME TypeOK, SignerInv, NEW t \in Tasks, task[t].pc = "deploy", Admits(DeployTx(t))
    PROVE  OrderedTx(DeployTx(t)) /\ Acct(t) \notin deployed
<1>1. /\ DeployTx(t).acct = Acct(t) /\ DeployTx(t).nonce = task[t].nonce
      /\ DeployTx(t).call = "deploy"
  BY DEF DeployTx, TxOf
<1>2. Acct(t) \notin deployed
  BY <1>1 DEF Admits
<1>3. task[t].nonce = 0
  BY <1>2 DEF SignerInv, OrderedTask, Carrying
<1> QED BY <1>1, <1>2, <1>3 DEF OrderedTx

LEMMA OrderedRegister ==
    ASSUME TypeOK, SignerInv, NEW t \in Tasks, task[t].pc = "register", Admits(RegisterTx(t))
    PROVE  /\ OrderedTx(RegisterTx(t))
           /\ Acct(t) \in deployed /\ task[t].nonce >= conf[Acct(t)]
<1>1. /\ RegisterTx(t).acct = Acct(t) /\ RegisterTx(t).nonce = task[t].nonce
      /\ RegisterTx(t).call = "register"
  BY DEF RegisterTx, TxOf
<1>2. Acct(t) \in deployed
  BY DEF SignerInv, OrderedTask, Carrying
<1> QED BY <1>1, <1>2 DEF OrderedTx, Admits

LEMMA OrderedCall ==
    ASSUME TypeOK, SignerInv, NEW t \in Tasks, task[t].pc = "submit"
    PROVE  OrderedTx(CallTx(t))
<1>1. /\ CallTx(t).acct = Acct(t) /\ CallTx(t).nonce = task[t].nonce
      /\ CallTx(t).call = task[t].call
  BY DEF CallTx, TxOf
<1>2. Acct(t) \in deployed /\ task[t].call \in {"stake", "update"}
  BY DEF SignerInv, OrderedTask, Carrying
<1> QED BY <1>1, <1>2 DEF OrderedTx, SignerInv, OrderedTask

(* The handlers that broadcast.                                            *)
LEMMA SignerSends ==
    ASSUME TypeOK, SignerInv, NEW t \in Tasks,
           BroadcastDeploy(t) \/ BroadcastRegister(t) \/ Submit(t) \/ RpcFails(t)
    PROVE  SignerInv'
<1>0. /\ task \in [Tasks -> TaskRecords] /\ task[t] \in TaskRecords
      /\ Acct(t) \in Accounts /\ conf[Acct(t)] \in Nat /\ task[t].nonce \in Nat
      /\ OrderedTask(t)
  BY DEF TypeOK, StackerTypeOK, NodeTypeOK, Tasks, Acct, SignerInv, TaskRecords
<1>1. UNCHANGED <<conf, deployed, registered, info>>
  BY DEF BroadcastDeploy, BroadcastRegister, Submit, RpcFails
<1>2. ASSUME UNCHANGED mempool, \A u \in Tasks : OrderedTask(u)' PROVE SignerInv'
  BY <1>1, <1>2, SignerQuiet DEF SignerInv
<1>3. ASSUME Reject(t),
             \/ UNCHANGED mempool
             \/ \E x : OrderedTx(x) /\ mempool' = Put(x)
      PROVE  SignerInv'
  <2>1. \A u \in Tasks : OrderedTask(u)'
    BY <1>1, <1>3, RejectsOrdered
  <2> QED BY <1>1, <1>2, <1>3, <2>1, SignerPut
<1>4. CASE BroadcastDeploy(t)
  <2>1. CASE Reject(t) /\ UNCHANGED mempool
    BY <1>3, <2>1
  <2>2. CASE /\ Admits(DeployTx(t)) /\ mempool' = Put(DeployTx(t))
             /\ task' = [task EXCEPT ![t].pc = "await"]
    <3>1. OrderedTx(DeployTx(t)) /\ Acct(t) \notin deployed /\ task[t].pc = "deploy"
      BY <1>4, <2>2, OrderedDeploy DEF BroadcastDeploy
    <3>2. PICK r : task' = [task EXCEPT ![t] = r] /\ r = [task[t] EXCEPT !.pc = "await"]
      BY <2>2
    <3>3. task'[t].pc = "await" /\ task'[t].call = task[t].call /\ task'[t].nonce = task[t].nonce
      BY <1>0, <3>2 DEF TaskRecords
    <3>4. OrderedTask(t)'
      BY <1>0, <1>1, <3>1, <3>3 DEF OrderedTask, Carrying
    <3> QED BY <1>1, <2>2, <3>1, <3>2, <3>4, OthersOrdered, SignerPut
  <2> QED BY <1>4, <2>1, <2>2 DEF BroadcastDeploy
<1>5. CASE BroadcastRegister(t)
  <2>1. CASE Reject(t) /\ UNCHANGED mempool
    BY <1>3, <2>1
  <2>2. CASE /\ Admits(RegisterTx(t)) /\ mempool' = Put(RegisterTx(t))
             /\ task' = [task EXCEPT ![t].pc = "submit", ![t].nonce = @ + 1]
    <3>1. /\ OrderedTx(RegisterTx(t))
          /\ Acct(t) \in deployed /\ task[t].nonce >= conf[Acct(t)]
      BY <1>5, <2>2, OrderedRegister DEF BroadcastRegister
    <3>2. PICK r : /\ task' = [task EXCEPT ![t] = r]
                   /\ r = [task[t] EXCEPT !.pc = "submit", !.nonce = @ + 1]
      BY <1>0, <2>2 DEF TaskRecords
    <3>3. /\ task'[t].pc = "submit" /\ task'[t].call = task[t].call
          /\ task'[t].nonce = task[t].nonce + 1
      BY <1>0, <3>2 DEF TaskRecords
    <3>4. OrderedTask(t)'
      BY <1>0, <1>1, <3>1, <3>3 DEF OrderedTask, Carrying
    <3> QED BY <1>1, <2>2, <3>1, <3>2, <3>4, OthersOrdered, SignerPut
  <2> QED BY <1>5, <2>1, <2>2 DEF BroadcastRegister
<1>6. CASE Submit(t)
  <2>0. OrderedTx(CallTx(t))
    BY <1>6, OrderedCall DEF Submit
  <2>1. CASE Reject(t) /\ UNCHANGED mempool
    BY <1>3, <2>1
  <2>2. CASE /\ mempool' = mempool \/ mempool' = Put(CallTx(t))
             /\ task' = [task EXCEPT ![t] = NoTask]
    <3>1. task'[t] = NoTask
      BY <1>0, <2>2
    <3>2. OrderedTask(t)'
      BY <3>1 DEF OrderedTask, Carrying, NoTask
    <3>3. \A u \in Tasks : OrderedTask(u)'
      BY <1>1, <2>2, <3>2, OthersOrdered
    <3> QED BY <1>1, <1>2, <2>0, <2>2, <3>3, SignerPut
  <2> QED BY <1>6, <2>1, <2>2 DEF Submit
<1>7. CASE RpcFails(t)
  <2>1. Reject(t)
    BY <1>7, Zenon DEF RpcFails
  <2>2. \/ UNCHANGED mempool
        \/ /\ task[t].pc = "deploy" /\ Admits(DeployTx(t))
           /\ mempool' = Put(DeployTx(t))
        \/ /\ task[t].pc = "register" /\ Admits(RegisterTx(t))
           /\ mempool' = Put(RegisterTx(t))
        \/ task[t].pc = "submit" /\ mempool' = Put(CallTx(t))
    BY <1>7, Zenon DEF RpcFails
  <2> QED BY <1>3, <2>1, <2>2, OrderedDeploy, OrderedRegister, OrderedCall
<1> QED BY <1>4, <1>5, <1>6, <1>7

-----------------------------------------------------------------------------
(* However many polls overlap, and whatever fails, is dropped or restarts: *)
(* on a pox-5 node a stake or stake-update is never mined before the       *)
(* register-self of its signer (pox5-signer-manager.ts:97-125).            *)
THEOREM SignerFirstHolds ==
    ASSUME STACKS_40_HEIGHT <= InitBurn
    PROVE  Spec => []SignerFirst
<1>1. TypeOK /\ SignerInv /\ [Next]_vars => SignerInv'
  <2> SUFFICES ASSUME TypeOK, SignerInv, [Next]_vars PROVE SignerInv'
    OBVIOUS
  <2>1. CASE UNCHANGED vars
    BY <2>1 DEF vars, nodeVars, stackerVars, SignerInv, Untouched, OrderedTx,
                OrderedTask, OneEach, SameSlot
  <2>2. CASE Next
    BY <2>2, SignerNode, SignerLoop, SignerReads, SignerSends DEF Next, Handler
  <2> QED BY <2>1, <2>2
<1> QED BY <1>1, SignerInit, SignerInvImplies, TypeCorrect, PTL DEF Spec

-----------------------------------------------------------------------------
(* Across the switch from pox-4 it is not the accounts' nonces that keep   *)
(* the order, for they are spent on pox-4 calls as well, but fees: as long *)
(* as a pox-4 call pays no more than a pox-5 one, a handler left over from *)
(* pox-4 cannot take the place of a pending register-self.  So behind a    *)
(* stake or stake-update of an unregistered signer its register-self       *)
(* waits, until it is mined.  A node that drops it breaks this.            *)
RegisterPending(a, n) ==
    \E tx \in mempool : /\ tx.acct = a /\ tx.nonce = n
                        /\ tx.call = "register" /\ tx.fee = CALL_FEE

Backed(a, n) == a \in registered \/ RegisterPending(a, n - 1)

BackedTx(tx) ==
    /\ tx.nonce >= conf[tx.acct]
    /\ tx.call = "register" => tx.acct \in deployed
    /\ tx.call \in {"stake", "update"} => Backed(tx.acct, tx.nonce)

BackedTask(t) ==
    /\ task[t].pc \in Heading => task[t].fee <= CALL_FEE /\ task[t].call # "register"
    /\ task[t].pc \in {"check", "register"} => Acct(t) \in deployed
    /\ task[t].pc = "submit" /\ task[t].call \in {"stake", "update"} =>
          Backed(Acct(t), task[t].nonce)

SwitchInv ==
    /\ lost = {}
    /\ \A tx \in mempool : BackedTx(tx)
    /\ \A t \in Tasks : BackedTask(t)
    /\ OneEach

LEMMA SwitchInvImplies == TypeOK /\ SwitchInv => SignerFirst
<1> SUFFICES ASSUME TypeOK, SwitchInv, NEW tx \in mempool,
                    tx.call \in {"stake", "update"}, tx.nonce = conf[tx.acct],
                    tx.acct \notin registered
             PROVE  FALSE
  BY DEF SignerFirst
<1>1. PICK m \in mempool : m.acct = tx.acct /\ m.nonce = tx.nonce - 1
  BY DEF SwitchInv, BackedTx, Backed, RegisterPending
<1>2. m.nonce >= conf[tx.acct] /\ tx.nonce \in Nat
  BY <1>1 DEF SwitchInv, BackedTx, TypeOK, NodeTypeOK, Transactions
<1> QED BY <1>1, <1>2

LEMMA SwitchInit == Init => SwitchInv
<1> SUFFICES ASSUME Init PROVE SwitchInv
  OBVIOUS
<1>1. lost = {} /\ mempool = {} /\ task = [t \in Tasks |-> NoTask]
  BY DEF Init, NodeInit, StackerInit
<1>2. NoTask.pc = "done"
  BY DEF NoTask
<1> QED BY <1>1, <1>2 DEF SwitchInv, BackedTask, OneEach, Heading, Carrying

(* What the rest needs of a step: who is registered stays so, and whoever  *)
(* is not keeps a pending register-self.                                   *)
BackingStays ==
    /\ registered \subseteq registered' /\ deployed \subseteq deployed'
    /\ \A a, n : Backed(a, n) => Backed(a, n)'

LEMMA BackedStays ==
    ASSUME NEW u \in Tasks, BackedTask(u), BackingStays,
           task'[u] = task[u] \/ task'[u].pc \notin Heading
    PROVE  BackedTask(u)'
<1>1. CASE task'[u] = task[u]
  <2>1. PICK a, n : a = Acct(u) /\ n = task[u].nonce /\ a = Acct(u)' /\ n = task'[u].nonce
    BY <1>1 DEF Acct
  <2>2. Backed(a, n) => Backed(a, n)'
    BY DEF BackingStays
  <2>3. Backed(Acct(u), task[u].nonce)' <=> Backed(a, n)'
    BY <2>1 DEF Backed, RegisterPending
  <2> QED BY <1>1, <2>1, <2>2, <2>3 DEF BackedTask, BackingStays
<1>2. CASE task'[u].pc \notin Heading
  BY <1>2 DEF BackedTask, Heading, Carrying
<1> QED BY <1>1, <1>2

(* Nothing takes the place of a pending register-self.                     *)
LEMMA BackingPut ==
    ASSUME SwitchInv, UNCHANGED <<deployed, registered>>, NEW x, Admits(x),
           x.fee \in Nat, x.fee <= CALL_FEE \/ x.call = "deploy",
           mempool' = Put(x)
    PROVE  BackingStays
<1>1. ASSUME NEW m \in mempool, m.call = "register", m.fee = CALL_FEE
      PROVE  m \in mempool'
  <2>1. m.acct \in deployed
    BY <1>1 DEF SwitchInv, BackedTx
  <2>2. CASE ~SameSlot(m, x)
    BY <2>2 DEF Put
  <2>3. CASE SameSlot(m, x)
    <3>1. m.fee < x.fee /\ x.call # "deploy"
      BY <2>1, <2>3 DEF Admits, SameSlot
    <3> QED BY <1>1, <3>1, StackerAssumption
  <2> QED BY <2>2, <2>3
<1>2. \A a, n : RegisterPending(a, n) => RegisterPending(a, n)'
  BY <1>1 DEF RegisterPending
<1> QED BY <1>2 DEF BackingStays, Backed

(* A step of the handlers: it sends nothing, or something in its place.    *)
LEMMA SwitchStep ==
    ASSUME SwitchInv, UNCHANGED <<conf, deployed, registered, lost>>,
           \/ UNCHANGED mempool
           \/ \E x : /\ Admits(x) /\ x.fee \in Nat /\ BackedTx(x)
                     /\ x.fee <= CALL_FEE \/ x.call = "deploy"
                     /\ mempool' = Put(x),
           BackingStays => \A u \in Tasks : BackedTask(u)'
    PROVE  SwitchInv'
<1>1. CASE UNCHANGED mempool
  <2>1. \A a, n : Backed(a, n)' <=> Backed(a, n)
    BY <1>1 DEF Backed, RegisterPending
  <2>2. \A u \in Tasks : BackedTask(u)'
    BY <2>1 DEF BackingStays
  <2>3. \A tx \in mempool' : BackedTx(tx)'
    BY <1>1, <2>1 DEF SwitchInv, BackedTx
  <2> QED BY <1>1, <2>2, <2>3 DEF SwitchInv, OneEach, SameSlot
<1>2. ASSUME NEW x, Admits(x), x.fee \in Nat, BackedTx(x),
             x.fee <= CALL_FEE \/ x.call = "deploy", mempool' = Put(x)
      PROVE  SwitchInv'
  <2>1. BackingStays
    BY <1>2, BackingPut
  <2>2. \A m \in mempool' : m = x \/ (m \in mempool /\ ~SameSlot(m, x))
    BY <1>2 DEF Put
  <2>3. \A tx \in mempool' : BackedTx(tx)'
    BY <1>2, <2>1, <2>2 DEF SwitchInv, BackedTx, BackingStays
  <2>4. OneEach'
    BY <2>2 DEF SwitchInv, OneEach, SameSlot
  <2> QED BY <2>1, <2>3, <2>4 DEF SwitchInv
<1> QED BY <1>1, <1>2

(* Mining a register-self registers its account.                           *)
LEMMA SwitchMines ==
    ASSUME TypeOK, SwitchInv, NEW x \in mempool, Mine(x), UNCHANGED task
    PROVE  SwitchInv'
<1>0. /\ x.acct \in Accounts /\ x.nonce = conf[x.acct] /\ conf \in [Accounts -> Nat]
      /\ BackedTx(x)
  BY DEF TypeOK, NodeTypeOK, Transactions, Mine, SwitchInv
<1>1. /\ conf' = [conf EXCEPT ![x.acct] = @ + 1]
      /\ mempool' = mempool \ {x} /\ lost' = lost
  BY Zenon DEF Mine
<1>2. registered \subseteq registered' /\ deployed \subseteq deployed'
  BY DEF Mine
<1>3. x.call = "register" => x.acct \in registered'
  <2> SUFFICES ASSUME x.call = "register" PROVE x.acct \in registered'
    OBVIOUS
  <2>1. Succeeds(x) /\ x.acct \in deployed
    BY <1>0 DEF Succeeds, BackedTx
  <2>2. Outcomes(x) = {TRUE}
    BY <2>1 DEF Outcomes
  <2> QED BY <2>1, <2>2 DEF Mine
<1>4. BackingStays
  <2>1. ASSUME NEW a, NEW n, RegisterPending(a, n)
        PROVE  a \in registered' \/ RegisterPending(a, n)'
    BY <1>1, <1>3, <2>1 DEF RegisterPending
  <2> QED BY <1>2, <2>1 DEF BackingStays, Backed
<1>5. \A u \in Tasks : BackedTask(u)'
  BY <1>4, BackedStays DEF SwitchInv
<1>6. OneEach'
  BY <1>1 DEF SwitchInv, OneEach, SameSlot
<1>7. \A tx \in mempool' : BackedTx(tx)'
  <2> SUFFICES ASSUME NEW tx \in mempool' PROVE BackedTx(tx)'
    OBVIOUS
  <2>1. tx \in mempool /\ tx # x /\ BackedTx(tx) /\ tx.acct \in Accounts /\ tx.nonce \in Nat
    BY <1>1 DEF SwitchInv, TypeOK, NodeTypeOK, Transactions
  <2>2. tx.acct = x.acct => tx.nonce # conf[x.acct]
    BY <1>0, <2>1 DEF SwitchInv, OneEach, SameSlot
  <2>3. tx.nonce >= conf'[tx.acct]
    BY <1>0, <1>1, <2>1, <2>2 DEF BackedTx
  <2> QED BY <1>4, <2>1, <2>3 DEF BackedTx, BackingStays
<1> QED BY <1>1, <1>5, <1>6, <1>7 DEF SwitchInv

LEMMA SwitchNode ==
    ASSUME MaxLost = 0, TypeOK, SwitchInv, Environment
    PROVE  SwitchInv'
<1>0. UNCHANGED task
  BY DEF Environment, stackerVars
<1>1. ASSUME NEW x \in mempool, Mine(x) PROVE SwitchInv'
  BY <1>0, <1>1, SwitchMines
<1>2. ASSUME NEW x \in mempool, Lose(x) PROVE FALSE
  <2>1. Cardinality(lost) = 0
    BY FS_EmptySet DEF SwitchInv
  <2> QED BY <1>2, <2>1 DEF Lose
<1>3. CASE BurnBlock \/ ThresholdMoves
  <2>1. UNCHANGED <<conf, deployed, registered, lost, mempool>>
    BY <1>3 DEF BurnBlock, ThresholdMoves
  <2>2. BackingStays => \A u \in Tasks : BackedTask(u)'
    BY <1>0, BackedStays DEF SwitchInv
  <2> QED BY <2>1, <2>2, SwitchStep
<1> QED
  BY <1>1, <1>2, <1>3 DEF Environment, NodeNext, MineNext, LoseNext

LEMMA SwitchLoop ==
    ASSUME TypeOK, SwitchInv, Loop \/ Restart
    PROVE  SwitchInv'
<1>1. UNCHANGED <<conf, deployed, registered, lost, mempool>>
  BY DEF Loop, Restart, waitForSetup, SkipRun, SettleRun, PostWaitEnds,
         BeginRun, nodeVars
<1>2. NoTask.pc \notin Heading /\ [NoTask EXCEPT !.pc = "status"].pc \notin Heading
  BY DEF NoTask, Heading, Carrying
<1>3. ASSUME NEW u \in Tasks PROVE task'[u] = task[u] \/ task'[u].pc \notin Heading
  <2>1. CASE task' = task
    BY <2>1
  <2>2. ASSUME NEW p \in Polls, BeginRun(p)
        PROVE  task'[u] = task[u] \/ task'[u].pc \notin Heading
    <3>1. task'[u] = task[u] \/ task'[u] = [NoTask EXCEPT !.pc = "status"]
      BY <2>2 DEF BeginRun
    <3> QED BY <1>2, <3>1
  <2>3. CASE Restart
    BY <1>2, <2>3 DEF Restart
  <2> QED
    BY <2>1, <2>2, <2>3 DEF Loop, waitForSetup, SkipRun, SettleRun, PostWaitEnds
<1>4. BackingStays => \A u \in Tasks : BackedTask(u)'
  BY <1>3, BackedStays DEF SwitchInv
<1> QED BY <1>1, <1>4, SwitchStep

(* A handler that throws, or takes a step of its own.                      *)
LEMMA SwitchRejects ==
    ASSUME TypeOK, SwitchInv, NEW t \in Tasks, Reject(t),
           UNCHANGED <<conf, deployed, registered, lost>>,
           \/ UNCHANGED mempool
           \/ \E x : /\ Admits(x) /\ x.fee \in Nat /\ BackedTx(x)
                     /\ x.fee <= CALL_FEE \/ x.call = "deploy"
                     /\ mempool' = Put(x)
    PROVE  SwitchInv'
<1>1. NoTask.pc \notin Heading
  BY DEF NoTask, Heading, Carrying
<1>2. \A u \in Tasks : task'[u] = task[u] \/ task'[u] = NoTask
  BY DEF Reject, TypeOK, StackerTypeOK
<1>3. BackingStays => \A u \in Tasks : BackedTask(u)'
  BY <1>1, <1>2, BackedStays DEF SwitchInv
<1> QED BY <1>3, SwitchStep

LEMMA SwitchMoves ==
    ASSUME TypeOK, SwitchInv, NEW t \in Tasks, NEW r, task' = [task EXCEPT ![t] = r],
           UNCHANGED <<conf, deployed, registered, lost>>,
           \/ UNCHANGED mempool
           \/ \E x : /\ Admits(x) /\ x.fee \in Nat /\ BackedTx(x)
                     /\ x.fee <= CALL_FEE \/ x.call = "deploy"
                     /\ mempool' = Put(x),
           r = task'[t] /\ BackingStays => BackedTask(t)'
    PROVE  SwitchInv'
<1>1. task'[t] = r /\ \A u \in Tasks : u # t => task'[u] = task[u]
  BY DEF TypeOK, StackerTypeOK
<1>2. BackingStays => \A u \in Tasks : BackedTask(u)'
  BY <1>1, BackedStays DEF SwitchInv
<1> QED BY <1>2, SwitchStep

(* The handlers that only read.                                            *)
LEMMA SwitchDecides ==
    ASSUME MaxTxFee <= CALL_FEE, TypeOK, SwitchInv, NEW t \in Tasks,
           DecidePox5(t) \/ DecidePox4(t)
    PROVE  SwitchInv'
<1>1. UNCHANGED <<conf, deployed, registered, lost, mempool>>
  BY DEF DecidePox5, DecidePox4, nodeVars
<1>2. \/ Reject(t) \/ task' = [task EXCEPT ![t] = NoTask]
      \/ \E call \in {"stake", "update", "stack", "extend"} : \E fee, amount :
            Settle(t, call, fee, amount) /\ fee <= CALL_FEE
  <2>1. CASE DecidePox5(t)
    <3>1. CALL_FEE <= CALL_FEE
      BY StackerAssumption
    <3> QED BY <2>1, <3>1, Zenon DEF DecidePox5, StartLocking
  <2>2. CASE DecidePox4(t)
    <3>1. startTxFee < MaxTxFee
      BY <2>2, Zenon DEF DecidePox4
    <3>2. startTxFee \in Nat /\ MaxTxFee \in Nat /\ CALL_FEE \in Nat
      BY StackerAssumption DEF TypeOK, StackerTypeOK
    <3>3. startTxFee <= CALL_FEE
      BY <3>1, <3>2
    <3> QED BY <2>2, <3>3, Zenon DEF DecidePox4, StartLocking
  <2> QED BY <2>1, <2>2
<1>3. CASE Reject(t)
  BY <1>1, <1>3, SwitchRejects
<1>4. CASE task' = [task EXCEPT ![t] = NoTask]
  <2>1. NoTask.pc \notin Heading
    BY DEF NoTask, Heading, Carrying
  <2>2. NoTask = task'[t] => BackedTask(t)'
    BY <2>1 DEF BackedTask, Heading, Carrying
  <2> QED BY <1>1, <1>4, <2>2, SwitchMoves
<1>5. ASSUME NEW call \in {"stake", "update", "stack", "extend"}, NEW fee, NEW amount,
             Settle(t, call, fee, amount), fee <= CALL_FEE
      PROVE  SwitchInv'
  <2> DEFINE r == [NoTask EXCEPT !.pc = "nonce", !.call = call,
                                 !.fee = fee, !.amount = amount]
  <2>1. task' = [task EXCEPT ![t] = r]
    BY <1>5 DEF Settle
  <2>2. r.pc = "nonce" /\ r.call = call /\ r.fee = fee
    BY DEF NoTask
  <2> HIDE DEF r
  <2>3. r = task'[t] => BackedTask(t)'
    BY <1>5, <2>2 DEF BackedTask
  <2> QED BY <1>1, <2>1, <2>3, SwitchMoves
<1> QED BY <1>2, <1>3, <1>4, <1>5

LEMMA SwitchReads ==
    ASSUME TypeOK, SwitchInv, NEW t \in Tasks,
           \/ ReadStatus(t) \/ GetNonce(t) \/ ContractExists(t)
           \/ CheckRegistered(t) \/ WaitForContract(t)
    PROVE  SwitchInv'
<1>0. /\ task \in [Tasks -> TaskRecords] /\ task[t] \in TaskRecords
      /\ BackedTask(t) /\ Acct(t)' = Acct(t)
  BY DEF TypeOK, StackerTypeOK, Acct, SwitchInv
<1>1. UNCHANGED <<conf, deployed, registered, lost, mempool>>
  BY DEF ReadStatus, GetNonce, ContractExists, CheckRegistered, WaitForContract, nodeVars
<1>2. ASSUME NEW r, task' = [task EXCEPT ![t] = r], task[t].pc \in Heading,
             r.fee = task[t].fee, r.call = task[t].call,
             r.pc \in {"check", "register"} => Acct(t) \in deployed,
             r.pc = "submit" /\ r.call \in {"stake", "update"} => Acct(t) \in registered
      PROVE  SwitchInv'
  <2>1. r = task'[t] => BackedTask(t)'
    BY <1>0, <1>1, <1>2 DEF BackedTask, Backed
  <2> QED BY <1>1, <1>2, <2>1, SwitchMoves
<1>3. CASE ReadStatus(t)
  <2>1. PICK r : /\ task' = [task EXCEPT ![t] = r]
                 /\ r = [task[t] EXCEPT !.pc = "ready", !.locked = lock[Acct(t)] # Unlocked,
                                        !.unlock = lock[Acct(t)].unlock]
    BY <1>0, <1>3 DEF ReadStatus, TaskRecords
  <2>2. r.pc = "ready"
    BY <1>0, <2>1 DEF TaskRecords
  <2>3. r = task'[t] => BackedTask(t)'
    BY <2>2 DEF BackedTask, Heading, Carrying
  <2> QED BY <1>1, <2>1, <2>3, SwitchMoves
<1>4. CASE GetNonce(t)
  <2>1. PICK r : /\ task' = [task EXCEPT ![t] = r]
                 /\ r = [task[t] EXCEPT !.nonce = conf[Acct(t)],
                            !.pc = IF task[t].call \in {"stake", "update"}
                                   THEN "exists" ELSE "submit"]
    BY <1>0, <1>4 DEF GetNonce, getNonce, TaskRecords
  <2>2. /\ r.pc = IF task[t].call \in {"stake", "update"} THEN "exists" ELSE "submit"
        /\ r.call = task[t].call /\ r.fee = task[t].fee
    BY <1>0, <2>1 DEF TaskRecords
  <2>3. task[t].pc \in Heading
    BY <1>4 DEF GetNonce, Heading
  <2>4. /\ r.pc \notin {"check", "register"}
        /\ ~(r.pc = "submit" /\ r.call \in {"stake", "update"})
    BY <2>2
  <2> QED BY <1>2, <2>1, <2>2, <2>3, <2>4
<1>5. CASE ContractExists(t) \/ CheckRegistered(t)
  <2>1. PICK pc \in {"check", "deploy", "submit", "register"} :
          /\ task' = [task EXCEPT ![t].pc = pc]
          /\ pc = "check" => Acct(t) \in deployed
          /\ pc = "register" => task[t].pc = "check"
          /\ pc = "submit" => Acct(t) \in registered
    BY <1>5 DEF ContractExists, CheckRegistered, signerRegistered
  <2>2. PICK r : task' = [task EXCEPT ![t] = r] /\ r = [task[t] EXCEPT !.pc = pc]
    BY <2>1
  <2>3. r.pc = pc /\ r.call = task[t].call /\ r.fee = task[t].fee
    BY <1>0, <2>2 DEF TaskRecords
  <2>4. task[t].pc \in Heading
    BY <1>5 DEF ContractExists, CheckRegistered, Heading, Carrying
  <2>5. r.pc \in {"check", "register"} => Acct(t) \in deployed
    BY <1>0, <2>1, <2>3 DEF BackedTask
  <2> QED BY <1>2, <2>1, <2>2, <2>3, <2>4, <2>5
<1>6. CASE WaitForContract(t)
  <2>1. CASE Reject(t)
    BY <1>1, <2>1, SwitchRejects
  <2>2. CASE Acct(t) \in deployed /\ task' = [task EXCEPT ![t].pc = "check", ![t].nonce = @ + 1]
    <3>1. PICK r : /\ task' = [task EXCEPT ![t] = r]
                   /\ r = [task[t] EXCEPT !.pc = "check", !.nonce = @ + 1]
      BY <1>0, <2>2 DEF TaskRecords
    <3>2. r.pc = "check" /\ r.call = task[t].call /\ r.fee = task[t].fee
      BY <1>0, <3>1 DEF TaskRecords
    <3>3. task[t].pc \in Heading
      BY <1>6 DEF WaitForContract, Heading, Carrying
    <3> QED BY <1>2, <2>2, <3>1, <3>2, <3>3
  <2> QED BY <1>6, <2>1, <2>2 DEF WaitForContract
<1> QED BY <1>3, <1>4, <1>5, <1>6

(* What the handlers broadcast is backed.                                  *)
LEMMA BackedSent ==
    ASSUME TypeOK, SwitchInv, NEW t \in Tasks
    PROVE  /\ task[t].pc = "deploy" /\ Admits(DeployTx(t)) =>
                BackedTx(DeployTx(t)) /\ DeployTx(t).fee \in Nat /\ DeployTx(t).call = "deploy"
           /\ task[t].pc = "register" /\ Admits(RegisterTx(t)) =>
                /\ BackedTx(RegisterTx(t)) /\ RegisterTx(t).fee = CALL_FEE
                /\ RegisterTx(t).call = "register"
           /\ task[t].pc = "submit" /\ Admits(CallTx(t)) =>
                BackedTx(CallTx(t)) /\ CallTx(t).fee \in Nat /\ CallTx(t).fee <= CALL_FEE
<1>1. /\ DeployTx(t).call = "deploy" /\ RegisterTx(t).call = "register"
      /\ CallTx(t).call = task[t].call
      /\ DeployTx(t).fee = DEPLOY_FEE /\ RegisterTx(t).fee = CALL_FEE
      /\ CallTx(t).fee = task[t].fee
  BY DEF DeployTx, RegisterTx, CallTx, TxOf
<1>2. BackedTask(t) /\ task[t].fee \in Nat
  BY DEF SwitchInv, TypeOK, StackerTypeOK, TaskRecords
<1>3. CASE task[t].pc = "deploy" /\ Admits(DeployTx(t))
  BY <1>1, <1>3, StackerAssumption DEF Admits, BackedTx
<1>4. CASE task[t].pc = "register" /\ Admits(RegisterTx(t))
  BY <1>1, <1>2, <1>4, TxFields DEF Admits, BackedTx, BackedTask
<1>5. CASE task[t].pc = "submit" /\ Admits(CallTx(t))
  BY <1>1, <1>2, <1>5, TxFields DEF Admits, BackedTx, BackedTask, Heading, Carrying
<1> QED BY <1>3, <1>4, <1>5

LEMMA SwitchSends ==
    ASSUME TypeOK, SwitchInv, NEW t \in Tasks,
           BroadcastDeploy(t) \/ BroadcastRegister(t) \/ Submit(t) \/ RpcFails(t)
    PROVE  SwitchInv'
<1>0. /\ task \in [Tasks -> TaskRecords] /\ task[t] \in TaskRecords
      /\ BackedTask(t) /\ Acct(t)' = Acct(t) /\ task[t].nonce \in Nat
  BY DEF TypeOK, StackerTypeOK, Acct, SwitchInv, TaskRecords
<1>fees. CALL_FEE <= CALL_FEE /\ CALL_FEE \in Nat
  BY StackerAssumption
<1>1. UNCHANGED <<conf, deployed, registered, lost>>
  BY DEF BroadcastDeploy, BroadcastRegister, Submit, RpcFails
<1>2. CASE BroadcastDeploy(t)
  <2>1. CASE Reject(t) /\ UNCHANGED mempool
    BY <1>1, <2>1, SwitchRejects
  <2>2. CASE /\ Admits(DeployTx(t)) /\ mempool' = Put(DeployTx(t))
             /\ task' = [task EXCEPT ![t].pc = "await"]
    <3>1. BackedTx(DeployTx(t)) /\ DeployTx(t).fee \in Nat /\ DeployTx(t).call = "deploy"
      BY <1>2, <2>2, BackedSent DEF BroadcastDeploy
    <3>2. PICK r : task' = [task EXCEPT ![t] = r] /\ r = [task[t] EXCEPT !.pc = "await"]
      BY <2>2
    <3>3. r.pc = "await" /\ r.call = task[t].call /\ r.fee = task[t].fee
      BY <1>0, <3>2 DEF TaskRecords
    <3>4. r = task'[t] => BackedTask(t)'
      BY <1>0, <1>2, <3>3 DEF BackedTask, BroadcastDeploy, Heading, Carrying
    <3> QED BY <1>1, <2>2, <3>1, <3>2, <3>4, SwitchMoves
  <2> QED BY <1>2, <2>1, <2>2 DEF BroadcastDeploy
<1>3. CASE BroadcastRegister(t)
  <2>1. CASE Reject(t) /\ UNCHANGED mempool
    BY <1>1, <2>1, SwitchRejects
  <2>2. CASE /\ Admits(RegisterTx(t)) /\ mempool' = Put(RegisterTx(t))
             /\ task' = [task EXCEPT ![t].pc = "submit", ![t].nonce = @ + 1]
    <3>1. /\ BackedTx(RegisterTx(t)) /\ RegisterTx(t).fee = CALL_FEE
          /\ RegisterTx(t).call = "register"
      BY <1>3, <2>2, BackedSent DEF BroadcastRegister
    <3>2. PICK r : /\ task' = [task EXCEPT ![t] = r]
                   /\ r = [task[t] EXCEPT !.pc = "submit", !.nonce = @ + 1]
      BY <1>0, <2>2 DEF TaskRecords
    <3>3. /\ r.pc = "submit" /\ r.call = task[t].call /\ r.fee = task[t].fee
          /\ r.nonce = task[t].nonce + 1
      BY <1>0, <3>2 DEF TaskRecords
    <3>4. RegisterTx(t) \in mempool' /\ r.nonce - 1 = task[t].nonce
      BY <1>0, <2>2, <3>3 DEF Put
    <3>5. RegisterPending(Acct(t), r.nonce - 1)'
      BY <3>1, <3>4, TxFields DEF RegisterPending
    <3>6. r = task'[t] => BackedTask(t)'
      BY <1>0, <1>3, <3>3, <3>5
         DEF BackedTask, Backed, RegisterPending, BroadcastRegister, Heading, Carrying
    <3> QED BY <1>1, <1>fees, <2>2, <3>1, <3>2, <3>6, SwitchMoves
  <2> QED BY <1>3, <2>1, <2>2 DEF BroadcastRegister
<1>4. CASE Submit(t)
  <2>1. CASE Reject(t) /\ UNCHANGED mempool
    BY <1>1, <2>1, SwitchRejects
  <2>2. CASE /\ task' = [task EXCEPT ![t] = NoTask]
             /\ mempool' = IF Admits(CallTx(t)) THEN Put(CallTx(t)) ELSE mempool
    <3>1. NoTask.pc \notin Heading
      BY DEF NoTask, Heading, Carrying
    <3>2. NoTask = task'[t] => BackedTask(t)'
      BY <3>1 DEF BackedTask, Heading, Carrying
    <3>3. \/ UNCHANGED mempool
          \/ /\ Admits(CallTx(t)) /\ mempool' = Put(CallTx(t))
             /\ BackedTx(CallTx(t)) /\ CallTx(t).fee \in Nat /\ CallTx(t).fee <= CALL_FEE
      BY <1>4, <2>2, BackedSent DEF Submit
    <3> QED BY <1>1, <2>2, <3>2, <3>3, SwitchMoves
  <2> QED BY <1>4, <2>1, <2>2 DEF Submit
<1>5. CASE RpcFails(t)
  <2>1. Reject(t)
    BY <1>5, Zenon DEF RpcFails
  <2>2. \/ UNCHANGED mempool
        \/ /\ task[t].pc = "deploy" /\ Admits(DeployTx(t))
           /\ mempool' = Put(DeployTx(t))
        \/ /\ task[t].pc = "register" /\ Admits(RegisterTx(t))
           /\ mempool' = Put(RegisterTx(t))
        \/ /\ task[t].pc = "submit" /\ Admits(CallTx(t))
           /\ mempool' = Put(CallTx(t))
    BY <1>5, Zenon DEF RpcFails
  <2>3. \/ UNCHANGED mempool
        \/ \E x : /\ Admits(x) /\ x.fee \in Nat /\ BackedTx(x)
                  /\ x.fee <= CALL_FEE \/ x.call = "deploy"
                  /\ mempool' = Put(x)
    BY <1>fees, <2>2, BackedSent
  <2> QED BY <1>1, <2>1, <2>3, SwitchRejects
<1> QED BY <1>2, <1>3, <1>4, <1>5

-----------------------------------------------------------------------------
(* The same where the node goes from pox-4 to pox-5 while handlers of      *)
(* earlier polls live on: a stake is never mined before the register-self  *)
(* of its signer, if the node drops no transaction and a pox-4 call pays   *)
(* no more than a pox-5 one (startTxFee and POX_5_CALL_FEE,                *)
(* stacking.ts:32 and 27).                                                 *)
THEOREM SignerFirstAcrossSwitch ==
    ASSUME MaxLost = 0, MaxTxFee <= CALL_FEE
    PROVE  Spec => []SignerFirst
<1>1. TypeOK /\ SwitchInv /\ [Next]_vars => SwitchInv'
  <2> SUFFICES ASSUME TypeOK, SwitchInv, [Next]_vars PROVE SwitchInv'
    OBVIOUS
  <2>1. CASE UNCHANGED vars
    <3>1. UNCHANGED <<conf, deployed, registered, lost, mempool, task>>
      BY <2>1 DEF vars, nodeVars, stackerVars
    <3>2. BackingStays => \A u \in Tasks : BackedTask(u)'
      BY <3>1, BackedStays DEF SwitchInv
    <3> QED BY <3>1, <3>2, SwitchStep
  <2>2. CASE Next
    BY <2>2, SwitchNode, SwitchLoop, SwitchDecides, SwitchReads, SwitchSends
       DEF Next, Handler
  <2> QED BY <2>1, <2>2
<1> QED BY <1>1, SwitchInit, SwitchInvImplies, TypeCorrect, PTL DEF Spec
=============================================================================
