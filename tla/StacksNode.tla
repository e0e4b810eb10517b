----------------------------- MODULE StacksNode -----------------------------
(***************************************************************************)
(* The Stacks node as the stacker sees it through RPC.  The node is not in *)
(* the repository: this module is the environment that stacking.ts,        *)
(* pox5.ts and pox5-signer-manager.ts rely on.  It holds the burn height,  *)
(* the stacking threshold, the accounts' confirmed nonces and locks, the   *)
(* signer-manager contracts and the mempool, which mines an account's      *)
(* transactions in nonce order and may lose a transaction.                 *)
(***************************************************************************)
EXTENDS PoxCalendar, FiniteSets

CONSTANTS
    Accounts,           \* the stacking accounts of STACKING_KEYS
    StackingCycles,     \* STACKING_CYCLES, the length of a stack or extend
    InitBurn, MaxBurn,  \* first burn height of the model, and bound on it
    STACKS_25_HEIGHT,   \* pox-4 is the active PoX contract from here on
    STACKS_40_HEIGHT,   \* pox-5 is the active PoX contract from here on
    Thresholds,         \* values of next_cycle.min_threshold_ustx
    MaxLost             \* bound: transactions the mempool may drop

ASSUME NodeAssumption ==
    /\ StackingCycles \in Nat \ {0}
    /\ InitBurn \in Nat /\ MaxBurn \in Nat /\ InitBurn <= MaxBurn
    /\ STACKS_25_HEIGHT \in Nat /\ STACKS_40_HEIGHT \in Nat
    /\ Thresholds \subseteq Nat \ {0}
    /\ MaxLost \in Nat

VARIABLES
    burn,           \* current_burnchain_block_height
    threshold,      \* next_cycle.min_threshold_ustx
    conf,           \* account -> its confirmed next nonce, what getNonce returns
    mempool,        \* pending transactions
    deployed,       \* accounts whose signer-manager contract exists
    registered,     \* accounts whose signer is registered with pox-5
    lock,           \* account -> its locked STX
    lost            \* history: <<account, nonce>> of dropped transactions

nodeVars == <<burn, threshold, conf, mempool, deployed, registered, lock, lost>>

Heights == InitBurn..MaxBurn
Cycles == {RewardCycleId(h) + 1 : h \in Heights}

Calls == {"deploy", "register", "stake", "update", "stack", "extend"}
Transactions ==
    [acct : Accounts, nonce : Nat, fee : Nat, call : Calls,
     amount : Nat, cycle : Nat]

(* pox5 tells which contract holds the lock, first is its first cycle.     *)
Unlocked == [amount |-> 0, unlock |-> 0, pox5 |-> FALSE, first |-> 0]
Locks == {Unlocked} \cup
    [amount : Nat, unlock : Nat, pox5 : BOOLEAN, first : Cycles]

(* contract_id of /v2/pox at a burn height.                                *)
poxContract(h) ==
    IF h >= STACKS_40_HEIGHT THEN "pox-5"
    ELSE IF h >= STACKS_25_HEIGHT THEN "pox-4" ELSE "pox-3"

NodeTypeOK ==
    /\ burn \in Heights
    /\ threshold \in Thresholds
    /\ conf \in [Accounts -> Nat]
    /\ mempool \subseteq Transactions
    /\ deployed \subseteq Accounts
    /\ registered \subseteq Accounts
    /\ lock \in [Accounts -> Locks]
    /\ lost \subseteq Accounts \X Nat

NodeInit ==
    /\ burn = InitBurn
    /\ threshold \in Thresholds
    /\ conf = [a \in Accounts |-> 0]
    /\ mempool = {}
    /\ deployed = {} /\ registered = {}
    /\ lock = [a \in Accounts |-> Unlocked]
    /\ lost = {}

-----------------------------------------------------------------------------
(* The mempool takes a transaction whose nonce is not used up; one that is *)
(* pending at the same nonce is replaced only by a higher fee; a contract  *)
(* that exists cannot be deployed again.                                   *)
SameSlot(m, tx) == m.acct = tx.acct /\ m.nonce = tx.nonce

Admits(tx) ==
    /\ tx.nonce >= conf[tx.acct]
    /\ \A m \in mempool : SameSlot(m, tx) => m.fee < tx.fee
    /\ tx.call = "deploy" => tx.acct \notin deployed

Put(tx) == {m \in mempool : ~SameSlot(m, tx)} \cup {tx}

(* pox-4 and pox-5 take a call only in the cycle it was signed for; a      *)
(* stake needs a registered signer and no pox-5 stake, an update needs a   *)
(* pox-5 stake, a stack an unlocked account, an extend a pox-4 lock.       *)
Succeeds(tx) ==
    LET a == tx.acct
        thisCycle == tx.cycle = RewardCycleId(burn)
    IN  /\ tx.call \in {"stake", "update"} =>
              poxContract(burn) = "pox-5" /\ a \in registered
        /\ tx.call \in {"stack", "extend"} =>
              poxContract(burn) = "pox-4" /\ thisCycle
        /\ tx.call = "stake"  => thisCycle /\ ~lock[a].pox5
        /\ tx.call = "update" => lock[a].pox5
        /\ tx.call = "stack"  => lock[a] = Unlocked
        /\ tx.call = "extend" => lock[a] # Unlocked

(* Whether pox-5 takes a call in its prepare phase is left open.           *)
Outcomes(tx) ==
    IF tx.call \in {"stake", "update"} /\ isPreparePhase(burn)
    THEN {FALSE, Succeeds(tx)} ELSE {Succeeds(tx)}

NewLock(tx) ==
    [amount |-> tx.amount,
     unlock |-> (tx.cycle + 1 + StackingCycles) * POX_REWARD_LENGTH,
     pox5   |-> tx.call = "stake",
     first  |-> tx.cycle + 1]

LockAfter(tx) ==
    IF tx.call \in {"stake", "stack"} THEN NewLock(tx)
    ELSE [lock[tx.acct] EXCEPT !.unlock = @ + StackingCycles * POX_REWARD_LENGTH]

(* A Stacks block takes in the next transaction of an account.             *)
Mine(tx) ==
    /\ tx.nonce = conf[tx.acct]
    /\ conf' = [conf EXCEPT ![tx.acct] = @ + 1]
    /\ mempool' = mempool \ {tx}
    /\ \E ok \in Outcomes(tx) :
        /\ deployed' = IF ok /\ tx.call = "deploy"
                       THEN deployed \cup {tx.acct} ELSE deployed
        /\ registered' = IF ok /\ tx.call = "register" /\ tx.acct \in deployed
                         THEN registered \cup {tx.acct} ELSE registered
        /\ lock' = IF ok /\ tx.call \notin {"deploy", "register"}
                   THEN [lock EXCEPT ![tx.acct] = LockAfter(tx)] ELSE lock
    /\ UNCHANGED <<burn, threshold, lost>>

(* The mempool drops a transaction, as when a node restarts.               *)
Lose(tx) ==
    /\ Cardinality(lost) < MaxLost
    /\ mempool' = mempool \ {tx}
    /\ lost' = lost \cup {<<tx.acct, tx.nonce>>}
    /\ UNCHANGED <<burn, threshold, conf, deployed, registered, lock>>

(* A Bitcoin block arrives; locks that reach their height are released.    *)
BurnBlock ==
    /\ burn < MaxBurn
    /\ burn' = burn + 1
    /\ lock' = [a \in Accounts |->
                  IF lock[a].unlock <= burn + 1 THEN Unlocked ELSE lock[a]]
    /\ UNCHANGED <<threshold, conf, mempool, deployed, registered, lost>>

(* The participation-based threshold moves as accounts stack.              *)
ThresholdMoves ==
    /\ threshold' \in Thresholds \ {threshold}
    /\ UNCHANGED <<burn, conf, mempool, deployed, registered, lock, lost>>

MineNext == \E tx \in mempool : Mine(tx)
LoseNext == \E tx \in mempool : Lose(tx)
NodeNext == MineNext \/ LoseNext \/ BurnBlock \/ ThresholdMoves
=============================================================================
