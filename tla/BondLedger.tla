----------------------------- MODULE BondLedger -----------------------------
(***************************************************************************)
(* The Stacks chain as pox5-setup and bitcoin-staking see it through RPC,  *)
(* with the pox-5 contract and the mock sBTC token.  The node and pox-5    *)
(* are not in the repository: this is the environment the two services     *)
(* rely on.  All transactions of an account carry the same fee (a deploy   *)
(* and a setup-bond 3000000, a mint and a register-for-bond 10000), so the *)
(* mempool never replaces one.                                             *)
(***************************************************************************)
EXTENDS PoxCalendar

CONSTANTS
    NumParticipants,        \* accounts of BITCOIN_STAKING_KEYS, numbered from 1
    Deployer, BondAdmin,    \* POX_5_DEPLOYER, POX_5_BOND_ADMIN: one account by default
    AmountSats,             \* BITCOIN_STAKING_AMOUNT_SATS
    InitialSbtc,            \* participant -> sBTC it holds at the start
    MaxBurn,                \* bound on the burn height
    STACKS_40_HEIGHT,       \* Epoch 4.0: pox-5 is the active contract from here on
    BondZero, BondPeriod,   \* start of bond 0, blocks from one bond to the next
    OtherBonds,             \* bound: bonds that somebody else may set up
    MaxLost,                \* bound: transactions the mempool may drop
    MaxFaults,              \* bound: failing RPC calls
    MaxRestarts             \* bound: restarts of the two containers

Participants == 1..NumParticipants
Accounts == Participants \cup {Deployer, BondAdmin}

ASSUME LedgerAssumption ==
    /\ NumParticipants \in Nat \ {0}
    /\ Deployer \notin Participants /\ BondAdmin \notin Participants
    /\ AmountSats \in Nat \ {0}
    /\ InitialSbtc \in [Participants -> 0..AmountSats]
    /\ MaxBurn \in Nat /\ STACKS_40_HEIGHT \in Nat
    /\ BondZero \in Nat /\ BondPeriod \in Nat \ {0}
    /\ OtherBonds \subseteq Nat
    /\ MaxLost \in Nat /\ MaxFaults \in Nat /\ MaxRestarts \in Nat

VARIABLES
    burn,           \* current_burnchain_block_height
    conf,           \* account -> its confirmed next nonce, what getNonce returns
    pending,        \* the transactions in the mempool
    deployed,       \* contracts that exist
    late,           \* history: contracts that came to exist in Epoch 4.0
    ours,           \* bonds set up with the participants in the allowlist
    others,         \* bonds set up by somebody else with the admin's key
    sentOthers,     \* history: bonds somebody else has sent a setup-bond for
    sbtc,           \* participant -> its balance of mock sBTC
    member,         \* participant -> the bond it registered for, or NoBond
    signers,        \* all signer managers are registered with pox-5
    lost, faults, restarts

(* What only the chain changes, by mining or with a burn block.            *)
chainVars == <<burn, conf, deployed, late, ours, others, sentOthers, sbtc, member,
               signers, lost>>

NoBond == -1
Contracts == {"sbtc-token", "sbtc-registry"}
Calls == Contracts \cup {"our-bond", "other-bond", "mint", "register"}
Transactions ==
    [acct : Accounts, nonce : Nat, call : Calls, bond : Nat, amount : Nat]

LedgerTypeOK ==
    /\ burn \in 0..MaxBurn
    /\ conf \in [Accounts -> Nat]
    /\ pending \subseteq Transactions
    /\ deployed \subseteq Contracts /\ late \subseteq deployed
    /\ ours \subseteq Nat /\ others \subseteq Nat /\ sentOthers \subseteq Nat
    /\ sbtc \in [Participants -> Nat]
    /\ member \in [Participants -> Nat \cup {NoBond}]
    /\ signers \in BOOLEAN
    /\ lost \in Nat /\ faults \in Nat /\ restarts \in Nat

LedgerInit ==
    /\ burn = 0
    /\ conf = [a \in Accounts |-> 0]
    /\ pending = {}
    /\ deployed = {} /\ late = {}
    /\ ours = {} /\ others = {} /\ sentOthers = {}
    /\ sbtc = InitialSbtc
    /\ member = [p \in Participants |-> NoBond]
    /\ signers = FALSE
    /\ lost = 0 /\ faults = 0 /\ restarts = 0

-----------------------------------------------------------------------------
bondStartBurnHeight(b) == BondZero + b * BondPeriod

Pox5Active == burn >= STACKS_40_HEIGHT

(* What the mempool takes: an unused nonce that no pending transaction of  *)
(* the account has, and no deploy of a contract that exists.               *)
Admits(tx) ==
    /\ tx.nonce >= conf[tx.acct]
    /\ \A m \in pending : m.acct = tx.acct => m.nonce # tx.nonce
    /\ tx.call \notin deployed

(* pox-5 sets a bond up once and before it starts.                         *)
SetsUp(tx) ==
    /\ tx.call \in {"our-bond", "other-bond"}
    /\ tx.bond \notin ours \cup others
    /\ burn < bondStartBurnHeight(tx.bond)

(* pox-5 registers a participant once, for a bond that allowlists it and   *)
(* has not started, and takes its sBTC; in a prepare phase it may refuse.  *)
Registers(tx) ==
    /\ tx.call = "register"
    /\ tx.bond \in ours
    /\ burn < bondStartBurnHeight(tx.bond)
    /\ member[tx.acct] = NoBond
    /\ sbtc[tx.acct] >= AmountSats

Registration(tx) ==
    \/ /\ Registers(tx)
       /\ member' = [member EXCEPT ![tx.acct] = tx.bond]
       /\ sbtc' = [sbtc EXCEPT ![tx.acct] = @ - AmountSats]
    \/ /\ ~Registers(tx) \/ isPreparePhase(burn)
       /\ UNCHANGED <<member, sbtc>>

(* A Stacks block takes in the next transaction of an account.             *)
Mine(tx) ==
    /\ tx.nonce = conf[tx.acct]
    /\ conf' = [conf EXCEPT ![tx.acct] = @ + 1]
    /\ pending' = pending \ {tx}
    /\ deployed' = deployed \cup ({tx.call} \cap Contracts)
    /\ late' = IF Pox5Active THEN late \cup (deployed' \ deployed) ELSE late
    /\ ours' = IF SetsUp(tx) /\ tx.call = "our-bond" THEN ours \cup {tx.bond} ELSE ours
    /\ others' = IF SetsUp(tx) /\ tx.call = "other-bond"
                 THEN others \cup {tx.bond} ELSE others
    /\ IF tx.call = "mint"
       THEN /\ sbtc' = [sbtc EXCEPT ![tx.acct] = @ + tx.amount]
            /\ UNCHANGED member
       ELSE Registration(tx)
    /\ UNCHANGED <<burn, sentOthers, signers, lost, faults, restarts>>

(* The mempool drops a transaction, as when a node restarts.               *)
Lose(tx) ==
    /\ lost < MaxLost
    /\ lost' = lost + 1
    /\ pending' = pending \ {tx}
    /\ UNCHANGED <<burn, conf, deployed, late, ours, others, sentOthers, sbtc, member,
                   signers, faults, restarts>>

(* Somebody who has the bond admin's key sets up a bond without our        *)
(* participants, at the admin's next nonce.                                *)
OtherBond(b) ==
    LET tx == [acct |-> BondAdmin, nonce |-> conf[BondAdmin],
               call |-> "other-bond", bond |-> b, amount |-> 0]
    IN  /\ Pox5Active
        /\ b \notin sentOthers /\ SetsUp(tx) /\ Admits(tx)
        /\ pending' = pending \cup {tx}
        /\ sentOthers' = sentOthers \cup {b}
        /\ UNCHANGED <<burn, conf, deployed, late, ours, others, sbtc, member, signers,
                       lost, faults, restarts>>

(* The stacker has registered the signers, some time after pox-5 starts.   *)
SignersRegister ==
    /\ Pox5Active /\ ~signers
    /\ signers' = TRUE
    /\ UNCHANGED <<burn, conf, pending, deployed, late, ours, others, sentOthers, sbtc,
                   member, lost, faults, restarts>>

BurnBlock ==
    /\ burn < MaxBurn
    /\ burn' = burn + 1
    /\ UNCHANGED <<conf, pending, deployed, late, ours, others, sentOthers, sbtc, member,
                   signers, lost, faults, restarts>>
=============================================================================
