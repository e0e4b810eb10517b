------------------------- MODULE BondNetworkProofs --------------------------
(***************************************************************************)
(* Proofs about BondNetwork, for any number of participants, any heights,  *)
(* bonds, bounds and initial balances, and whether the deployer and the    *)
(* bond admin are one account or two.                                      *)
(***************************************************************************)
EXTENDS BondNetwork, TLAPS

(* Adding one to a natural number gives a natural number.                  *)
LEMMA Successor == \A n \in Nat : n + 1 \in Nat
  OBVIOUS

(* The participants are numbered from 1.                                   *)
LEMMA FirstParticipant == 1 \in Participants
  BY LedgerAssumption DEF Participants

(* Having nothing is too little.                                           *)
LEMMA NothingIsTooLittle == 0 \in TooLittle
  BY LedgerAssumption DEF TooLittle

(* A bond starts at a natural number of blocks.                            *)
LEMMA StartNat == \A b \in Nat : bondStartBurnHeight(b) \in Nat
<1> TAKE b \in Nat
<1>1. \A m, n \in Nat : m * n \in Nat
  OBVIOUS
<1> QED BY <1>1, LedgerAssumption DEF bondStartBurnHeight

(* The target of a mint is at least what is needed.                        *)
LEMMA TargetNat == targetBalance \in Nat /\ targetBalance >= AmountSats
<1>1. \A a, m \in Nat \ {0} : a * m \in Nat /\ a * m >= a
  OBVIOUS
<1> QED BY <1>1, LedgerAssumption, StakingAssumption DEF targetBalance

-----------------------------------------------------------------------------
(* What a step of pox5-setup can do to the mempool: it adds its deploy, if *)
(* the mempool takes that.                                                 *)
LEMMA SetupSends ==
    ASSUME setup \in SetupStates, SetupStep \/ SetupFails
    PROVE  \/ pending' = pending
           \/ /\ setup.pc = "broadcast" /\ Admits(SetupTx)
              /\ pending' = pending \cup {SetupTx}
              /\ setup'.pc \in {"poll", "exited"}
<1>1. CASE deployContract
  BY <1>1 DEF deployContract, SetupGoes, SetupStates
<1>2. CASE SetupFails
  BY <1>2 DEF SetupFails, SetupExits, SetupStart
<1>3. CASE waitForNode \/ ReadSetupNonce \/ deployIfMissing \/ assertBeforeEpoch4
              \/ waitForContract \/ SetupTimesOut
  BY <1>3 DEF waitForNode, ReadSetupNonce, deployIfMissing, assertBeforeEpoch4,
              waitForContract, SetupTimesOut
<1> QED BY <1>1, <1>2, <1>3 DEF SetupStep

(* The same for bitcoin-staking.                                           *)
LEMMA StakingSends ==
    ASSUME staking \in StakingStates, StakingStep \/ StakingFails
    PROVE  \/ pending' = pending
           \/ /\ staking.pc = "send" /\ Admits(StakingTx)
              /\ pending' = pending \cup {StakingTx}
              /\ staking'.pc \in {"wait", "exited"}
<1>1. CASE SendTask
  BY <1>1 DEF SendTask, StakingGoes, StakingExits, StakingStates
<1>2. CASE StakingFails
  BY <1>2 DEF StakingFails, StakingExits, StakingStart
<1>3. CASE waitForPox5 \/ waitForSbtcContract \/ waitForSignerManagers
              \/ BeginSweep \/ selectBondIndex \/ ReadStakingNonce
              \/ TaskDone \/ TaskTimesOut \/ mintSbtcIfNeeded
              \/ registerForBond \/ waitForRegistrationWindow
  BY <1>3 DEF waitForPox5, waitForSbtcContract, waitForSignerManagers, BeginSweep,
      selectBondIndex, ReadStakingNonce, TaskDone, TaskTimesOut, mintSbtcIfNeeded,
      registerForBond, waitForRegistrationWindow, Quiet
<1> QED BY <1>1, <1>2, <1>3 DEF StakingStep

-----------------------------------------------------------------------------
(* The types at the start.                                                 *)
LEMMA TypeInit == Init => TypeOK
<1> SUFFICES ASSUME Init PROVE TypeOK
  OBVIOUS
<1>1. LedgerTypeOK
  <2>1. InitialSbtc \in [Participants -> Nat]
    BY LedgerAssumption
  <2>2. sbtc \in [Participants -> Nat]
    BY <2>1 DEF Init, LedgerInit
  <2>4. burn \in 0..MaxBurn
    BY LedgerAssumption DEF Init, LedgerInit
  <2>5. signers \in BOOLEAN
    BY DEF Init, LedgerInit
  <2>3. member \in [Participants -> Nat \cup {NoBond}] /\ conf \in [Accounts -> Nat]
    BY DEF Init, LedgerInit
  <2> QED BY <2>2, <2>3, <2>4, <2>5 DEF Init, LedgerInit, LedgerTypeOK
<1>2. setup \in SetupStates
  BY DEF Init, SetupStart, SetupStates, Contracts
<1>3. staking \in StakingStates
  BY FirstParticipant, NothingIsTooLittle, StakingAssumption
  DEF Init, StakingStart, StakingStates, Tasks
<1> QED BY <1>1, <1>2, <1>3 DEF Init, TypeOK

(* The burn height is a natural number.                                    *)
LEMMA BurnNat == ASSUME TypeOK PROVE burn \in Nat
  BY LedgerAssumption DEF TypeOK, LedgerTypeOK

(* An exit leaves a well typed record.                                     *)
LEMMA SetupExitType ==
    ASSUME NEW why \in {"late", "refused", "timeout", "error"}, SetupExits(why)
    PROVE  setup' \in SetupStates
  BY DEF SetupExits, SetupStart, SetupStates, Contracts

LEMMA StakingExitType ==
    ASSUME NEW why \in {"refused", "timeout", "started", "error"}, StakingExits(why)
    PROVE  staking' \in StakingStates
  BY FirstParticipant, NothingIsTooLittle, StakingAssumption
  DEF StakingExits, StakingStart, StakingStates, Tasks

(* The next contract is a state of pox5-setup.                             *)
LEMMA NextContractType ==
    ASSUME setup \in SetupStates, NEW isNew \in BOOLEAN, NextContract(isNew)
    PROVE  setup' \in SetupStates
<1>1. NonceAfter(isNew) \in Nat
  BY DEF NonceAfter, SetupStates
<1> QED BY <1>1 DEF NextContract, SetupStates, Contracts

(* What keeps the record of pox5-setup well typed.                         *)
LEMMA SetupType ==
    ASSUME TypeOK, SetupStep \/ SetupFails
    PROVE  setup' \in SetupStates /\ pending' \subseteq Transactions /\ faults' \in Nat
<1> USE DEF TypeOK, LedgerTypeOK
<1>1. CASE waitForNode
  BY <1>1 DEF waitForNode, SetupGoes, SetupStates
<1>2. CASE ReadSetupNonce
  <2>1. conf[Deployer] \in Nat
    BY DEF Accounts
  <2> QED BY <1>2, <2>1 DEF ReadSetupNonce, SetupStates
<1>3. CASE deployIfMissing
  <2>1. setup' \in SetupStates
    BY <1>3, NextContractType DEF deployIfMissing, SetupGoes, SetupStates
  <2> QED BY <1>3, <2>1, Successor DEF deployIfMissing
<1>4. CASE assertBeforeEpoch4
  <2>1. setup' \in SetupStates
    BY <1>4, SetupExitType, BurnNat DEF assertBeforeEpoch4, SetupStates
  <2> QED BY <1>4, <2>1 DEF assertBeforeEpoch4
<1>5. SetupTx \in Transactions
  BY DEF SetupTx, Transactions, SetupStates, Accounts, Calls
<1>6. CASE deployContract
  BY <1>6, SetupExitType, <1>5 DEF deployContract, SetupGoes, SetupStates
<1>7. CASE waitForContract
  <2>1. setup' \in SetupStates
    BY <1>7, NextContractType DEF waitForContract, SetupGoes, SetupStates
  <2> QED BY <1>7, <2>1, Successor DEF waitForContract
<1>8. CASE SetupTimesOut
  BY <1>8, SetupExitType DEF SetupTimesOut
<1>9. CASE SetupFails
  BY <1>9, SetupExitType, <1>5, Successor DEF SetupFails
<1> QED BY <1>1, <1>2, <1>3, <1>4, <1>6, <1>7, <1>8, <1>9 DEF SetupStep

(* What is sent is a transaction.                                          *)
LEMMA StakingTxType ==
    ASSUME TypeOK
    PROVE  StakingTx \in Transactions /\ Sender \in Accounts /\ amountToMint \in Nat
<1> USE DEF TypeOK, StakingStates
<1>1. amountToMint \in Nat
  BY TargetNat, LedgerAssumption DEF amountToMint, TooLittle
<1>2. Sender \in Accounts
  BY DEF Sender, Accounts
<1> QED BY <1>1, <1>2 DEF StakingTx, Transactions, Tasks, Calls

(* Selecting a bond leaves a well typed record.                            *)
LEMMA SelectType ==
    ASSUME staking \in StakingStates, bondIndex \in Nat,
           NEW pc \in {"balance", "nonce"}, Select(pc)
    PROVE  staking' \in StakingStates
<1>1. PICK r \in StakingStates :
          r = [staking EXCEPT !.pc = pc, !.task = "our-bond"]
  BY DEF StakingStates, Tasks
<1>2. staking' = [r EXCEPT !.index = bondIndex, !.base = 0, !.offset = 0]
  BY <1>1 DEF Select, StakingStates
<1>3. [r EXCEPT !.index = bondIndex, !.base = 0, !.offset = 0] \in StakingStates
  BY <1>1 DEF StakingStates
<1> QED BY <1>2, <1>3

(* What keeps the record of bitcoin-staking well typed.                    *)
LEMMA StakingType ==
    ASSUME TypeOK, StakingStep \/ StakingFails
    PROVE  /\ staking' \in StakingStates /\ raced' \subseteq Participants
           /\ pending' \subseteq Transactions /\ faults' \in Nat
<1> USE DEF TypeOK, LedgerTypeOK
<1>1. CASE waitForPox5 \/ waitForSbtcContract \/ waitForSignerManagers
  BY <1>1 DEF waitForPox5, waitForSbtcContract, waitForSignerManagers, StakingGoes,
      StakingStates, Quiet
<1>2. CASE BeginSweep
  BY <1>2, BurnNat DEF BeginSweep, SweepHeight, StakingStates, Quiet
<1>3. CASE selectBondIndex
  <2>1. bondIndex \in Nat /\ bondIndex + 1 \in Nat /\ staking.offset + 1 \in Nat
    BY DEF bondIndex, StakingStates
  <2>2. ASSUME PastBond PROVE staking' \in StakingStates
    BY <2>1, <2>2 DEF PastBond, StakingStates
  <2>3. ASSUME ExistingBond PROVE staking' \in StakingStates
    BY <2>1, <2>3, SelectType DEF ExistingBond
  <2>4. ASSUME ForeignBond PROVE staking' \in StakingStates
    BY <2>1, <2>4 DEF ForeignBond, StakingStates
  <2>5. ASSUME FreeBond PROVE staking' \in StakingStates
    <3>1. Select("nonce") => staking' \in StakingStates
      BY <2>1, SelectType
    <3>2. StakingGoes("sweep") => staking' \in StakingStates
      BY DEF StakingGoes, StakingStates
    <3> QED BY <2>5, <3>1, <3>2 DEF FreeBond
  <2>6. ASSUME StakingGoes("sweep") PROVE staking' \in StakingStates
    BY <2>6 DEF StakingGoes, StakingStates
  <2>7. staking' \in StakingStates
    BY <1>3, <2>2, <2>3, <2>4, <2>5, <2>6 DEF selectBondIndex
  <2> QED BY <1>3, <2>7 DEF selectBondIndex, Quiet
<1>4. CASE ReadStakingNonce
  <2>1. conf[Sender] \in Nat
    BY StakingTxType
  <2> QED BY <1>4, <2>1 DEF ReadStakingNonce, StakingStates, Quiet
<1>5. CASE SendTask
  <2>1. staking' \in StakingStates
    <3>1. CASE Admits(StakingTx)
      <4>1. staking' = [staking EXCEPT !.pc = "wait", !.nonce = 0, !.current = 0]
        BY <1>5, <3>1 DEF SendTask
      <4> QED BY <4>1, NothingIsTooLittle DEF StakingStates
    <3>2. CASE ~Admits(StakingTx)
      BY <1>5, <3>2, StakingExitType DEF SendTask
    <3> QED BY <3>1, <3>2
  <2> QED BY <1>5, <2>1, StakingTxType DEF SendTask
<1>6. ASSUME NEW pc \in {"balance", "membership"}, NEW after \in {"membership", "done"},
             NextParticipant(pc, after)
      PROVE  staking' \in StakingStates
  <2>1. CASE staking.p < NumParticipants
    <3>1. staking.p + 1 \in Participants
      BY <2>1, LedgerAssumption DEF StakingStates, Participants
    <3> QED BY <3>1, <2>1, <1>6 DEF NextParticipant, StakingStates
  <2>2. CASE ~(staking.p < NumParticipants)
    BY <2>2, <1>6, FirstParticipant DEF NextParticipant, StakingStates
  <2> QED BY <2>1, <2>2
<1>7. CASE TaskDone
  <2>1. StakingGoes("balance") => staking' \in StakingStates
    BY DEF StakingGoes, StakingStates
  <2> QED BY <1>7, <2>1, <1>6 DEF TaskDone, NextMint, NextRegistration, Quiet
<1>8. CASE TaskTimesOut
  BY <1>8, StakingExitType DEF TaskTimesOut, Quiet
<1>9. CASE mintSbtcIfNeeded
  <2>1. staking' \in StakingStates
    <3>1. CASE sbtc[staking.p] >= AmountSats
      BY <1>9, <3>1, <1>6 DEF mintSbtcIfNeeded, NextMint
    <3>2. CASE ~(sbtc[staking.p] >= AmountSats)
      <4>1. staking.p \in Participants
        BY DEF StakingStates
      <4>2. sbtc[staking.p] \in TooLittle
        BY <3>2, <4>1, LedgerAssumption DEF TooLittle
      <4> QED BY <1>9, <3>2, <4>2 DEF mintSbtcIfNeeded, StakingStates, Tasks
    <3> QED BY <3>1, <3>2
  <2>2. raced' \subseteq Participants
    BY <1>9 DEF mintSbtcIfNeeded, StakingStates
  <2> QED BY <1>9, <2>1, <2>2 DEF mintSbtcIfNeeded
<1>10. CASE registerForBond
  <2>1. StakingGoes("window") => staking' \in StakingStates
    BY DEF StakingGoes, StakingStates
  <2> QED BY <1>10, <2>1, <1>6 DEF registerForBond, NextRegistration, Quiet
<1>11. CASE waitForRegistrationWindow
  BY <1>11, StakingExitType DEF waitForRegistrationWindow, StakingStates, Tasks, Quiet
<1>12. CASE StakingFails
  BY <1>12, StakingExitType, StakingTxType, Successor DEF StakingFails
<1> QED BY <1>1, <1>2, <1>3, <1>4, <1>5, <1>7, <1>8, <1>9, <1>10, <1>11, <1>12
       DEF StakingStep

(* Mining keeps the types of the chain.                                    *)
LEMMA MineType ==
    ASSUME TypeOK, NEW tx \in pending, Mine(tx)
    PROVE  LedgerTypeOK'
<1> USE DEF TypeOK, LedgerTypeOK
<1>0. tx \in Transactions
  OBVIOUS
<1>1. conf' \in [Accounts -> Nat] /\ pending' \subseteq Transactions
  BY <1>0, Successor DEF Mine, Transactions
<1>2. deployed' \subseteq Contracts /\ late' \subseteq deployed'
  BY DEF Mine
<1>3. ours' \subseteq Nat
  BY <1>0 DEF Mine, Transactions
<1>4. others' \subseteq Nat
  BY <1>0 DEF Mine, Transactions
<1>5. sbtc' \in [Participants -> Nat]
  <2>1. CASE tx.call = "mint"
    BY <2>1, <1>0 DEF Mine, Transactions
  <2>2. CASE tx.call # "mint" /\ Registers(tx)
    BY <2>2, LedgerAssumption DEF Mine, Registration, Registers
  <2>3. CASE tx.call # "mint" /\ ~Registers(tx)
    BY <2>3 DEF Mine, Registration
  <2> QED BY <2>1, <2>2, <2>3
<1>6. member' \in [Participants -> Nat \cup {NoBond}]
  BY <1>0 DEF Mine, Registration, Transactions
<1> QED BY <1>1, <1>2, <1>3, <1>4, <1>5, <1>6 DEF Mine

(* The steps of the chain other than mining.                               *)
LEMMA ChainType ==
    ASSUME TypeOK,
           \/ \E tx \in pending : Lose(tx)
           \/ \E b \in OtherBonds : OtherBond(b)
           \/ BurnBlock \/ SignersRegister
    PROVE  LedgerTypeOK'
<1> USE DEF TypeOK, LedgerTypeOK
<1>1. ASSUME NEW tx \in pending, Lose(tx) PROVE LedgerTypeOK'
  <2>1. signers' \in BOOLEAN
    BY <1>1 DEF Lose
  <2>2. lost' \in Nat
    BY <1>1, Successor DEF Lose
  <2> QED BY <1>1, <2>1, <2>2 DEF Lose
<1>2. ASSUME NEW b \in OtherBonds, OtherBond(b) PROVE LedgerTypeOK'
  <2> DEFINE tx == [acct |-> BondAdmin, nonce |-> conf[BondAdmin],
                    call |-> "other-bond", bond |-> b, amount |-> 0]
  <2>1. b \in Nat /\ conf[BondAdmin] \in Nat
    BY LedgerAssumption DEF Accounts
  <2>2. tx \in Transactions
    BY <2>1 DEF Transactions, Accounts, Calls
  <2>3. pending' = pending \cup {tx} /\ sentOthers' = sentOthers \cup {b}
    BY <1>2 DEF OtherBond
  <2>4. pending' \subseteq Transactions /\ sentOthers' \subseteq Nat
    BY <2>1, <2>2, <2>3
  <2>5. signers' \in BOOLEAN
    BY <1>2 DEF OtherBond
  <2> QED BY <1>2, <2>4, <2>5 DEF OtherBond
<1>3. CASE BurnBlock
  <2>1. signers' \in BOOLEAN
    BY <1>3 DEF BurnBlock
  <2>2. burn' \in 0..MaxBurn
    BY <1>3, LedgerAssumption DEF BurnBlock
  <2> QED BY <1>3, <2>1, <2>2 DEF BurnBlock
<1>4. CASE SignersRegister
  <2>1. signers' \in BOOLEAN
    BY <1>4 DEF SignersRegister
  <2> QED BY <1>4, <2>1 DEF SignersRegister
<1> QED BY <1>1, <1>2, <1>3, <1>4

(* A step keeps the types.                                                 *)
LEMMA TypeStep == TypeOK /\ [Next]_vars => TypeOK'
<1> SUFFICES ASSUME TypeOK, [Next]_vars PROVE TypeOK'
  OBVIOUS
<1> USE DEF TypeOK
<1>1. CASE SetupRuns \/ SetupBreaks
  <2>1. /\ setup' \in SetupStates /\ pending' \subseteq Transactions
        /\ faults' \in Nat
    BY <1>1, SetupType DEF SetupRuns, SetupBreaks
  <2>2. UNCHANGED <<chainVars, restarts, staking, raced>>
    BY <1>1 DEF SetupRuns, SetupBreaks
  <2>3. signers' \in BOOLEAN
    BY <2>2 DEF chainVars, LedgerTypeOK
  <2> QED BY <2>1, <2>2, <2>3 DEF chainVars, LedgerTypeOK
<1>2. CASE StakingRuns \/ StakingBreaks
  <2>1. /\ staking' \in StakingStates /\ raced' \subseteq Participants
        /\ pending' \subseteq Transactions /\ faults' \in Nat
    BY <1>2, StakingType DEF StakingRuns, StakingBreaks
  <2>2. UNCHANGED <<chainVars, restarts, setup>>
    BY <1>2 DEF StakingRuns, StakingBreaks
  <2>3. signers' \in BOOLEAN
    BY <2>2 DEF chainVars, LedgerTypeOK
  <2> QED BY <2>1, <2>2, <2>3 DEF chainVars, LedgerTypeOK
<1>3. CASE RestartSetup \/ RestartStaking
  <2>1. SetupStart \in SetupStates
    BY DEF SetupStart, SetupStates, Contracts
  <2>2. StakingStart \in StakingStates
    BY FirstParticipant, NothingIsTooLittle, StakingAssumption
    DEF StakingStart, StakingStates, Tasks
  <2>3. setup' \in SetupStates /\ staking' \in StakingStates /\ raced' \subseteq Participants
    BY <1>3, <2>1, <2>2 DEF RestartSetup, RestartStaking
  <2>4. UNCHANGED <<chainVars, pending, faults>> /\ restarts' = restarts + 1
    BY <1>3 DEF RestartSetup, RestartStaking
  <2>5. signers' \in BOOLEAN
    BY <2>4 DEF chainVars, LedgerTypeOK
  <2>6. restarts' \in Nat
    BY <2>4, Successor DEF LedgerTypeOK
  <2> QED BY <2>3, <2>4, <2>5, <2>6 DEF chainVars, LedgerTypeOK
<1>4. CASE ChainRuns \/ ChainSurprises
  <2>1. LedgerTypeOK'
    BY <1>4, MineType, ChainType DEF ChainRuns, ChainSurprises, MineAny, Tick
  <2>2. UNCHANGED <<setup, staking, raced>>
    BY <1>4 DEF ChainRuns, ChainSurprises
  <2> QED BY <2>1, <2>2
<1>5. CASE UNCHANGED vars
  <2>1. signers' \in BOOLEAN
    BY <1>5 DEF vars, chainVars, LedgerTypeOK
  <2> QED BY <1>5, <2>1 DEF vars, chainVars, LedgerTypeOK
<1> QED BY <1>1, <1>2, <1>3, <1>4, <1>5 DEF Next

(* Every variable keeps its type, the contracts that came late are among   *)
(* those deployed, and a balance read before a mint is too little.         *)
THEOREM TypeCorrect == Spec => []TypeOK
<1> QED BY TypeInit, TypeStep, PTL DEF Spec

-----------------------------------------------------------------------------
(* A nonce that was read or counted is never ahead of the chain, and it is *)
(* behind as soon as the contract it was used for exists.                  *)
CountedNonce ==
    /\ setup.pc \in {"exists", "check", "broadcast", "poll", "recheck"} =>
          setup.nonce <= conf[Deployer]
    /\ setup.pc \in {"poll", "recheck"} /\ setup.contract \in deployed =>
          setup.nonce < conf[Deployer]

ReadNonce == staking.pc = "send" => staking.nonce <= conf[Sender]

DeploysByDeployer ==
    \A tx \in pending : tx.call \in Contracts => tx.acct = Deployer

NonceInv == OneInFlight /\ CountedNonce /\ ReadNonce /\ DeploysByDeployer

(* What has to do with bonds happens in Epoch 4.0, and a deploy before it. *)
DeployInTime ==
    setup.pc \in {"broadcast", "poll"} =>
        InTime(setup.checked) /\ burn <= setup.checked + MaxDelay

BondsInEpoch ==
    /\ staking.pc \notin {"starting", "exited"} => Pox5Active
    /\ ours # {} \/ others # {} => Pox5Active
    /\ \A tx \in pending : tx.call \notin Contracts => Pox5Active

EpochInv == DeployInTime /\ BondsInEpoch

(* Without a restart the contracts come one by one, each with the only     *)
(* deploy in the mempool.                                                  *)
NoDeployPending == \A tx \in pending : tx.call \notin Contracts
Earlier == IF setup.contract = "sbtc-token" THEN {} ELSE {"sbtc-token"}

InOrder ==
    /\ setup.pc \in {"waiting", "nonce", "exists", "check", "broadcast"} =>
          NoDeployPending /\ deployed = Earlier /\ late = {}
    /\ setup.pc \in {"poll", "recheck"} =>
          /\ deployed \in {Earlier, Earlier \cup {setup.contract}}
          /\ \A tx \in pending : tx.call \in Contracts => tx.call = setup.contract
          /\ setup.contract \in deployed => NoDeployPending
    /\ setup.pc = "done" => NoDeployPending /\ deployed = Contracts /\ late = {}

CompleteInv ==
    /\ late # {} => Pox5Active
    /\ restarts = 0 => InOrder

(* A mint in the mempool fills up to the target at most, unless it raced.  *)
MintsFit ==
    \A p \in Participants \ raced :
        /\ sbtc[p] <= targetBalance
        /\ \A tx \in pending :
              tx.acct = p /\ tx.call = "mint" => sbtc[p] + tx.amount <= targetBalance

BalanceRead ==
    staking.pc \in {"nonce", "send"} /\ staking.task = "mint" /\ staking.p \notin raced =>
        sbtc[staking.p] <= staking.current /\ ~MintPending(staking.p)

MintInv == MintsFit /\ BalanceRead

(* Without a restart nobody registers before the last participant has its  *)
(* sBTC, and then everybody does for the selected bond.                    *)
Registering ==
    \/ staking.pc \in {"membership", "window", "done"}
    \/ staking.pc \in {"nonce", "send", "wait"} /\ staking.task = "register"

Nobody ==
    /\ \A q \in Participants : member[q] = NoBond
    /\ \A tx \in pending : tx.call # "register"

OneByOne ==
    /\ \A q \in Participants : member[q] \in {NoBond, staking.index}
    /\ \A tx \in pending : tx.call = "register" => tx.bond = staking.index
    /\ \A q \in Participants :
          q < staking.p \/ staking.pc = "done" => member[q] = staking.index

Joining ==
    /\ staking.pc # "exited" /\ ~Registering => Nobody
    /\ Registering => OneByOne

BondInv == restarts = 0 => Joining

-----------------------------------------------------------------------------
(* A transaction of an unused nonce that is not ahead of the chain is the  *)
(* only one of its account.                                                *)
LEMMA AddsInFlight ==
    ASSUME TypeOK, OneInFlight, NEW tx \in Transactions, Admits(tx),
           tx.nonce <= conf[tx.acct], pending' = pending \cup {tx}, conf' = conf
    PROVE  OneInFlight'
<1>1. tx.nonce = conf[tx.acct]
  BY DEF Admits, TypeOK, LedgerTypeOK, Transactions
<1>2. \A m \in pending : m.acct # tx.acct
  BY <1>1 DEF Admits, OneInFlight
<1> QED BY <1>1, <1>2 DEF OneInFlight

(* Mining the one transaction of an account leaves the others alone.       *)
LEMMA MinesInFlight ==
    ASSUME TypeOK, OneInFlight, NEW tx \in pending, Mine(tx)
    PROVE  OneInFlight'
<1>1. \A m \in pending' : m \in pending /\ m.acct # tx.acct
  BY DEF Mine, OneInFlight
<1>2. \A m \in pending' : conf'[m.acct] = conf[m.acct]
  BY <1>1 DEF Mine, TypeOK, LedgerTypeOK, Transactions
<1> QED BY <1>1, <1>2 DEF OneInFlight

(* A confirmed nonce never goes down, and mining raises the sender's.      *)
LEMMA MinesNonce ==
    ASSUME TypeOK, NEW tx \in pending, Mine(tx)
    PROVE  /\ conf'[tx.acct] = conf[tx.acct] + 1
           /\ \A a \in Accounts : conf'[a] \in Nat /\ conf[a] <= conf'[a]
<1>1. tx.acct \in Accounts
  BY DEF TypeOK, LedgerTypeOK, Transactions
<1> QED BY <1>1 DEF Mine, TypeOK, LedgerTypeOK

(* The steps of pox5-setup keep its nonce behind the chain's.              *)
LEMMA SetupNonce ==
    ASSUME TypeOK, CountedNonce, SetupStep \/ SetupFails, UNCHANGED <<conf, deployed>>
    PROVE  CountedNonce'
<1>0. conf[Deployer] \in Nat /\ setup \in SetupStates
  BY DEF TypeOK, LedgerTypeOK, Accounts
<1> USE DEF CountedNonce, SetupStates
<1>1. CASE waitForNode
  BY <1>1, <1>0 DEF waitForNode, SetupGoes
<1>2. CASE ReadSetupNonce
  BY <1>2, <1>0 DEF ReadSetupNonce
<1>3. CASE deployIfMissing
  <2>1. CASE NextContract(FALSE)
    BY <2>1, <1>3, <1>0 DEF deployIfMissing, NextContract, NonceAfter
  <2>2. CASE SetupGoes("check")
    BY <2>2, <1>3, <1>0 DEF deployIfMissing, SetupGoes
  <2> QED BY <1>3, <2>1, <2>2 DEF deployIfMissing
<1>4. CASE assertBeforeEpoch4
  <2>1. CASE InTime(burn)
    BY <2>1, <1>4, <1>0 DEF assertBeforeEpoch4
  <2>2. CASE ~InTime(burn)
    BY <2>2, <1>4, <1>0 DEF assertBeforeEpoch4, SetupExits, SetupStart
  <2> QED BY <2>1, <2>2
<1>6. CASE deployContract
  <2>1. CASE Admits(SetupTx)
    <3>1. setup.contract \notin deployed
      BY <2>1 DEF Admits, SetupTx
    <3> QED BY <3>1, <2>1, <1>6, <1>0 DEF deployContract, SetupGoes
  <2>2. CASE ~Admits(SetupTx)
    BY <2>2, <1>6, <1>0 DEF deployContract, SetupExits, SetupStart
  <2> QED BY <2>1, <2>2
<1>7. CASE waitForContract
  <2>1. CASE NextContract(TRUE) /\ setup.contract \in deployed
    BY <2>1, <1>7, <1>0 DEF waitForContract, NextContract, NonceAfter
  <2>2. CASE SetupGoes("recheck")
    BY <2>2, <1>7, <1>0 DEF waitForContract, SetupGoes
  <2> QED BY <1>7, <2>1, <2>2 DEF waitForContract
<1>8. CASE SetupTimesOut \/ SetupFails
  BY <1>8 DEF SetupTimesOut, SetupFails, SetupExits, SetupStart
<1> QED BY <1>1, <1>2, <1>3, <1>4, <1>6, <1>7, <1>8 DEF SetupStep

(* bitcoin-staking uses the nonce it has read.                             *)
LEMMA StakingNonce ==
    ASSUME TypeOK, ReadNonce, StakingStep \/ StakingFails, UNCHANGED conf
    PROVE  ReadNonce'
<1>0. staking \in StakingStates /\ conf[Sender] \in Nat
  BY StakingTxType DEF TypeOK, LedgerTypeOK
<1> USE DEF ReadNonce, StakingStates
<1>1. CASE ReadStakingNonce
  <2>1. Sender' = Sender
    BY <1>1, <1>0 DEF ReadStakingNonce, Sender
  <2> QED BY <1>1, <2>1, <1>0 DEF ReadStakingNonce
<1>2. CASE SendTask
  <2>1. CASE Admits(StakingTx)
    BY <2>1, <1>2, <1>0 DEF SendTask
  <2>2. CASE ~Admits(StakingTx)
    BY <2>2, <1>2, <1>0 DEF SendTask, StakingExits, StakingStart
  <2> QED BY <2>1, <2>2
<1>3. CASE waitForPox5 \/ waitForSbtcContract \/ waitForSignerManagers \/ BeginSweep
  BY <1>3, <1>0 DEF waitForPox5, waitForSbtcContract, waitForSignerManagers, BeginSweep,
      StakingGoes
<1>4. CASE selectBondIndex
  <2>1. CASE PastBond \/ ForeignBond \/ StakingGoes("sweep")
    BY <2>1, <1>4, <1>0 DEF selectBondIndex, PastBond, ForeignBond, StakingGoes
  <2>2. ASSUME NEW pc \in {"balance", "nonce"}, Select(pc) PROVE ReadNonce'
    BY <2>2, <1>0 DEF Select
  <2> QED BY <1>4, <2>1, <2>2 DEF selectBondIndex, ExistingBond, FreeBond
<1>5. ASSUME NEW pc \in {"balance", "membership"}, NEW after \in {"membership", "done"},
             NextParticipant(pc, after)
      PROVE  ReadNonce'
  BY <1>5, <1>0 DEF NextParticipant
<1>6. CASE TaskDone
  BY <1>6, <1>5, <1>0 DEF TaskDone, StakingGoes, NextMint, NextRegistration
<1>7. CASE mintSbtcIfNeeded
  <2>1. CASE sbtc[staking.p] >= AmountSats
    BY <2>1, <1>7, <1>5 DEF mintSbtcIfNeeded, NextMint
  <2>2. CASE ~(sbtc[staking.p] >= AmountSats)
    BY <2>2, <1>7, <1>0 DEF mintSbtcIfNeeded
  <2> QED BY <2>1, <2>2
<1>8. CASE registerForBond
  BY <1>8, <1>5, <1>0 DEF registerForBond, StakingGoes, NextRegistration
<1>9. CASE waitForRegistrationWindow \/ TaskTimesOut \/ StakingFails
  BY <1>9, <1>0 DEF waitForRegistrationWindow, TaskTimesOut, StakingFails, StakingExits,
      StakingStart
<1> QED BY <1>1, <1>2, <1>3, <1>4, <1>6, <1>7, <1>8, <1>9 DEF StakingStep

(* Deploys are the deployer's.                                             *)
LEMMA DeploysStep ==
    ASSUME TypeOK, DeploysByDeployer, [Next]_vars
    PROVE  DeploysByDeployer'
<1> USE DEF DeploysByDeployer
<1>1. CASE SetupRuns \/ SetupBreaks
  BY <1>1, SetupSends DEF SetupRuns, SetupBreaks, SetupTx, TypeOK
<1>2. CASE StakingRuns \/ StakingBreaks
  <2>1. StakingTx.call \notin Contracts
    BY DEF StakingTx, TypeOK, StakingStates, Tasks, Contracts
  <2> QED BY <1>2, <2>1, StakingSends DEF StakingRuns, StakingBreaks, TypeOK
<1>3. CASE ChainSurprises
  <2>1. ASSUME NEW b \in OtherBonds, OtherBond(b) PROVE DeploysByDeployer'
    BY <2>1 DEF OtherBond, Contracts
  <2>2. ASSUME NEW tx \in pending, Lose(tx) PROVE DeploysByDeployer'
    BY <2>2 DEF Lose
  <2> QED BY <1>3, <2>1, <2>2 DEF ChainSurprises
<1>4. CASE ChainRuns
  BY <1>4 DEF ChainRuns, MineAny, Mine, Tick, BurnBlock, SignersRegister
<1>5. CASE RestartSetup \/ RestartStaking \/ UNCHANGED vars
  BY <1>5 DEF RestartSetup, RestartStaking, vars
<1> QED BY <1>1, <1>2, <1>3, <1>4, <1>5 DEF Next

(* Both nonces stay behind the chain's while it goes on.                   *)
LEMMA ChainNonce ==
    ASSUME TypeOK, NonceInv, UNCHANGED <<setup, staking>>,
           \/ \E tx \in pending : Mine(tx)
           \/ UNCHANGED <<conf, deployed>>
    PROVE  CountedNonce' /\ ReadNonce'
<1> USE DEF NonceInv, CountedNonce, ReadNonce
<1>0. conf[Deployer] \in Nat /\ conf[Sender] \in Nat /\ Sender \in Accounts
  BY StakingTxType DEF TypeOK, LedgerTypeOK, Accounts
<1>1. Sender' = Sender
  BY DEF Sender
<1>2. ASSUME NEW tx \in pending, Mine(tx) PROVE CountedNonce' /\ ReadNonce'
  <2>1. /\ conf'[Deployer] \in Nat /\ conf[Deployer] <= conf'[Deployer]
        /\ conf'[Sender] \in Nat /\ conf[Sender] <= conf'[Sender]
    BY <1>2, <1>0, MinesNonce DEF Accounts
  <2>2. ReadNonce'
    BY <2>1, <1>0, <1>1 DEF TypeOK, StakingStates
  <2>3. CASE setup.contract \in deployed' /\ setup.contract \notin deployed
    <3>1. tx.call \in Contracts
      BY <2>3, <1>2 DEF Mine
    <3>2. conf'[Deployer] = conf[Deployer] + 1
      BY <3>1, <1>2, MinesNonce DEF DeploysByDeployer
    <3> QED BY <3>2, <2>1, <2>2, <1>0 DEF TypeOK, SetupStates
  <2>4. CASE ~(setup.contract \in deployed' /\ setup.contract \notin deployed)
    BY <2>4, <2>1, <2>2, <1>0 DEF TypeOK, SetupStates
  <2> QED BY <2>3, <2>4
<1>3. CASE UNCHANGED <<conf, deployed>>
  BY <1>3, <1>1
<1> QED BY <1>2, <1>3

LEMMA NonceStep == TypeOK /\ NonceInv /\ [Next]_vars => NonceInv'
<1> SUFFICES ASSUME TypeOK, NonceInv, [Next]_vars PROVE NonceInv'
  OBVIOUS
<1> USE DEF NonceInv
<1>0. DeploysByDeployer'
  BY DeploysStep
<1>1. CASE SetupRuns \/ SetupBreaks
  <2>1. UNCHANGED <<conf, deployed, staking>>
    BY <1>1 DEF SetupRuns, SetupBreaks, chainVars
  <2>2. CountedNonce'
    BY <1>1, <2>1, SetupNonce DEF SetupRuns, SetupBreaks
  <2>3. ReadNonce'
    BY <2>1 DEF ReadNonce, Sender
  <2>4. OneInFlight'
    <3>1. CASE pending' = pending
      BY <3>1, <2>1 DEF OneInFlight
    <3>2. CASE setup.pc = "broadcast" /\ Admits(SetupTx) /\ pending' = pending \cup {SetupTx}
      <4>1. SetupTx \in Transactions
        BY DEF SetupTx, Transactions, TypeOK, SetupStates, Accounts, Calls
      <4>2. SetupTx.nonce <= conf[SetupTx.acct]
        BY <3>2 DEF SetupTx, CountedNonce
      <4> QED BY <3>2, <4>1, <4>2, <2>1, AddsInFlight
    <3> QED BY <1>1, <3>1, <3>2, SetupSends DEF SetupRuns, SetupBreaks, TypeOK
  <2> QED BY <1>0, <2>2, <2>3, <2>4
<1>2. CASE StakingRuns \/ StakingBreaks
  <2>1. UNCHANGED <<conf, deployed, setup>>
    BY <1>2 DEF StakingRuns, StakingBreaks, chainVars
  <2>2. CountedNonce'
    BY <2>1 DEF CountedNonce
  <2>3. ReadNonce'
    BY <1>2, <2>1, StakingNonce DEF StakingRuns, StakingBreaks
  <2>4. OneInFlight'
    <3>1. CASE pending' = pending
      BY <3>1, <2>1 DEF OneInFlight
    <3>2. CASE staking.pc = "send" /\ Admits(StakingTx) /\ pending' = pending \cup {StakingTx}
      <4>1. StakingTx.nonce <= conf[StakingTx.acct]
        BY <3>2 DEF StakingTx, ReadNonce
      <4> QED BY <3>2, <4>1, <2>1, StakingTxType, AddsInFlight
    <3> QED BY <1>2, <3>1, <3>2, StakingSends DEF StakingRuns, StakingBreaks, TypeOK
  <2> QED BY <1>0, <2>2, <2>3, <2>4
<1>3. CASE RestartSetup \/ RestartStaking
  <2>1. UNCHANGED <<conf, deployed, pending>>
    BY <1>3 DEF RestartSetup, RestartStaking, chainVars
  <2>2. CountedNonce'
    BY <1>3, <2>1 DEF RestartSetup, RestartStaking, SetupStart, CountedNonce
  <2>3. ReadNonce'
    BY <1>3, <2>1 DEF RestartSetup, RestartStaking, StakingStart, ReadNonce, Sender
  <2> QED BY <1>0, <2>1, <2>2, <2>3 DEF OneInFlight
<1>4. ASSUME NEW tx \in pending, Mine(tx), UNCHANGED <<setup, staking>> PROVE NonceInv'
  BY <1>0, <1>4, ChainNonce, MinesInFlight
<1>5. ASSUME NEW tx \in pending, Lose(tx), UNCHANGED <<setup, staking>> PROVE NonceInv'
  <2>1. OneInFlight'
    BY <1>5 DEF Lose, OneInFlight
  <2>2. UNCHANGED <<conf, deployed>>
    BY <1>5 DEF Lose
  <2> QED BY <1>0, <1>5, <2>1, <2>2, ChainNonce
<1>6. ASSUME NEW b \in OtherBonds, OtherBond(b), UNCHANGED <<setup, staking>> PROVE NonceInv'
  <2> DEFINE tx == [acct |-> BondAdmin, nonce |-> conf[BondAdmin],
                    call |-> "other-bond", bond |-> b, amount |-> 0]
  <2>1. b \in Nat /\ conf[BondAdmin] \in Nat
    BY LedgerAssumption DEF Accounts, TypeOK, LedgerTypeOK
  <2>2. tx \in Transactions
    BY <2>1 DEF Transactions, Accounts, Calls
  <2>3. pending' = pending \cup {tx} /\ Admits(tx) /\ UNCHANGED <<conf, deployed>>
    BY <1>6 DEF OtherBond
  <2>4. tx.nonce <= conf[tx.acct]
    BY <2>1
  <2>5. OneInFlight'
    BY <2>2, <2>3, <2>4, AddsInFlight
  <2> QED BY <1>0, <1>6, <2>3, <2>5, ChainNonce
<1>7. CASE UNCHANGED <<conf, deployed, pending, setup, staking>>
  BY <1>0, <1>7, ChainNonce DEF OneInFlight
<1>8. CASE ChainRuns \/ ChainSurprises
  BY <1>8, <1>4, <1>5, <1>6, <1>7
  DEF ChainRuns, ChainSurprises, MineAny, Tick, BurnBlock, SignersRegister
<1>9. CASE UNCHANGED vars
  BY <1>9, <1>7 DEF vars, chainVars
<1> QED BY <1>1, <1>2, <1>3, <1>8, <1>9 DEF Next

(* No account has a gap or a queue of nonces, ever.                        *)
THEOREM OneInFlightHolds == Spec => []OneInFlight
<1>1. Init => NonceInv
  BY DEF Init, LedgerInit, SetupStart, StakingStart, NonceInv, OneInFlight, CountedNonce,
         ReadNonce, DeploysByDeployer
<1>2. NonceInv => OneInFlight
  BY DEF NonceInv
<1> QED BY <1>1, <1>2, TypeCorrect, NonceStep, PTL DEF Spec

-----------------------------------------------------------------------------
(* The deadline is checked before a deploy is sent and before each look.   *)
LEMMA SetupInTime ==
    ASSUME TypeOK, DeployInTime, SetupStep \/ SetupFails, burn' = burn
    PROVE  DeployInTime'
<1>0. burn \in Nat /\ MaxDelay \in Nat
  BY BurnNat, PaceAssumption
<1> USE DEF DeployInTime, TypeOK, SetupStates
<1>1. CASE waitForNode \/ ReadSetupNonce
  BY <1>1 DEF waitForNode, SetupGoes, ReadSetupNonce
<1>2. ASSUME NEW isNew, NextContract(isNew) PROVE DeployInTime'
  BY <1>2 DEF NextContract
<1>3. CASE deployIfMissing
  BY <1>3, <1>2 DEF deployIfMissing, SetupGoes
<1>4. CASE assertBeforeEpoch4
  <2>1. CASE InTime(burn)
    <3>1. setup'.checked = burn
      BY <2>1, <1>4 DEF assertBeforeEpoch4
    <3> QED BY <3>1, <2>1, <1>0 DEF InTime
  <2>2. CASE ~InTime(burn)
    BY <2>2, <1>4 DEF assertBeforeEpoch4, SetupExits, SetupStart
  <2> QED BY <2>1, <2>2
<1>5. CASE deployContract
  <2>1. CASE Admits(SetupTx)
    BY <2>1, <1>5 DEF deployContract, SetupGoes, InTime
  <2>2. CASE ~Admits(SetupTx)
    BY <2>2, <1>5 DEF deployContract, SetupExits, SetupStart
  <2> QED BY <2>1, <2>2
<1>6. CASE waitForContract
  BY <1>6, <1>2 DEF waitForContract, SetupGoes
<1>7. CASE SetupTimesOut \/ SetupFails
  BY <1>7 DEF SetupTimesOut, SetupFails, SetupExits, SetupStart
<1> QED BY <1>1, <1>3, <1>4, <1>5, <1>6, <1>7 DEF SetupStep

(* bitcoin-staking does nothing before Epoch 4.0 but wait for it.          *)
LEMMA StakingInEpoch ==
    ASSUME BondsInEpoch, StakingStep \/ StakingFails
    PROVE  staking'.pc = "exited" \/ Pox5Active
<1> USE DEF BondsInEpoch
<1>1. CASE StakingFails
  BY <1>1 DEF StakingFails, StakingExits, StakingStart
<1>2. CASE StakingStep
  BY <1>2 DEF StakingStep, waitForPox5, waitForSbtcContract, waitForSignerManagers,
      BeginSweep, selectBondIndex, ReadStakingNonce, SendTask, TaskDone, TaskTimesOut,
      mintSbtcIfNeeded, registerForBond, waitForRegistrationWindow
<1> QED BY <1>1, <1>2

(* The deadline with its margin lies in time for the slowest look.         *)
LEMMA MarginIsEnough ==
    ASSUME TypeOK, DeployInTime, setup.pc \in {"broadcast", "poll"}
    PROVE  ~Pox5Active
<1>1. burn \in Nat /\ setup.checked \in Nat
  BY BurnNat DEF TypeOK, SetupStates
<1> QED BY <1>1, LedgerAssumption, SetupAssumption, PaceAssumption
        DEF DeployInTime, InTime, Pox5Active

LEMMA EpochStep == TypeOK /\ EpochInv /\ [Next]_vars => EpochInv'
<1> SUFFICES ASSUME TypeOK, EpochInv, [Next]_vars PROVE EpochInv'
  OBVIOUS
<1> USE DEF EpochInv
<1>0. UNCHANGED burn => Pox5Active' = Pox5Active
  BY DEF Pox5Active
<1>1. CASE SetupRuns \/ SetupBreaks
  <2>1. UNCHANGED <<burn, ours, others, staking>>
    BY <1>1 DEF SetupRuns, SetupBreaks, chainVars
  <2>2. DeployInTime'
    BY <1>1, <2>1, SetupInTime DEF SetupRuns, SetupBreaks
  <2>3. SetupTx.call \in Contracts
    BY DEF SetupTx, TypeOK, SetupStates
  <2>4. BondsInEpoch'
    BY <1>0, <1>1, <2>1, <2>3, SetupSends DEF SetupRuns, SetupBreaks, TypeOK, BondsInEpoch
  <2> QED BY <2>2, <2>4
<1>2. CASE StakingRuns \/ StakingBreaks
  <2>1. UNCHANGED <<burn, ours, others, setup>>
    BY <1>2 DEF StakingRuns, StakingBreaks, chainVars
  <2>2. DeployInTime'
    BY <2>1 DEF DeployInTime, InTime
  <2>3. staking'.pc = "exited" \/ Pox5Active
    BY <1>2, StakingInEpoch DEF StakingRuns, StakingBreaks
  <2>4. pending' = pending \/ Pox5Active
    BY <1>2, StakingSends DEF StakingRuns, StakingBreaks, TypeOK, BondsInEpoch
  <2>5. BondsInEpoch'
    BY <1>0, <2>1, <2>3, <2>4 DEF BondsInEpoch
  <2> QED BY <2>2, <2>5
<1>3. CASE RestartSetup \/ RestartStaking
  <2>1. UNCHANGED <<burn, ours, others, pending>>
    BY <1>3 DEF RestartSetup, RestartStaking, chainVars
  <2>2. DeployInTime'
    BY <1>3, <2>1 DEF RestartSetup, RestartStaking, SetupStart, DeployInTime, InTime
  <2>3. BondsInEpoch'
    BY <1>0, <1>3, <2>1 DEF RestartSetup, RestartStaking, StakingStart, BondsInEpoch
  <2> QED BY <2>2, <2>3
<1>4. ASSUME NEW tx \in pending, Mine(tx) \/ Lose(tx), UNCHANGED <<setup, staking>>
      PROVE  EpochInv'
  <2>1. UNCHANGED burn /\ pending' \subseteq pending
    BY <1>4 DEF Mine, Lose
  <2>2. DeployInTime'
    BY <1>4, <2>1 DEF DeployInTime, InTime
  <2>3. (ours' = ours /\ others' = others) \/ Pox5Active
    BY <1>4 DEF Mine, Lose, SetsUp, BondsInEpoch, Contracts
  <2>4. BondsInEpoch'
    BY <1>0, <1>4, <2>1, <2>3 DEF BondsInEpoch
  <2> QED BY <2>2, <2>4
<1>5. ASSUME NEW b \in OtherBonds, OtherBond(b), UNCHANGED <<setup, staking>>
      PROVE  EpochInv'
  <2>1. UNCHANGED burn /\ Pox5Active
    BY <1>5 DEF OtherBond
  <2>2. DeployInTime'
    BY <1>5, <2>1 DEF DeployInTime, InTime
  <2>3. BondsInEpoch'
    BY <1>0, <2>1 DEF BondsInEpoch
  <2> QED BY <2>2, <2>3
<1>6. ASSUME Tick, UNCHANGED <<setup, staking>> PROVE EpochInv'
  <2>0. burn \in Nat /\ STACKS_40_HEIGHT \in Nat /\ setup.checked \in Nat /\ MaxDelay \in Nat
    BY BurnNat, LedgerAssumption, PaceAssumption DEF TypeOK, SetupStates
  <2>1. burn' = burn + 1 /\ InPace /\ UNCHANGED <<ours, others, pending>>
    BY <1>6 DEF Tick, BurnBlock
  <2>2. Pox5Active => Pox5Active'
    BY <2>0, <2>1 DEF Pox5Active
  <2>3. BondsInEpoch'
    BY <1>6, <2>1, <2>2 DEF BondsInEpoch
  <2>4. setup.pc \in {"broadcast", "poll"} => burn' <= setup.checked + MaxDelay
    BY <2>0, <2>1 DEF InPace
  <2>5. DeployInTime'
    BY <1>6, <2>4 DEF DeployInTime, InTime
  <2> QED BY <2>3, <2>5
<1>7. ASSUME UNCHANGED <<burn, ours, others, pending, setup, staking>> PROVE EpochInv'
  BY <1>0, <1>7 DEF DeployInTime, InTime, BondsInEpoch
<1>8. CASE ChainRuns \/ ChainSurprises
  BY <1>8, <1>4, <1>5, <1>6, <1>7
  DEF ChainRuns, ChainSurprises, MineAny, SignersRegister
<1>9. CASE UNCHANGED vars
  BY <1>9, <1>7 DEF vars, chainVars
<1> QED BY <1>1, <1>2, <1>3, <1>8, <1>9 DEF Next

(* The margin before Epoch 4.0 keeps the two users of the account apart.   *)
THEOREM SharedAccountHolds == Spec => []SharedAccount
<1>1. Init => EpochInv
  BY DEF Init, LedgerInit, SetupStart, StakingStart, EpochInv, DeployInTime, BondsInEpoch
<1>2. TypeOK /\ EpochInv => SharedAccount
  BY MarginIsEnough DEF EpochInv, SharedAccount, BondsInEpoch
<1> QED BY <1>1, <1>2, TypeCorrect, EpochStep, PTL DEF Spec

-----------------------------------------------------------------------------
(* pox5-setup deploys one contract, and the next when it has seen it.      *)
LEMMA SetupInOrder ==
    ASSUME TypeOK, EpochInv, CompleteInv, InOrder, SetupStep \/ SetupFails,
           UNCHANGED <<deployed, late>>
    PROVE  InOrder'
<1>0. setup \in SetupStates /\ (setup.pc \in {"broadcast", "poll"} => late = {})
  BY MarginIsEnough DEF TypeOK, EpochInv, CompleteInv
<1> USE DEF InOrder, SetupStates
<1>1. CASE waitForNode \/ ReadSetupNonce
  BY <1>1, <1>0 DEF waitForNode, SetupGoes, ReadSetupNonce, NoDeployPending, Earlier
<1>2. CASE deployIfMissing
  <2>1. setup.contract \notin deployed
    BY <1>2, <1>0 DEF deployIfMissing, Earlier
  <2> QED BY <2>1, <1>2, <1>0 DEF deployIfMissing, SetupGoes, NoDeployPending, Earlier
<1>3. CASE assertBeforeEpoch4
  <2>1. CASE InTime(burn)
    BY <2>1, <1>3, <1>0 DEF assertBeforeEpoch4, NoDeployPending, Earlier
  <2>2. CASE ~InTime(burn)
    BY <2>2, <1>3 DEF assertBeforeEpoch4, SetupExits, SetupStart
  <2> QED BY <2>1, <2>2
<1>4. CASE deployContract
  <2>1. CASE Admits(SetupTx)
    <3>1. setup.contract \notin deployed
      BY <2>1 DEF Admits, SetupTx
    <3>2. setup'.pc = "poll" /\ setup'.contract = setup.contract
      BY <2>1, <1>4, <1>0 DEF deployContract, SetupGoes
    <3>3. pending' = pending \cup {SetupTx} /\ SetupTx.call = setup.contract
      BY <2>1, <1>4 DEF deployContract, SetupTx
    <3>4. NoDeployPending /\ deployed = Earlier
      BY <1>4 DEF deployContract
    <3>5. \A tx \in pending' : tx.call \in Contracts => tx.call = setup.contract
      BY <3>3, <3>4 DEF NoDeployPending
    <3> QED BY <3>1, <3>2, <3>4, <3>5 DEF Earlier
  <2>2. CASE ~Admits(SetupTx)
    BY <2>2, <1>4 DEF deployContract, SetupExits, SetupStart
  <2> QED BY <2>1, <2>2
<1>5. CASE waitForContract
  <2>1. CASE NextContract(TRUE) /\ setup.contract \in deployed
    <3>1. NoDeployPending /\ deployed = Earlier \cup {setup.contract} /\ late = {}
      BY <2>1, <1>5, <1>0 DEF waitForContract, Earlier
    <3>2. UNCHANGED pending
      BY <1>5 DEF waitForContract
    <3>3. CASE setup.contract = "sbtc-token"
      <4>1. setup'.pc = "exists" /\ setup'.contract = "sbtc-registry"
        BY <2>1, <3>3, <1>0 DEF NextContract
      <4> QED BY <4>1, <3>1, <3>2, <3>3 DEF Earlier, NoDeployPending
    <3>4. CASE setup.contract = "sbtc-registry"
      <4>1. setup'.pc = "done"
        BY <2>1, <3>4, <1>0 DEF NextContract
      <4> QED BY <4>1, <3>1, <3>2, <3>4 DEF Earlier, NoDeployPending, Contracts
    <3> QED BY <3>3, <3>4, <1>0 DEF Contracts
  <2>2. CASE SetupGoes("recheck")
    BY <2>2, <1>5, <1>0 DEF waitForContract, SetupGoes, NoDeployPending, Earlier
  <2> QED BY <1>5, <2>1, <2>2 DEF waitForContract
<1>6. CASE SetupTimesOut \/ SetupFails
  BY <1>6 DEF SetupTimesOut, SetupFails, SetupExits, SetupStart
<1> QED BY <1>1, <1>2, <1>3, <1>4, <1>5, <1>6 DEF SetupStep

(* Mining a deploy leaves no other one in the mempool.                     *)
LEMMA MinesInOrder ==
    ASSUME TypeOK, NonceInv, InOrder, NEW tx \in pending, Mine(tx), UNCHANGED setup
    PROVE  InOrder'
<1>1. pending' \subseteq pending
  BY DEF Mine
<1>2. CASE tx.call \notin Contracts
  <2>1. deployed' = deployed /\ late' = late
    BY <1>2 DEF Mine
  <2> QED BY <1>1, <2>1 DEF InOrder, NoDeployPending, Earlier
<1>3. CASE tx.call \in Contracts
  <2>1. \A m \in pending' : m.call \notin Contracts
    BY <1>3 DEF Mine, NonceInv, OneInFlight, DeploysByDeployer
  <2>2. deployed' = deployed \cup {tx.call}
    BY <1>3 DEF Mine
  <2>3. CASE setup.pc \in {"poll", "recheck"}
    <3>1. tx.call = setup.contract
      BY <1>3, <2>3 DEF InOrder
    <3> QED BY <2>1, <2>2, <2>3, <3>1 DEF InOrder, NoDeployPending, Earlier
  <2>4. CASE setup.pc \notin {"poll", "recheck"}
    BY <1>3, <2>4 DEF InOrder, NoDeployPending
  <2> QED BY <2>3, <2>4
<1> QED BY <1>2, <1>3

LEMMA CompleteStep ==
    TypeOK /\ NonceInv /\ EpochInv /\ CompleteInv /\ [Next]_vars => CompleteInv'
<1> SUFFICES ASSUME TypeOK, NonceInv, EpochInv, CompleteInv, [Next]_vars
             PROVE  CompleteInv'
  OBVIOUS
<1>1. CASE SetupRuns \/ SetupBreaks
  <2>1. UNCHANGED <<burn, deployed, late, restarts>>
    BY <1>1 DEF SetupRuns, SetupBreaks, chainVars
  <2>2. InOrder => InOrder'
    BY <1>1, <2>1, SetupInOrder DEF SetupRuns, SetupBreaks
  <2> QED BY <2>1, <2>2 DEF CompleteInv, Pox5Active
<1>2. ASSUME UNCHANGED <<deployed, late, restarts, setup>>, Pox5Active => Pox5Active',
             \A tx \in pending' : tx \in pending \/ tx.call \notin Contracts
      PROVE  CompleteInv'
  BY <1>2 DEF CompleteInv, InOrder, NoDeployPending, Earlier
<1>3. CASE StakingRuns \/ StakingBreaks
  <2>1. UNCHANGED <<burn, deployed, late, restarts, setup>>
    BY <1>3 DEF StakingRuns, StakingBreaks, chainVars
  <2>2. StakingTx.call \notin Contracts
    BY DEF StakingTx, TypeOK, StakingStates, Tasks, Contracts
  <2>3. pending' = pending \/ pending' = pending \cup {StakingTx}
    BY <1>3, StakingSends DEF StakingRuns, StakingBreaks, TypeOK
  <2> QED BY <1>2, <2>1, <2>2, <2>3 DEF Pox5Active
<1>4. CASE RestartSetup \/ RestartStaking
  <2>1. restarts' # 0 /\ UNCHANGED <<burn, late>>
    BY <1>4 DEF RestartSetup, RestartStaking, chainVars, TypeOK, LedgerTypeOK
  <2> QED BY <2>1 DEF CompleteInv, Pox5Active
<1>5. ASSUME NEW tx \in pending, Mine(tx), UNCHANGED <<setup, staking>>
      PROVE  CompleteInv'
  <2>1. UNCHANGED <<burn, restarts>> /\ (late' # {} => late # {} \/ Pox5Active)
    BY <1>5 DEF Mine
  <2>2. InOrder => InOrder'
    BY <1>5, MinesInOrder
  <2> QED BY <2>1, <2>2 DEF CompleteInv, Pox5Active
<1>6. ASSUME NEW tx \in pending, Lose(tx), UNCHANGED <<setup, staking>>
      PROVE  CompleteInv'
  BY <1>2, <1>6 DEF Lose, Pox5Active
<1>7. ASSUME NEW b \in OtherBonds, OtherBond(b), UNCHANGED <<setup, staking>>
      PROVE  CompleteInv'
  <2>1. \A tx \in pending' : tx \in pending \/ tx.call \notin Contracts
    BY <1>7 DEF OtherBond, Contracts
  <2> QED BY <1>2, <1>7, <2>1 DEF OtherBond, Pox5Active
<1>8. ASSUME Tick, UNCHANGED <<setup, staking>> PROVE CompleteInv'
  <2>1. burn' = burn + 1 /\ UNCHANGED <<deployed, late, restarts, pending>>
    BY <1>8 DEF Tick, BurnBlock
  <2>2. Pox5Active => Pox5Active'
    BY <2>1, BurnNat, LedgerAssumption DEF Pox5Active
  <2> QED BY <1>2, <1>8, <2>1, <2>2
<1>9. ASSUME UNCHANGED <<burn, deployed, late, restarts, pending, setup>>
      PROVE  CompleteInv'
  BY <1>2, <1>9 DEF Pox5Active
<1>10. CASE ChainRuns \/ ChainSurprises
  BY <1>10, <1>5, <1>6, <1>7, <1>8, <1>9
  DEF ChainRuns, ChainSurprises, MineAny, SignersRegister
<1>11. CASE UNCHANGED vars
  BY <1>11, <1>9 DEF vars, chainVars
<1> QED BY <1>1, <1>3, <1>4, <1>10, <1>11 DEF Next

(* pox5-setup reports completion only when both contracts are there and    *)
(* came in time, unless it was restarted.                                  *)
THEOREM CompletesInTimeHolds == Spec => []CompletesInTime
<1>1. Init => NonceInv /\ EpochInv /\ CompleteInv
  BY DEF Init, LedgerInit, SetupStart, StakingStart, NonceInv, OneInFlight, CountedNonce,
         ReadNonce, DeploysByDeployer, EpochInv, DeployInTime, BondsInEpoch, CompleteInv,
         InOrder, NoDeployPending, Earlier
<1>2. CompleteInv => CompletesInTime
  BY DEF CompleteInv, CompletesInTime, InOrder
<1> QED BY <1>1, <1>2, TypeCorrect, NonceStep, EpochStep, CompleteStep, PTL DEF Spec

-----------------------------------------------------------------------------
(* bitcoin-staking mints from the balance it has read.                     *)
LEMMA StakingReads ==
    ASSUME TypeOK, BalanceRead, StakingStep \/ StakingFails, sbtc' = sbtc
    PROVE  BalanceRead'
<1>0. staking \in StakingStates
  BY DEF TypeOK
<1> USE DEF BalanceRead, StakingStates
<1>1. CASE ReadStakingNonce
  <2>1. /\ staking' = [staking EXCEPT !.pc = "send", !.nonce = conf[Sender]]
        /\ staking.pc = "nonce" /\ UNCHANGED <<pending, raced>>
    BY <1>1 DEF ReadStakingNonce, Quiet
  <2>2. /\ staking'.task = staking.task /\ staking'.p = staking.p
        /\ staking'.current = staking.current
    BY <2>1, <1>0
  <2> QED BY <2>1, <2>2 DEF MintPending
<1>2. ASSUME staking'.pc \notin {"nonce", "send"} \/ staking'.task # "mint"
      PROVE  BalanceRead'
  BY <1>2
<1>3. CASE SendTask
  <2>1. CASE Admits(StakingTx)
    BY <2>1, <1>2, <1>3, <1>0 DEF SendTask
  <2>2. CASE ~Admits(StakingTx)
    BY <2>2, <1>2, <1>3 DEF SendTask, StakingExits, StakingStart
  <2> QED BY <2>1, <2>2
<1>4. CASE waitForPox5 \/ waitForSbtcContract \/ waitForSignerManagers \/ BeginSweep
  BY <1>4, <1>2, <1>0 DEF waitForPox5, waitForSbtcContract, waitForSignerManagers,
      BeginSweep, StakingGoes
<1>5. CASE selectBondIndex
  <2>1. CASE PastBond \/ ForeignBond \/ StakingGoes("sweep")
    BY <2>1, <1>5, <1>2, <1>0 DEF selectBondIndex, PastBond, ForeignBond, StakingGoes
  <2>2. ASSUME NEW pc \in {"balance", "nonce"}, Select(pc) PROVE BalanceRead'
    BY <2>2, <1>2, <1>0 DEF Select
  <2> QED BY <1>5, <2>1, <2>2 DEF selectBondIndex, ExistingBond, FreeBond
<1>6. ASSUME NEW pc \in {"balance", "membership"}, NEW after \in {"membership", "done"},
             NextParticipant(pc, after)
      PROVE  BalanceRead'
  BY <1>6, <1>2, <1>0 DEF NextParticipant
<1>7. CASE TaskDone
  BY <1>7, <1>6, <1>2, <1>0 DEF TaskDone, StakingGoes, NextMint, NextRegistration
<1>8. CASE mintSbtcIfNeeded
  <2>1. CASE sbtc[staking.p] >= AmountSats
    BY <2>1, <1>8, <1>6 DEF mintSbtcIfNeeded, NextMint
  <2>2. CASE ~(sbtc[staking.p] >= AmountSats)
    <3>1. /\ staking' = [staking EXCEPT !.pc = "nonce", !.task = "mint",
                                        !.current = sbtc[staking.p]]
          /\ raced' = IF MintPending(staking.p) THEN raced \cup {staking.p} ELSE raced
          /\ pending' = pending
      BY <2>2, <1>8 DEF mintSbtcIfNeeded
    <3>2. staking'.p = staking.p /\ staking'.current = sbtc[staking.p]
      BY <3>1, <1>0
    <3>3. staking.p \notin raced' => ~MintPending(staking.p)
      BY <3>1
    <3>4. sbtc[staking.p] \in Nat
      BY DEF TypeOK, LedgerTypeOK
    <3>5. staking.p \notin raced' => ~MintPending(staking.p)'
      BY <3>1, <3>2, <3>3 DEF MintPending
    <3>6. sbtc'[staking'.p] <= staking'.current
      BY <3>2, <3>4
    <3> QED BY <3>2, <3>5, <3>6
  <2> QED BY <2>1, <2>2
<1>9. CASE registerForBond
  BY <1>9, <1>6, <1>2, <1>0 DEF registerForBond, StakingGoes, NextRegistration
<1>10. CASE waitForRegistrationWindow \/ TaskTimesOut \/ StakingFails
  BY <1>10, <1>2, <1>0 DEF waitForRegistrationWindow, TaskTimesOut, StakingFails,
      StakingExits, StakingStart
<1> QED BY <1>1, <1>3, <1>4, <1>5, <1>7, <1>8, <1>9, <1>10 DEF StakingStep

(* Mining changes a balance by a mint of that participant, or lowers it.   *)
LEMMA MinesBalance ==
    ASSUME TypeOK, NEW tx \in pending, Mine(tx), NEW p \in Participants
    PROVE  /\ sbtc[p] \in Nat /\ sbtc'[p] \in Nat
           /\ \/ sbtc'[p] <= sbtc[p]
              \/ tx.call = "mint" /\ tx.acct = p /\ sbtc'[p] = sbtc[p] + tx.amount
<1>0. sbtc \in [Participants -> Nat] /\ tx \in Transactions /\ AmountSats \in Nat
  BY LedgerAssumption DEF TypeOK, LedgerTypeOK
<1>1. CASE tx.call = "mint"
  BY <1>0, <1>1 DEF Mine, Transactions
<1>2. CASE tx.call # "mint" /\ Registers(tx)
  BY <1>0, <1>2 DEF Mine, Registration, Registers
<1>3. CASE tx.call # "mint" /\ ~Registers(tx)
  BY <1>0, <1>3 DEF Mine, Registration
<1> QED BY <1>1, <1>2, <1>3

(* Mining keeps the mints that are left within the target.                 *)
LEMMA MinesFit ==
    ASSUME TypeOK, OneInFlight, MintInv, NEW tx \in pending, Mine(tx),
           UNCHANGED <<staking, raced>>
    PROVE  MintInv'
<1>0. /\ targetBalance \in Nat /\ pending' \subseteq pending /\ tx \notin pending'
      /\ staking.p \in Participants /\ staking.current \in Nat
  BY TargetNat, LedgerAssumption DEF Mine, TypeOK, StakingStates, TooLittle
<1>1. \A p \in Participants \ raced : sbtc'[p] <= targetBalance
  BY <1>0, MinesBalance DEF MintInv, MintsFit
<1>2. ASSUME NEW p \in Participants \ raced, NEW m \in pending',
             m.acct = p, m.call = "mint"
      PROVE  sbtc'[p] + m.amount <= targetBalance
  <2>1. tx.acct # p
    BY <1>0, <1>2 DEF OneInFlight
  <2>2. sbtc[p] \in Nat /\ sbtc'[p] \in Nat /\ sbtc'[p] <= sbtc[p]
    BY <2>1, MinesBalance
  <2>3. m.amount \in Nat /\ sbtc[p] + m.amount <= targetBalance
    BY <1>0, <1>2 DEF MintInv, MintsFit, TypeOK, LedgerTypeOK, Transactions
  <2> QED BY <2>2, <2>3, <1>0
<1>3. BalanceRead'
  <2> SUFFICES ASSUME staking.pc \in {"nonce", "send"}, staking.task = "mint",
                      staking.p \notin raced
               PROVE  sbtc'[staking.p] <= staking.current /\ ~MintPending(staking.p)'
    BY DEF BalanceRead
  <2>1. sbtc[staking.p] <= staking.current /\ ~MintPending(staking.p)
    BY DEF MintInv, BalanceRead
  <2>2. sbtc[staking.p] \in Nat /\ sbtc'[staking.p] \in Nat /\ sbtc'[staking.p] <= sbtc[staking.p]
    BY <1>0, <2>1, MinesBalance DEF MintPending
  <2> QED BY <1>0, <2>1, <2>2 DEF MintPending
<1>4. MintsFit'
  BY <1>1, <1>2 DEF MintsFit, targetBalance
<1> QED BY <1>3, <1>4 DEF MintInv

LEMMA MintStep == TypeOK /\ NonceInv /\ MintInv /\ [Next]_vars => MintInv'
<1> SUFFICES ASSUME TypeOK, NonceInv, MintInv, [Next]_vars PROVE MintInv'
  OBVIOUS
<1>1. ASSUME UNCHANGED <<staking, raced, sbtc>>,
             \A m \in pending' : m \in pending \/ m.call # "mint"
      PROVE  MintInv'
  BY <1>1 DEF MintInv, MintsFit, BalanceRead, MintPending, targetBalance
<1>2. CASE SetupRuns \/ SetupBreaks
  <2>1. UNCHANGED <<staking, raced, sbtc>>
    BY <1>2 DEF SetupRuns, SetupBreaks, chainVars
  <2>2. SetupTx.call # "mint"
    BY DEF SetupTx, TypeOK, SetupStates, Contracts
  <2>3. pending' = pending \/ pending' = pending \cup {SetupTx}
    BY <1>2, SetupSends DEF SetupRuns, SetupBreaks, TypeOK
  <2> QED BY <1>1, <2>1, <2>2, <2>3
<1>3. CASE StakingRuns \/ StakingBreaks
  <2>1. sbtc' = sbtc /\ sbtc \in [Participants -> Nat] /\ raced \subseteq raced'
    BY <1>3 DEF StakingRuns, StakingBreaks, chainVars, TypeOK, LedgerTypeOK, StakingStep,
        waitForPox5, waitForSbtcContract, waitForSignerManagers, BeginSweep,
        selectBondIndex, ReadStakingNonce, SendTask, TaskDone, TaskTimesOut,
        mintSbtcIfNeeded, registerForBond, waitForRegistrationWindow, Quiet, StakingFails
  <2>2. BalanceRead'
    BY <1>3, <2>1, StakingReads DEF StakingRuns, StakingBreaks, MintInv
  <2>3. MintsFit'
    <3>1. CASE pending' = pending
      BY <2>1, <3>1 DEF MintInv, MintsFit, targetBalance
    <3>2. CASE staking.pc = "send" /\ pending' = pending \cup {StakingTx}
      <4>1. ASSUME NEW p \in Participants \ raced,
                   StakingTx.acct = p, StakingTx.call = "mint"
            PROVE  sbtc[p] + StakingTx.amount <= targetBalance
        <5>1. staking.task = "mint" /\ staking.p = p /\ StakingTx.amount = amountToMint
          BY <4>1 DEF StakingTx, Sender
        <5>2. sbtc[p] <= staking.current /\ staking.current \in Nat /\ sbtc[p] \in Nat
          BY <3>2, <5>1, <4>1, <2>1, LedgerAssumption
          DEF MintInv, BalanceRead, TypeOK, StakingStates, TooLittle
        <5> QED BY <5>1, <5>2, TargetNat DEF amountToMint
      <4> QED BY <2>1, <3>2, <4>1 DEF MintInv, MintsFit, targetBalance
    <3> QED BY <1>3, <3>1, <3>2, StakingSends DEF StakingRuns, StakingBreaks, TypeOK
  <2> QED BY <2>2, <2>3 DEF MintInv
<1>4. CASE RestartSetup
  BY <1>1, <1>4 DEF RestartSetup, chainVars
<1>5. CASE RestartStaking
  <2>1. UNCHANGED <<raced, sbtc, pending>> /\ staking'.pc = "starting"
    BY <1>5 DEF RestartStaking, chainVars, StakingStart
  <2> QED BY <2>1 DEF MintInv, MintsFit, BalanceRead, targetBalance
<1>6. ASSUME NEW b \in OtherBonds, OtherBond(b), UNCHANGED <<staking, raced>>
      PROVE  MintInv'
  <2>1. \A m \in pending' : m \in pending \/ m.call # "mint"
    BY <1>6 DEF OtherBond
  <2> QED BY <1>1, <1>6, <2>1 DEF OtherBond
<1>7. CASE ChainRuns
  BY <1>7, <1>1, MinesFit
  DEF ChainRuns, MineAny, Tick, BurnBlock, SignersRegister, NonceInv
<1>8. CASE ChainSurprises
  BY <1>8, <1>1, <1>6 DEF ChainSurprises, Lose
<1>9. CASE UNCHANGED vars
  BY <1>1, <1>9 DEF vars, chainVars
<1> QED BY <1>2, <1>3, <1>4, <1>5, <1>7, <1>8, <1>9 DEF Next

(* Nobody is minted too much unless its balance was read while a mint was  *)
(* on its way.                                                             *)
THEOREM NoOvermintHolds == Spec => []NoOvermint
<1>1. Init => NonceInv
  BY DEF Init, LedgerInit, SetupStart, StakingStart, NonceInv, OneInFlight, CountedNonce,
         ReadNonce, DeploysByDeployer
<1>2. Init => MintInv
  <2> SUFFICES ASSUME Init PROVE MintInv
    OBVIOUS
  <2>1. \A p \in Participants : sbtc[p] \in 0..AmountSats
    BY LedgerAssumption DEF Init, LedgerInit
  <2>2. \A p \in Participants : sbtc[p] <= targetBalance
    BY <2>1, TargetNat, LedgerAssumption
  <2> QED BY <2>2 DEF Init, LedgerInit, StakingStart, MintInv, MintsFit, BalanceRead
<1>3. TypeOK /\ MintInv => NoOvermint
  <2> SUFFICES ASSUME TypeOK, MintInv, NEW p \in Participants, p \notin raced
               PROVE  ~(sbtc[p] > targetBalance)
    BY DEF NoOvermint
  <2>1. sbtc[p] \in Nat /\ sbtc[p] <= targetBalance
    BY DEF TypeOK, LedgerTypeOK, MintInv, MintsFit
  <2> QED BY <2>1, TargetNat
<1> QED BY <1>1, <1>2, <1>3, TypeCorrect, NonceStep, MintStep, PTL DEF Spec

-----------------------------------------------------------------------------
(* The last mint done, nobody has registered.                              *)
LEMMA AfterMint ==
    ASSUME TypeOK, Nobody, NextMint, UNCHANGED <<member, pending>>
    PROVE  Joining'
<1>1. CASE staking.p < NumParticipants
  <2>1. staking'.pc = "balance"
    BY <1>1 DEF NextMint, NextParticipant, TypeOK, StakingStates
  <2> QED BY <2>1 DEF Joining, Registering, Nobody
<1>2. CASE ~(staking.p < NumParticipants)
  <2>1. staking'.pc = "membership" /\ staking'.p = 1
    BY <1>2 DEF NextMint, NextParticipant, TypeOK, StakingStates
  <2>2. \A q \in Participants : ~(q < 1)
    BY DEF Participants
  <2> QED BY <2>1, <2>2 DEF Joining, Registering, Nobody, OneByOne
<1> QED BY <1>1, <1>2

(* One registration after the other, and after the last one all are done.  *)
LEMMA AfterRegistration ==
    ASSUME TypeOK, OneByOne, member[staking.p] # NoBond, NextRegistration,
           UNCHANGED <<member, pending>>
    PROVE  Joining'
<1>0. /\ staking.p \in Participants /\ staking.p \in 1..NumParticipants
      /\ NumParticipants \in Nat /\ \A q \in Participants : q \in 1..NumParticipants
  BY LedgerAssumption DEF TypeOK, StakingStates, Participants
<1>1. member[staking.p] = staking.index
  BY <1>0 DEF OneByOne
<1>2. CASE staking.p < NumParticipants
  <2>1. staking' = [staking EXCEPT !.pc = "membership", !.p = @ + 1]
    BY <1>2 DEF NextRegistration, NextParticipant
  <2>2. /\ staking'.pc = "membership" /\ staking'.p = staking.p + 1
        /\ staking'.index = staking.index
    BY <2>1 DEF TypeOK, StakingStates
  <2>3. \A q \in Participants : q < staking.p + 1 => q < staking.p \/ q = staking.p
    BY <1>0
  <2>4. \A q \in Participants : q < staking'.p => member'[q] = staking'.index
    BY <1>1, <2>2, <2>3 DEF OneByOne
  <2> QED BY <2>2, <2>4 DEF Joining, Registering, OneByOne
<1>3. CASE ~(staking.p < NumParticipants)
  <2>1. staking' = [staking EXCEPT !.pc = "done", !.p = 1]
    BY <1>3 DEF NextRegistration, NextParticipant
  <2>2. staking'.pc = "done" /\ staking'.index = staking.index
    BY <2>1 DEF TypeOK, StakingStates
  <2>3. \A q \in Participants : q < staking.p \/ q = staking.p
    BY <1>0, <1>3
  <2>4. \A q \in Participants : member'[q] = staking'.index
    BY <1>1, <2>2, <2>3 DEF OneByOne
  <2> QED BY <2>2, <2>4 DEF Joining, Registering, OneByOne
<1> QED BY <1>2, <1>3

(* The steps of bitcoin-staking.                                           *)
LEMMA StakingJoins ==
    ASSUME TypeOK, Joining, StakingStep \/ StakingFails, member' = member
    PROVE  Joining'
<1>0. staking \in StakingStates
  BY DEF TypeOK
<1> USE DEF StakingStates
<1>1. ASSUME staking'.pc = "exited" PROVE Joining'
  BY <1>1 DEF Joining, Registering
<1>2. ASSUME Nobody, pending' = pending,
             \/ staking'.pc \in {"sbtc", "signers", "sweep", "bond", "balance"}
             \/ staking'.pc = "nonce" /\ staking'.task # "register"
      PROVE  Joining'
  BY <1>2 DEF Joining, Registering, Nobody
<1>3. CASE waitForPox5 \/ waitForSbtcContract \/ waitForSignerManagers \/ BeginSweep
  <2>1. Nobody
    BY <1>3 DEF waitForPox5, waitForSbtcContract, waitForSignerManagers, BeginSweep,
        Joining, Registering
  <2> QED BY <2>1, <1>3, <1>2, <1>0 DEF waitForPox5, waitForSbtcContract,
          waitForSignerManagers, BeginSweep, StakingGoes, Quiet
<1>4. CASE selectBondIndex
  <2>0. Nobody /\ pending' = pending
    BY <1>4 DEF selectBondIndex, Joining, Registering, Quiet
  <2>1. CASE PastBond \/ ForeignBond \/ StakingGoes("sweep")
    BY <2>0, <2>1, <1>4, <1>2, <1>0 DEF selectBondIndex, PastBond, ForeignBond, StakingGoes
  <2>2. ASSUME NEW pc \in {"balance", "nonce"}, Select(pc) PROVE Joining'
    BY <2>0, <2>2, <1>2, <1>0 DEF Select
  <2> QED BY <1>4, <2>1, <2>2 DEF selectBondIndex, ExistingBond, FreeBond
<1>5. CASE ReadStakingNonce
  <2>1. /\ staking' = [staking EXCEPT !.pc = "send", !.nonce = conf[Sender]]
        /\ staking.pc = "nonce" /\ pending' = pending
    BY <1>5 DEF ReadStakingNonce, Quiet
  <2>2. /\ staking'.pc = "send" /\ staking'.task = staking.task
        /\ staking'.p = staking.p /\ staking'.index = staking.index
    BY <2>1, <1>0
  <2> QED BY <2>1, <2>2 DEF Joining, Registering, Nobody, OneByOne
<1>6. CASE SendTask
  <2>1. CASE Admits(StakingTx)
    <3>1. /\ staking' = [staking EXCEPT !.pc = "wait", !.nonce = 0, !.current = 0]
          /\ staking.pc = "send" /\ pending' = pending \cup {StakingTx}
      BY <2>1, <1>6 DEF SendTask
    <3>2. /\ staking'.pc = "wait" /\ staking'.task = staking.task
          /\ staking'.p = staking.p /\ staking'.index = staking.index
      BY <3>1, <1>0
    <3>3. StakingTx.call = staking.task
      BY DEF StakingTx
    <3>4. staking.task = "register" => StakingTx.bond = staking.index
      BY DEF StakingTx
    <3> QED BY <3>1, <3>2, <3>3, <3>4 DEF Joining, Registering, Nobody, OneByOne
  <2>2. CASE ~Admits(StakingTx)
    BY <2>2, <1>1, <1>6 DEF SendTask, StakingExits, StakingStart
  <2> QED BY <2>1, <2>2
<1>7. CASE TaskDone
  <2>0. staking.pc = "wait" /\ Arrived /\ pending' = pending
    BY <1>7 DEF TaskDone, Quiet
  <2>1. CASE staking.task = "our-bond" /\ StakingGoes("balance")
    BY <2>0, <2>1, <1>2, <1>0 DEF StakingGoes, Joining, Registering
  <2>2. CASE staking.task = "mint" /\ NextMint
    BY <2>0, <2>2, AfterMint DEF Joining, Registering
  <2>3. CASE staking.task = "register" /\ NextRegistration
    BY <2>0, <2>3, AfterRegistration DEF Joining, Registering, Arrived
  <2> QED BY <1>7, <2>1, <2>2, <2>3 DEF TaskDone
<1>8. CASE mintSbtcIfNeeded
  <2>0. Nobody /\ pending' = pending
    BY <1>8 DEF mintSbtcIfNeeded, Joining, Registering
  <2>1. CASE sbtc[staking.p] >= AmountSats
    BY <2>0, <2>1, <1>8, AfterMint DEF mintSbtcIfNeeded
  <2>2. CASE ~(sbtc[staking.p] >= AmountSats)
    BY <2>0, <2>2, <1>8, <1>2, <1>0 DEF mintSbtcIfNeeded
  <2> QED BY <2>1, <2>2
<1>9. CASE registerForBond
  <2>0. OneByOne /\ pending' = pending
    BY <1>9 DEF registerForBond, Joining, Registering, Quiet
  <2>1. CASE member[staking.p] # NoBond
    BY <2>0, <2>1, <1>9, AfterRegistration DEF registerForBond
  <2>2. CASE member[staking.p] = NoBond
    <3>1. staking' = [staking EXCEPT !.pc = "window"] /\ staking.pc = "membership"
      BY <2>2, <1>9 DEF registerForBond, StakingGoes
    <3>2. staking'.pc = "window" /\ staking'.p = staking.p /\ staking'.index = staking.index
      BY <3>1, <1>0
    <3> QED BY <2>0, <3>1, <3>2 DEF Joining, Registering, OneByOne
  <2> QED BY <2>1, <2>2
<1>10. CASE waitForRegistrationWindow
  <2>0. OneByOne /\ pending' = pending /\ staking.pc = "window"
    BY <1>10 DEF waitForRegistrationWindow, Joining, Registering, Quiet
  <2>1. CASE StakingExits("started")
    BY <2>1, <1>1 DEF StakingExits, StakingStart
  <2>2. CASE staking' = [staking EXCEPT !.pc = "nonce", !.task = "register"]
    <3>1. /\ staking'.pc = "nonce" /\ staking'.task = "register"
          /\ staking'.p = staking.p /\ staking'.index = staking.index
      BY <2>2, <1>0
    <3> QED BY <2>0, <3>1 DEF Joining, Registering, OneByOne
  <2> QED BY <1>10, <2>1, <2>2 DEF waitForRegistrationWindow
<1>11. CASE TaskTimesOut \/ StakingFails
  BY <1>11, <1>1 DEF TaskTimesOut, StakingFails, StakingExits, StakingStart
<1> QED BY <1>3, <1>4, <1>5, <1>6, <1>7, <1>8, <1>9, <1>10, <1>11 DEF StakingStep

(* Mining registers a participant for the bond of its transaction.         *)
LEMMA MinesJoin ==
    ASSUME TypeOK, Joining, NEW tx \in pending, Mine(tx), UNCHANGED staking
    PROVE  Joining'
<1>0. /\ member \in [Participants -> Nat \cup {NoBond}] /\ staking.index \in Nat
      /\ pending' \subseteq pending /\ staking.index # NoBond
  BY DEF Mine, TypeOK, LedgerTypeOK, StakingStates, NoBond
<1>1. CASE tx.call # "register"
  <2>1. member' = member
    BY <1>1 DEF Mine, Registration, Registers
  <2> QED BY <1>0, <2>1 DEF Joining, Registering, Nobody, OneByOne
<1>2. CASE tx.call = "register"
  <2>1. member' = member \/ member' = [member EXCEPT ![tx.acct] = tx.bond]
    BY <1>2 DEF Mine, Registration
  <2>2. staking.pc = "exited" \/ Registering
    BY <1>2 DEF Joining, Nobody
  <2>3. CASE Registering
    <3>1. tx.bond = staking.index
      BY <1>2, <2>3 DEF Joining, OneByOne
    <3>2. \A q \in Participants : member'[q] = member[q] \/ member'[q] = staking.index
      BY <1>0, <2>1, <3>1
    <3> QED BY <1>0, <2>3, <3>2 DEF Joining, Registering, OneByOne
  <2>4. CASE staking.pc = "exited"
    BY <2>4 DEF Joining, Registering
  <2> QED BY <2>2, <2>3, <2>4
<1> QED BY <1>1, <1>2

LEMMA BondStep == TypeOK /\ BondInv /\ [Next]_vars => BondInv'
<1> SUFFICES ASSUME TypeOK, BondInv, [Next]_vars PROVE BondInv'
  OBVIOUS
<1>1. ASSUME UNCHANGED <<staking, member, restarts>>,
             \A m \in pending' : m \in pending \/ m.call # "register"
      PROVE  BondInv'
  BY <1>1 DEF BondInv, Joining, Registering, Nobody, OneByOne
<1>2. CASE SetupRuns \/ SetupBreaks
  <2>1. UNCHANGED <<staking, member, restarts>>
    BY <1>2 DEF SetupRuns, SetupBreaks, chainVars
  <2>2. SetupTx.call # "register"
    BY DEF SetupTx, TypeOK, SetupStates, Contracts
  <2>3. pending' = pending \/ pending' = pending \cup {SetupTx}
    BY <1>2, SetupSends DEF SetupRuns, SetupBreaks, TypeOK
  <2> QED BY <1>1, <2>1, <2>2, <2>3
<1>3. CASE StakingRuns \/ StakingBreaks
  <2>1. UNCHANGED <<member, restarts>>
    BY <1>3 DEF StakingRuns, StakingBreaks, chainVars
  <2> QED BY <1>3, <2>1, StakingJoins DEF StakingRuns, StakingBreaks, BondInv
<1>4. CASE RestartSetup \/ RestartStaking
  <2>1. restarts' # 0
    BY <1>4 DEF RestartSetup, RestartStaking, TypeOK, LedgerTypeOK
  <2> QED BY <2>1 DEF BondInv
<1>5. ASSUME NEW tx \in pending, Mine(tx), UNCHANGED staking PROVE BondInv'
  <2>1. UNCHANGED restarts
    BY <1>5 DEF Mine
  <2> QED BY <1>5, <2>1, MinesJoin DEF BondInv
<1>6. ASSUME NEW b \in OtherBonds, OtherBond(b), UNCHANGED staking PROVE BondInv'
  <2>1. \A m \in pending' : m \in pending \/ m.call # "register"
    BY <1>6 DEF OtherBond
  <2> QED BY <1>1, <1>6, <2>1 DEF OtherBond
<1>7. CASE ChainRuns
  BY <1>7, <1>1, <1>5 DEF ChainRuns, MineAny, Tick, BurnBlock, SignersRegister
<1>8. CASE ChainSurprises
  BY <1>8, <1>1, <1>6 DEF ChainSurprises, Lose
<1>9. CASE UNCHANGED vars
  BY <1>1, <1>9 DEF vars, chainVars
<1> QED BY <1>2, <1>3, <1>4, <1>7, <1>8, <1>9 DEF Next

(* Completion means that everybody is in the one selected bond, unless     *)
(* bitcoin-staking was restarted.                                          *)
THEOREM OneBondHolds == Spec => []OneBond
<1>1. Init => BondInv
  BY DEF Init, LedgerInit, StakingStart, BondInv, Joining, Registering, Nobody
<1>2. BondInv => OneBond
  BY DEF BondInv, OneBond, Joining, Registering, OneByOne
<1> QED BY <1>1, <1>2, TypeCorrect, BondStep, PTL DEF Spec

-----------------------------------------------------------------------------
(* The setup window of a bond opens when the bond before it starts, or     *)
(* later.                                                                  *)
LEMMA WindowOpens ==
    ASSUME NEW b \in Nat, NEW i \in Nat, b < i
    PROVE  bondStartBurnHeight(b) <= bondSetupOpenHeight(bondStartBurnHeight(i))
<1>1. BondPeriod \in Nat /\ BondZero \in Nat /\ setupWindow \in Nat /\ BondPeriod >= setupWindow
  BY LedgerAssumption, CalendarAssumption, GapAssumption DEF setupWindow, BOND_GAP_CYCLES
<1>2. PICK k \in Nat : i = b + 1 + k
  <2>1. i - b - 1 \in Nat /\ i = b + 1 + (i - b - 1)
    OBVIOUS
  <2> QED BY <2>1
<1>3. \A x, y, z \in Nat : (x + 1 + y) * z = x * z + z + y * z /\ x * z \in Nat /\ y * z \in Nat
  OBVIOUS
<1>4. /\ i * BondPeriod = b * BondPeriod + BondPeriod + k * BondPeriod
      /\ b * BondPeriod \in Nat /\ k * BondPeriod \in Nat
  BY <1>1, <1>2, <1>3
<1> HIDE DEF setupWindow
<1> QED BY <1>1, <1>4 DEF bondStartBurnHeight, bondSetupOpenHeight

(* Every bond that is set up or about to be had its window open.           *)
Opens(b) == bondSetupOpenHeight(bondStartBurnHeight(b))
OpenedBy(h) ==
    /\ \A b \in ours : Opens(b) <= h
    /\ \A tx \in pending : tx.call = "our-bond" => Opens(tx.bond) <= h

WindowInv ==
    /\ staking.height <= burn
    /\ OpenedBy(burn)
    /\ staking.pc = "bond" => OpenedBy(staking.height)
    /\ Selected => Opens(staking.index) <= staking.height

(* The height at which the window of a bond opens is a natural number.     *)
LEMMA OpensNat == \A b \in Nat : Opens(b) \in Nat
<1>1. setupWindow \in Nat
  BY CalendarAssumption DEF setupWindow, BOND_GAP_CYCLES
<1> QED BY <1>1, StartNat DEF Opens, bondSetupOpenHeight

(* The steps of bitcoin-staking.                                           *)
LEMMA StakingSelects ==
    ASSUME TypeOK, WindowInv, StakingStep \/ StakingFails, UNCHANGED <<burn, ours>>
    PROVE  WindowInv'
<1>0. /\ staking \in StakingStates /\ burn \in Nat /\ staking.height \in Nat
      /\ staking.index \in Nat /\ Opens(staking.index) \in Nat /\ bondIndex \in Nat
  BY BurnNat, OpensNat DEF TypeOK, StakingStates, bondIndex
<1> USE DEF StakingStates
<1>1. (OpenedBy(burn))'
  <2>1. CASE pending' = pending
    BY <2>1 DEF WindowInv, OpenedBy, Opens, bondSetupOpenHeight, bondStartBurnHeight
  <2>2. CASE staking.pc = "send" /\ pending' = pending \cup {StakingTx}
    <3>1. StakingTx.call = "our-bond" => StakingTx.bond = staking.index
      BY DEF StakingTx
    <3>2. Opens(staking.index) <= burn
      BY <1>0, <2>2 DEF WindowInv, Selected
    <3> QED BY <2>2, <3>1, <3>2 DEF WindowInv, OpenedBy, Opens, bondSetupOpenHeight,
            bondStartBurnHeight
  <2> QED BY <2>1, <2>2, StakingSends DEF TypeOK
<1>2. ASSUME staking'.pc = "exited", staking'.height = 0 PROVE WindowInv'
  BY <1>0, <1>1, <1>2 DEF WindowInv, Selected
<1>3. ASSUME staking'.height = staking.height,
             staking'.pc \in {"sbtc", "signers", "sweep"}
      PROVE  WindowInv'
  BY <1>1, <1>3 DEF WindowInv, Selected
<1>4. ASSUME staking'.height = staking.height, Opens(staking'.index) <= staking.height,
             staking'.pc # "bond"
      PROVE  WindowInv'
  <2>1. Selected' => Opens(staking'.index) <= staking'.height
    BY <1>4
  <2> QED BY <1>1, <1>4, <2>1
          DEF WindowInv, Opens, bondSetupOpenHeight, bondStartBurnHeight
<1>5. ASSUME Selected, staking'.height = staking.height, staking'.index = staking.index,
             staking'.pc # "bond"
      PROVE  WindowInv'
  BY <1>4, <1>5 DEF WindowInv
<1>6. CASE waitForPox5 \/ waitForSbtcContract \/ waitForSignerManagers
  BY <1>0, <1>3, <1>6 DEF waitForPox5, waitForSbtcContract, waitForSignerManagers,
      StakingGoes
<1>7. CASE BeginSweep
  <2>1. staking'.height = burn /\ staking'.pc = "bond"
    BY <1>0, <1>7 DEF BeginSweep, SweepHeight
  <2> QED BY <1>0, <1>1, <2>1 DEF WindowInv, Selected, OpenedBy
<1>8. CASE selectBondIndex
  <2>0. staking.pc = "bond" /\ UNCHANGED pending
    BY <1>8 DEF selectBondIndex, Quiet
  <2>1. CASE PastBond \/ ForeignBond
    <3>1. staking'.height = staking.height /\ staking'.pc = "bond"
      BY <1>0, <2>0, <2>1 DEF PastBond, ForeignBond
    <3> QED BY <1>1, <2>0, <3>1 DEF WindowInv, Selected, OpenedBy, Opens,
            bondSetupOpenHeight, bondStartBurnHeight
  <2>2. ASSUME NEW pc \in {"balance", "nonce"}, Select(pc),
               Opens(bondIndex) <= staking.height
        PROVE  WindowInv'
    <3>1. /\ staking'.height = staking.height /\ staking'.pc = pc
          /\ staking'.index = bondIndex
      BY <1>0, <2>2 DEF Select
    <3> QED BY <1>4, <2>2, <3>1
  <2>3. CASE ExistingBond
    <3>1. Opens(bondIndex) <= staking.height
      BY <2>0, <2>3 DEF ExistingBond, WindowInv, OpenedBy
    <3> QED BY <2>2, <2>3, <3>1 DEF ExistingBond
  <2>4. StakingGoes("sweep") => WindowInv'
    BY <1>0, <1>3 DEF StakingGoes
  <2>5. CASE FreeBond
    BY <2>2, <2>4, <2>5 DEF FreeBond, Opens
  <2> QED BY <1>8, <2>1, <2>3, <2>4, <2>5 DEF selectBondIndex
<1>9. CASE ReadStakingNonce
  BY <1>0, <1>5, <1>9 DEF ReadStakingNonce, Selected
<1>10. ASSUME NEW pc \in {"balance", "membership"}, NEW after \in {"membership", "done"},
              NextParticipant(pc, after), Selected
       PROVE  WindowInv'
  BY <1>0, <1>5, <1>10 DEF NextParticipant
<1>11. CASE SendTask
  <2>1. CASE Admits(StakingTx)
    BY <2>1, <1>0, <1>5, <1>11 DEF SendTask, Selected
  <2>2. CASE ~Admits(StakingTx)
    BY <2>2, <1>2, <1>11 DEF SendTask, StakingExits, StakingStart
  <2> QED BY <2>1, <2>2
<1>12. CASE TaskDone
  BY <1>0, <1>5, <1>10, <1>12 DEF TaskDone, StakingGoes, NextMint, NextRegistration, Selected
<1>13. CASE mintSbtcIfNeeded
  <2>1. CASE sbtc[staking.p] >= AmountSats
    BY <2>1, <1>10, <1>13 DEF mintSbtcIfNeeded, NextMint, Selected
  <2>2. CASE ~(sbtc[staking.p] >= AmountSats)
    BY <2>2, <1>0, <1>5, <1>13 DEF mintSbtcIfNeeded, Selected
  <2> QED BY <2>1, <2>2
<1>14. CASE registerForBond
  BY <1>0, <1>5, <1>10, <1>14 DEF registerForBond, StakingGoes, NextRegistration, Selected
<1>15. CASE waitForRegistrationWindow
  <2>1. CASE StakingExits("started")
    BY <2>1, <1>2 DEF StakingExits, StakingStart
  <2>2. CASE staking' = [staking EXCEPT !.pc = "nonce", !.task = "register"]
    BY <2>2, <1>0, <1>5, <1>15 DEF waitForRegistrationWindow, Selected
  <2> QED BY <1>15, <2>1, <2>2 DEF waitForRegistrationWindow
<1>16. CASE TaskTimesOut \/ StakingFails
  BY <1>16, <1>2 DEF TaskTimesOut, StakingFails, StakingExits, StakingStart
<1> QED BY <1>6, <1>7, <1>8, <1>9, <1>11, <1>12, <1>13, <1>14, <1>15, <1>16
        DEF StakingStep

LEMMA WindowStep == TypeOK /\ WindowInv /\ [Next]_vars => WindowInv'
<1> SUFFICES ASSUME TypeOK, WindowInv, [Next]_vars PROVE WindowInv'
  OBVIOUS
<1> USE DEF Opens, bondSetupOpenHeight, bondStartBurnHeight
<1>1. ASSUME UNCHANGED <<staking, burn, ours>>,
             \A m \in pending' : m \in pending \/ m.call # "our-bond"
      PROVE  WindowInv'
  BY <1>1 DEF WindowInv, Selected, OpenedBy
<1>2. CASE SetupRuns \/ SetupBreaks
  <2>1. UNCHANGED <<staking, burn, ours>>
    BY <1>2 DEF SetupRuns, SetupBreaks, chainVars
  <2>2. SetupTx.call # "our-bond"
    BY DEF SetupTx, TypeOK, SetupStates, Contracts
  <2>3. pending' = pending \/ pending' = pending \cup {SetupTx}
    BY <1>2, SetupSends DEF SetupRuns, SetupBreaks, TypeOK
  <2> QED BY <1>1, <2>1, <2>2, <2>3
<1>3. CASE StakingRuns \/ StakingBreaks
  BY <1>3, StakingSelects DEF StakingRuns, StakingBreaks, chainVars
<1>4. CASE RestartSetup
  BY <1>1, <1>4 DEF RestartSetup, chainVars
<1>5. CASE RestartStaking
  <2>1. UNCHANGED <<burn, ours, pending>> /\ staking'.pc = "starting" /\ staking'.height = 0
    BY <1>5 DEF RestartStaking, chainVars, StakingStart
  <2> QED BY <2>1, BurnNat DEF WindowInv, Selected, OpenedBy
<1>6. ASSUME NEW tx \in pending, Mine(tx), UNCHANGED staking PROVE WindowInv'
  <2>1. burn' = burn /\ pending' \subseteq pending
    BY <1>6 DEF Mine
  <2>2. ours' = ours \/ (tx.call = "our-bond" /\ ours' = ours \cup {tx.bond})
    BY <1>6 DEF Mine
  <2> QED BY <1>6, <2>1, <2>2 DEF WindowInv, Selected, OpenedBy
<1>7. ASSUME NEW b \in OtherBonds, OtherBond(b), UNCHANGED staking PROVE WindowInv'
  <2>1. \A m \in pending' : m \in pending \/ m.call # "our-bond"
    BY <1>7 DEF OtherBond
  <2> QED BY <1>1, <1>7, <2>1 DEF OtherBond
<1>8. ASSUME Tick, UNCHANGED staking PROVE WindowInv'
  <2>1. burn' = burn + 1 /\ UNCHANGED <<ours, pending>> /\ staking.height \in Nat
    BY <1>8 DEF Tick, BurnBlock, TypeOK, StakingStates
  <2> HIDE DEF Opens
  <2>2. ASSUME NEW b \in Nat, Opens(b) <= burn PROVE Opens(b) <= burn'
    BY <2>1, <2>2, BurnNat, OpensNat
  <2>3. ours \subseteq Nat /\ \A tx \in pending : tx.bond \in Nat
    BY DEF TypeOK, LedgerTypeOK, Transactions
  <2>4. OpenedBy(burn) /\ (staking.pc = "bond" => OpenedBy(staking.height))
    BY DEF WindowInv
  <2>5. (OpenedBy(burn))'
    BY <2>1, <2>2, <2>3, <2>4 DEF OpenedBy, Opens
  <2>6. (staking.pc = "bond" => OpenedBy(staking.height))'
    BY <1>8, <2>1, <2>4 DEF OpenedBy, Opens
  <2>7. (Selected => Opens(staking.index) <= staking.height)'
    BY <1>8 DEF WindowInv, Selected, Opens
  <2>8. (staking.height <= burn)'
    BY <1>8, <2>1, BurnNat DEF WindowInv
  <2> QED BY <2>5, <2>6, <2>7, <2>8 DEF WindowInv
<1>9. CASE ChainRuns
  BY <1>9, <1>1, <1>6, <1>8 DEF ChainRuns, MineAny, SignersRegister
<1>10. CASE ChainSurprises
  BY <1>10, <1>1, <1>7 DEF ChainSurprises, Lose
<1>11. CASE UNCHANGED vars
  BY <1>1, <1>11 DEF vars, chainVars
<1> QED BY <1>2, <1>3, <1>4, <1>5, <1>9, <1>10, <1>11 DEF Next

(* No bond that one could still register for lies before the selected one. *)
THEOREM SelectsNextHolds == Spec => []SelectsNext
<1>1. Init => WindowInv
  <2>1. Init => staking.height = 0 /\ burn = 0 /\ staking.pc = "starting"
    BY DEF Init, LedgerInit, StakingStart
  <2> QED BY <2>1 DEF Init, LedgerInit, WindowInv, Selected, OpenedBy
<1>2. TypeOK /\ WindowInv => SelectsNext
  <2> SUFFICES ASSUME TypeOK, WindowInv, Selected,
                      NEW b \in configuredBondIndex..(staking.index - 1)
               PROVE  staking.height >= bondStartBurnHeight(b)
    BY DEF SelectsNext
  <2>1. staking.index \in Nat /\ staking.height \in Nat /\ b \in Nat /\ b < staking.index
    BY StakingAssumption DEF TypeOK, StakingStates
  <2>2. bondStartBurnHeight(b) <= Opens(staking.index)
    BY <2>1, WindowOpens DEF Opens
  <2>3. Opens(staking.index) <= staking.height
    BY DEF WindowInv
  <2> QED BY <2>1, <2>2, <2>3, StartNat, OpensNat
<1> QED BY <1>1, <1>2, TypeCorrect, WindowStep, PTL DEF Spec

-----------------------------------------------------------------------------
(* Without a restart, and while Epoch 4.0 has not begun, pox5-setup alone  *)
(* moves the deployer's nonce, so its count is exact.                      *)
ExactCount ==
    ~Pox5Active =>
        /\ setup.pc \in {"exists", "check", "broadcast"} => conf[Deployer] = setup.nonce
        /\ setup.pc \in {"poll", "recheck"} =>
              IF setup.contract \in deployed
              THEN conf[Deployer] = setup.nonce + 1
              ELSE conf[Deployer] = setup.nonce

(* bitcoin-staking has at most the transaction in flight that it waits     *)
(* for, and none of the account it sends for next.                         *)
Fresh ==
    \/ staking.pc \in {"starting", "sbtc", "signers", "sweep", "bond"}
    \/ staking.pc \in {"nonce", "send"} /\ staking.task = "our-bond"

OwnTurn ==
    /\ staking.why # "refused"
    /\ staking.pc # "exited" =>
          \A tx \in pending : tx.acct \in Participants =>
              /\ staking.pc = "wait" /\ staking.task # "our-bond"
              /\ tx.acct = staking.p /\ ~Arrived
    /\ Fresh => \A tx \in pending : tx.acct # BondAdmin
    /\ staking.pc \in {"nonce", "send"} /\ staking.task # "our-bond" => ~Arrived
    /\ staking.pc = "window" => member[staking.p] = NoBond
    /\ staking.pc = "send" => staking.nonce = conf[Sender]

Clear ==
    /\ setup.why # "refused"
    /\ ExactCount
    /\ staking.why = "refused" => Pox5Active
    /\ setup.pc = "done" /\ sentOthers = {} => OwnTurn

ClashInv == restarts = 0 => Clear

(* Before Epoch 4.0 there is nothing but deploys in the mempool.           *)
LEMMA DeploysOnly ==
    ASSUME EpochInv, ~Pox5Active
    PROVE  \A tx \in pending : tx.call \in Contracts
  BY DEF EpochInv, BondsInEpoch

(* The count of pox5-setup is exact, and no deploy of it is refused.       *)
LEMMA SetupCounts ==
    ASSUME TypeOK, EpochInv, InOrder, ExactCount, setup.why # "refused",
           SetupStep \/ SetupFails, UNCHANGED <<conf, deployed, burn>>
    PROVE  ExactCount' /\ setup'.why # "refused"
<1>0. /\ setup \in SetupStates /\ conf[Deployer] \in Nat /\ (Pox5Active' <=> Pox5Active)
      /\ setup.pc \in {"broadcast", "poll"} => ~Pox5Active
  BY MarginIsEnough DEF TypeOK, LedgerTypeOK, Accounts, Pox5Active, EpochInv
<1> USE DEF ExactCount, SetupStates
<1>1. CASE waitForNode \/ ReadSetupNonce
  BY <1>0, <1>1 DEF waitForNode, SetupGoes, ReadSetupNonce
<1>2. CASE deployIfMissing
  <2>1. setup.contract \notin deployed
    BY <1>0, <1>2 DEF deployIfMissing, InOrder, Earlier
  <2> QED BY <1>0, <1>2, <2>1 DEF deployIfMissing, SetupGoes
<1>3. CASE assertBeforeEpoch4
  <2>1. CASE InTime(burn)
    <3>1. CASE setup.pc = "check"
      BY <1>0, <1>3, <2>1, <3>1 DEF assertBeforeEpoch4
    <3>2. CASE setup.pc = "recheck"
      BY <1>0, <1>3, <2>1, <3>2 DEF assertBeforeEpoch4
    <3> QED BY <1>3, <3>1, <3>2 DEF assertBeforeEpoch4
  <2>2. CASE ~InTime(burn)
    BY <1>3, <2>2 DEF assertBeforeEpoch4, SetupExits, SetupStart
  <2> QED BY <2>1, <2>2
<1>4. CASE deployContract
  <2>1. /\ setup.pc = "broadcast" /\ ~Pox5Active /\ NoDeployPending /\ deployed = Earlier
        /\ conf[Deployer] = setup.nonce
    BY <1>0, <1>4 DEF deployContract, InOrder
  <2>2. setup.contract \notin deployed
    BY <1>0, <2>1 DEF Earlier
  <2>3. \A m \in pending : m.acct # Deployer
    BY <2>1, DeploysOnly DEF NoDeployPending
  <2>4. Admits(SetupTx)
    BY <1>0, <2>1, <2>2, <2>3 DEF Admits, SetupTx
  <2> QED BY <1>0, <1>4, <2>1, <2>2, <2>4 DEF deployContract, SetupGoes
<1>5. CASE waitForContract
  <2>1. CASE NextContract(TRUE) /\ setup.contract \in deployed
    BY <1>0, <1>5, <2>1 DEF waitForContract, NextContract, NonceAfter
  <2>2. CASE SetupGoes("recheck")
    BY <1>0, <1>5, <2>2 DEF waitForContract, SetupGoes
  <2> QED BY <1>5, <2>1, <2>2 DEF waitForContract
<1>6. CASE SetupTimesOut \/ SetupFails
  BY <1>6 DEF SetupTimesOut, SetupFails, SetupExits, SetupStart
<1> QED BY <1>1, <1>2, <1>3, <1>4, <1>5, <1>6 DEF SetupStep

(* Mining counts the deploy that is awaited.                               *)
LEMMA MinesCount ==
    ASSUME TypeOK, NonceInv, EpochInv, InOrder, ExactCount,
           NEW tx \in pending, Mine(tx), UNCHANGED setup
    PROVE  ExactCount'
<1> SUFFICES ASSUME ~Pox5Active PROVE ExactCount'
  BY DEF ExactCount, Mine, Pox5Active
<1>0. conf[Deployer] \in Nat /\ setup.nonce \in Nat /\ tx.acct \in Accounts
  BY DEF TypeOK, LedgerTypeOK, Accounts, SetupStates, Transactions
<1>1. CASE tx.acct = Deployer
  <2>1. tx.call \in Contracts
    BY <1>1, DeploysOnly
  <2>2. conf'[Deployer] = conf[Deployer] + 1 /\ deployed' = deployed \cup {tx.call}
    BY <1>1, <2>1, MinesNonce DEF Mine
  <2>3. setup.pc \notin {"exists", "check", "broadcast"}
    BY <2>1 DEF InOrder, NoDeployPending
  <2>4. setup.pc \in {"poll", "recheck"} =>
            tx.call = setup.contract /\ setup.contract \notin deployed
    BY <2>1 DEF InOrder, NoDeployPending
  <2> QED BY <2>2, <2>3, <2>4, <1>0 DEF ExactCount
<1>2. CASE tx.acct # Deployer
  <2>1. tx.call \notin Contracts
    BY <1>2 DEF NonceInv, DeploysByDeployer
  <2>2. conf'[Deployer] = conf[Deployer] /\ deployed' = deployed
    BY <1>0, <1>2, <2>1 DEF Mine, TypeOK, LedgerTypeOK
  <2> QED BY <2>2 DEF ExactCount
<1> QED BY <1>1, <1>2

(* Mining a transaction of somebody else leaves a participant as it is.    *)
LEMMA MinesOther ==
    ASSUME TypeOK, NEW tx \in pending, Mine(tx), NEW a \in Accounts, tx.acct # a
    PROVE  /\ conf'[a] = conf[a]
           /\ a \in Participants => sbtc'[a] = sbtc[a] /\ member'[a] = member[a]
<1>1. conf'[a] = conf[a]
  BY DEF Mine, TypeOK, LedgerTypeOK
<1>2. a \in Participants => sbtc'[a] = sbtc[a]
  BY DEF Mine, Registration, TypeOK, LedgerTypeOK
<1>3. a \in Participants => member'[a] = member[a]
  BY DEF Mine, Registration, TypeOK, LedgerTypeOK
<1> QED BY <1>1, <1>2, <1>3

LEMMA MinesTurn ==
    ASSUME TypeOK, OneInFlight, OwnTurn, NEW tx \in pending, Mine(tx), UNCHANGED staking
    PROVE  OwnTurn'
<1>0. /\ pending' \subseteq pending /\ tx \notin pending' /\ staking.p \in Participants
      /\ staking.p \in Accounts /\ BondAdmin \in Accounts
      /\ staking.task \in Tasks
  BY DEF Mine, TypeOK, StakingStates, Accounts
<1>1. ASSUME tx.acct # staking.p, staking.task # "our-bond" PROVE Arrived' <=> Arrived
  BY <1>0, <1>1, MinesOther DEF Arrived
<1>2. ASSUME staking.pc # "exited", NEW m \in pending', m.acct \in Participants
      PROVE  /\ staking.pc = "wait" /\ staking.task # "our-bond"
             /\ m.acct = staking.p /\ ~Arrived'
  <2>1. /\ staking.pc = "wait" /\ staking.task # "our-bond"
        /\ m.acct = staking.p /\ ~Arrived
    BY <1>0, <1>2 DEF OwnTurn
  <2>2. tx.acct # staking.p
    BY <1>0, <2>1 DEF OneInFlight
  <2> QED BY <1>1, <2>1, <2>2
<1>3. staking.pc \in {"nonce", "send", "window"} => tx.acct # staking.p
  BY <1>0 DEF OwnTurn
<1>4. staking.pc \in {"nonce", "send"} /\ staking.task # "our-bond" => ~Arrived'
  BY <1>1, <1>3 DEF OwnTurn
<1>5. staking.pc = "window" => member'[staking.p] = NoBond
  BY <1>0, <1>3, MinesOther DEF OwnTurn
<1>6. staking.pc = "send" => staking.nonce = conf'[Sender]
  <2>1. staking.pc = "send" => tx.acct # Sender
    BY <1>3 DEF OwnTurn, Sender, Fresh
  <2>2. Sender \in Accounts
    BY StakingTxType
  <2> QED BY <2>1, <2>2, MinesOther DEF OwnTurn
<1>7. (Sender' = Sender) /\ (Fresh' <=> Fresh)
  BY DEF Sender, Fresh
<1> QED BY <1>0, <1>2, <1>4, <1>5, <1>6, <1>7 DEF OwnTurn

(* The steps of bitcoin-staking while it has the accounts to itself.       *)
LEMMA StakingTurn ==
    ASSUME TypeOK, OwnTurn, StakingStep \/ StakingFails,
           UNCHANGED <<conf, sbtc, member, ours, deployed>>
    PROVE  OwnTurn'
<1>0. /\ staking \in StakingStates /\ staking.p \in Participants
      /\ BondAdmin \notin Participants
  BY LedgerAssumption DEF TypeOK, StakingStates
<1> USE DEF StakingStates
<1>1. ASSUME staking'.pc = "exited", staking'.why # "refused" PROVE OwnTurn'
  BY <1>1 DEF OwnTurn, Fresh
<1>2. ASSUME staking'.pc \in {"sbtc", "signers", "sweep", "bond"},
             staking'.why = staking.why, Fresh, pending' = pending
      PROVE  OwnTurn'
  BY <1>2 DEF OwnTurn, Fresh
<1>3. ASSUME staking'.pc \in {"balance", "membership", "done"}, staking'.why = staking.why,
             \A tx \in pending : tx.acct \notin Participants, pending' = pending
      PROVE  OwnTurn'
  BY <1>3 DEF OwnTurn, Fresh
<1>4. CASE waitForPox5 \/ waitForSbtcContract \/ waitForSignerManagers \/ BeginSweep
  BY <1>0, <1>2, <1>4 DEF waitForPox5, waitForSbtcContract, waitForSignerManagers,
      BeginSweep, StakingGoes, Quiet, Fresh
<1>5. CASE selectBondIndex
  <2>0. staking.pc = "bond" /\ pending' = pending
    BY <1>5 DEF selectBondIndex, Quiet
  <2>1. CASE PastBond \/ ForeignBond \/ StakingGoes("sweep")
    BY <1>0, <1>2, <2>0, <2>1 DEF PastBond, ForeignBond, StakingGoes, Fresh
  <2>2. CASE Select("balance")
    BY <1>0, <1>3, <2>0, <2>2 DEF Select, OwnTurn
  <2>3. CASE Select("nonce")
    <3>1. staking'.pc = "nonce" /\ staking'.task = "our-bond" /\ staking'.why = staking.why
      BY <1>0, <2>3 DEF Select
    <3> QED BY <2>0, <3>1 DEF OwnTurn, Fresh
  <2> QED BY <1>5, <2>1, <2>2, <2>3 DEF selectBondIndex, ExistingBond, FreeBond
<1>6. CASE ReadStakingNonce
  <2>1. /\ staking' = [staking EXCEPT !.pc = "send", !.nonce = conf[Sender]]
        /\ staking.pc = "nonce" /\ pending' = pending
    BY <1>6 DEF ReadStakingNonce, Quiet
  <2>2. /\ staking'.pc = "send" /\ staking'.task = staking.task /\ staking'.p = staking.p
        /\ staking'.index = staking.index /\ staking'.why = staking.why
        /\ staking'.nonce = conf[Sender]
    BY <2>1, <1>0
  <2>3. (Sender' = Sender) /\ (Arrived' <=> Arrived)
    BY <2>2 DEF Sender, Arrived
  <2> QED BY <2>1, <2>2, <2>3 DEF OwnTurn, Fresh
<1>7. CASE SendTask
  <2>0. staking.pc = "send"
    BY <1>7 DEF SendTask
  <2>1. \A m \in pending : m.acct # Sender
    BY <1>0, <2>0 DEF OwnTurn, Sender, Fresh
  <2>2. staking.task \notin deployed
    BY <1>0 DEF TypeOK, LedgerTypeOK, Contracts, Tasks
  <2>3. conf[Sender] \in Nat /\ staking.nonce = conf[Sender]
    BY <2>0, StakingTxType DEF OwnTurn, TypeOK, LedgerTypeOK
  <2>4. Admits(StakingTx)
    BY <2>1, <2>2, <2>3 DEF Admits, StakingTx
  <2>5. /\ staking' = [staking EXCEPT !.pc = "wait", !.nonce = 0, !.current = 0]
        /\ pending' = pending \cup {StakingTx}
    BY <1>7, <2>4 DEF SendTask
  <2>6. /\ staking'.pc = "wait" /\ staking'.task = staking.task /\ staking'.p = staking.p
        /\ staking'.index = staking.index /\ staking'.why = staking.why
    BY <2>5, <1>0
  <2>7. staking.task # "our-bond" => ~Arrived'
    BY <2>0, <2>6 DEF OwnTurn, Arrived
  <2>8. \A m \in pending : m.acct \notin Participants
    BY <2>0 DEF OwnTurn
  <2>9. StakingTx.acct \in Participants => staking.task # "our-bond" /\ StakingTx.acct = staking.p
    BY <1>0 DEF StakingTx, Sender
  <2> QED BY <2>5, <2>6, <2>7, <2>8, <2>9 DEF OwnTurn, Fresh
<1>8. CASE TaskDone
  <2>0. staking.pc = "wait" /\ Arrived /\ pending' = pending
    BY <1>8 DEF TaskDone, Quiet
  <2>1. \A m \in pending : m.acct \notin Participants
    BY <2>0 DEF OwnTurn
  <2> QED BY <1>0, <1>3, <1>8, <2>0, <2>1 DEF TaskDone, StakingGoes, NextMint,
          NextRegistration, NextParticipant
<1>9. CASE mintSbtcIfNeeded
  <2>0. staking.pc = "balance" /\ pending' = pending
    BY <1>9 DEF mintSbtcIfNeeded
  <2>1. \A m \in pending : m.acct \notin Participants
    BY <2>0 DEF OwnTurn
  <2>2. CASE sbtc[staking.p] >= AmountSats
    BY <1>0, <1>3, <1>9, <2>0, <2>1, <2>2 DEF mintSbtcIfNeeded, NextMint, NextParticipant
  <2>3. CASE ~(sbtc[staking.p] >= AmountSats)
    <3>1. staking' = [staking EXCEPT !.pc = "nonce", !.task = "mint",
                                     !.current = sbtc[staking.p]]
      BY <1>9, <2>3 DEF mintSbtcIfNeeded
    <3>2. /\ staking'.pc = "nonce" /\ staking'.task = "mint" /\ staking'.p = staking.p
          /\ staking'.why = staking.why
      BY <1>0, <3>1
    <3>3. ~Arrived'
      BY <2>3, <3>2 DEF Arrived
    <3> QED BY <2>0, <2>1, <3>2, <3>3 DEF OwnTurn, Fresh
  <2> QED BY <2>2, <2>3
<1>10. CASE registerForBond
  <2>0. staking.pc = "membership" /\ pending' = pending
    BY <1>10 DEF registerForBond, Quiet
  <2>1. \A m \in pending : m.acct \notin Participants
    BY <2>0 DEF OwnTurn
  <2>2. CASE member[staking.p] # NoBond
    BY <1>0, <1>3, <1>10, <2>0, <2>1, <2>2
    DEF registerForBond, NextRegistration, NextParticipant
  <2>3. CASE member[staking.p] = NoBond
    <3>1. staking' = [staking EXCEPT !.pc = "window"]
      BY <1>10, <2>3 DEF registerForBond, StakingGoes
    <3>2. staking'.pc = "window" /\ staking'.p = staking.p /\ staking'.why = staking.why
      BY <1>0, <3>1
    <3> QED BY <2>0, <2>1, <2>3, <3>2 DEF OwnTurn, Fresh
  <2> QED BY <2>2, <2>3
<1>11. CASE waitForRegistrationWindow
  <2>0. staking.pc = "window" /\ pending' = pending
    BY <1>11 DEF waitForRegistrationWindow, Quiet
  <2>1. CASE StakingExits("started")
    BY <1>1, <2>1 DEF StakingExits, StakingStart
  <2>2. CASE staking' = [staking EXCEPT !.pc = "nonce", !.task = "register"]
    <3>1. /\ staking'.pc = "nonce" /\ staking'.task = "register" /\ staking'.p = staking.p
          /\ staking'.why = staking.why
      BY <1>0, <2>2
    <3>2. ~Arrived'
      BY <2>0, <3>1 DEF OwnTurn, Arrived
    <3>3. \A m \in pending : m.acct \notin Participants
      BY <2>0 DEF OwnTurn
    <3> QED BY <2>0, <3>1, <3>2, <3>3 DEF OwnTurn, Fresh
  <2> QED BY <1>11, <2>1, <2>2 DEF waitForRegistrationWindow
<1>12. CASE TaskTimesOut \/ StakingFails
  BY <1>1, <1>12 DEF TaskTimesOut, StakingFails, StakingExits, StakingStart
<1> QED BY <1>4, <1>5, <1>6, <1>7, <1>8, <1>9, <1>10, <1>11, <1>12 DEF StakingStep

(* Only Epoch 4.0 can bring a refusal to bitcoin-staking.                  *)
LEMMA RefusedInEpoch ==
    ASSUME BondsInEpoch, StakingStep \/ StakingFails
    PROVE  staking'.why # "refused" \/ Pox5Active
<1> USE DEF BondsInEpoch
<1>1. CASE StakingFails
  BY <1>1 DEF StakingFails, StakingExits, StakingStart
<1>2. CASE StakingStep
  BY <1>2 DEF StakingStep, waitForPox5, waitForSbtcContract, waitForSignerManagers,
      BeginSweep, selectBondIndex, ReadStakingNonce, SendTask, TaskDone, TaskTimesOut,
      mintSbtcIfNeeded, registerForBond, waitForRegistrationWindow
<1> QED BY <1>1, <1>2

(* pox5-setup comes to its end before Epoch 4.0 and with no deploy left.   *)
LEMMA Completes ==
    ASSUME TypeOK, EpochInv, InOrder, SetupStep \/ SetupFails, setup'.pc = "done"
    PROVE  ~Pox5Active /\ NoDeployPending /\ pending' = pending
<1>0. setup \in SetupStates
  BY DEF TypeOK
<1> USE DEF SetupStates
<1>1. ~waitForNode /\ ~ReadSetupNonce
  BY <1>0 DEF waitForNode, SetupGoes, ReadSetupNonce
<1>2. ~deployIfMissing
  <2> SUFFICES ASSUME deployIfMissing PROVE FALSE
    OBVIOUS
  <2>1. setup.contract \notin deployed
    BY <1>0 DEF deployIfMissing, InOrder, Earlier
  <2> QED BY <1>0, <2>1 DEF deployIfMissing, SetupGoes
<1>3. ~assertBeforeEpoch4
  BY <1>0 DEF assertBeforeEpoch4, SetupExits, SetupStart
<1>4. ~deployContract
  BY <1>0 DEF deployContract, SetupGoes, SetupExits, SetupStart
<1>5. ~SetupTimesOut /\ ~SetupFails
  BY DEF SetupTimesOut, SetupFails, SetupExits, SetupStart
<1>6. waitForContract
  BY <1>1, <1>2, <1>3, <1>4, <1>5 DEF SetupStep
<1>7. setup.pc = "poll" /\ setup.contract \in deployed /\ pending' = pending
  BY <1>0, <1>6 DEF waitForContract, SetupGoes
<1> QED BY <1>7, MarginIsEnough DEF EpochInv, InOrder

(* What bitcoin-staking finds when pox5-setup has completed: a mempool     *)
(* without anything.                                                       *)
LEMMA SetupClear ==
    ASSUME TypeOK, EpochInv, InOrder, Clear, SetupStep \/ SetupFails,
           UNCHANGED <<conf, deployed, burn, staking, sentOthers>>
    PROVE  Clear'
<1>1. ExactCount' /\ setup'.why # "refused"
  BY SetupCounts DEF Clear
<1>2. (staking.why = "refused" => Pox5Active)'
  BY DEF Clear, Pox5Active
<1>3. ASSUME setup'.pc = "done" PROVE OwnTurn'
  <2>1. ~Pox5Active /\ NoDeployPending /\ pending' = pending
    BY <1>3, Completes
  <2>2. pending' = {}
    BY <2>1, DeploysOnly DEF NoDeployPending
  <2>3. staking.pc \in {"starting", "exited"} /\ staking.why # "refused"
    BY <2>1 DEF EpochInv, BondsInEpoch, Clear
  <2> QED BY <2>2, <2>3 DEF OwnTurn, Fresh
<1> QED BY <1>1, <1>2, <1>3 DEF Clear

LEMMA ClashStep ==
    TypeOK /\ NonceInv /\ EpochInv /\ CompleteInv /\ ClashInv /\ [Next]_vars => ClashInv'
<1> SUFFICES ASSUME TypeOK, NonceInv, EpochInv, CompleteInv, ClashInv, [Next]_vars
             PROVE  ClashInv'
  OBVIOUS
<1>0. restarts = 0 => InOrder /\ Clear
  BY DEF CompleteInv, ClashInv
<1>1. CASE SetupRuns \/ SetupBreaks
  <2>1. UNCHANGED <<conf, deployed, burn, staking, sentOthers, restarts>>
    BY <1>1 DEF SetupRuns, SetupBreaks, chainVars
  <2> QED BY <1>0, <1>1, <2>1, SetupClear DEF SetupRuns, SetupBreaks, ClashInv
<1>2. CASE StakingRuns \/ StakingBreaks
  <2>1. /\ UNCHANGED <<conf, sbtc, member, ours, deployed, burn, sentOthers, restarts, setup>>
        /\ StakingStep \/ StakingFails
    BY <1>2 DEF StakingRuns, StakingBreaks, chainVars
  <2>2. ASSUME Clear PROVE Clear'
    <3>1. ExactCount'
      BY <2>1, <2>2 DEF Clear, ExactCount, Pox5Active
    <3>2. staking'.why = "refused" => Pox5Active
      BY <2>1, RefusedInEpoch DEF EpochInv
    <3>3. OwnTurn => OwnTurn'
      BY <2>1, StakingTurn
    <3> QED BY <2>1, <2>2, <3>1, <3>2, <3>3 DEF Clear, Pox5Active
  <2> QED BY <1>0, <2>1, <2>2 DEF ClashInv
<1>3. CASE RestartSetup \/ RestartStaking
  <2>1. restarts' # 0
    BY <1>3 DEF RestartSetup, RestartStaking, TypeOK, LedgerTypeOK
  <2> QED BY <2>1 DEF ClashInv
<1>4. ASSUME NEW tx \in pending, Mine(tx), UNCHANGED <<setup, staking>> PROVE ClashInv'
  <2>1. UNCHANGED <<burn, restarts, sentOthers>>
    BY <1>4 DEF Mine
  <2>2. ASSUME InOrder, Clear PROVE Clear'
    <3>1. ExactCount'
      BY <1>4, <2>2, MinesCount DEF Clear
    <3>2. OwnTurn => OwnTurn'
      BY <1>4, MinesTurn DEF NonceInv
    <3> QED BY <1>4, <2>1, <2>2, <3>1, <3>2 DEF Clear, Pox5Active
  <2> QED BY <1>0, <2>1, <2>2 DEF ClashInv
<1>5. ASSUME UNCHANGED <<setup, staking, conf, deployed, ours, sbtc, member, restarts>>,
             burn' = burn \/ burn' = burn + 1,
             \/ pending' \subseteq pending /\ UNCHANGED sentOthers
             \/ sentOthers' # {}
      PROVE  ClashInv'
  <2>1. Pox5Active => Pox5Active'
    BY <1>5, BurnNat, LedgerAssumption DEF Pox5Active
  <2>2. ASSUME Clear PROVE Clear'
    <3>1. ExactCount'
      BY <1>5, <2>1, <2>2 DEF Clear, ExactCount
    <3>2. OwnTurn /\ pending' \subseteq pending => OwnTurn'
      BY <1>5 DEF OwnTurn, Fresh, Arrived, Sender
    <3> QED BY <1>5, <2>1, <2>2, <3>1, <3>2 DEF Clear
  <2> QED BY <1>0, <1>5, <2>2 DEF ClashInv
<1>6. ASSUME NEW b \in OtherBonds, OtherBond(b), UNCHANGED <<setup, staking>>
      PROVE  ClashInv'
  BY <1>5, <1>6 DEF OtherBond
<1>7. CASE ChainRuns
  BY <1>4, <1>5, <1>7 DEF ChainRuns, MineAny, Tick, BurnBlock, SignersRegister
<1>8. CASE ChainSurprises
  BY <1>5, <1>6, <1>8 DEF ChainSurprises, Lose
<1>9. CASE UNCHANGED vars
  BY <1>5, <1>9 DEF vars, chainVars
<1> QED BY <1>1, <1>2, <1>3, <1>7, <1>8, <1>9 DEF Next

(* Left alone, neither process ever gets a broadcast refused.              *)
THEOREM NoClashHolds == Spec => []NoClash
<1>1. Init => NonceInv /\ EpochInv /\ CompleteInv
  BY DEF Init, LedgerInit, SetupStart, StakingStart, NonceInv, OneInFlight, CountedNonce,
         ReadNonce, DeploysByDeployer, EpochInv, DeployInTime, BondsInEpoch, CompleteInv,
         InOrder, NoDeployPending, Earlier
<1>2. Init => ClashInv
  BY DEF Init, LedgerInit, SetupStart, StakingStart, ClashInv, Clear, ExactCount
<1>3. ClashInv => NoClash
  BY DEF ClashInv, Clear, OwnTurn, NoClash
<1> QED BY <1>1, <1>2, <1>3, TypeCorrect, NonceStep, EpochStep, CompleteStep, ClashStep,
           PTL DEF Spec
=============================================================================
