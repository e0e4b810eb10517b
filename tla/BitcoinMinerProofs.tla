------------------------- MODULE BitcoinMinerProofs -------------------------
(***************************************************************************)
(* Proofs about BitcoinMiner, for any number of Stacks miners, any heights *)
(* and any number of failures, restarts and foreign blocks: its types, and *)
(* what the start of the Stacks miners and the pause rely on.              *)
(***************************************************************************)
EXTENDS BitcoinMiner, TLAPS

(* Products of natural numbers are natural, monotone and distribute.       *)
LEMMA Product ==
    ASSUME NEW a \in Nat, NEW b \in Nat, NEW c \in Nat
    PROVE  /\ a * c \in Nat
           /\ (a + 1) * c = a * c + c
           /\ a <= b => a * c <= b * c
<1>1. a * c \in Nat /\ (a + 1) * c = a * c + c
  OBVIOUS
<1>2. ASSUME a <= b PROVE a * c <= b * c
  <2>1. b - a \in Nat /\ b = a + (b - a)
    BY <1>2
  <2>2. (b - a) * c \in Nat
    BY <2>1
  <2>3. b * c = a * c + (b - a) * c
    BY <2>1
  <2> QED BY <1>1, <2>2, <2>3
<1> QED BY <1>1, <1>2

(* The division of the blocks of init: nothing is lost, nothing is handed  *)
(* out twice.                                                              *)
LEMMA Division ==
    /\ mineable_blocks \in Nat
    /\ blocks_per_miner \in Nat
    /\ remainder_blocks \in Nat
    /\ NUM_MINERS * blocks_per_miner + remainder_blocks = mineable_blocks
<1> DEFINE S == STACKS_2_05_HEIGHT - 1 - RESERVED_BLOCKS
           q == S \div NUM_MINERS
<1>1. S \in Nat /\ NUM_MINERS \in Nat /\ NUM_MINERS > 0
  BY MinerAssumption
<1> HIDE DEF S
<1>2. q \in Nat /\ NUM_MINERS * q <= S
  BY <1>1
<1>3. q * NUM_MINERS = NUM_MINERS * q /\ NUM_MINERS * q \in Nat
  BY <1>1, <1>2
<1>4. q = blocks_per_miner /\ S = mineable_blocks
  BY DEF blocks_per_miner, mineable_blocks, S
<1>5. remainder_blocks = S - NUM_MINERS * q
  BY <1>3, <1>4, MinerAssumption DEF remainder_blocks, S
<1> HIDE DEF q
<1> QED BY <1>1, <1>2, <1>3, <1>4, <1>5

(* What the miners before the i-th got, and what the i-th gets.            *)
LEMMA Shares ==
    ASSUME NEW k \in Miners
    PROVE  /\ k * blocks_per_miner \in Nat
           /\ k * blocks_per_miner <= mineable_blocks
           /\ (k + 1) * blocks_per_miner = k * blocks_per_miner + blocks_per_miner
           /\ k # NUM_MINERS - 1 =>
                 (k + 1) * blocks_per_miner <= mineable_blocks
           /\ k = NUM_MINERS - 1 =>
                 k * blocks_per_miner + (blocks_per_miner + remainder_blocks)
                    = mineable_blocks
<1>1. /\ k \in Nat /\ k + 1 \in Nat /\ NUM_MINERS \in Nat
      /\ k <= NUM_MINERS /\ k + 1 <= NUM_MINERS
  BY MinerAssumption DEF Miners
<1>2. /\ k * blocks_per_miner <= NUM_MINERS * blocks_per_miner
      /\ (k + 1) * blocks_per_miner <= NUM_MINERS * blocks_per_miner
      /\ k * blocks_per_miner \in Nat
      /\ (k + 1) * blocks_per_miner \in Nat
      /\ (k + 1) * blocks_per_miner = k * blocks_per_miner + blocks_per_miner
      /\ NUM_MINERS * blocks_per_miner \in Nat
  BY <1>1, Product, Division
<1>3. k = NUM_MINERS - 1 => (k + 1) * blocks_per_miner = NUM_MINERS * blocks_per_miner
  BY <1>1
<1> QED BY <1>2, <1>3, Division

(* The reserved blocks are still to come when init has shared the others.  *)
LEMMA Reserve ==
    /\ mineable_blocks + RESERVED_BLOCKS = STACKS_2_05_HEIGHT - 1
    /\ STACKS_2_05_HEIGHT \in Nat /\ RESERVED_BLOCKS \in Nat /\ RESERVED_BLOCKS > 0
    /\ PAUSE_HEIGHT \in Nat /\ STACKS_2_05_HEIGHT <= PAUSE_HEIGHT
  BY MinerAssumption DEF mineable_blocks

(* A share is a number of blocks, and the loop over the miners stays in it.*)
LEMMA ShareType ==
    ASSUME TypeOK
    PROVE  /\ Share \in Nat
           /\ ~LastMiner => i + 1 \in Miners
           /\ 0 \in Miners
<1>1. Share \in Nat
  BY Division DEF Share
<1>2. (~LastMiner => i + 1 \in Miners) /\ 0 \in Miners
  BY MinerAssumption DEF TypeOK, Miners, LastMiner
<1> QED BY <1>1, <1>2

(* What init() keeps in its type; the depositor's blocks need the count.   *)
LEMMA TypeGenesis == TypeOK /\ GenesisInv /\ init => TypeOK'
<1> SUFFICES ASSUME TypeOK, GenesisInv, init PROVE TypeOK'
  OBVIOUS
<1> USE DEF TypeOK, Fails, Works, bounds, chain, script, history, Sharing, Depositing,
            Setup, Looping
<1>0. Miners \subseteq Wallets /\ depositor \in Wallets /\ 0 \in Miners
  BY MinerAssumption, ShareType DEF Miners, Wallets, depositor
<1>1. CASE Main
  <2>1. skipped' \in BOOLEAN
    BY <1>1, Zenon DEF Main
  <2>2. faults' \in Nat /\ UNCHANGED <<restarts, external>>
    BY <1>1 DEF Main
  <2>3. pc' \in {"canary", "producer"} /\ UNCHANGED <<chain, script, pausedOnce>>
    BY <1>1 DEF Main
  <2> HIDE DEF Fails, Works
  <2> QED BY <2>1, <2>2, <2>3
<1>2. CASE Canary
  BY <1>2, <1>0 DEF Canary
<1>3. CASE MinerWallet
  BY <1>3, <1>0 DEF MinerWallet, EnsureWallet
<1>4. CASE MinerImport
  BY <1>4, <1>0 DEF MinerImport, EnsureImported, import_address
<1>5. CASE MineShare
  <2>1. height + Share \in Nat /\ mined_counter + Share \in Nat
    BY ShareType
  <2>2. reward' \in [Miners -> Nat] /\ height' \in Nat
    BY <1>5, <2>1 DEF MineShare
  <2>3. tx' \in [Miners -> {"none", "unconfirmed", "confirmed"}]
    BY <1>5 DEF MineShare
  <2>4. i' \in Miners /\ mined_counter' \in Nat
    BY <1>5, <2>1, ShareType DEF MineShare
  <2>5. pc' \in {"depositor", "wallet", "exited"}
    BY <1>5 DEF MineShare, NextShare, AfterRefusal
  <2> QED BY <1>5, <2>2, <2>3, <2>4, <2>5 DEF MineShare
<1>6. CASE DepositorWallet
  BY <1>6, <1>0 DEF DepositorWallet, EnsureWallet, getnewaddressFails
<1>7. CASE DepositorImport
  BY <1>7 DEF DepositorImport, import_address
<1>8. CASE DepositorMine
  <2>1. depositor_blocks \in Nat
    BY <1>8, Division, Reserve DEF DepositorMine, GenesisInv, depositor_blocks
  <2>2. height' \in Nat
    BY <1>8, <2>1 DEF DepositorMine
  <2>3. pc' \in {"producer", "exited"}
    BY <1>8 DEF DepositorMine, AfterRefusal
  <2> QED BY <1>8, <2>2, <2>3 DEF DepositorMine
<1> QED BY <1>1, <1>2, <1>3, <1>4, <1>5, <1>6, <1>7, <1>8 DEF init

(* A block leaves the chain's variables in their types.                    *)
LEMMA NewBlockType ==
    ASSUME TypeOK, NewBlock
    PROVE  /\ height' \in Nat
           /\ tx' \in [Miners -> {"none", "unconfirmed", "confirmed"}]
           /\ UNCHANGED <<wallets, imported, reward>>
<1>1. height' \in Nat
  BY DEF TypeOK, NewBlock
<1>2. tx' \in [Miners -> {"none", "unconfirmed", "confirmed"}]
  BY DEF TypeOK, NewBlock
<1> QED BY <1>1, <1>2 DEF NewBlock

(* mining_loop() and everything around the script keep the types as well.  *)
LEMMA TypeLoop ==
    TypeOK /\ (mining_loop \/ Resume \/ TimeOut \/ BlockCommit \/ LivenessTest \/ Restart)
       => TypeOK'
<1> SUFFICES ASSUME TypeOK,
                    \/ mining_loop \/ Resume \/ TimeOut
                    \/ BlockCommit \/ LivenessTest \/ Restart
             PROVE  TypeOK'
  OBVIOUS
<1>a. CASE LivenessTest
  <2>1. external' \in Nat
    BY <1>a DEF LivenessTest, TypeOK
  <2> QED
    BY <1>a, <2>1, NewBlockType DEF LivenessTest, TypeOK, script, history
<1>b. CASE MineBlock
  <2>1. block_height' \in Int /\ faults' \in Nat /\ UNCHANGED <<restarts, external>>
    BY <1>b DEF MineBlock, TypeOK, Fails, Works, bounds, block_height_Counted
  <2>2. CASE NewBlock
    BY <1>b, <2>1, <2>2, NewBlockType DEF MineBlock, TypeOK, history, Looping
  <2>3. CASE UNCHANGED chain
    BY <1>b, <2>1, <2>3 DEF MineBlock, TypeOK, history, chain, Looping
  <2> QED BY <1>b, <2>2, <2>3 DEF MineBlock
<1> USE DEF TypeOK, Fails, Works, bounds, chain, script, history, Sharing, Depositing,
            Setup, Looping
<1>0. producer \in Wallets /\ 0 \in Miners
  BY MinerAssumption, ShareType DEF Wallets, producer
<1>1. CASE ProducerWallet
  BY <1>1, <1>0 DEF ProducerWallet, EnsureWallet
<1>2. CASE ProducerImport
  BY <1>2, <1>0 DEF ProducerImport, EnsureImported, import_address
<1>3. CASE ReadHeight
  <2>1. block_height' \in Int
    BY <1>3 DEF ReadHeight
  <2>2. faults' \in Nat /\ UNCHANGED <<restarts, external>>
    BY <1>3 DEF ReadHeight
  <2>3. /\ pc' = "scan" /\ i' = 0 /\ conf_counter' = FALSE
        /\ UNCHANGED <<chain, btc, mined_counter, depositor_addr, late, history>>
    BY <1>3 DEF ReadHeight
  <2> QED BY <2>1, <2>2, <2>3, <1>0
<1>4. CASE Scan
  <2>1. i' \in Miners
    BY <1>4, ShareType DEF Scan
  <2>2. conf_counter' \in BOOLEAN
    BY <1>4 DEF Scan, Confirmed
  <2> QED BY <1>4, <2>1, <2>2 DEF Scan
<1>5. CASE NoBlock \/ Resume \/ TimeOut
  BY <1>5 DEF NoBlock, Resume, TimeOut
<1>6. CASE Boundary
  BY <1>6, Zenon DEF Boundary, AtBoundary
<1>7. CASE Sleep
  BY <1>7, <1>0 DEF Sleep
<1>8. CASE BlockCommit
  BY <1>8 DEF BlockCommit
<1>9. CASE Restart
  <2>1. restarts' \in Nat /\ faults' \in Nat /\ external' \in Nat
    BY <1>9 DEF Restart
  <2>2. btc' \in Wallets \cup {Unset} /\ block_height' \in Int
    BY <1>9 DEF Restart
  <2> QED BY <1>9, <1>0, <2>1, <2>2 DEF Restart
<1> QED BY <1>a, <1>b, <1>1, <1>2, <1>3, <1>4, <1>5, <1>6, <1>7, <1>8, <1>9
        DEF mining_loop

(* Until init has handed out its shares, the chain is too short for the    *)
(* health check: nobody but init mines.                                    *)
LEMMA Unhealthy ==
    ASSUME TypeOK, GenesisInv, pc \in {"canary"} \cup Sharing \cup Depositing
    PROVE  ~Healthy
<1>1. /\ mineable_blocks < STACKS_2_05_HEIGHT - 1
      /\ mineable_blocks \in Nat /\ STACKS_2_05_HEIGHT \in Nat
  BY Reserve, Division
<1>2. height \in Nat /\ mined_counter \in Nat
  BY DEF TypeOK
<1>3. CASE pc = "canary"
  BY <1>1, <1>2, <1>3 DEF GenesisInv, Healthy
<1>4. CASE pc \in Sharing
  <2>1. i * blocks_per_miner <= mineable_blocks /\ i * blocks_per_miner \in Nat
    BY Shares DEF TypeOK
  <2>2. height = mined_counter /\ mined_counter = i * blocks_per_miner
    BY <1>4 DEF GenesisInv
  <2> QED BY <1>1, <1>2, <2>1, <2>2 DEF Healthy
<1>5. CASE pc \in Depositing
  BY <1>1, <1>2, <1>5 DEF GenesisInv, Healthy
<1> QED BY <1>3, <1>4, <1>5

(* init's account of the shares is kept by every step.                     *)
LEMMA GenesisStep == TypeOK /\ GenesisInv /\ [Next]_vars => GenesisInv'
<1> SUFFICES ASSUME TypeOK, GenesisInv, [Next]_vars PROVE GenesisInv'
  OBVIOUS
<1>1. ASSUME UNCHANGED <<height, reward, mined_counter, i, pc>> PROVE GenesisInv'
  BY <1>1 DEF GenesisInv
<1>2. ASSUME UNCHANGED reward, pc' \notin {"canary"} \cup Sharing \cup Depositing
      PROVE  GenesisInv'
  BY <1>2 DEF GenesisInv
<1>3. CASE Main
  BY <1>3 DEF Main, chain, GenesisInv, Sharing, Depositing
<1>4. CASE Canary
  <2>1. 0 * blocks_per_miner = 0
    BY Division
  <2>2. pc' = "wallet" /\ i' = 0 /\ mined_counter' = 0 /\ height' = 0 /\ UNCHANGED reward
    BY <1>4 DEF Canary, chain, GenesisInv
  <2> QED BY <2>1, <2>2 DEF GenesisInv, Depositing
<1>5. CASE MinerWallet \/ MinerImport
  <2>1. /\ UNCHANGED <<height, reward, mined_counter, i>>
        /\ pc \in Sharing /\ pc' \in Sharing \cup {"exited"}
    BY <1>5
    DEF MinerWallet, MinerImport, EnsureWallet, EnsureImported, script, Sharing
  <2> QED BY <2>1 DEF GenesisInv, Sharing, Depositing
<1>6. CASE MineShare
  <2>0. /\ pc = "mine" /\ i \in Miners /\ mined_counter = i * blocks_per_miner
        /\ height = mined_counter
    BY <1>6 DEF MineShare, GenesisInv, Sharing, TypeOK
  <2>1. CASE pc' = "exited"
    <3>1. UNCHANGED reward
      BY <1>6, <2>1 DEF MineShare, NextShare
    <3> QED BY <1>2, <2>1, <3>1 DEF Sharing, Depositing
  <2>2. CASE pc' # "exited"
    <3>1. /\ pc' = NextShare
          /\ height' = height + Share /\ mined_counter' = mined_counter + Share
          /\ \A m \in Miners : reward'[m] = reward[m] \/ reward'[m] = height + Share
      BY <1>6, <2>2, ShareType DEF MineShare, AfterRefusal, TypeOK
    <3>2. height' = mined_counter'
      BY <2>0, <3>1
    <3>3. CASE LastMiner
      <4>1. pc' = "depositor" /\ mined_counter' = mineable_blocks
        BY <2>0, <3>1, <3>3, Shares DEF NextShare, LastMiner, Share
      <4>2. \A m \in Miners : reward'[m] <= mineable_blocks
        BY <3>1, <3>2, <4>1, Division DEF GenesisInv
      <4> QED BY <3>2, <4>1, <4>2 DEF GenesisInv, Sharing
    <3>4. CASE ~LastMiner
      <4>1. /\ pc' = "wallet" /\ i' = i + 1
            /\ mined_counter' = (i + 1) * blocks_per_miner
            /\ mined_counter' <= mineable_blocks
        BY <1>6, <2>0, <3>1, <3>4, Shares DEF MineShare, NextShare, LastMiner, Share
      <4>2. \A m \in Miners : reward'[m] <= mineable_blocks
        BY <3>1, <3>2, <4>1, ShareType, Division DEF GenesisInv, TypeOK
      <4> QED BY <3>2, <4>1, <4>2 DEF GenesisInv, Depositing
    <3> QED BY <3>3, <3>4
  <2> QED BY <2>1, <2>2
<1>7. CASE DepositorWallet \/ DepositorImport
  <2>1. /\ UNCHANGED <<height, reward, mined_counter>>
        /\ pc \in Depositing /\ pc' \in Depositing \cup {"exited"}
    BY <1>7
    DEF DepositorWallet, DepositorImport, EnsureWallet, getnewaddressFails, script,
        Depositing
  <2> QED BY <2>1 DEF GenesisInv, Sharing, Depositing
<1>8. CASE DepositorMine \/ mining_loop \/ Resume \/ Restart
  <2>1. UNCHANGED reward
    BY <1>8
    DEF DepositorMine, mining_loop, Resume, Restart, ProducerWallet, EnsureWallet,
        ProducerImport, EnsureImported, ReadHeight, Scan, MineBlock, NewBlock,
        NoBlock, Boundary, Sleep, chain
  <2>2. pc' \notin {"canary"} \cup Sharing \cup Depositing
    BY <1>8
    DEF DepositorMine, AfterRefusal, mining_loop, Resume, Restart, ProducerWallet,
        EnsureWallet, ProducerImport, EnsureImported, ReadHeight, Scan, MineBlock,
        NoBlock, Boundary, Sleep, Sharing, Depositing
  <2> QED BY <1>2, <2>1, <2>2
<1>9. CASE LivenessTest
  <2>1. UNCHANGED <<reward, pc>> /\ pc \notin {"canary"} \cup Sharing \cup Depositing
    BY <1>9, Unhealthy DEF LivenessTest, NewBlock
  <2> QED BY <1>2, <2>1
<1>10. CASE TimeOut \/ BlockCommit \/ UNCHANGED vars
  BY <1>1, <1>10 DEF TimeOut, BlockCommit, vars, chain, script
<1> QED
  BY <1>3, <1>4, <1>5, <1>6, <1>7, <1>8, <1>9, <1>10 DEF Next, init

(* A miner that init has served stays served.                              *)
LEMMA ServedStays ==
    ASSUME wallets \subseteq wallets', \A m \in Miners : reward[m] # 0 => reward'[m] # 0,
           NEW m \in Miners, Served(m)
    PROVE  Served(m)'
  BY DEF Served

(* What init has done for its wallets is as WalletInv says after every step. *)
LEMMA WalletStep == TypeOK /\ GenesisInv /\ WalletInv /\ [Next]_vars => WalletInv'
<1> SUFFICES ASSUME TypeOK, GenesisInv, WalletInv, [Next]_vars PROVE WalletInv'
  OBVIOUS
<1>0. /\ depositor \notin Miners /\ producer # depositor
      /\ depositor \in wallets => \A m \in Miners : Served(m)
  BY MinerAssumption DEF Miners, depositor, producer, WalletInv
<1>1. ASSUME UNCHANGED <<height, wallets, reward, skipped, i, pc>> PROVE WalletInv'
  BY <1>1 DEF WalletInv, WalletsFirst, Healthy, Served
<1>2. ASSUME UNCHANGED <<height, wallets, reward, skipped>>
      PROVE  /\ WalletsFirst'
             /\ depositor \in wallets' => \A m \in Miners : Served(m)'
  BY <1>2 DEF WalletInv, WalletsFirst, Healthy, Served
<1>3. CASE Main
  <2>1. /\ UNCHANGED <<height, wallets, reward>>
        /\ \/ pc' = "canary" /\ UNCHANGED skipped
           \/ pc' = "producer" /\ skipped' = (skipped \/ ~(GenesisWallets \subseteq wallets))
    BY <1>3 DEF Main, chain
  <2>2. ~skipped' => ~skipped
    BY <2>1, Zenon
  <2>3. depositor \in wallets' => \A m \in Miners : Served(m)'
    BY <1>0, <2>1 DEF Served
  <2>4. WalletsFirst'
    BY <2>1, <2>2, <2>3 DEF WalletInv, WalletsFirst, Healthy
  <2>5. pc' = "producer" /\ ~skipped' => GenesisWallets \subseteq wallets'
    BY <2>1, Zenon DEF GenesisWallets
  <2>6. pc' = "producer" /\ ~skipped' => depositor \in wallets'
    BY <2>5 DEF GenesisWallets
  <2> QED
    BY <2>1, <2>3, <2>4, <2>6 DEF WalletInv, Sharing, Depositing, Setup, Looping
<1>4. CASE Canary \/ Restart
  <2>1. /\ UNCHANGED <<height, wallets, reward, skipped>>
        /\ pc' = "main" \/ (pc' = "wallet" /\ i' = 0)
    BY <1>4 DEF Canary, Restart, chain, history
  <2> QED BY <1>2, <2>1 DEF WalletInv, Sharing, Depositing, Setup, Looping
<1>5. CASE MinerWallet \/ MinerImport
  <2>1. /\ UNCHANGED <<height, reward, skipped, i>>
        /\ wallets \subseteq wallets' /\ wallets' \subseteq wallets \cup {i}
        /\ pc \in Sharing
        /\ \/ pc' = "exited"
           \/ pc' \in {"import", "mine"} /\ i \in wallets'
    BY <1>5
    DEF MinerWallet, MinerImport, EnsureWallet, EnsureImported, script, history,
        Sharing, WalletInv
  <2>2. i \in Miners /\ 0..(i - 1) \subseteq Miners
    BY MinerAssumption DEF TypeOK, Miners
  <2>3. \A m \in Miners : Served(m) => Served(m)'
    BY <2>1, ServedStays
  <2>4. depositor \in wallets' => \A m \in Miners : Served(m)'
    BY <1>0, <2>1, <2>2, <2>3
  <2>5. \A m \in 0..(i - 1) : Served(m)'
    BY <2>1, <2>2, <2>3 DEF WalletInv
  <2>6. WalletsFirst'
    BY <2>1, Unhealthy DEF WalletsFirst, Healthy
  <2> QED BY <2>1, <2>4, <2>5, <2>6 DEF WalletInv, Sharing, Depositing, Setup, Looping
<1>6. CASE MineShare
  <2>0. /\ pc = "mine" /\ i \in wallets /\ i \in Miners
        /\ \A m \in 0..(i - 1) : Served(m)
        /\ UNCHANGED <<wallets, skipped>>
    BY <1>6 DEF MineShare, WalletInv, Sharing, TypeOK, history
  <2>1. CASE pc' = "exited"
    <3>1. UNCHANGED <<height, reward>>
      BY <1>6, <2>1 DEF MineShare, NextShare
    <3> QED BY <1>2, <2>0, <2>1, <3>1 DEF WalletInv, Sharing, Depositing, Setup, Looping
  <2>2. CASE pc' # "exited"
    <3>1. /\ pc' = NextShare /\ height' = height + Share
          /\ reward' = IF Share > 0 THEN [reward EXCEPT ![i] = height + Share] ELSE reward
      BY <1>6, <2>2 DEF MineShare, AfterRefusal
    <3>2. height \in Nat /\ Share \in Nat /\ reward \in [Miners -> Nat]
      BY ShareType DEF TypeOK
    <3>3. \A m \in Miners : reward[m] # 0 => reward'[m] # 0
      BY <2>0, <3>1, <3>2
    <3>4. \A m \in Miners : Served(m) => Served(m)'
      BY <2>0, <3>3, ServedStays
    <3>5. ASSUME NEW k \in Miners, k = i PROVE Served(k)'
      <4>1. blocks_per_miner > 0 => Share > 0
        BY Division DEF Share
      <4>2. Share > 0 => reward'[k] # 0
        BY <2>0, <3>1, <3>2, <3>5
      <4> QED BY <2>0, <3>5, <4>1, <4>2 DEF Served, blocks_per_miner
    <3>6. depositor \in wallets' => \A m \in Miners : Served(m)'
      BY <1>0, <2>0, <3>4
    <3>7. \A m \in 0..i : Served(m)'
      <4>1. 0..i \subseteq Miners /\ \A m \in 0..i : m = i \/ m \in 0..(i - 1)
        BY <2>0, MinerAssumption DEF Miners
      <4> QED BY <2>0, <3>4, <3>5, <4>1
    <3>8. WalletsFirst'
      <4>1. pc' \in Sharing \cup Depositing
        BY <3>1 DEF NextShare, Sharing, Depositing
      <4>2. TypeOK' /\ GenesisInv'
        BY <1>6, TypeGenesis, GenesisStep DEF init
      <4>3. height' < STACKS_2_05_HEIGHT - 1
        <5>1. i' * blocks_per_miner <= mineable_blocks
          BY <4>2, Shares DEF TypeOK
        <5> QED BY <4>1, <4>2, <5>1, Reserve, Division DEF GenesisInv, TypeOK
      <4> QED BY <4>2, <4>3, Reserve DEF WalletsFirst, Healthy, TypeOK
    <3>9. CASE LastMiner
      <4>1. pc' = "depositor" /\ \A m \in Miners : Served(m)'
        BY <2>0, <3>1, <3>7, <3>9 DEF NextShare, LastMiner, Miners
      <4> QED BY <4>1, <3>8 DEF WalletInv, Sharing, Depositing, Setup, Looping
    <3>10. CASE ~LastMiner
      <4>1. pc' = "wallet" /\ i' = i + 1
        BY <1>6, <3>1, <3>10 DEF MineShare, NextShare
      <4>2. \A m \in 0..(i' - 1) : Served(m)'
        BY <2>0, <3>7, <4>1 DEF Miners
      <4> QED BY <4>1, <4>2, <3>6, <3>8 DEF WalletInv, Sharing, Depositing, Setup, Looping
    <3> QED BY <3>9, <3>10
  <2> QED BY <2>1, <2>2
<1>7. CASE DepositorWallet \/ DepositorImport
  <2>1. /\ UNCHANGED <<height, reward, skipped>>
        /\ wallets \subseteq wallets'
        /\ pc \in Depositing
        /\ \/ pc' = "exited"
           \/ pc' \in {"depositorImport", "depositorMine"} /\ depositor \in wallets'
    BY <1>7
    DEF DepositorWallet, DepositorImport, EnsureWallet, getnewaddressFails, script,
        history, Depositing, WalletInv
  <2>2. \A m \in Miners : Served(m)'
    BY <2>1, ServedStays DEF WalletInv
  <2>3. WalletsFirst'
    BY <2>1, Unhealthy DEF WalletsFirst, Healthy
  <2> QED BY <2>1, <2>2, <2>3 DEF WalletInv, Sharing, Depositing, Setup, Looping
<1>8. CASE DepositorMine
  <2>1. /\ pc' \in {"producer", "exited"} /\ UNCHANGED <<wallets, reward>>
        /\ depositor \in wallets /\ \A m \in Miners : Served(m)
    BY <1>8 DEF DepositorMine, AfterRefusal, WalletInv, Depositing
  <2>2. \A m \in Miners : Served(m)'
    BY <2>1, ServedStays
  <2> QED
    BY <2>1, <2>2 DEF WalletInv, WalletsFirst, Sharing, Depositing
<1>9. CASE mining_loop \/ Resume
  <2>1. /\ wallets \subseteq wallets' /\ wallets' \subseteq wallets \cup {producer}
        /\ UNCHANGED <<reward, skipped>>
    BY <1>9
    DEF mining_loop, Resume, ProducerWallet, EnsureWallet, ProducerImport,
        EnsureImported, ReadHeight, Scan, MineBlock, NewBlock, NoBlock, Boundary,
        Sleep, chain, history
  <2>2. pc \in Setup \cup Looping /\ pc' \in Setup \cup Looping \cup {"exited"}
    BY <1>9
    DEF mining_loop, Resume, ProducerWallet, EnsureWallet, ProducerImport,
        EnsureImported, ReadHeight, Scan, MineBlock, NoBlock, Boundary, Sleep,
        Setup, Looping
  <2>3. depositor \in wallets' <=> depositor \in wallets
    BY <1>0, <2>1
  <2>4. depositor \in wallets' => \A m \in Miners : Served(m)'
    BY <1>0, <2>1, <2>3, ServedStays
  <2>5. ~skipped' => depositor \in wallets'
    BY <2>1, <2>2, <2>3, Zenon DEF WalletInv
  <2>6. WalletsFirst'
    BY <2>4, <2>5, Zenon DEF WalletsFirst
  <2> QED
    BY <2>2, <2>4, <2>5, <2>6 DEF WalletInv, Sharing, Depositing, Setup, Looping
<1>10. CASE LivenessTest
  <2>1. Healthy /\ UNCHANGED <<wallets, reward, skipped, i, pc>>
    BY <1>10 DEF LivenessTest, NewBlock, script, history
  <2>2. \A m : Served(m)' <=> Served(m)
    BY <2>1 DEF Served
  <2>3. WalletsFirst'
    BY <2>1, <2>2 DEF WalletInv, WalletsFirst
  <2> QED BY <2>1, <2>2, <2>3 DEF WalletInv
<1>11. CASE TimeOut \/ BlockCommit \/ UNCHANGED vars
  BY <1>1, <1>11 DEF TimeOut, BlockCommit, vars, chain, script, history
<1> QED
  BY <1>3, <1>4, <1>5, <1>6, <1>7, <1>8, <1>9, <1>10, <1>11 DEF Next, init

(* A step of an undisturbed chain is one that bitcoind answers, and not one *)
(* of the liveness test or of a restart.                                   *)
LEMMA Disturbs ==
    ASSUME TypeOK, [Next]_vars, Undisturbed'
    PROVE  Undisturbed /\ Works /\ ~Fails /\ ~LivenessTest /\ ~Restart
<1>1. /\ faults' = faults \/ faults' = faults + 1
      /\ restarts' = restarts \/ restarts' = restarts + 1
      /\ external' = external \/ external' = external + 1
  BY DEF Next, init, mining_loop, Main, Canary, MinerWallet, MinerImport, MineShare,
         DepositorWallet, DepositorImport, DepositorMine, ProducerWallet,
         ProducerImport, ReadHeight, Scan, MineBlock, NoBlock, Boundary, Sleep,
         Resume, TimeOut, BlockCommit, LivenessTest, Restart, EnsureWallet,
         EnsureImported, import_address, getnewaddressFails, Works, Fails, bounds, vars
<1>2. /\ faults \in Nat /\ restarts \in Nat /\ external \in Nat
      /\ faults' = 0 /\ restarts' = 0 /\ external' = 0
  BY DEF TypeOK, Undisturbed
<1>3. faults = 0 /\ restarts = 0 /\ external = 0
  BY <1>1, <1>2
<1> QED
  BY <1>2, <1>3 DEF Undisturbed, Works, Fails, LivenessTest, Restart, bounds

(* What HeightInv says of an undisturbed chain.                            *)
Counted ==
    /\ pc # "exited"
    /\ pc \in {"main", "canary"} => height = 0
    /\ pc \in {"main", "canary", "depositor"} \cup Sharing => depositor \notin wallets
    /\ pc \in {"depositorImport", "depositorMine"} => depositor_addr
    /\ pc \in Setup => height < STACKS_2_05_HEIGHT
    /\ pc \in Looping => block_height = height
    /\ ~pausedOnce =>
        /\ height <= PAUSE_HEIGHT
        /\ pc \in {"height", "scan", "decide", "sleep"} => height < PAUSE_HEIGHT

(* The heights that init reaches are below STACKS_2_05_HEIGHT.             *)
LEMMA GenesisHeights ==
    ASSUME TypeOK, GenesisInv, pc \in Sharing \cup Depositing
    PROVE  height < STACKS_2_05_HEIGHT /\ height <= PAUSE_HEIGHT
  BY Unhealthy, Reserve DEF Healthy, TypeOK

(* Undisturbed, init() gets through, on a chain below STACKS_2_05_HEIGHT.   *)
LEMMA CountedGenesis ==
    TypeOK /\ GenesisInv /\ Counted /\ Works /\ ~Fails /\ init => Counted'
<1> SUFFICES ASSUME TypeOK, GenesisInv, Counted, Works, ~Fails, init PROVE Counted'
  OBVIOUS
<1>0. TypeOK' /\ GenesisInv'
  BY TypeGenesis, GenesisStep DEF Next
<1>1. CASE Main \/ Canary
  <2>1. /\ height' = 0
        /\ pc' \in {"canary", "wallet"} /\ depositor \notin wallets'
    BY <1>1 DEF Main, Canary, Counted, chain
  <2> QED BY <2>1, Reserve DEF Counted, Sharing, Depositing, Setup, Looping
<1>2. ASSUME pc' \in Sharing \cup Depositing,
             pc' \in {"depositor"} \cup Sharing => depositor \notin wallets',
             pc' \in {"depositorImport", "depositorMine"} => depositor_addr'
      PROVE  Counted'
  <2>1. height' < STACKS_2_05_HEIGHT /\ height' <= PAUSE_HEIGHT
    <3>1. height' <= mineable_blocks
      <4>1. i' * blocks_per_miner <= mineable_blocks
        BY <1>0, Shares DEF TypeOK
      <4> QED BY <4>1, <1>0, <1>2, Division DEF GenesisInv
    <3> QED BY <3>1, <1>0, Reserve, Division DEF TypeOK
  <2> QED BY <1>2, <2>1 DEF Counted, Sharing, Depositing, Setup, Looping
<1>3. CASE MinerWallet \/ MinerImport
  <2>1. pc \in Sharing /\ pc' \in Sharing /\ wallets' \subseteq wallets \cup Miners
    BY <1>3
    DEF MinerWallet, MinerImport, EnsureWallet, EnsureImported, Sharing, TypeOK
  <2>2. depositor \notin Miners
    BY MinerAssumption DEF Miners, depositor
  <2> QED BY <1>2, <2>1, <2>2 DEF Counted, Sharing
<1>4. CASE MineShare
  <2>1. pc \in Sharing /\ pc' \in {"depositor"} \cup Sharing /\ wallets' = wallets
    BY <1>4 DEF MineShare, NextShare, Sharing
  <2> QED BY <1>2, <2>1 DEF Counted, Sharing, Depositing
<1>5. CASE DepositorWallet \/ DepositorImport
  <2>1. pc' \in {"depositorImport", "depositorMine"} /\ depositor_addr'
    BY <1>5
    DEF DepositorWallet, DepositorImport, EnsureWallet, getnewaddressFails, Counted, script
  <2> QED BY <1>2, <2>1 DEF Sharing, Depositing
<1>6. CASE DepositorMine
  <2>1. /\ height' = height + depositor_blocks /\ pc' = "producer"
        /\ height = mineable_blocks /\ mined_counter = mineable_blocks
    BY <1>6 DEF DepositorMine, Counted, GenesisInv, Depositing, TypeOK, Works, bounds
  <2>2. height' < STACKS_2_05_HEIGHT /\ height' <= PAUSE_HEIGHT
    BY <2>1, Reserve, Division DEF depositor_blocks
  <2> QED BY <2>1, <2>2 DEF Counted, Sharing, Depositing, Setup, Looping
<1> QED BY <1>1, <1>3, <1>4, <1>5, <1>6 DEF init

(* mining_loop(), the Stacks miners and the clock leave the count right.   *)
LEMMA CountedLoop ==
    /\ TypeOK /\ Counted /\ (pc = "paused" => pausedOnce) /\ Works /\ ~Fails
    /\ mining_loop \/ Resume \/ TimeOut \/ BlockCommit \/ UNCHANGED vars
    => Counted'
<1> SUFFICES ASSUME TypeOK, Counted, pc = "paused" => pausedOnce, Works, ~Fails,
                    \/ mining_loop \/ Resume \/ TimeOut
                    \/ BlockCommit \/ UNCHANGED vars
             PROVE  Counted'
  OBVIOUS
<1>0. height \in Nat /\ PAUSE_HEIGHT \in Nat /\ STACKS_2_05_HEIGHT <= PAUSE_HEIGHT
      /\ STACKS_2_05_HEIGHT \in Nat
  BY Reserve DEF TypeOK
<1> USE DEF Sharing, Depositing, Setup, Looping
<1>1. ASSUME UNCHANGED <<height, wallets, depositor_addr, block_height, pausedOnce, pc>>
      PROVE  Counted'
  BY <1>1 DEF Counted
<1>2. CASE ProducerWallet \/ ProducerImport
  <2>1. /\ UNCHANGED <<height, pausedOnce>> /\ pc \in {"producer", "producerImport"}
        /\ pc' \in {"producerImport", "height"}
    BY <1>2 DEF ProducerWallet, ProducerImport, EnsureWallet, EnsureImported, history
  <2> QED BY <1>0, <2>1 DEF Counted
<1>3. CASE ReadHeight
  <2>1. /\ UNCHANGED <<height, pausedOnce>> /\ pc = "height"
        /\ pc' = "scan" /\ block_height' = height
    BY <1>3 DEF ReadHeight, chain, history
  <2> QED BY <2>1 DEF Counted
<1>4. CASE Scan \/ NoBlock
  <2>1. /\ UNCHANGED <<height, block_height, pausedOnce>>
        /\ \/ pc = "scan" /\ pc' \in {"scan", "decide"}
           \/ pc = "decide" /\ pc' = "boundary"
    BY <1>4 DEF Scan, NoBlock, chain, history, script
  <2> QED BY <2>1 DEF Counted
<1>5. CASE MineBlock
  <2>1. /\ pc = "decide" /\ pc' = "boundary" /\ UNCHANGED pausedOnce
        /\ height' = height + 1 /\ block_height' = block_height + 1
    BY <1>5 DEF MineBlock, NewBlock, block_height_Counted, history
  <2> QED BY <1>0, <2>1 DEF Counted
<1>6. CASE Boundary
  <2>1. /\ pc = "boundary" /\ UNCHANGED <<height, block_height>>
        /\ \/ pc' = "paused" /\ pausedOnce'
           \/ pc' = "sleep" /\ block_height # PAUSE_HEIGHT /\ (~pausedOnce \/ pausedOnce')
    <3>1. pc = "boundary" /\ UNCHANGED <<height, block_height>>
      BY <1>6 DEF Boundary, chain, script
    <3>2. /\ AtBoundary => pc' = "paused" /\ pausedOnce'
          /\ ~AtBoundary => pc' = "sleep" /\ (~pausedOnce \/ pausedOnce')
      BY <1>6, Zenon DEF Boundary
    <3> QED BY <3>1, <3>2 DEF AtBoundary
  <2>2. block_height' = height' /\ pc' \in {"paused", "sleep"}
    BY <2>1 DEF Counted
  <2>3. CASE pausedOnce'
    BY <2>2, <2>3 DEF Counted
  <2>4. CASE ~pausedOnce'
    <3>1. pc' = "sleep" /\ block_height # PAUSE_HEIGHT /\ ~pausedOnce
      BY <2>1, <2>4, Zenon
    <3>2. height' <= PAUSE_HEIGHT /\ height' < PAUSE_HEIGHT
      BY <1>0, <2>1, <3>1 DEF Counted
    <3> QED BY <2>2, <3>1, <3>2 DEF Counted
  <2> QED BY <2>3, <2>4
<1>7. CASE Resume
  <2>1. pc' = "sleep" /\ UNCHANGED <<height, block_height, pausedOnce>> /\ pc = "paused"
    BY <1>7 DEF Resume, chain, script, history
  <2>2. pausedOnce'
    BY <2>1, Zenon
  <2> QED BY <1>0, <2>1, <2>2 DEF Counted
<1>8. CASE Sleep
  <2>1. pc = "sleep" /\ pc' = "scan" /\ UNCHANGED <<height, block_height, pausedOnce>>
    BY <1>8 DEF Sleep, chain, history
  <2> QED BY <2>1 DEF Counted
<1>9. CASE TimeOut \/ BlockCommit \/ UNCHANGED vars
  BY <1>1, <1>9 DEF TimeOut, BlockCommit, vars, chain, script, history
<1> QED BY <1>2, <1>3, <1>4, <1>5, <1>6, <1>7, <1>8, <1>9 DEF mining_loop

(* HeightInv is Counted, as long as nothing disturbs the chain.            *)
LEMMA HeightIsCounted ==
    HeightInv <=> (Undisturbed => Counted) /\ (pc = "paused" => pausedOnce)
  BY Zenon DEF HeightInv, PauseInv, Counted

(* A pause is remembered.                                                  *)
LEMMA PauseRemembered ==
    (pc = "paused" => pausedOnce) /\ [Next]_vars => (pc = "paused" => pausedOnce)'
<1> SUFFICES ASSUME pc = "paused" => pausedOnce, [Next]_vars
             PROVE  (pc = "paused" => pausedOnce)'
  OBVIOUS
<1>1. CASE Boundary
  BY <1>1, Zenon DEF Boundary
<1>2. CASE UNCHANGED <<pc, pausedOnce>>
  BY <1>2
<1>3. CASE pc' # "paused"
  BY <1>3
<1>4. CASE LivenessTest \/ TimeOut \/ BlockCommit \/ UNCHANGED vars
  BY <1>2, <1>4 DEF LivenessTest, TimeOut, BlockCommit, vars, history
<1>5. CASE init \/ (mining_loop /\ ~Boundary) \/ Resume \/ Restart
  BY <1>3, <1>5
  DEF init, mining_loop, Main, Canary, MinerWallet, MinerImport, MineShare,
      DepositorWallet, DepositorImport, DepositorMine, ProducerWallet,
      ProducerImport, ReadHeight, Scan, MineBlock, NoBlock, Sleep, Resume, Restart,
      EnsureWallet, EnsureImported, getnewaddressFails, NextShare, AfterRefusal
<1> QED BY <1>1, <1>4, <1>5 DEF Next

(* HeightInv is kept by every step.                                        *)
LEMMA HeightStep == TypeOK /\ GenesisInv /\ HeightInv /\ [Next]_vars => HeightInv'
<1> SUFFICES ASSUME TypeOK, GenesisInv, HeightInv, [Next]_vars PROVE HeightInv'
  OBVIOUS
<1>1. (Undisturbed => Counted) /\ (pc = "paused" => pausedOnce)
  BY HeightIsCounted
<1>2. ASSUME Undisturbed' PROVE Counted'
  <2>1. Undisturbed /\ Works /\ ~Fails /\ ~LivenessTest /\ ~Restart
    BY <1>2, Disturbs
  <2> QED BY <1>1, <2>1, CountedGenesis, CountedLoop DEF Next
<1>3. (pc = "paused" => pausedOnce)'
  BY <1>1, PauseRemembered
<1> QED BY <1>2, <1>3, Zenon DEF HeightInv, PauseInv, Counted

(* The first state has an empty chain and satisfies all of it.             *)
LEMMA MinerInit == Init => TypeOK /\ MinerInv
<1> SUFFICES ASSUME Init PROVE TypeOK /\ MinerInv
  OBVIOUS
<1> USE DEF Init, Sharing, Depositing, Setup, Looping
<1>0. 0 \in Miners /\ mineable_blocks \in Nat /\ PAUSE_HEIGHT \in Nat
      /\ ~Healthy
  BY MinerAssumption, Division DEF Miners, Healthy
<1>1. TypeOK
  <2>1. /\ tx \in [Miners -> {"none", "unconfirmed", "confirmed"}]
        /\ reward \in [Miners -> Nat]
    OBVIOUS
  <2>2. /\ wallets \subseteq Wallets /\ imported \subseteq Wallets \X Wallets
        /\ btc \in Wallets \cup {Unset}
    OBVIOUS
  <2>3. height \in Nat /\ mined_counter \in Nat /\ block_height \in Int
        /\ faults \in Nat /\ restarts \in Nat /\ external \in Nat
    OBVIOUS
  <2>4. /\ depositor_addr \in BOOLEAN /\ conf_counter \in BOOLEAN /\ late \in BOOLEAN
        /\ skipped \in BOOLEAN /\ pausedOnce \in BOOLEAN
    OBVIOUS
  <2>5. i \in Miners /\ pc = "main"
    BY <1>0
  <2> HIDE DEF Init
  <2> QED BY <2>1, <2>2, <2>3, <2>4, <2>5 DEF TypeOK
<1>2. GenesisInv
  BY <1>0 DEF GenesisInv
<1>3. WalletInv
  BY <1>0 DEF WalletInv, WalletsFirst
<1>4. HeightInv
  BY <1>0 DEF HeightInv, PauseInv
<1> QED BY <1>1, <1>2, <1>3, <1>4 DEF MinerInv

(* The types of TypeOK hold in every reachable state of the miner: init     *)
(* never takes a negative number of blocks for the depositor, and the loop  *)
(* over the wallets stays within them.                                     *)
THEOREM TypeCorrect == Spec => []TypeOK
<1>1. TypeOK /\ MinerInv /\ [Next]_vars => TypeOK'
  <2>1. TypeOK /\ UNCHANGED vars => TypeOK'
    BY DEF TypeOK, vars, chain, script, history, bounds
  <2> QED BY <2>1, TypeGenesis, TypeLoop DEF Next, MinerInv
<1>2. TypeOK /\ MinerInv /\ [Next]_vars => MinerInv'
  BY GenesisStep, WalletStep, HeightStep DEF MinerInv
<1> QED BY MinerInit, <1>1, <1>2, PTL DEF Spec

(* In every reachable state init has mined what it counts and served the   *)
(* miners it has passed, since a refused call stops it (miner.sh:94), and   *)
(* undisturbed the script's own height is the chain's.                     *)
THEOREM MinerInvariant == Spec => []MinerInv
<1>1. TypeOK /\ MinerInv /\ [Next]_vars => MinerInv'
  BY GenesisStep, WalletStep, HeightStep DEF MinerInv
<1> QED BY MinerInit, <1>1, TypeCorrect, PTL DEF Spec

(* Whatever bitcoind refuses, and however a chain that init left half-made  *)
(* grew on, the coinbases that init mined are mature when the Stacks miners *)
(* start (miner.sh:206-268).                                               *)
THEOREM RewardsMature == Spec => []MatureRewards
<1>1. ASSUME TypeOK, GenesisInv, Healthy, NEW m \in Miners
      PROVE  height - reward[m] >= RESERVED_BLOCKS
  BY <1>1, Reserve, Division DEF GenesisInv, Healthy, TypeOK
<1>2. TypeOK /\ MinerInv => MatureRewards
  BY <1>1 DEF MatureRewards, MinerInv
<1> QED BY <1>2, TypeCorrect, MinerInvariant, PTL

(* When the Stacks miners start, all have their wallets and coinbases; or   *)
(* init was cut off, the depositor's wallet is missing, and a start of the  *)
(* script skipped init all the same (miner.sh:278).                        *)
THEOREM WalletsBeforeMiners == Spec => []WalletsFirst
<1>1. MinerInv => WalletsFirst
  BY DEF MinerInv, WalletInv
<1> QED BY <1>1, MinerInvariant, PTL

(* An undisturbed chain does not outgrow PAUSE_HEIGHT without a pause.      *)
THEOREM PauseTaken == Spec => []PauseInv
<1>1. MinerInv => PauseInv
  BY DEF MinerInv, HeightInv
<1> QED BY <1>1, MinerInvariant, PTL
=============================================================================
