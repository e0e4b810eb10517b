---------------------------- MODULE BitcoinMiner ----------------------------
(***************************************************************************)
(* The bitcoin-miner service, docker/bitcoin/miner.sh: init() makes the    *)
(* wallets and mines the first blocks of the regtest chain, mining_loop()  *)
(* then mines a block whenever the Stacks miners' wallets wait for one, or *)
(* after 30 seconds.  Every call of bitcoin-cli is a step; bitcoind, the   *)
(* Stacks miners and the liveness test act between the steps.              *)
(* A definition X_Fault before a definition X is X with a plausible fault, *)
(* used by no action: it shows which property would notice the fault.      *)
(***************************************************************************)
EXTENDS Integers

CONSTANTS
    NUM_MINERS,             \* how many STACKS_MINER_*_BTC_WALLET there are
    STACKS_2_05_HEIGHT,     \* init mines up to the block before this one
    RESERVED_BLOCKS,        \* 100, the last blocks init mines
    PAUSE_HEIGHT,
    MaxHeight,              \* bound on the height of the chain
    MaxFaults,              \* bound: calls of bitcoin-cli that fail
    MaxRestarts,            \* bound: restarts of the container
    MaxExternal             \* bound: blocks the liveness test mines

ASSUME MinerAssumption ==
    /\ NUM_MINERS \in Nat \ {0}
    /\ RESERVED_BLOCKS \in Nat \ {0}
    /\ STACKS_2_05_HEIGHT \in Nat /\ STACKS_2_05_HEIGHT > RESERVED_BLOCKS
    /\ PAUSE_HEIGHT \in Nat /\ PAUSE_HEIGHT >= STACKS_2_05_HEIGHT
    /\ MaxHeight \in Nat /\ MaxHeight >= STACKS_2_05_HEIGHT
    /\ MaxFaults \in Nat /\ MaxRestarts \in Nat /\ MaxExternal \in Nat

Miners == 0..(NUM_MINERS - 1)
depositor == NUM_MINERS
producer == NUM_MINERS + 1
Wallets == 0..(NUM_MINERS + 1)
Unset == -1

VARIABLES
    height,         \* bitcoind: block count
    wallets,        \* bitcoind: the wallets that exist
    imported,       \* bitcoind: <<wallet, address>>, an address by its wallet
    tx,             \* bitcoind: miner -> the last transaction of its wallet
    reward,         \* bitcoind: miner -> height of its last block of init, or 0
    pc,             \* where the script is
    i,              \* loop index
    btc,            \* btc_wallet and btc_address, by wallet, or Unset
    mined_counter,  \* blocks init has mined, by its own account
    depositor_addr, \* whether init has an address of the depositor
    block_height,   \* mining_loop's own count of the height
    conf_counter,   \* whether a confirmation was counted in this pass
    late,           \* DEFAULT_TIMEOUT has passed
    skipped,        \* history: init was skipped though a wallet was missing
    pausedOnce,     \* history: the script has paused
    faults, restarts, external

chain == <<height, wallets, imported, tx, reward>>
history == <<skipped, pausedOnce>>
script == <<i, btc, mined_counter, depositor_addr, block_height, conf_counter, late>>
bounds == <<faults, restarts, external>>
vars == <<chain, pc, script, history, bounds>>

Looping == {"scan", "decide", "boundary", "paused", "sleep"}
Sharing == {"wallet", "import", "mine"}
Depositing == {"depositor", "depositorImport", "depositorMine"}
Setup == {"producer", "producerImport", "height"}

(* Every variable keeps its type: the loop index stays within the wallets, *)
(* and neither the height nor the count of init ever goes below 0.         *)
TypeOK ==
    /\ height \in Nat
    /\ wallets \subseteq Wallets
    /\ imported \subseteq Wallets \X Wallets
    /\ tx \in [Miners -> {"none", "unconfirmed", "confirmed"}]
    /\ reward \in [Miners -> Nat]
    /\ pc \in {"main", "canary", "exited"}
                \cup Sharing \cup Depositing \cup Setup \cup Looping
    /\ i \in Miners
    /\ btc \in Wallets \cup {Unset}
    /\ mined_counter \in Nat
    /\ depositor_addr \in BOOLEAN
    /\ block_height \in Int
    /\ conf_counter \in BOOLEAN
    /\ late \in BOOLEAN
    /\ skipped \in BOOLEAN /\ pausedOnce \in BOOLEAN
    /\ faults \in Nat /\ restarts \in Nat /\ external \in Nat

Init ==
    /\ height = 0
    /\ wallets = {} /\ imported = {}
    /\ tx = [m \in Miners |-> "none"]
    /\ reward = [m \in Miners |-> 0]
    /\ pc = "main" /\ i = 0 /\ btc = Unset
    /\ mined_counter = 0 /\ depositor_addr = FALSE
    /\ block_height = 0 /\ conf_counter = FALSE /\ late = FALSE
    /\ skipped = FALSE /\ pausedOnce = FALSE
    /\ faults = 0 /\ restarts = 0 /\ external = 0

-----------------------------------------------------------------------------
(* init().                                                                 *)

Fails == faults < MaxFaults /\ faults' = faults + 1 /\ UNCHANGED <<restarts, external>>
Works == UNCHANGED bounds

GenesisWallets == Miners \cup {depositor}

(* The script starts: init() runs at height 0 only.  get_height prints -1  *)
(* when it fails, and a height that is not 0 means "already set up".       *)
Main ==
    /\ pc = "main"
    /\ \/ height = 0 /\ Works /\ pc' = "canary" /\ UNCHANGED skipped
       \/ /\ (height # 0 /\ Works) \/ Fails
          /\ pc' = "producer"
          /\ skipped' = (skipped \/ ~(GenesisWallets \subseteq wallets))
    /\ UNCHANGED <<chain, script, pausedOnce>>

(* get_mining_info has answered "regtest"; the blocks are shared out.      *)
Canary ==
    /\ pc = "canary"
    /\ pc' = "wallet" /\ i' = 0 /\ mined_counter' = 0 /\ depositor_addr' = FALSE
    /\ UNCHANGED <<chain, btc, block_height, conf_counter, late, history, bounds>>

blocks_per_miner == (STACKS_2_05_HEIGHT - 1 - RESERVED_BLOCKS) \div NUM_MINERS

remainder_blocks_Reserved == STACKS_2_05_HEIGHT - 1 - blocks_per_miner * NUM_MINERS
remainder_blocks ==
    STACKS_2_05_HEIGHT - 1 - (blocks_per_miner * NUM_MINERS + RESERVED_BLOCKS)

LastMiner_OneMore == i = NUM_MINERS
LastMiner == i = NUM_MINERS - 1

Share == IF LastMiner THEN blocks_per_miner + remainder_blocks ELSE blocks_per_miner

(* get_wallet_info, and create_wallet if there is none.  A failing call    *)
(* ends the script: a wallet that exists cannot be created again.          *)
EnsureWallet(w, next) ==
    \/ Works /\ wallets' = wallets \cup {w} /\ pc' = next
    \/ Fails /\ pc' = "exited" /\ UNCHANGED wallets

MinerWallet ==
    /\ pc = "wallet"
    /\ btc' = i
    /\ EnsureWallet(i, "import")
    /\ UNCHANGED <<height, imported, tx, reward, i, mined_counter,
                   depositor_addr, block_height, conf_counter, late, history>>

(* get_address_info, and import_address if the address is not watched.  It *)
(* imports the btc_address of its caller into the btc_wallet of its caller *)
(* whatever its arguments are, and its failure is ignored.                 *)
import_address ==
    \/ Works /\ imported' = imported \cup (IF btc = Unset THEN {} ELSE {<<btc, btc>>})
    \/ Fails /\ UNCHANGED imported

EnsureImported(w, next) ==
    /\ IF <<w, w>> \in imported THEN Works /\ UNCHANGED imported ELSE import_address
    /\ pc' = next
    /\ UNCHANGED <<height, wallets, tx, reward, script, history>>

MinerImport == pc = "import" /\ EnsureImported(i, "mine")

(* mine_blocks is a plain command of init and ends its call with "|| false": *)
(* under set -e a refused generatetoaddress ends the script.               *)
AfterRefusal_GoesOn(next) == next
AfterRefusal(next) == "exited"

NextShare == IF LastMiner THEN "depositor" ELSE "wallet"

(* mine_blocks to the miner's address.                                     *)
MineShare ==
    /\ pc = "mine"
    /\ \/ /\ Works
          /\ height' = height + Share
          /\ reward' = IF Share > 0 THEN [reward EXCEPT ![i] = height + Share] ELSE reward
          /\ tx' = IF Share > 0 THEN [tx EXCEPT ![i] = "confirmed"] ELSE tx
          /\ pc' = NextShare
       \/ Fails /\ UNCHANGED <<height, reward, tx>> /\ pc' = AfterRefusal(NextShare)
    /\ mined_counter' = mined_counter + Share
    /\ i' = IF LastMiner THEN 0 ELSE i + 1
    /\ UNCHANGED <<wallets, imported, btc, depositor_addr, block_height,
                   conf_counter, late, history>>

(* A new wallet is asked for an address; if that fails the script ends too. *)
getnewaddressFails ==
    /\ depositor \notin wallets /\ Fails
    /\ wallets' = wallets \cup {depositor} /\ pc' = "exited"

DepositorWallet ==
    /\ pc = "depositor"
    /\ EnsureWallet(depositor, "depositorImport") \/ getnewaddressFails
    /\ depositor_addr' = (depositor \notin wallets)
    /\ UNCHANGED <<height, imported, tx, reward, i, btc, mined_counter,
                   block_height, conf_counter, late, history>>

(* The depositor's address is its wallet's own, hence not a watched one.   *)
DepositorImport ==
    /\ pc = "depositorImport"
    /\ import_address
    /\ pc' = "depositorMine"
    /\ UNCHANGED <<height, wallets, tx, reward, script, history>>

depositor_blocks == STACKS_2_05_HEIGHT - 1 - mined_counter

(* Without an address bitcoind refuses as well.                            *)
DepositorMine ==
    /\ pc = "depositorMine"
    /\ Works \/ Fails
    /\ LET mined == depositor_addr /\ faults' = faults
       IN  /\ height' = height + (IF mined THEN depositor_blocks ELSE 0)
           /\ pc' = IF mined THEN "producer" ELSE AfterRefusal("producer")
    /\ btc' = Unset
    /\ UNCHANGED <<wallets, imported, tx, reward, i, mined_counter,
                   depositor_addr, block_height, conf_counter, late, history>>

-----------------------------------------------------------------------------
(* mining_loop().                                                          *)

ProducerWallet ==
    /\ pc = "producer"
    /\ EnsureWallet(producer, "producerImport")
    /\ UNCHANGED <<height, imported, tx, reward, script, history>>

ProducerImport == pc = "producerImport" /\ EnsureImported(producer, "height")

(* block_height is read once, -1 on an error, and counted up from then on. *)
ReadHeight ==
    /\ pc = "height"
    /\ \/ Works /\ block_height' = height
       \/ Fails /\ block_height' = -1
    /\ pc' = "scan" /\ i' = 0 /\ conf_counter' = FALSE
    /\ UNCHANGED <<chain, btc, mined_counter, depositor_addr, late, history>>

(* The last transaction that listtransactions finds in a miner's wallet.   *)
Confirmed(m) == m \in wallets /\ <<m, m>> \in imported /\ tx[m] = "confirmed"

(* A failing listtransactions adds nothing to conf_counter.                *)
Scan ==
    /\ pc = "scan"
    /\ \/ Works /\ conf_counter' = (conf_counter \/ Confirmed(i))
       \/ Fails /\ UNCHANGED conf_counter
    /\ i' = IF LastMiner THEN 0 ELSE i + 1
    /\ pc' = IF LastMiner THEN "decide" ELSE "scan"
    /\ UNCHANGED <<chain, btc, mined_counter, depositor_addr, block_height,
                   late, history>>

BlockDue_NoTimeout == ~conf_counter
BlockDue == ~conf_counter \/ late

(* A block confirms every transaction that was sent before it.             *)
NewBlock ==
    /\ height' = height + 1
    /\ tx' = [m \in Miners |-> IF tx[m] = "none" THEN "none" ELSE "confirmed"]
    /\ UNCHANGED <<wallets, imported, reward>>

block_height_NotCounted == block_height
block_height_Counted == block_height + 1

(* generatetoaddress; it counts as mined even when it fails.               *)
MineBlock ==
    /\ pc = "decide" /\ BlockDue
    /\ height < MaxHeight
    /\ \/ Works /\ NewBlock
       \/ Fails /\ UNCHANGED chain
    /\ block_height' = block_height_Counted
    /\ late' = FALSE
    /\ pc' = "boundary"
    /\ UNCHANGED <<i, btc, mined_counter, depositor_addr, conf_counter, history>>

NoBlock ==
    /\ pc = "decide" /\ ~BlockDue
    /\ pc' = "boundary"
    /\ UNCHANGED <<chain, script, history, bounds>>

AtBoundary_Beyond == block_height > PAUSE_HEIGHT
AtBoundary == block_height = PAUSE_HEIGHT

Boundary ==
    /\ pc = "boundary"
    /\ pc' = IF AtBoundary THEN "paused" ELSE "sleep"
    /\ pausedOnce' = (pausedOnce \/ AtBoundary)
    /\ UNCHANGED <<chain, script, skipped, bounds>>

(* PAUSE_TIMER has run out.                                                *)
Resume ==
    /\ pc = "paused"
    /\ pc' = "sleep"
    /\ UNCHANGED <<chain, script, history, bounds>>

Sleep ==
    /\ pc = "sleep"
    /\ pc' = "scan" /\ i' = 0 /\ conf_counter' = FALSE
    /\ UNCHANGED <<chain, btc, mined_counter, depositor_addr, block_height,
                   late, history, bounds>>

-----------------------------------------------------------------------------
(* Around the script.                                                      *)

(* The 30 seconds since the last block, or the start, are over.            *)
TimeOut ==
    /\ ~late /\ pc # "exited"
    /\ late' = TRUE
    /\ UNCHANGED <<chain, pc, i, btc, mined_counter, depositor_addr,
                   block_height, conf_counter, history, bounds>>

(* The health check that the Stacks miners wait for.                       *)
Healthy == height >= STACKS_2_05_HEIGHT - 1

(* A Stacks miner sends a block commit from its wallet.                    *)
BlockCommit ==
    /\ Healthy
    /\ \E m \in Miners :
        /\ m \in wallets /\ tx[m] # "unconfirmed"
        /\ tx' = [tx EXCEPT ![m] = "unconfirmed"]
    /\ UNCHANGED <<height, wallets, imported, reward, pc, script, history, bounds>>

(* docker/tests/hacknet-liveness.sh mines a block of its own.              *)
LivenessTest ==
    /\ Healthy
    /\ external < MaxExternal
    /\ external' = external + 1
    /\ NewBlock
    /\ UNCHANGED <<pc, script, history, faults, restarts>>

Restart ==
    /\ restarts < MaxRestarts
    /\ restarts' = restarts + 1
    /\ pc' = "main" /\ i' = 0 /\ btc' = Unset
    /\ mined_counter' = 0 /\ depositor_addr' = FALSE
    /\ block_height' = 0 /\ conf_counter' = FALSE /\ late' = FALSE
    /\ UNCHANGED <<chain, history, faults, external>>

init ==
    \/ Main \/ Canary \/ MinerWallet \/ MinerImport \/ MineShare
    \/ DepositorWallet \/ DepositorImport \/ DepositorMine

mining_loop ==
    \/ ProducerWallet \/ ProducerImport \/ ReadHeight \/ Scan
    \/ MineBlock \/ NoBlock \/ Boundary \/ Sleep

Next ==
    \/ init \/ mining_loop \/ Resume \/ TimeOut
    \/ BlockCommit \/ LivenessTest \/ Restart

Spec == Init /\ [][Next]_vars

(* The script runs on and time passes; the Stacks miners may be silent, and *)
(* a pause of PAUSE_TIMER (a thousand days) need not end.                  *)
FairSpec == Spec /\ WF_vars(init \/ mining_loop) /\ WF_vars(TimeOut)

-----------------------------------------------------------------------------
(* Properties.                                                             *)

(* The blocks that paid the Stacks miners are RESERVED_BLOCKS deep by the  *)
(* time the Stacks miners start, so that they can spend their coinbases;   *)
(* also on a chain that init left half-made and mining_loop carried on.    *)
MatureRewards ==
    Healthy => \A m \in Miners : reward[m] # 0 => height - reward[m] >= RESERVED_BLOCKS

(* init is done with a miner: it has its wallet and its blocks, if there   *)
(* are any to share.                                                       *)
Served(m) == m \in wallets /\ (blocks_per_miner > 0 => reward[m] # 0)

(* When the Stacks miners start, every one of them has its wallet, or it   *)
(* would make its own (the note at the health check in docker-compose.yml), *)
(* and coinbases in it.  Else the depositor's wallet, which init makes     *)
(* after all that, is missing as well, and a start of the script took a    *)
(* half-made chain for a complete one: a script that was stopped or        *)
(* refused in the middle of init never leaves anything between the two.    *)
WalletsFirst ==
    Healthy =>
        \/ depositor \in wallets /\ \A m \in Miners : Served(m)
        \/ depositor \notin wallets /\ skipped

(* The chain does not grow past PAUSE_HEIGHT without a pause, and no pass   *)
(* of the loop starts at it, as long as bitcoind answers, the script is not *)
(* restarted and nobody else mines.                                        *)
Undisturbed == faults = 0 /\ external = 0 /\ restarts = 0

PauseInv ==
    Undisturbed /\ ~pausedOnce =>
        /\ height <= PAUSE_HEIGHT
        /\ pc \in {"height", "scan", "decide", "sleep"} => height < PAUSE_HEIGHT

(* Why all this holds.  init starts on an empty chain, hands out what it   *)
(* should, and goes on only when it was mined: its count is the height, for *)
(* nobody else mines before the health check passes.                       *)
mineable_blocks == STACKS_2_05_HEIGHT - 1 - RESERVED_BLOCKS

GenesisInv ==
    /\ pc = "canary" => height = 0
    /\ pc \in Sharing => mined_counter = i * blocks_per_miner
    /\ pc \in Depositing => mined_counter = mineable_blocks
    /\ pc \in Sharing \cup Depositing => height = mined_counter
    /\ \A m \in Miners : reward[m] <= mineable_blocks

(* It gets to a wallet's blocks only when the wallet exists, and to the    *)
(* depositor only when it has served all Stacks miners.                    *)
WalletInv ==
    /\ pc \in Sharing => \A m \in 0..(i - 1) : Served(m)
    /\ pc \in {"import", "mine"} => i \in wallets
    /\ pc \in Depositing \/ depositor \in wallets => \A m \in Miners : Served(m)
    /\ pc \in {"depositorImport", "depositorMine"} => depositor \in wallets
    /\ pc \in Setup \cup Looping /\ ~skipped => depositor \in wallets
    /\ WalletsFirst

(* And undisturbed the script gets through init, and counts what is there:  *)
(* block_height is the height of the chain.                                *)
HeightInv ==
    /\ Undisturbed =>
        /\ pc # "exited"
        /\ pc \in {"main", "canary"} => height = 0
        /\ pc \in {"main", "canary", "depositor"} \cup Sharing => depositor \notin wallets
        /\ pc \in {"depositorImport", "depositorMine"} => depositor_addr
        /\ pc \in Setup => height < STACKS_2_05_HEIGHT
        /\ pc \in Looping => block_height = height
    /\ pc = "paused" => pausedOnce
    /\ PauseInv

MinerInv == GenesisInv /\ WalletInv /\ HeightInv

(* Blocks keep coming though no Stacks miner sends anything: every time,   *)
(* the 30 seconds run out (unless the script pauses or has exited).        *)
ChainGrows == <>(height >= MaxHeight \/ pc \in {"exited", "paused"})

(* "pause the chain at a specific height": the script does not go on when  *)
(* the chain is at PAUSE_HEIGHT, whoever has mined.                        *)
PausesAtHeight ==
    [][pc = "boundary" /\ pc' = "sleep" => height # PAUSE_HEIGHT]_vars

(* "if the btc height is > 0 ... assume they already exist": mining_loop   *)
(* is entered only when init's wallets exist.                              *)
WalletsExist == pc = "producer" => GenesisWallets \subseteq wallets

(* "Import the predefined block producer address": the producer's wallet   *)
(* watches its address when the loop starts, if bitcoind did not fail.     *)
ProducerImported == faults = 0 /\ pc \in Looping => <<producer, producer>> \in imported
=============================================================================
