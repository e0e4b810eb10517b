# Hacknet in TLA+

TLA+ models of hacknet, a Stacks network on one machine: three Stacks miners and
their signers on a Bitcoin regtest chain, started with `docker compose` and kept
alive by a handful of helper services. Most of what can go wrong in this repository
goes wrong in those helpers: they poll nodes that answer late or not at all, count
nonces and heights by themselves, overlap with their own earlier polls, and are
restarted at any point (`make restart`). That is what is modelled here; the nodes,
signers and bitcoind are other repositories' programs and appear as environments.

## Inventory

| part | code | state it keeps | operations | what makes it correct |
|---|---|---|---|---|
| stacker | `docker/stacker/stacking/stacking.ts`, `pox5-signer-manager.ts`, `pox5.ts`, `helpers.ts`, `common.ts` | last PoX contract, fixed amount per cycle, fee counter, one promise per account and poll | `run` in a loop; per account `stackStx`, `stackExtend`, `stakePox5`, `stakeUpdatePox5`, `ensurePox5Signer` | no nonce gap; the signer registers before the stake; stakes of a cycle stay proportional to the slots; locks are renewed in time and not without end |
| tx-broadcaster | `tx-broadcaster.ts` | nothing between runs | `waitForNakamoto`, `run`, `broadcast` | the accounts take turns, so that there is always a transfer to make a Nakamoto block |
| bitcoin-miner | `docker/bitcoin/miner.sh` | wallets and chain in bitcoind; its own height, loop index, timeout | `init`, `mining_loop` | wallets exist before Stacks miners start, genesis rewards are mature, blocks keep coming, the pause happens |
| pox5-setup | `pox5-setup.ts`, `contracts/*.clar` | a nonce | deploy two contracts before Epoch 4.0, or exit 1 | each contract once, in time, on a deployer account it may share with the bond admin |
| bitcoin-staking | `bitcoin-staking.ts` | the selected bond | wait, `selectBondIndex`, `setupBond`, mint, register, or exit 1 | a bond that is still open; each participant funded and registered once |
| flooder | `flood.ts`, `flooder.clar` | `hasSentToFlooders`, the accounts it made up | bootstrap, then flood without end | flooding starts only with the contract and the funds coming; calls stay near the chain and leave no gap for good |
| network lifecycle | `Makefile` | chainstate directory, archive, `.current-chainstate-dir` | up, genesis, down, snapshot, stop, start, restart | the directory in use is the one that is archived and never the one removed |
| liveness test, chain monitor | `docker/tests/*.sh` | none | checks; mines one block | reads only, but for that block |
| compose file, images, configuration, dashboards, CI | `docker-compose*.yml`, Dockerfiles, `*.toml`, `.github` | none | declarative | start order by health checks |

How they interact. There is no shared memory: all parts talk to the nodes by RPC and
see each other only through the chain. bitcoin-miner makes the heights that the others
poll. stacker, pox5-setup, bitcoin-staking and tx-broadcaster read accounts and
contracts from a Stacks node and put transactions into its mempool; stacker owns the
stacking accounts, tx-broadcaster has accounts of its own, pox5-setup and
bitcoin-staking by default share one account (`POX_5_DEPLOYER` is also the bond
admin). bitcoin-staking waits for what pox5-setup and stacker deploy. The Stacks miners
wait for the height that bitcoin-miner's `init` reaches last. The flooder is started by
hand (`package.json`) and uses an account of its own and as many made-up ones as
`NUM_FLOODERS` says.

Hard behaviours, all listed with their lines under `hazards` in `PROJECT.json`:
polls of the stacker that overlap after one account throws; nonces counted by hand
across awaits; confirmed state read while transactions are pending; dropped
transactions and calls whose outcome is unknown; restarts in the middle of anything;
counters that the script keeps beside the chain's own; two services that count the
nonces of one account; a deadline that is checked before what has to meet it; a sweep
over bonds that others set up meanwhile; results that nobody looks at.

## Modules

| module | models |
|---|---|
| `PoxCalendar` | reward cycles and prepare phases of `common.ts` |
| `StacksNode` | environment: the Stacks node with its mempool, accounts, locks, contracts and burn height, from how `stacking.ts`, `pox5.ts` and `pox5-signer-manager.ts` use it |
| `StackingPlan` | what the stacker promises the network: one amount per slot and cycle, fixed once and in time; locks of that amount from the next cycle on; extensions that do not run ahead |
| `Stacker` | the stacker on `StacksNode`; `MCStacker` gives it accounts, slots, balances |
| `StackerProofs` | theorems about `Stacker` |
| `SignerProofs` | the order of a signer's transactions, on top of `StackerProofs` |
| `HorizonProofs` | how far ahead locks reach, on top of `StackerProofs` |
| `PlanProofs` | that `Stacker` implements `StackingPlan`, and what the plan guarantees, on top of `HorizonProofs` |
| `RoundRobin` | what the broadcaster promises: only an account that has sent the fewest sends next |
| `TxBroadcaster` | the broadcaster with its own small node; `MCTxBroadcaster` gives it three accounts |
| `TxBroadcasterProofs` | theorems about `TxBroadcaster`, one of them that it implements `RoundRobin` |
| `BitcoinMiner` | `miner.sh` with bitcoind; `MCBitcoinMiner` is its instance |
| `BitcoinMinerProofs` | theorems about `BitcoinMiner` |
| `BondLedger` | environment: the Stacks chain with the pox-5 bonds, the mock sBTC and a burn height, as `pox5-setup.ts`, `bitcoin-staking.ts` and `pox5.ts` use it |
| `Pox5Setup` | the pox5-setup service on `BondLedger` |
| `BitcoinStaking` | the bitcoin-staking service on `BondLedger` |
| `BondNetwork` | both services on one chain, with restarts; `MCBondNetwork` gives it two participants and one admin account |
| `BondNetworkProofs` | theorems about `BondNetwork` |
| `Flooder` | the flooder with its own small node; `MCFlooder` gives it two accounts |
| `FlooderProofs` | theorems about `Flooder` |

Conventions. An `await` in TypeScript, or a call of `bitcoin-cli` in the script, ends
an action; everything between two of them is one action, logging left out. Actions
carry the name of the function whose step they are. A failing call takes one unit of
`faults`, a restart one of `restarts`, so each is bounded by a constant. Time is
abstracted: a sleep is a state the service may leave later, a timeout an action that
may happen at any time. A definition `X_Something` in front of a definition `X` is `X`
with a plausible fault; no action uses it, and it serves to show which property
notices that fault.

### Stacker and StacksNode

`task[p, a]` is the promise of account `a` in poll `p`: a program counter (`status`,
`ready`, `nonce`, `exists`, `deploy`, `await`, `check`, `register`, `submit`, `done`)
and its local variables. `loopPc` and `poll` are where `loop()` is and which
`Promise.all` it awaits. `Reject` is a thrown exception: the loop goes on, the other
handlers of the poll live on, and `BeginRun` may start another poll beside them; `Polls`
bounds how many are alive at once. While accounts' statuses are still read, a failure
ends the whole poll, for no handler has started. `Restart` clears all of it.

Statuses, nonces, contracts and registrations are read from the confirmed state in
an action of their own and used in later ones. `Submit` differs for pox-4 and pox-5 as
in the code: `broadcastOrThrow` throws, the results of `client.stack` and
`client.stackExtend` are only logged. `contractExists` and `hasPox5Stake` take an error
for "no". A broadcast that fails may have reached the node.

`StacksNode` admits a transaction by nonce and replaces by fee, mines an account's
transactions in nonce order, and may drop a pending one. Whether a pox call succeeds
when mined follows the contracts' rules (active contract, cycle signed for, lock
present or absent, registered signer); in the prepare phase pox-5 may refuse or accept.
The balance of an account is a constant, its locked part included (the transfers that
fees cost are left out); `min_threshold_ustx` may change at any time.

`StackingPlan` tells the same without polls, handlers and transactions: `burn`, the fixed
amounts and the locks are all its state. `Fix` is what `getFixedStackingAmount` does to its
map, `Lock` and `Extend` are what the node does when a handler's transaction is mined,
possibly long after the handler has ended, and `Block` releases locks. Everything else that
`Stacker` does is a stutter of the plan. `Overlap` is the number of polls alive at once.

### TxBroadcaster

`nonces` is `accountNonces` while it is being read; `IsSender` is the sort. The node is
`conf`, `pending`: all transfers have the same fee, so the mempool never replaces one.

### BitcoinMiner

One program counter for the script; `btc` is the pair of shell variables `btc_wallet`
and `btc_address` as the called functions see them, because `import_address` uses them
instead of its parameters. `tx[m]` is the last transaction that `listtransactions`
finds in a miner's wallet. `conf_counter` is kept as "is it 0". Sleep durations, which
is all that `mined_block_counter` and the epoch heights decide, are left out.

What a failing call does depends on how the script calls it. `set -e` holds in `init`, so
a `generatetoaddress` that is refused there (`|| false`, line 94), or a `getnewaddress`,
ends the script with `init` half done (`AfterRefusal`, `getnewaddressFails`), as a wallet
that cannot be made does (`exit 1`). `import_address` ends in the same `|| false` but is
called under `if !`, where `set -e` does not hold: its failure is ignored. In
`mining_loop` a failing call is the first part of a pipeline or inside `echo`, and the loop
goes on.

### Pox5Setup, BitcoinStaking and BondNetwork

`setup` and `staking` are the two processes, each a record of a program counter and the
local variables that later steps use. `setup.nonce` is read once and counted up by
`NonceAfter`; `setup.checked` is the height the last `assertBeforeEpoch4` saw.
`waitForContract` is a loop of a look at the contract and that check, which may run out
at any look. An exit resets the local variables and keeps the reason.

In `staking`, what is sent (a setup-bond, a mint, a register-for-bond) goes through the
same three steps, read the nonce, send, wait for the effect, so they share
`ReadStakingNonce`, `SendTask`, `TaskDone` and `TaskTimesOut`, and `task` says which it
is. The sweep of `selectBondIndex` is one action per bond (`PastBond`, `ExistingBond`,
`ForeignBond`, `FreeBond`), because bonds change between two of them; its height is read
once per sweep, in `BeginSweep`, as in the code. `ours` are bonds whose allowlist has the
participants, `others` are those set up by somebody else with the admin's key. `raced`
and `late` are histories that only properties read.

`BondNetwork` interleaves the two with the chain, and either may be started again at
any time: the compose file gives them no restart policy, so one that exited stays so
until then. The stacker is one step here, `SignersRegister`. The one assumption on time
is `InPace`: between a check of the deadline and the next look at the contract at most
`MaxDelay` burn blocks arrive, no more than the safety margin (`PaceAssumption`; a look
is two requests and a sleep of two seconds, burn blocks are 30 seconds apart, the margin
is five blocks). `GapAssumption` is what the name `BOND_GAP_CYCLES` says.

### Flooder

`pc` and `nonce` are `loop()` and `bootstrapFlooders`; a flood is a set of `requests`,
first one read per account, then as many sends as `TX_PER_FLOOD`. `awaited` is the flood
whose `Promise.all` the loop awaits: it waits for all requests, or for the first that
throws, and then the others stay under way while the next flood begins (`Slots` bounds
how many floods are alive). A restart makes up new accounts; the old ones are of no
interest, and what is pending for the bootstrapper stays (`gen` tells which accounts a
bootstrap pays). A bootstrap that the node refuses for its nonce, one it answers with
another error (`denied`, a history) and one whose request throws are three cases: the first
two go on to the flood contract, as nobody looks at the result (`flood.ts:84`), the third
starts `loop()` over. The contract names of two bootstraps are taken as different, and the
contract and the account nonces of the API as up to date as the node.

## Runs

| run | question | result |
|---|---|---|
| `StackerOverlap` | Do nonces, signer registration and extensions survive overlapping polls, failures, a drop and a restart? | holds: `NoNonceGap` with `NonceInv`, `SignerFirst`, `LockHorizon` |
| `StackerWeights` | Do locks of a cycle keep the proportions of the slots from pox-3 to pox-5 under any threshold? | holds without a restart: `ProportionalWeights` with `WeightInv`, and `FollowsPlan`, the refinement of `StackingPlan` |
| `StackerLiveness` | Is every account that can pay in the end locked past the next cycle, though another throws in every poll? | holds: `EventuallyLocked` |
| `StackerRestart` | The same proportions with one restart | violated: the fixed amounts are in memory only (`stacking.ts:46`) |
| `StackerPostWait` | Is `POST_TX_WAIT` kept after every broadcast? | violated when another account throws (`stacking.ts:245`) |
| `TxBroadcaster` | Do accounts take turns, for ever, on stale reads? | holds: `Balanced` with `BalanceInv`, and `TakesTurns`, the refinement of `RoundRobin` with its fairness |
| `BitcoinMiner` | Rewards, wallets, own height, pause, progress | holds: `MatureRewards`, `WalletsFirst`, `PauseInv` with `MinerInv`, `ChainGrows` |
| `BondNetwork` | Do the two services keep out of each other's way, meet the deadline, and end with every participant in the one bond that was next? | holds: `OneInFlight`, `SharedAccount`, `CompletesInTime`, `NoClash`, `NoOvermint`, `OneBond`, `SelectsNext`, `Settles` |
| `Flooder` | Do floods stay near the chain, begin only with contract and funds coming, and go on? | holds: `Window`, `FloodComes`, `FundingComes`, `FundingBounded`, `FloodsGoOn` |
| `BitcoinMinerGenesis` | Do the wallets exist whenever `init` is skipped? | violated by a restart in the middle of `init` (`miner.sh:278`) |
| `BitcoinMinerPause` | Does the script stop at `PAUSE_HEIGHT`? | violated once anyone else mines a block, as the liveness test does (`miner.sh:176`) |
| `BitcoinMinerImport` | Is the producer's address imported? | violated without any failure (`miner.sh:108`) |

The violated ones are findings: the code does other than its comment, compose file or
README says, and the entry under `findings` quotes the line.

`LockHorizon` needs a word: a poll that read an account's status before the last
extension was mined extends once more, so the bound has one surplus extension for every
poll that can be alive at once. More is impossible, because a later poll sees the lock.

Properties that name a restart, a lost deploy or `raced` in their statement, and runs
whose bounds leave out a restart or a drop, say where the code gives no more; the models
show these behaviours:

* at the switch from pox-4 to pox-5 a stake can be mined, and fail, before its signer is
  registered: if the register-self is dropped, a pox-4 handler left over from an earlier poll
  may use its nonce (`StackerOverlap` drops a transaction but stays in pox-5; with
  `STACKS_40_HEIGHT = 4` and `MaxTxFee = 3` in its cfg, TLC shows it);
* pox5-setup that is started again reports completion for contracts that came after
  Epoch 4.0, because it finds them deployed (`CompletesInTime` is about the first start);
* if pox5-setup gives up, bitcoin-staking waits for its contract without end (`Settles`
  is about the other outcomes);
* bitcoin-staking that is started again may mint twice, once more for each balance it
  reads while a mint is pending (`NoOvermint` says: only then), and skips members of an
  earlier bond, so that participants may be in different bonds (`OneBond`);
* the flooder may flood from accounts that nobody funds, because the result of the
  bootstrap is not looked at: in the first process when the node answers it with an error
  other than the nonce's (the flood contract above it then waits for ever as well), in one
  that is started again also when the old process's pending deploys get it refused.
  `FundingComes` exempts these two and says there is no third; `FloodsGoOn` exempts them
  too, as no call of such an account is ever mined.

Bounds. Two accounts are enough for the stacker: accounts meet only in `Promise.all`
(one throws, the other lives on) and in the amounts they share; nonces are per account.
Two polls at a time are the least that overlap. A cycle of two blocks with one prepare
block contains every case of the calendar: prepare phase or not, and, as a lock is for
one cycle, a lock that starts next cycle, ends with this one or is extended.
`StackerOverlap` and `StackerLiveness` run from cycle 2 into cycle 3 (heights 2 to 4),
`StackerWeights` through three cycles (2 to 6), one for each contract. Overlapping polls
at the switch from pox-4 to pox-5 are left to the theorems. One dropped transaction, one
failure and one restart suffice to reach each retry, and combinations of them are
reached because each may come at any step; `StackerLiveness` has the drop and the
account that always throws, but no other failure. `StackerOverlap` stays in pox-5, the
protocol with the long chain of awaits, `StackerWeights` has one poll at a time but all
three contracts and moving thresholds (10 and 20, whose products with the slots differ).
The broadcaster runs with three accounts because two cannot tell "lowest" from "not the
last". The miner script runs with two miners, five blocks to share (so that there is a
remainder) and three reserved blocks instead of 100; the heights leave room to pass the
pause. In `StackerOverlap` polls are interchangeable and TLC uses that symmetry, with no
liveness property in that run. `StackerOverlap` and `StackerWeights` compare states by
`LiveView`, which leaves out what a poll read once the poll and all its handlers have
ended: no step and no property looks at it again.

`BondNetwork` has two participants, the first with a part of the sBTC it needs, so that
minting and registering pass from one to the next and both amounts are told apart. Heights
run from 0 past the deadline (2), Epoch 4.0 (3), the start of bond 0 (5) to the last
block before bond 1 (8; bond 1 would start at 9); bond 0 may be somebody else's, so the
sweep, two bonds long instead of 16, sees past, own, foreign and free bonds and runs out.
One account is deployer and bond admin, as in the compose file, which is the case in which
the services can clash. `Flooder` has two accounts and two calls a flood, the least with
a gap inside a flood and between accounts, and two floods at a time; two calls of the
one account and one of the other are mined. One failure, one drop and one restart each.

Deadlock is not checked: the models stop at their bounds, the miner script can exit.

Fairness. `StackerLiveness` assumes that the loop, every handler, block production and
the mining of each account's next transaction go on (event loop, timers and nodes do
not stop), and nothing about failures, drops, restarts or thresholds, which are
bounded. The others assume no more: in `BondNetwork` that each service and the chain
go on, in `Flooder` that the loop with its requests, the mining of the next deploy and of each
account's next call do. The broadcaster's assumes the same of its loop and node. The miner's assumes
that the script and the clock go on, but not that Stacks miners send anything, nor that
a pause of a thousand days ends.

## Theorems

For all values of the constants, proved by TLAPS:

* `StackerProofs!TypeCorrect`, `NonceContiguity`, `WeightsProportional`;
  `SignerProofs!SignerFirstHolds`, `SignerFirstAcrossSwitch`;
  `HorizonProofs!HorizonHolds`; `PlanProofs!ImplementsPlan`, `PlanPromises`.
* `TxBroadcasterProofs!TypeCorrect`, `BalanceHolds`, `ImplementsRoundRobin`.
* `BitcoinMinerProofs!TypeCorrect`, `MinerInvariant`, `RewardsMature`,
  `WalletsBeforeMiners`, `PauseTaken`.
* `BondNetworkProofs!TypeCorrect`, `OneInFlightHolds`, `SharedAccountHolds`,
  `CompletesInTimeHolds`, `NoClashHolds`, `NoOvermintHolds`, `OneBondHolds`,
  `SelectsNextHolds`: every safety property of the run.
* `FlooderProofs!TypeCorrect`, `WindowHolds`, `FloodComesHolds`, `FundingComesHolds`,
  `FundingBoundHolds`.

The inductive invariants that are properties of a run themselves are theorems too:
`StackerProofs!NonceInvariant` and `WeightInvariant`, `TxBroadcasterProofs!BalanceInvariant`.

`NonceContiguity`: "no gap below a pending transaction" is not inductive, because a
handler keeps a nonce over several awaits and broadcasts it later. `NonceInv` adds that
the nonce each handler carries is contiguous at all times, and, while it awaits its own
deploy, that the next one is (the deploy it counts on is pending, mined or dropped). It is
kept because confirming a nonce only shortens the interval that has to be covered, and a
replacement or a drop keeps a nonce covered.

`WeightsProportional` assumes `MaxRestarts = 0` (the finding `StackerRestart` shows why).
`WeightInv` follows the fixed amount from the map through handler, mempool and lock.

`BalanceHolds`: `BalanceInv` says that what is pending is for the confirmed nonce of its
account, which no other account is behind, and that stale reads can only be too low.
`ImplementsRoundRobin` uses it to map every mined transfer to a turn and all other
steps to stutters.

The four safety theorems of `BitcoinMinerProofs` rest on `MinerInv`, for any number of
miners, any heights, failures, restarts and foreign blocks. `GenesisInv`: while `init`
shares out blocks, its own count is the plan (`i * blocks_per_miner`; lemmas `Division`
and `Shares`) and the height of the chain, because nobody else mines before the health
check passes (lemma `Unhealthy`) and a refused call ends `init`. So every reward lies below
the reserved blocks, which is `MatureRewards`; and the depositor gets a number of blocks
that is not negative, which `TypeOK` needs. `WalletInv` adds which wallets exist at each
step, and that `init` has served the miners it has passed (`Served`: a wallet with
coinbases in it), and all of them before it makes the depositor's wallet. Hence
`WalletsFirst`, also for a start that skipped `init`: either everybody is served, or the
depositor's wallet is missing. `HeightInv` adds that the script's count is the height as long as
nothing disturbs it, from which `PauseInv` follows.

`BondNetworkProofs` builds its invariants one on the other. `NonceInv`: an account has at
most one pending transaction, at its confirmed nonce, and a nonce a service holds was
confirmed once, so what it sends is that transaction or is refused; a second deploy is
counted only after the first is mined. `EpochInv`: nothing of the bond side (bonds, a
started bitcoin-staking) exists before Epoch 4.0, while a deploy in flight that passed
its check is still before it by `InPace` and `PaceAssumption`; `SharedAccount` follows, and
with `CompleteInv` (contracts that a first start finds or deploys are in time)
`CompletesInTime`. `MintInv` bounds a balance together with the pending mint by the target
unless the participant is in `raced`. `BondInv` keeps, without a restart, what the
registrations and the selected bond have in common. `WindowInv` is the reason the sweep
may skip indices: the setup window of each of our bonds, set up, pending or selected, had
opened at the height the sweep knows, and once a bond's window is open every bond before
it has started, because bonds are at least one window apart (`GapAssumption`).
`ClashInv`: without a restart both services' counts of the shared nonce are exact when
they send, as long as nobody else uses the account.

`FlooderProofs`: `WindowInv` adds to `Window` the calls still on their way, whose nonces
were counted from a confirmed nonce that has only grown since. `FloodComes` is inductive.
`FundingInv` explains why, until a restart, ignoring the bootstrap's result does harm only when
the node answers with an error other than the nonce's: nonce 0 is never a flood contract's, so
the first deploy that is mined is a bootstrap, and whatever refuses the nonce of a later
bootstrap is a sign that one is pending or mined.

`SignerFirstHolds` says for every set of accounts, polls, faults and restarts that no stake
or stake-update can be the next transaction of an account whose signer is not registered.
`SignerInv` has the reason in two parts. Until its contract exists an account has sent
nothing but deploys, each with nonce 0, so a handler that carries a nonce over an await
carries 0, and has not gone past its deploy. From then on no deploy is admitted, and until the registration
the only transaction that can sit at the confirmed nonce is a register-self: every stake was
given a nonce above it, and a slot of the mempool holds one transaction, so a stake that is
left behind when the register-self is dropped waits for the next one. The theorem assumes
`STACKS_40_HEIGHT <= InitBurn`, a node that runs pox-5 from the first poll: a handler left
over from pox-4 has a nonce from before the deploy and may broadcast it at any time.

`SignerFirstAcrossSwitch` covers that case, for any epochs, if the node drops nothing
(`MaxLost = 0`) and pox-4 fees stay within `CALL_FEE` (in the code they start at 1000 and
grow by one with each call, against 10000). `SwitchInv` says that behind every stake
or update of an account that is not registered, sent or on its way, a register-self is
pending at a lower nonce with the fee `CALL_FEE`. Nothing can take its slot: a deploy of
a contract that exists is refused, and no other call pays more. So it is only ever removed
by being mined, and then the signer is registered. Without the first assumption the
statement is false, and TLC finds the behaviour that is described under the runs.

`HorizonHolds`, and `HorizonInvariant` under it, assume that `Polls` is finite, for the bound
is a number of polls.
`LockHorizon` says nothing of the extensions still to come, so `HorizonInv` counts an
account's surplus: the handlers that have seen its lock end in the next cycle and are bound
for an extension, and the pending extension, of which there is at most one, because all
extensions of an account have its confirmed nonce (a locked account has nothing else to
send: the signer of a pox-5 lock is registered). The lock together with its surplus stays
within the horizon: a lock that ends later than the next cycle gains no new handler, one
that does not has room for one extension of every poll and one that is pending, and mining
an extension moves it from the surplus to the lock.

`ImplementsPlan` joins these invariants: with `WeightInv` the amount a mined stake or
stack locks is the one fixed for the next cycle, with `HorizonInv` no amount is fixed for a
cycle later than the next one (a poll never knows a height that has not come) and
an extension leaves a lock the plan allows. It assumes `MaxRestarts = 0`, as the
weights do, and a finite `Polls`. `PlanPromises` closes the circle: the plan alone implies
`ProportionalWeights` and `LockHorizon`, so that it says all that these two need.

`FundingBoundHolds`: every start of the loop has one bootstrap to spend, and another start
needs a failed request or a restart. At most two deploys are pending: one at the confirmed
nonce, the only one that can be a bootstrap, and a flood contract above it (`DeploysInv`). So
`Claimed` adds up the bootstraps that are mined, the one that is pending and the one that
still fits below a contract, and `BoundInv` keeps it, plus the one that the present start of
the loop may still send unless it is `Settled`, within `1 + faults + restarts`.

Left to TLC: all liveness (`EventuallyLocked`, `TakesTurns`' fairness, `ChainGrows`,
`Settles`, `FloodsGoOn`); every other property of a passing run is a theorem. The theorems
assume the named `ASSUME`s of the modules and nothing else, but for those said to assume
more: the two about `SignerFirst`, the ones about weights, the horizon and the plan.

## Not modelled

Clarity sources and their loading, key and address derivation, logging and durations;
the Stacks nodes, signers, bitcoind, API and database beyond what the environments say;
dashboards and CI. Integer width does not matter to the modelled parts: amounts and
nonces are BigInt, heights far from any limit.

The `Makefile` has no module: a person calls its targets one after the other, each is a
short list of shell commands behind a check that the network is up or down, and what they
keep is one file, `.current-chainstate-dir`. The scripts under `docker/tests` read and print;
the block that the liveness test mines and the restarts are actions of the models above.

The bond's terms (rates, ratios, the amount of STX) and which signer manager a participant
names are passed on by bitcoin-staking unread; pox-5 decides on them.

## What could be added

An abstract specification of bitcoin-staking's promise (choose a bond, every participant
joins it once, completion), as `StackingPlan` is one of the stacker's, with `BondNetwork`
shown to implement it. `ImplementsPlan` with restarts, for a plan that may forget what it
fixed.
