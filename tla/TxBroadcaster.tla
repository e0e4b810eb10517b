--------------------------- MODULE TxBroadcaster ---------------------------
(***************************************************************************)
(* The tx-broadcaster service, docker/stacker/stacking/tx-broadcaster.ts:  *)
(* every few seconds it reads the nonces of all its accounts and sends a   *)
(* transfer from the one with the lowest nonce.  The reads are separate    *)
(* requests, and the node mines or drops transfers between them.           *)
(* MaxSent, MaxFaults, MaxLost and MaxRestarts are bounds.                 *)
(* A definition X_Fault before a definition X is X with a plausible fault, *)
(* used by no action: it shows which property would notice the fault.      *)
(***************************************************************************)
EXTENDS Integers

CONSTANTS
    Senders,        \* the accounts of ACCOUNT_KEYS
    MaxBurn,        \* bound on the burn height
    EPOCH_30_START, PAUSE_HEIGHT,
    MaxSent,        \* bound: transfers of an account
    MaxFaults,      \* bound: failing RPC calls
    MaxLost,        \* bound: transfers the mempool drops
    MaxRestarts     \* bound: restarts of the container

ASSUME BroadcasterAssumption ==
    /\ MaxBurn \in Nat /\ EPOCH_30_START \in Nat /\ PAUSE_HEIGHT \in Nat
    /\ MaxSent \in Nat /\ MaxFaults \in Nat /\ MaxLost \in Nat /\ MaxRestarts \in Nat

VARIABLES
    burn,       \* node: burn height
    conf,       \* node: account -> confirmed next nonce
    pending,    \* node: <<account, nonce>> of the transfers in the mempool
    pc,         \* where the broadcaster is
    nonces,     \* account -> the nonce getNonce returned, or Unread
    faults, losses, restarts

nodeVars == <<burn, conf, pending, losses>>
vars == <<burn, conf, pending, pc, nonces, faults, losses, restarts>>

Unread == -1
NothingRead == [a \in Senders |-> Unread]

(* Every variable keeps its type, and no nonce outlives the run that read  *)
(* it, whether that run ends, fails or is cut off by a restart.            *)
TypeOK ==
    /\ burn \in 0..MaxBurn
    /\ conf \in [Senders -> Nat]
    /\ pending \subseteq Senders \X Nat
    /\ pc \in {"starting", "idle", "paused", "reading"}
    /\ nonces \in [Senders -> Nat \cup {Unread}]
    /\ pc # "reading" => nonces = NothingRead
    /\ faults \in Nat /\ losses \in Nat /\ restarts \in Nat

Init ==
    /\ burn = 0
    /\ conf = [a \in Senders |-> 0]
    /\ pending = {}
    /\ pc = "starting"
    /\ nonces = NothingRead
    /\ faults = 0 /\ losses = 0 /\ restarts = 0

-----------------------------------------------------------------------------
(* waitForNakamoto asks until the height is past EPOCH_30_START; a failed  *)
(* request is asked again.                                                 *)
waitForNakamoto ==
    /\ pc = "starting"
    /\ burn > EPOCH_30_START
    /\ pc' = "idle"
    /\ UNCHANGED <<nodeVars, nonces, faults, restarts>>

(* run() reads the PoX info, and sleeps PAUSE_TIMER at the pause height    *)
(* before it goes on.                                                      *)
BeginRun ==
    /\ pc = "idle"
    /\ pc' = IF burn = PAUSE_HEIGHT THEN "paused" ELSE "reading"
    /\ nonces' = NothingRead
    /\ UNCHANGED <<nodeVars, faults, restarts>>

Wake ==
    /\ pc = "paused"
    /\ pc' = "reading"
    /\ UNCHANGED <<nodeVars, nonces, faults, restarts>>

(* getNonce of one account; the accounts are read in any order.            *)
ReadNonce(a) ==
    /\ pc = "reading"
    /\ nonces[a] = Unread
    /\ nonces' = [nonces EXCEPT ![a] = conf[a]]
    /\ UNCHANGED <<nodeVars, pc, faults, restarts>>

AllRead == \A b \in Senders : nonces[b] # Unread

(* The sort puts an account with the lowest nonce first.                   *)
IsSender_Second(a) == \E b \in Senders \ {a} : nonces[b] <= nonces[a]
IsSender(a) == \A b \in Senders : nonces[a] <= nonces[b]

(* The mempool takes a transfer whose nonce is not used up and which does  *)
(* not have the same fee as a pending one at its nonce, as they all have.  *)
Admits(a, n) == n >= conf[a] /\ <<a, n>> \notin pending

transferNonce_Next(a) == nonces[a] + 1
transferNonce(a) == nonces[a]

(* The transfer is broadcast; its refusal is only logged.  On an exception *)
(* it may have got through or not, and the loop goes on all the same.      *)
(* (Bound: the service stops when an account has to go beyond MaxSent.)    *)
Broadcast(a) ==
    /\ pc = "reading"
    /\ AllRead /\ IsSender(a)
    /\ transferNonce(a) < MaxSent
    /\ \/ /\ pending' = IF Admits(a, transferNonce(a))
                        THEN pending \cup {<<a, transferNonce(a)>>} ELSE pending
          /\ UNCHANGED faults
       \/ /\ faults < MaxFaults /\ faults' = faults + 1
          /\ UNCHANGED pending
    /\ pc' = "idle"
    /\ nonces' = NothingRead
    /\ UNCHANGED <<burn, conf, losses, restarts>>

(* getPoxInfo or a getNonce fails: run() throws and is tried again.        *)
RunFails_KeepsReads ==
    /\ pc = "reading"
    /\ faults < MaxFaults
    /\ faults' = faults + 1
    /\ pc' = "idle"
    /\ UNCHANGED <<nodeVars, nonces, restarts>>

RunFails ==
    /\ pc = "reading"
    /\ faults < MaxFaults
    /\ faults' = faults + 1
    /\ pc' = "idle"
    /\ nonces' = NothingRead
    /\ UNCHANGED <<nodeVars, restarts>>

Restart ==
    /\ restarts < MaxRestarts
    /\ restarts' = restarts + 1
    /\ pc' = "starting"
    /\ nonces' = NothingRead
    /\ UNCHANGED <<nodeVars, faults>>

-----------------------------------------------------------------------------
(* The node.                                                               *)

Mine(a) ==
    /\ <<a, conf[a]>> \in pending
    /\ conf' = [conf EXCEPT ![a] = @ + 1]
    /\ pending' = pending \ {<<a, conf[a]>>}
    /\ UNCHANGED <<burn, pc, nonces, faults, losses, restarts>>

Lose ==
    /\ losses < MaxLost
    /\ losses' = losses + 1
    /\ \E tx \in pending : pending' = pending \ {tx}
    /\ UNCHANGED <<burn, conf, pc, nonces, faults, restarts>>

BurnBlock ==
    /\ burn < MaxBurn
    /\ burn' = burn + 1
    /\ UNCHANGED <<conf, pending, pc, nonces, faults, losses, restarts>>

Service ==
    \/ waitForNakamoto \/ BeginRun \/ Wake
    \/ \E a \in Senders : ReadNonce(a) \/ Broadcast(a)

MineAny == \E a \in Senders : Mine(a)

Next == Service \/ RunFails \/ Restart \/ MineAny \/ Lose \/ BurnBlock

Spec == Init /\ [][Next]_vars

(* The service keeps polling, blocks and transfers are mined; failures,    *)
(* drops and restarts need not happen.                                     *)
Fairness ==
    WF_vars(Service) /\ WF_vars(BurnBlock) /\ \A a \in Senders : WF_vars(Mine(a))

FairSpec == Spec /\ Fairness

-----------------------------------------------------------------------------
(* No account gets more than one transfer ahead of another, although every *)
(* nonce is read at a time of its own and may be stale when it is used.    *)
Balanced == \A a, b \in Senders : conf[a] <= conf[b] + 1

(* Why: a transfer on its way is for its account's confirmed nonce, which  *)
(* no other account is behind; and a nonce that was read can only be low.  *)
BalanceInv ==
    /\ Balanced
    /\ \A tx \in pending : /\ tx[2] = conf[tx[1]]
                           /\ tx[2] < MaxSent
                           /\ \A b \in Senders : tx[2] <= conf[b]
    /\ \A a \in Senders : nonces[a] # Unread => nonces[a] <= conf[a]

RR == INSTANCE RoundRobin WITH sent <- conf

(* The broadcaster implements RoundRobin, its fairness included: the next  *)
(* transfer to be mined is always one of an account that has sent the      *)
(* fewest, and it is mined in the end, whatever failed, was dropped or     *)
(* restarted before (a transfer counts when it is mined).                  *)
TakesTurns == RR!FairSpec
=============================================================================
