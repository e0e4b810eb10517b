------------------------------ MODULE Flooder -------------------------------
(***************************************************************************)
(* The flooder, docker/stacker/stacking/flood.ts: it makes up accounts,    *)
(* funds all of them with one deploy, deploys the contract they call, and  *)
(* then floods the node with calls, several at a time for each account.    *)
(* No broadcast is repeated when it is refused: the next run starts over   *)
(* with the nonces that are confirmed by then.  All transactions of an     *)
(* account carry the same fee, so the mempool never replaces one.          *)
(* A definition X_Fault before a definition X is X with a plausible fault, *)
(* used by no action: it shows which property would notice the fault.      *)
(***************************************************************************)
EXTENDS Integers

CONSTANTS
    Flooders,       \* the accounts, as many as NUM_FLOODERS
    Bootstrapper,   \* the account of BOOTSTRAPPER_KEY
    TX_PER_FLOOD,
    Slots,          \* bound: floods whose requests are alive at once
    MaxNonce,       \* bound: account -> its calls that are mined
    MaxFaults,      \* bound: failing requests
    MaxLost,        \* bound: transactions the mempool drops
    MaxRestarts     \* bound: restarts of the process

ASSUME FlooderAssumption ==
    /\ Bootstrapper \notin Flooders /\ Slots # {}
    /\ TX_PER_FLOOD \in Nat \ {0} /\ MaxNonce \in [Flooders -> Nat]
    /\ MaxFaults \in Nat /\ MaxLost \in Nat /\ MaxRestarts \in Nat

VARIABLES
    conf,           \* node: account -> its next nonce
    deploys,        \* node: the bootstrapper's deploys in the mempool
    calls,          \* node: <<flooder, nonce>> of the calls in the mempool
    deployed,       \* node: the contract "flood" exists
    funded,         \* node: the flooders have their STX
    pc, nonce,      \* where loop() is, the nonce bootstrapFlooders has read
    hasSentToFlooders,
    requests,       \* the requests of flood() that are not answered
    awaited,        \* the flood whose requests run() awaits
    fundings,       \* history: bootstraps that were mined
    lostDeploy,     \* history: a deploy was dropped
    denied,         \* history: the last bootstrap was answered with an error
    faults, lost, restarts

mempool == <<deploys, calls>>
chain == <<conf, deployed, funded, fundings>>
process == <<pc, nonce, hasSentToFlooders, requests, awaited>>
counters == <<lostDeploy, denied, faults, lost, restarts>>
vars == <<mempool, chain, process, counters>>

Accounts == Flooders \cup {Bootstrapper}

(* gen is the number of restarts before: a new process makes up new        *)
(* accounts, and only its own bootstrap funds them.                        *)
Deploys == [call : {"bootstrap", "flood"}, nonce : Nat, gen : Nat]
Requests == [run : Slots, from : Flooders, kind : {"read", "send"}, nonce : Nat]

TypeOK ==
    /\ conf \in [Accounts -> Nat]
    /\ deploys \subseteq Deploys /\ calls \subseteq Flooders \X Nat
    /\ deployed \in BOOLEAN /\ funded \in BOOLEAN
    /\ pc \in {"starting", "idle", "bootstrap", "check", "deploy", "flooding"}
    /\ nonce \in Nat /\ hasSentToFlooders \in BOOLEAN
    /\ requests \subseteq Requests /\ awaited \in Slots
    /\ fundings \in Nat /\ lostDeploy \in BOOLEAN /\ denied \in BOOLEAN
    /\ faults \in Nat /\ lost \in Nat /\ restarts \in Nat

Init ==
    /\ conf = [a \in Accounts |-> 0]
    /\ deploys = {} /\ calls = {}
    /\ deployed = FALSE /\ funded = FALSE
    /\ pc = "starting" /\ nonce = 0
    /\ hasSentToFlooders = FALSE
    /\ requests = {} /\ awaited = CHOOSE s \in Slots : TRUE
    /\ fundings = 0 /\ lostDeploy = FALSE /\ denied = FALSE
    /\ faults = 0 /\ lost = 0 /\ restarts = 0

-----------------------------------------------------------------------------
(* Nakamoto is active sooner or later; then loop() calls run() for ever,   *)
(* and that bootstraps or floods.                                          *)
waitForNakamoto ==
    /\ pc = "starting"
    /\ pc' = "idle"
    /\ UNCHANGED <<mempool, chain, counters, nonce, hasSentToFlooders, requests, awaited>>

-----------------------------------------------------------------------------
(* bootstrapFlooders: one nonce is read and counted up.                    *)
ReadBootstrapNonce ==
    /\ pc = "idle" /\ ~hasSentToFlooders
    /\ nonce' = conf[Bootstrapper]
    /\ pc' = "bootstrap"
    /\ UNCHANGED <<mempool, chain, counters, hasSentToFlooders, requests, awaited>>

bootstrapTx == [call |-> "bootstrap", nonce |-> nonce, gen |-> restarts]
floodTx == [call |-> "flood", nonce |-> nonce + 1, gen |-> restarts]

AdmitsDeploy(tx) ==
    /\ tx.nonce >= conf[Bootstrapper]
    /\ \A d \in deploys : d.nonce # tx.nonce
    /\ tx.call = "flood" => ~deployed

(* The result of the first broadcast is not looked at, whether the node    *)
(* refuses the nonce or answers with another error.                        *)
BroadcastBootstrap ==
    /\ pc = "bootstrap"
    /\ \/ /\ deploys' = IF AdmitsDeploy(bootstrapTx) THEN deploys \cup {bootstrapTx}
                        ELSE deploys
          /\ denied' = FALSE /\ UNCHANGED faults
       \/ /\ faults < MaxFaults /\ faults' = faults + 1
          /\ denied' = TRUE /\ UNCHANGED deploys
    /\ pc' = "check"
    /\ UNCHANGED <<calls, chain, lostDeploy, lost, restarts, nonce, hasSentToFlooders,
                   requests, awaited>>

(* An error is taken for "no".                                             *)
AnswerOnError_Yes == TRUE
AnswerOnError == FALSE

isContractDeployed ==
    /\ pc = "check"
    /\ \E isDeployed \in {deployed, AnswerOnError} :
          /\ \/ isDeployed = deployed /\ UNCHANGED faults
             \/ isDeployed = AnswerOnError /\ faults < MaxFaults /\ faults' = faults + 1
          /\ hasSentToFlooders' = isDeployed
          /\ IF isDeployed THEN pc' = "idle" /\ nonce' = 0
             ELSE pc' = "deploy" /\ UNCHANGED nonce
    /\ UNCHANGED <<mempool, chain, requests, awaited, lostDeploy, denied, lost, restarts>>

(* The result of the second one decides whether the flooding may start.    *)
AllWorked_Deployed == deployed
AllWorked == AdmitsDeploy(floodTx)

BroadcastFlood ==
    /\ pc = "deploy"
    /\ deploys' = IF AdmitsDeploy(floodTx) THEN deploys \cup {floodTx} ELSE deploys
    /\ hasSentToFlooders' = AllWorked
    /\ pc' = "idle" /\ nonce' = 0
    /\ UNCHANGED <<calls, chain, counters, requests, awaited>>

(* A request throws, and loop() starts over; a deploy may have got through. *)
(* (An error answer to the second broadcast ends the run in the same way.)  *)
AfterFailure_Goes == IF pc = "bootstrap" THEN "check" ELSE "idle"
AfterFailure == "idle"

BootstrapFails ==
    /\ pc \in {"bootstrap", "deploy"} \/ (pc = "idle" /\ ~hasSentToFlooders)
    /\ faults < MaxFaults /\ faults' = faults + 1
    /\ \/ UNCHANGED deploys
       \/ /\ pc = "bootstrap" /\ AdmitsDeploy(bootstrapTx)
          /\ deploys' = deploys \cup {bootstrapTx}
       \/ /\ pc = "deploy" /\ AdmitsDeploy(floodTx)
          /\ deploys' = deploys \cup {floodTx}
    /\ pc' = AfterFailure /\ nonce' = (IF AfterFailure = "idle" THEN 0 ELSE nonce)
    /\ UNCHANGED <<calls, chain, hasSentToFlooders, requests, awaited, lostDeploy,
                   denied, lost, restarts>>

-----------------------------------------------------------------------------
(* flood(): all flooders read their nonces, and send as soon as they have  *)
(* them.                                                                   *)
RequestsOf(s) == {q \in requests : q.run = s}

(* Promise.all waits for every request, or for the first that throws: then *)
(* the others of that flood are under way when the next one begins.        *)
AtRest == pc = "idle" \/ (pc = "flooding" /\ RequestsOf(awaited) = {})

BeginFlood ==
    /\ AtRest /\ hasSentToFlooders
    /\ \E s \in Slots :
          /\ RequestsOf(s) = {}
          /\ requests' = requests \cup
                [run : {s}, from : Flooders, kind : {"read"}, nonce : {0}]
          /\ awaited' = s
    /\ pc' = "flooding"
    /\ UNCHANGED <<mempool, chain, counters, nonce, hasSentToFlooders>>

(* getAccountNonces: the nonce after the last executed one, not after the  *)
(* last one in the mempool.                                                *)
FloodNonce_Possible(f) ==
    LET ahead == {n \in 0..(conf[f] + TX_PER_FLOOD) : <<f, n>> \in calls}
    IN  IF ahead = {} THEN conf[f]
        ELSE 1 + CHOOSE n \in ahead : \A m \in ahead : m <= n
FloodNonce_Last(f) == conf[f] - 1
FloodNonce_FromOne(f) == IF conf[f] = 0 THEN 1 ELSE conf[f]
FloodNonce(f) == conf[f]

ReadNonce(q) ==
    /\ q.kind = "read"
    /\ requests' = (requests \ {q}) \cup
            [run : {q.run}, from : {q.from}, kind : {"send"},
             nonce : FloodNonce(q.from)..(FloodNonce(q.from) + TX_PER_FLOOD - 1)]
    /\ UNCHANGED <<mempool, chain, counters, pc, nonce, hasSentToFlooders, awaited>>

AdmitsCall(f, n) ==
    /\ deployed /\ funded
    /\ n >= conf[f]
    /\ <<f, n>> \notin calls

(* A refusal is only logged.  (A call that is refused with another error    *)
(* is one that LoseCall drops at once.)                                    *)
BroadcastCall(q) ==
    /\ q.kind = "send"
    /\ calls' = IF AdmitsCall(q.from, q.nonce)
                THEN calls \cup {<<q.from, q.nonce>>} ELSE calls
    /\ requests' = requests \ {q}
    /\ UNCHANGED <<deploys, chain, counters, pc, nonce, hasSentToFlooders, awaited>>

(* A request throws.                                                       *)
RequestFails(q) ==
    /\ faults < MaxFaults /\ faults' = faults + 1
    /\ requests' = requests \ {q}
    /\ pc' = IF pc = "flooding" /\ q.run = awaited THEN "idle" ELSE pc
    /\ \/ UNCHANGED calls
       \/ /\ q.kind = "send" /\ AdmitsCall(q.from, q.nonce)
          /\ calls' = calls \cup {<<q.from, q.nonce>>}
    /\ UNCHANGED <<deploys, chain, nonce, hasSentToFlooders, awaited, lostDeploy,
                   denied, lost, restarts>>

(* A new process, with new accounts: the old ones are of no interest.      *)
Restart ==
    /\ restarts < MaxRestarts /\ restarts' = restarts + 1
    /\ pc' = "starting" /\ nonce' = 0 /\ hasSentToFlooders' = FALSE /\ requests' = {}
    /\ conf' = [a \in Accounts |-> IF a = Bootstrapper THEN conf[a] ELSE 0]
    /\ calls' = {} /\ funded' = FALSE /\ denied' = FALSE
    /\ UNCHANGED <<deploys, deployed, fundings, awaited, lostDeploy, faults, lost>>

-----------------------------------------------------------------------------
(* The node mines the next deploy; a second "flood" is thrown out.         *)
MineDeploy ==
    \E tx \in deploys :
        /\ tx.nonce = conf[Bootstrapper]
        /\ deploys' = deploys \ {tx}
        /\ IF tx.call = "flood" /\ deployed
           THEN UNCHANGED <<conf, deployed, funded, fundings>>
           ELSE /\ conf' = [conf EXCEPT ![Bootstrapper] = @ + 1]
                /\ deployed' = (deployed \/ tx.call = "flood")
                /\ funded' = (funded \/ (tx.call = "bootstrap" /\ tx.gen = restarts))
                /\ fundings' = fundings + (IF tx.call = "bootstrap" THEN 1 ELSE 0)
        /\ UNCHANGED <<calls, process, counters>>

MineCall(f) ==
    /\ <<f, conf[f]>> \in calls /\ conf[f] < MaxNonce[f]
    /\ calls' = calls \ {<<f, conf[f]>>}
    /\ conf' = [conf EXCEPT ![f] = @ + 1]
    /\ UNCHANGED <<deploys, deployed, funded, fundings, process, counters>>

LoseDeploy ==
    /\ lost < MaxLost /\ lost' = lost + 1
    /\ \E tx \in deploys : deploys' = deploys \ {tx}
    /\ lostDeploy' = TRUE
    /\ UNCHANGED <<calls, chain, process, denied, faults, restarts>>

LoseCall ==
    /\ lost < MaxLost /\ lost' = lost + 1
    /\ \E tx \in calls : calls' = calls \ {tx}
    /\ UNCHANGED <<deploys, chain, process, lostDeploy, denied, faults, restarts>>

-----------------------------------------------------------------------------
Service ==
    \/ waitForNakamoto \/ ReadBootstrapNonce \/ BroadcastBootstrap
    \/ isContractDeployed \/ BroadcastFlood \/ BeginFlood
    \/ \E q \in requests : ReadNonce(q) \/ BroadcastCall(q)

Failure == BootstrapFails \/ \E q \in requests : RequestFails(q)

MineAnyCall == \E f \in Flooders : MineCall(f)

Next == Service \/ Failure \/ Restart \/ MineDeploy \/ MineAnyCall \/ LoseDeploy \/ LoseCall

Spec == Init /\ [][Next]_vars

(* The event loop goes on and the node mines; nothing has to fail.         *)
Fairness ==
    WF_vars(Service) /\ WF_vars(MineDeploy) /\ \A f \in Flooders : WF_vars(MineCall(f))

FairSpec == Spec /\ Fairness

-----------------------------------------------------------------------------
(* However floods overlap and however old the nonces are that they use, an *)
(* account never has a call in the mempool that is more than one flood     *)
(* ahead of the chain.                                                     *)
Window == \A c \in calls : c[2] < conf[c[1]] + TX_PER_FLOOD

(* When the flooding starts, the contract it calls is there or on its way, *)
(* whatever was refused, failed or left behind by an earlier process.      *)
FloodComes ==
    hasSentToFlooders /\ ~lostDeploy =>
        deployed \/ \E tx \in deploys : tx.call = "flood"

(* And the accounts are funded or about to be, unless the node answered    *)
(* the bootstrap of that very run with an error, which nobody looks at     *)
(* (flood.ts:84): a bootstrap that threw, was refused for its nonce or was *)
(* answered with an error in an earlier run does no harm.  (After a        *)
(* restart it may be refused because of the old process's deploys, and the *)
(* new accounts flood the node in vain.)                                   *)
FundingComes ==
    hasSentToFlooders /\ ~lostDeploy /\ restarts = 0 =>
        funded \/ denied \/ \E tx \in deploys : tx.call = "bootstrap"

(* The flooders are paid again only after a failed request, once for each, *)
(* and after a restart.                                                    *)
FundingBounded == fundings <= 1 + faults + restarts

(* Every account gets its calls mined: gaps that refused, failed or lost   *)
(* calls leave are filled by later floods.  Where nobody is going to fund  *)
(* the accounts (see FundingComes) none is.                                *)
FloodsGoOn ==
    <>(\/ restarts > 0 \/ lostDeploy \/ (hasSentToFlooders /\ denied)
       \/ \A f \in Flooders : conf[f] = MaxNonce[f])
=============================================================================
