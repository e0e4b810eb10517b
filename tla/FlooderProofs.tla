--------------------------- MODULE FlooderProofs ----------------------------
(***************************************************************************)
(* Proofs about Flooder, for any set of accounts, any flood size and any   *)
(* bounds: its type, how far ahead of the chain a call can be, what is     *)
(* there when the flooding starts, and how often the flooders are paid.    *)
(***************************************************************************)
EXTENDS Flooder, TLAPS

(* The steps that leave the confirmed nonces, the calls and the requests,  *)
(* so all that Window depends on, as they are.                             *)
Aside ==
    \/ waitForNakamoto \/ ReadBootstrapNonce \/ BroadcastBootstrap
    \/ isContractDeployed \/ BroadcastFlood \/ BootstrapFails \/ LoseDeploy
    \/ UNCHANGED vars

(* Next, with the steps grouped by what they leave alone.                  *)
LEMMA NextCases ==
    ASSUME [Next]_vars
    PROVE  \/ Aside
           \/ BeginFlood \/ Restart \/ MineDeploy \/ LoseCall
           \/ \E f \in Flooders : MineCall(f)
           \/ \E q \in requests : ReadNonce(q) \/ BroadcastCall(q) \/ RequestFails(q)
  BY DEF Next, Service, Failure, MineAnyCall, Aside

LEMMA AsideKeeps == Aside => UNCHANGED <<conf, calls, requests>>
  BY DEF Aside, waitForNakamoto, ReadBootstrapNonce, BroadcastBootstrap,
         isContractDeployed, BroadcastFlood, BootstrapFails, LoseDeploy,
         vars, mempool, chain, process, counters

-----------------------------------------------------------------------------
(* A deploy's fields, and a request's, are of their types.                 *)
LEMMA DeployType ==
    ASSUME TypeOK PROVE bootstrapTx \in Deploys /\ floodTx \in Deploys
  BY DEF TypeOK, bootstrapTx, floodTx, Deploys

LEMMA RequestType ==
    ASSUME NEW q \in Requests
    PROVE  q.run \in Slots /\ q.from \in Flooders /\ q.nonce \in Nat
  BY DEF Requests

(* TypeOK holds at the start.                                              *)
LEMMA TypeInit == Init => TypeOK
<1> SUFFICES ASSUME Init PROVE TypeOK
  OBVIOUS
<1>1. awaited \in Slots
  BY FlooderAssumption, Zenon DEF Init
<1>2. conf \in [Accounts -> Nat]
  BY DEF Init
<1> QED BY <1>1, <1>2 DEF Init, TypeOK

(* TypeOK is kept while the flooders are bootstrapped.                     *)
LEMMA TypeAside == TypeOK /\ Aside => TypeOK'
<1> SUFFICES ASSUME TypeOK, Aside PROVE TypeOK'
  OBVIOUS
<1> USE DEF TypeOK, mempool, chain, process, counters
<1>0. Bootstrapper \in Accounts
  BY DEF Accounts
<1>1. CASE waitForNakamoto
  BY <1>1 DEF waitForNakamoto
<1>2. CASE ReadBootstrapNonce
  BY <1>2, <1>0 DEF ReadBootstrapNonce
<1>3. CASE BroadcastBootstrap
  <2>1. deploys' \subseteq Deploys
    BY <1>3, DeployType DEF BroadcastBootstrap
  <2>2. denied' \in BOOLEAN
    <3>1. denied' = FALSE \/ denied' = TRUE
      BY <1>3, Zenon DEF BroadcastBootstrap
    <3> QED BY <3>1
  <2>3. faults' \in Nat
    BY <1>3 DEF BroadcastBootstrap
  <2> QED BY <2>1, <2>2, <2>3, <1>3 DEF BroadcastBootstrap
<1>4. CASE isContractDeployed
  <2>1. PICK isDeployed \in {deployed, AnswerOnError} :
          /\ hasSentToFlooders' = isDeployed
          /\ faults' \in {faults, faults + 1}
          /\ IF isDeployed THEN pc' = "idle" /\ nonce' = 0
             ELSE pc' = "deploy" /\ UNCHANGED nonce
    BY <1>4 DEF isContractDeployed
  <2>2. hasSentToFlooders' \in BOOLEAN
    BY <2>1 DEF AnswerOnError
  <2>3. faults' \in Nat
    BY <2>1
  <2>4. pc' \in {"idle", "deploy"} /\ nonce' \in Nat
    BY <2>1
  <2> QED BY <2>2, <2>3, <2>4, <1>4 DEF isContractDeployed
<1>5. CASE BroadcastFlood
  <2>1. hasSentToFlooders' \in BOOLEAN
    BY <1>5 DEF BroadcastFlood, AllWorked, AdmitsDeploy
  <2> QED BY <2>1, <1>5, DeployType DEF BroadcastFlood
<1>6. CASE BootstrapFails
  BY <1>6, DeployType DEF BootstrapFails, AfterFailure
<1>7. CASE LoseDeploy
  BY <1>7 DEF LoseDeploy
<1>8. CASE UNCHANGED vars
  BY <1>8 DEF vars
<1> QED BY <1>1, <1>2, <1>3, <1>4, <1>5, <1>6, <1>7, <1>8 DEF Aside

(* TypeOK is kept by every step.                                           *)
LEMMA TypeStep == TypeOK /\ [Next]_vars => TypeOK'
<1> SUFFICES ASSUME TypeOK, [Next]_vars PROVE TypeOK'
  OBVIOUS
<1> USE DEF TypeOK, mempool, chain, process, counters
<1>1. CASE Aside
  BY <1>1, TypeAside
<1>2. CASE BeginFlood
  <2>1. PICK s \in Slots :
          /\ requests' = requests \cup
                [run : {s}, from : Flooders, kind : {"read"}, nonce : {0}]
          /\ awaited' = s
    BY <1>2 DEF BeginFlood
  <2>2. [run : {s}, from : Flooders, kind : {"read"}, nonce : {0}] \subseteq Requests
    BY DEF Requests
  <2> QED BY <2>1, <2>2, <1>2 DEF BeginFlood
<1>3. CASE Restart
  <2>1. conf' \in [Accounts -> Nat]
    BY <1>3 DEF Restart
  <2>2. /\ restarts' \in Nat /\ pc' = "starting" /\ nonce' = 0
        /\ hasSentToFlooders' = FALSE /\ funded' = FALSE /\ denied' = FALSE
        /\ requests' \subseteq Requests /\ calls' \subseteq Flooders \X Nat
    BY <1>3 DEF Restart
  <2>3. UNCHANGED <<deploys, deployed, fundings, awaited, lostDeploy, faults, lost>>
    BY <1>3 DEF Restart
  <2> QED BY <2>1, <2>2, <2>3
<1>4. CASE MineDeploy
  <2>1. conf' \in [Accounts -> Nat]
    BY <1>4 DEF MineDeploy, Accounts
  <2>2. deployed' \in BOOLEAN /\ funded' \in BOOLEAN
    BY <1>4 DEF MineDeploy
  <2>3. fundings' \in Nat
    BY <1>4 DEF MineDeploy
  <2> QED BY <2>1, <2>2, <2>3, <1>4 DEF MineDeploy
<1>5. CASE LoseCall
  BY <1>5 DEF LoseCall
<1>6. ASSUME NEW f \in Flooders, MineCall(f) PROVE TypeOK'
  BY <1>6 DEF MineCall, Accounts
<1>7. ASSUME NEW q \in requests, ReadNonce(q) PROVE TypeOK'
  <2>1. q.run \in Slots /\ q.from \in Flooders
    BY RequestType
  <2>2. FloodNonce(q.from)..(FloodNonce(q.from) + TX_PER_FLOOD - 1) \subseteq Nat
    BY <2>1, FlooderAssumption DEF FloodNonce, Accounts
  <2>3. [run : {q.run}, from : {q.from}, kind : {"send"},
         nonce : FloodNonce(q.from)..(FloodNonce(q.from) + TX_PER_FLOOD - 1)]
           \subseteq Requests
    BY <2>1, <2>2 DEF Requests
  <2>4. requests' \subseteq Requests
    BY <2>3, <1>7 DEF ReadNonce
  <2> QED BY <2>4, <1>7 DEF ReadNonce
<1>8. ASSUME NEW q \in requests, BroadcastCall(q) PROVE TypeOK'
  <2>1. <<q.from, q.nonce>> \in Flooders \X Nat
    BY RequestType
  <2> QED BY <2>1, <1>8 DEF BroadcastCall
<1>9. ASSUME NEW q \in requests, RequestFails(q) PROVE TypeOK'
  <2>1. <<q.from, q.nonce>> \in Flooders \X Nat
    BY RequestType
  <2> QED BY <2>1, <1>9 DEF RequestFails
<1> QED
  BY <1>1, <1>2, <1>3, <1>4, <1>5, <1>6, <1>7, <1>8, <1>9, NextCases

(* The types of TypeOK hold in every reachable state: no request ever has  *)
(* a nonce that is not a natural number (flood.ts:134).                    *)
THEOREM TypeCorrect == Spec => []TypeOK
  BY TypeInit, TypeStep, PTL DEF Spec

-----------------------------------------------------------------------------
(* A nonce that was read is confirmed for ever, so a call that is on its   *)
(* way to the node is in the window as well as one that has arrived.       *)
WindowInv ==
    /\ Window
    /\ \A q \in requests : q.kind = "send" => q.nonce < conf[q.from] + TX_PER_FLOOD

LEMMA WindowInit == Init => WindowInv
  BY DEF Init, WindowInv, Window

(* A confirmed nonce that grows, and fewer calls and requests, keep it.    *)
LEMMA WindowCarries ==
    ASSUME TypeOK, TypeOK', WindowInv,
           \A f \in Flooders : conf[f] <= conf'[f],
           calls' \subseteq calls, requests' \subseteq requests
    PROVE  WindowInv'
<1>1. \A f \in Flooders : conf[f] \in Nat /\ conf'[f] \in Nat
  BY DEF TypeOK, Accounts
<1>2. ASSUME NEW c \in calls' PROVE c[2] < conf'[c[1]] + TX_PER_FLOOD
  <2>1. c \in calls /\ c \in Flooders \X Nat
    BY DEF TypeOK
  <2>2. c[1] \in Flooders /\ c[2] \in Nat
    BY <2>1
  <2>3. c[2] < conf[c[1]] + TX_PER_FLOOD
    BY <2>1 DEF WindowInv, Window
  <2> QED BY <2>2, <2>3, <1>1, FlooderAssumption
<1>3. ASSUME NEW q \in requests', q.kind = "send"
      PROVE  q.nonce < conf'[q.from] + TX_PER_FLOOD
  <2>1. q \in requests /\ q \in Requests
    BY DEF TypeOK
  <2>2. q.nonce < conf[q.from] + TX_PER_FLOOD
    BY <1>3, <2>1 DEF WindowInv
  <2> QED BY <2>1, <2>2, <1>1, RequestType, FlooderAssumption
<1> QED BY <1>2, <1>3 DEF WindowInv, Window

(* A call that was on its way may arrive.                                  *)
LEMMA WindowArrives ==
    ASSUME TypeOK, WindowInv, NEW q \in requests,
           UNCHANGED conf, requests' \subseteq requests,
           \/ calls' = calls
           \/ q.kind = "send" /\ calls' = calls \cup {<<q.from, q.nonce>>}
    PROVE  WindowInv'
  BY DEF WindowInv, Window

LEMMA WindowStep == TypeOK /\ TypeOK' /\ WindowInv /\ [Next]_vars => WindowInv'
<1> SUFFICES ASSUME TypeOK, TypeOK', WindowInv, [Next]_vars PROVE WindowInv'
  OBVIOUS
<1> USE DEF mempool, chain, process, counters
<1>0. \A f \in Flooders : conf[f] \in Nat /\ conf[f] <= conf[f] /\ conf[f] <= conf[f] + 1
  BY DEF TypeOK, Accounts
<1>1. CASE Aside
  BY <1>1, AsideKeeps DEF WindowInv, Window
<1>2. CASE BeginFlood
  <2>1. UNCHANGED <<conf, calls>>
    BY <1>2 DEF BeginFlood
  <2>2. \A q \in requests' : q.kind = "send" => q \in requests
    BY <1>2 DEF BeginFlood
  <2> QED BY <2>1, <2>2 DEF WindowInv, Window
<1>3. CASE Restart
  BY <1>3 DEF Restart, WindowInv, Window
<1>4. CASE MineDeploy
  <2>1. \A f \in Flooders : conf'[f] = conf[f]
    BY <1>4, FlooderAssumption DEF MineDeploy, TypeOK, Accounts
  <2> QED BY <2>1, <1>0, <1>4, WindowCarries DEF MineDeploy
<1>5. CASE LoseCall
  BY <1>5, <1>0, WindowCarries DEF LoseCall
<1>6. ASSUME NEW f \in Flooders, MineCall(f) PROVE WindowInv'
  <2>1. \A g \in Flooders : conf[g] <= conf'[g]
    BY <1>6, <1>0 DEF MineCall, TypeOK, Accounts
  <2> QED BY <2>1, <1>6, WindowCarries DEF MineCall
<1>7. ASSUME NEW q \in requests, ReadNonce(q) PROVE WindowInv'
  <2>1. UNCHANGED <<conf, calls>>
    BY <1>7 DEF ReadNonce
  <2>2. ASSUME NEW r \in requests', r \notin requests
        PROVE  r.nonce < conf[r.from] + TX_PER_FLOOD
    <3>1. r.from = q.from /\ r.nonce \in conf[q.from]..(conf[q.from] + TX_PER_FLOOD - 1)
      BY <2>2, <1>7 DEF ReadNonce, FloodNonce
    <3>2. q.from \in Flooders
      BY RequestType DEF TypeOK
    <3> QED BY <3>1, <3>2, <1>0, FlooderAssumption
  <2> QED BY <2>1, <2>2 DEF WindowInv, Window
<1>8. ASSUME NEW q \in requests, BroadcastCall(q) PROVE WindowInv'
  BY <1>8, WindowArrives DEF BroadcastCall
<1>9. ASSUME NEW q \in requests, RequestFails(q) PROVE WindowInv'
  BY <1>9, WindowArrives DEF RequestFails
<1> QED
  BY <1>1, <1>2, <1>3, <1>4, <1>5, <1>6, <1>7, <1>8, <1>9, NextCases

(* However floods overlap, and whatever is refused, lost or delayed, no    *)
(* account has a call in the mempool that is a whole flood ahead of the    *)
(* chain: the nonces of flood.ts:134 are confirmed ones.                   *)
THEOREM WindowHolds == Spec => []Window
<1>1. WindowInv => Window
  BY DEF WindowInv
<1> QED BY <1>1, WindowInit, WindowStep, TypeCorrect, PTL DEF Spec

-----------------------------------------------------------------------------
(* The steps that change none of what FloodComes and FundingInv depend on. *)
Bystander ==
    \/ BeginFlood \/ LoseCall
    \/ \E f \in Flooders : MineCall(f)
    \/ \E q \in requests : ReadNonce(q) \/ BroadcastCall(q) \/ RequestFails(q)
    \/ UNCHANGED vars

LEMMA BootstrapCases ==
    ASSUME [Next]_vars
    PROVE  \/ Bystander \/ waitForNakamoto \/ ReadBootstrapNonce \/ BroadcastBootstrap
           \/ isContractDeployed \/ BroadcastFlood \/ BootstrapFails
           \/ Restart \/ MineDeploy \/ LoseDeploy
  BY DEF Next, Service, Failure, MineAnyCall, Bystander

LEMMA BystanderKeeps ==
    ASSUME TypeOK, Bystander
    PROVE  /\ UNCHANGED <<deploys, deployed, funded, nonce, hasSentToFlooders,
                         lostDeploy, denied, restarts>>
           /\ conf'[Bootstrapper] = conf[Bootstrapper]
           /\ pc' = pc \/ pc' \in {"idle", "flooding"}
<1> USE DEF mempool, chain, process, counters
<1>1. CASE BeginFlood \/ LoseCall \/ UNCHANGED vars
  BY <1>1 DEF BeginFlood, LoseCall, vars
<1>2. ASSUME NEW f \in Flooders, MineCall(f)
      PROVE  /\ UNCHANGED <<deploys, deployed, funded, nonce, hasSentToFlooders,
                           lostDeploy, denied, restarts, pc>>
             /\ conf'[Bootstrapper] = conf[Bootstrapper]
  BY <1>2, FlooderAssumption DEF MineCall, TypeOK, Accounts
<1>3. ASSUME NEW q \in requests, ReadNonce(q) \/ BroadcastCall(q) \/ RequestFails(q)
      PROVE  /\ UNCHANGED <<deploys, deployed, funded, nonce, hasSentToFlooders,
                           lostDeploy, denied, restarts, conf>>
             /\ pc' = pc \/ pc' = "idle"
  BY <1>3 DEF ReadNonce, BroadcastCall, RequestFails
<1> QED BY <1>1, <1>2, <1>3 DEF Bystander

(* What a bystander leaves of the loop's place, and of what is counted.    *)
LEMMA BystanderPc ==
    ASSUME TypeOK, Bystander
    PROVE  /\ \/ pc' = pc
              \/ pc' = "flooding" /\ hasSentToFlooders
              \/ pc' = "idle" /\ pc = "flooding"
           /\ fundings' = fundings
           /\ faults' \in Nat /\ faults' >= faults
<1> USE DEF mempool, chain, process, counters
<1>1. CASE BeginFlood \/ LoseCall \/ UNCHANGED vars
  BY <1>1 DEF BeginFlood, LoseCall, vars, TypeOK
<1>2. ASSUME NEW f \in Flooders, MineCall(f) PROVE UNCHANGED <<pc, fundings, faults>>
  BY <1>2 DEF MineCall
<1>3. ASSUME NEW q \in requests, ReadNonce(q) \/ BroadcastCall(q) \/ RequestFails(q)
      PROVE  /\ pc' = pc \/ (pc' = "idle" /\ pc = "flooding")
             /\ fundings' = fundings
             /\ faults' \in {faults, faults + 1}
  BY <1>3 DEF ReadNonce, BroadcastCall, RequestFails
<1> QED BY <1>1, <1>2, <1>3 DEF Bystander, TypeOK

(* FloodComes is its own inductive invariant.                              *)
LEMMA FloodStep == TypeOK /\ FloodComes /\ [Next]_vars => FloodComes'
<1> SUFFICES ASSUME TypeOK, FloodComes, [Next]_vars PROVE FloodComes'
  OBVIOUS
<1> USE DEF FloodComes, mempool, chain, process, counters
<1>1. CASE Bystander
  BY <1>1, BystanderKeeps
<1>2. CASE waitForNakamoto \/ ReadBootstrapNonce
  BY <1>2 DEF waitForNakamoto, ReadBootstrapNonce
<1>3. CASE BroadcastBootstrap
  BY <1>3 DEF BroadcastBootstrap
<1>4. CASE isContractDeployed
  <2>1. hasSentToFlooders' \in {deployed, FALSE}
    BY <1>4 DEF isContractDeployed, AnswerOnError
  <2>2. UNCHANGED <<deploys, deployed>>
    BY <1>4 DEF isContractDeployed
  <2> QED BY <2>1, <2>2
<1>5. CASE BroadcastFlood
  BY <1>5 DEF BroadcastFlood, AllWorked, floodTx
<1>6. CASE BootstrapFails
  BY <1>6 DEF BootstrapFails
<1>7. CASE Restart
  BY <1>7 DEF Restart
<1>8. CASE MineDeploy
  <2>1. UNCHANGED <<hasSentToFlooders, lostDeploy>>
    BY <1>8 DEF MineDeploy
  <2>2. PICK tx \in deploys :
          /\ deploys' = deploys \ {tx}
          /\ deployed' = deployed \/ deployed' = (deployed \/ tx.call = "flood")
          /\ tx.call = "flood" => deployed \/ deployed' = (deployed \/ tx.call = "flood")
    BY <1>8 DEF MineDeploy
  <2>3. deployed => deployed'
    BY <2>2, Zenon
  <2>4. tx.call = "flood" => deployed'
    BY <2>2, <2>3, Zenon
  <2> QED BY <2>1, <2>2, <2>3, <2>4
<1>9. CASE LoseDeploy
  BY <1>9 DEF LoseDeploy
<1> QED
  BY <1>1, <1>2, <1>3, <1>4, <1>5, <1>6, <1>7, <1>8, <1>9, BootstrapCases

(* Whatever is refused, fails or was left behind by an earlier process:    *)
(* when the flooding starts, the contract it calls is there or in the      *)
(* mempool, unless the node drops the deploy (flood.ts:87-105).            *)
THEOREM FloodComesHolds == Spec => []FloodComes
<1>1. Init => FloodComes
  BY DEF Init, FloodComes
<1> QED BY <1>1, FloodStep, TypeCorrect, PTL DEF Spec

-----------------------------------------------------------------------------
(* Why a bootstrap that is refused for its nonce does no harm before the    *)
(* first restart: the first deploy the node can mine is a bootstrap, as     *)
(* nonce 0 is never a flood's, so a bootstrapper with a confirmed nonce has *)
(* funded the flooders, and a pending deploy with nonce 0 is going to.      *)
(* Only an answer of another kind starts the flooding without either.       *)
FundingInv ==
    /\ \A tx \in deploys : tx.call = "flood" => tx.nonce > 0
    /\ restarts = 0 =>
        /\ \A tx \in deploys : tx.gen = 0
        /\ conf[Bootstrapper] > 0 => funded
        /\ pc \in {"bootstrap", "check", "deploy"} => nonce <= conf[Bootstrapper]
        /\ ~lostDeploy /\ (hasSentToFlooders \/ pc \in {"check", "deploy"}) =>
              funded \/ denied \/ \E tx \in deploys : tx.call = "bootstrap"

LEMMA FundingInit == Init => FundingInv
  BY DEF Init, FundingInv, Accounts

(* A deploy that a step adds to the mempool is one of the process's two.   *)
LEMMA FundingAdds ==
    ASSUME TypeOK, FundingInv,
           NEW S, S \subseteq {bootstrapTx, floodTx}
    PROVE  /\ \A tx \in deploys \cup S : tx.call = "flood" => tx.nonce > 0
           /\ restarts = 0 => \A tx \in deploys \cup S : tx.gen = 0
  BY DEF TypeOK, FundingInv, bootstrapTx, floodTx

(* The broadcast of the bootstrap: the node takes it, refuses its nonce,   *)
(* and then what refuses it funds the flooders, or answers with another    *)
(* error.                                                                  *)
LEMMA FundingBroadcast ==
    TypeOK /\ FundingInv /\ BroadcastBootstrap => FundingInv'
<1> SUFFICES ASSUME TypeOK, FundingInv, BroadcastBootstrap PROVE FundingInv'
  OBVIOUS
<1>1. /\ UNCHANGED <<conf, funded, nonce, hasSentToFlooders, lostDeploy, restarts>>
      /\ pc' = "check"
  BY DEF BroadcastBootstrap, chain
<1>2. PICK S : S \subseteq {bootstrapTx} /\ deploys' = deploys \cup S
  <2>1. deploys' = deploys \cup {bootstrapTx} \/ deploys' = deploys \cup {}
    BY DEF BroadcastBootstrap
  <2>2. {} \subseteq {bootstrapTx}
    OBVIOUS
  <2> QED BY <2>1, <2>2
<1>3. /\ \A tx \in deploys' : tx.call = "flood" => tx.nonce > 0
      /\ restarts = 0 => \A tx \in deploys' : tx.gen = 0
  BY <1>2, FundingAdds
<1>4. pc = "bootstrap" /\ conf[Bootstrapper] \in Nat /\ nonce \in Nat
  BY DEF BroadcastBootstrap, TypeOK, Accounts
<1>5. ASSUME restarts = 0, ~denied'
      PROVE  funded \/ \E tx \in deploys' : tx.call = "bootstrap"
  <2>0. deploys' = IF AdmitsDeploy(bootstrapTx) THEN deploys \cup {bootstrapTx}
                   ELSE deploys
    BY <1>5 DEF BroadcastBootstrap
  <2>1. nonce <= conf[Bootstrapper] /\ (conf[Bootstrapper] > 0 => funded)
    BY <1>4, <1>5 DEF FundingInv
  <2>2. CASE AdmitsDeploy(bootstrapTx)
    BY <2>0, <2>2 DEF bootstrapTx
  <2>3. CASE nonce < conf[Bootstrapper]
    BY <2>1, <2>3, <1>4
  <2>4. ASSUME NEW d \in deploys, d.nonce = nonce
        PROVE  funded \/ \E tx \in deploys' : tx.call = "bootstrap"
    <3>1. CASE nonce > 0
      BY <3>1, <2>1, <1>4
    <3>2. CASE nonce = 0
      <4>1. d.call = "bootstrap"
        BY <3>2, <2>4 DEF FundingInv, TypeOK, Deploys
      <4> QED BY <4>1, <1>2
    <3> QED BY <3>1, <3>2, <1>4
  <2> QED BY <2>2, <2>3, <2>4, <1>4 DEF AdmitsDeploy, bootstrapTx
<1> QED BY <1>1, <1>3, <1>4, <1>5 DEF FundingInv

LEMMA FundingStep == TypeOK /\ FundingInv /\ [Next]_vars => FundingInv'
<1> SUFFICES ASSUME TypeOK, FundingInv, [Next]_vars PROVE FundingInv'
  OBVIOUS
<1> USE DEF mempool, chain, process, counters
<1>0. conf[Bootstrapper] \in Nat
  BY DEF TypeOK, Accounts
<1>1. CASE Bystander
  BY <1>1, BystanderKeeps DEF FundingInv
<1>2. CASE waitForNakamoto
  BY <1>2 DEF waitForNakamoto, FundingInv
<1>3. CASE ReadBootstrapNonce
  BY <1>3, <1>0 DEF ReadBootstrapNonce, FundingInv
<1>4. CASE BroadcastBootstrap
  BY <1>4, FundingBroadcast
<1>5. CASE isContractDeployed
  BY <1>5 DEF isContractDeployed, FundingInv
<1>6. CASE BroadcastFlood
  <2>1. PICK S : S \subseteq {floodTx} /\ deploys' = deploys \cup S
    <3>1. {} \subseteq {floodTx} /\ deploys = deploys \cup {}
      OBVIOUS
    <3> QED BY <3>1, <1>6 DEF BroadcastFlood
  <2>2. /\ \A tx \in deploys' : tx.call = "flood" => tx.nonce > 0
        /\ restarts = 0 => \A tx \in deploys' : tx.gen = 0
    BY <2>1, FundingAdds
  <2> QED BY <2>1, <2>2, <1>6 DEF BroadcastFlood, FundingInv
<1>7. CASE BootstrapFails
  <2>1. PICK S : S \subseteq {bootstrapTx, floodTx} /\ deploys' = deploys \cup S
    <3>1. {} \subseteq {bootstrapTx, floodTx} /\ deploys = deploys \cup {}
      OBVIOUS
    <3> QED BY <3>1, <1>7 DEF BootstrapFails
  <2>2. /\ \A tx \in deploys' : tx.call = "flood" => tx.nonce > 0
        /\ restarts = 0 => \A tx \in deploys' : tx.gen = 0
    BY <2>1, FundingAdds
  <2> QED BY <2>1, <2>2, <1>7 DEF BootstrapFails, AfterFailure, FundingInv
<1>8. CASE Restart
  BY <1>8 DEF Restart, FundingInv, TypeOK
<1>9. CASE MineDeploy
  <2>1. PICK tx \in deploys :
          /\ tx.nonce = conf[Bootstrapper]
          /\ deploys' = deploys \ {tx}
          /\ IF tx.call = "flood" /\ deployed
             THEN UNCHANGED <<conf, deployed, funded, fundings>>
             ELSE /\ conf' = [conf EXCEPT ![Bootstrapper] = @ + 1]
                  /\ deployed' = (deployed \/ tx.call = "flood")
                  /\ funded' = (funded \/ (tx.call = "bootstrap" /\ tx.gen = restarts))
                  /\ fundings' = fundings + (IF tx.call = "bootstrap" THEN 1 ELSE 0)
    BY <1>9 DEF MineDeploy
  <2>2. tx.call \in {"bootstrap", "flood"} /\ tx.nonce \in Nat
    BY DEF TypeOK, Deploys
  <2>3. UNCHANGED <<pc, nonce, hasSentToFlooders, lostDeploy, restarts>>
    BY <1>9 DEF MineDeploy
  <2>4. CASE tx.call = "flood" /\ deployed
    <3>1. UNCHANGED <<conf, funded>>
      BY <2>1, <2>4
    <3> QED BY <2>1, <2>3, <2>4, <3>1 DEF FundingInv
  <2>5. CASE ~(tx.call = "flood" /\ deployed)
    <3>1. conf'[Bootstrapper] = conf[Bootstrapper] + 1
      BY <2>1, <2>5 DEF TypeOK, Accounts
    <3>2. funded => funded'
      BY <2>1, <2>5
    <3>3. tx.call = "bootstrap" /\ restarts = 0 => funded'
      BY <2>1, <2>5 DEF FundingInv
    <3>4. restarts = 0 => funded'
      <4>1. tx.call = "flood" => conf[Bootstrapper] > 0
        BY <2>1 DEF FundingInv
      <4> QED BY <4>1, <3>2, <3>3, <2>2 DEF FundingInv
    <3> QED BY <2>1, <2>3, <3>1, <3>4, <1>0 DEF FundingInv, TypeOK
  <2> QED BY <2>4, <2>5
<1>10. CASE LoseDeploy
  BY <1>10 DEF LoseDeploy, FundingInv
<1> QED
  BY <1>1, <1>2, <1>3, <1>4, <1>5, <1>6, <1>7, <1>8, <1>9, <1>10, BootstrapCases

(* Nobody looks at the result of the bootstrap (flood.ts:84).  Until the   *)
(* process is restarted that matters only when the node answers it with an *)
(* error other than the nonce's: whatever throws, overlaps or is left of   *)
(* earlier runs, the flooding starts with accounts that have their STX or  *)
(* get it from a pending deploy, unless that answer ended the bootstrap of *)
(* the very run that starts it.                                            *)
THEOREM FundingComesHolds == Spec => []FundingComes
<1>1. FundingInv => FundingComes
  BY DEF FundingInv, FundingComes
<1> QED BY <1>1, FundingInit, FundingStep, TypeCorrect, PTL DEF Spec

-----------------------------------------------------------------------------
(* How often the flooders are paid.  A bootstrap is sent with a nonce that *)
(* is confirmed, and the contract with the next one, so the bootstrapper   *)
(* never has more than two deploys in the mempool: one at its confirmed    *)
(* nonce, which alone can be a bootstrap, and the contract above it.       *)
Here == conf[Bootstrapper]
Taken(n) == \E d \in deploys : d.nonce = n
Bootstrapping == \E d \in deploys : d.call = "bootstrap"

DeploysInv ==
    /\ \A d \in deploys : d.nonce = Here \/ (d.call = "flood" /\ d.nonce = Here + 1)
    /\ \A c, d \in deploys : c.nonce = d.nonce => c = d
    /\ pc \in {"bootstrap", "check", "deploy"} => nonce <= Here
    /\ pc \in {"starting", "bootstrap", "check", "deploy"} => ~hasSentToFlooders
    /\ pc = "flooding" => hasSentToFlooders

LEMMA HereNat == TypeOK => Here \in Nat
  BY DEF TypeOK, Here, Accounts

LEMMA DeployFields ==
    ASSUME TypeOK, NEW d \in deploys
    PROVE  d.call \in {"bootstrap", "flood"} /\ d.nonce \in Nat
  BY DEF TypeOK, Deploys

(* The node mines the deploy at the confirmed nonce; a second "flood" goes *)
(* without moving it.                                                      *)
LEMMA Mined ==
    ASSUME TypeOK, MineDeploy
    PROVE  \E tx \in deploys :
             /\ tx.nonce = Here /\ deploys' = deploys \ {tx}
             /\ UNCHANGED <<pc, nonce, hasSentToFlooders, faults, restarts>>
             /\ \/ /\ tx.call = "flood" /\ deployed
                   /\ Here' = Here /\ deployed' /\ fundings' = fundings
                \/ /\ tx.call = "flood" /\ ~deployed
                   /\ Here' = Here + 1 /\ deployed' /\ fundings' = fundings
                \/ /\ tx.call = "bootstrap"
                   /\ Here' = Here + 1 /\ deployed' = deployed /\ fundings' = fundings + 1
<1>1. PICK tx \in deploys :
        /\ tx.nonce = Here
        /\ deploys' = deploys \ {tx}
        /\ IF tx.call = "flood" /\ deployed
           THEN UNCHANGED <<conf, deployed, funded, fundings>>
           ELSE /\ conf' = [conf EXCEPT ![Bootstrapper] = @ + 1]
                /\ deployed' = (deployed \/ tx.call = "flood")
                /\ fundings' = fundings + (IF tx.call = "bootstrap" THEN 1 ELSE 0)
  BY DEF MineDeploy, Here
<1>2. UNCHANGED <<pc, nonce, hasSentToFlooders, faults, restarts>>
  BY DEF MineDeploy, process, counters
<1>3. /\ tx.call \in {"bootstrap", "flood"} /\ fundings \in Nat
      /\ deployed \in BOOLEAN
  BY DeployFields DEF TypeOK
<1>4. conf' = [conf EXCEPT ![Bootstrapper] = @ + 1] => Here' = Here + 1
  BY DEF Here, TypeOK, Accounts
<1>5. CASE tx.call = "flood" /\ deployed
  BY <1>1, <1>2, <1>5 DEF Here
<1>6. CASE tx.call = "flood" /\ ~deployed
  <2>1. fundings' = fundings
    BY <1>1, <1>3, <1>6
  <2>2. deployed'
    BY <1>1, <1>6, Zenon
  <2> QED BY <1>1, <1>2, <1>4, <1>6, <2>1, <2>2
<1>7. CASE tx.call = "bootstrap"
  <2>1. fundings' = fundings + 1 /\ conf' = [conf EXCEPT ![Bootstrapper] = @ + 1]
    BY <1>1, <1>7
  <2>2. deployed' = deployed
    <3>1. deployed' = (deployed \/ FALSE)
      BY <1>1, <1>7
    <3> QED BY <3>1, <1>3
  <2> QED BY <1>1, <1>2, <1>4, <1>7, <2>1, <2>2
<1> QED BY <1>3, <1>5, <1>6, <1>7

LEMMA DeploysStep == TypeOK /\ DeploysInv /\ [Next]_vars => DeploysInv'
<1> SUFFICES ASSUME TypeOK, DeploysInv, [Next]_vars PROVE DeploysInv'
  OBVIOUS
<1> USE DEF mempool, chain, process, counters
<1>0. Here \in Nat /\ nonce \in Nat
  BY HereNat DEF TypeOK
<1>1. CASE Bystander
  BY <1>1, BystanderKeeps, BystanderPc DEF DeploysInv, Here
<1>2. CASE waitForNakamoto \/ ReadBootstrapNonce
  BY <1>0, <1>2 DEF waitForNakamoto, ReadBootstrapNonce, DeploysInv, Here
<1>3. CASE BroadcastBootstrap
  BY <1>0, <1>3 DEF BroadcastBootstrap, AdmitsDeploy, bootstrapTx, DeploysInv, Here
<1>4. CASE isContractDeployed
  BY <1>4 DEF isContractDeployed, DeploysInv, Here
<1>5. CASE BroadcastFlood
  BY <1>0, <1>5 DEF BroadcastFlood, AdmitsDeploy, floodTx, DeploysInv, Here
<1>6. CASE BootstrapFails
  BY <1>0, <1>6 DEF BootstrapFails, AfterFailure, AdmitsDeploy, bootstrapTx, floodTx,
                    DeploysInv, Here
<1>7. CASE Restart
  BY <1>7 DEF Restart, TypeOK, Accounts, DeploysInv, Here
<1>8. CASE MineDeploy
  BY <1>0, <1>8, Mined DEF DeploysInv
<1>9. CASE LoseDeploy
  BY <1>9 DEF LoseDeploy, DeploysInv, Here
<1> QED
  BY <1>1, <1>2, <1>3, <1>4, <1>5, <1>6, <1>7, <1>8, <1>9, BootstrapCases

(* The bootstraps that are mined, the one that is pending, and the one     *)
(* that can still be put below a contract with nothing below it: once the  *)
(* contract is mined nobody needs that one any more.                       *)
Claimed ==
    fundings + (IF Bootstrapping THEN 1 ELSE 0)
             + (IF ~deployed /\ ~Bootstrapping /\ Taken(Here + 1) THEN 1 ELSE 0)

(* What the loop is about to do claims nothing more: it floods, or is going *)
(* to see the contract, or its contract will be taken and belongs to a     *)
(* bootstrap that is claimed.                                              *)
NextFree == nonce + 1 >= Here /\ ~Taken(nonce + 1)

Settled ==
    \/ hasSentToFlooders
    \/ pc = "check" /\ deployed
    \/ /\ pc \in {"check", "deploy"} /\ ~deployed
       /\ NextFree /\ (Bootstrapping \/ nonce + 1 = Here)

(* Every start of the loop has one bootstrap to spend; a start more needs  *)
(* a failed request or a restart.                                          *)
BoundInv ==
    Claimed + (IF Settled THEN 0 ELSE 1) <= 1 + faults + restarts

LEMMA BoundInvImplies == TypeOK /\ BoundInv => FundingBounded
  BY DEF TypeOK, BoundInv, Claimed, FundingBounded

LEMMA BoundInit == Init => DeploysInv /\ BoundInv
<1> SUFFICES ASSUME Init PROVE DeploysInv /\ BoundInv
  OBVIOUS
<1>1. Here = 0 /\ deploys = {} /\ pc = "starting" /\ ~hasSentToFlooders
  BY DEF Init, Here, Accounts
<1>2. fundings = 0 /\ faults = 0 /\ restarts = 0
  BY DEF Init
<1> QED BY <1>1, <1>2 DEF DeploysInv, BoundInv, Claimed, Settled, Bootstrapping, Taken

(* A deploy that is refused changes nothing, one that is taken is added.   *)
LEMMA BootstrapTaken ==
    ASSUME TypeOK, DeploysInv, pc = "bootstrap",
           deploys' = IF AdmitsDeploy(bootstrapTx) THEN deploys \cup {bootstrapTx} ELSE deploys,
           UNCHANGED <<conf, deployed, fundings>>
    PROVE  \/ deploys' = deploys
           \/ /\ nonce = Here /\ ~Bootstrapping /\ Bootstrapping'
              /\ \A n : n # Here => (Taken(n)' <=> Taken(n))
<1>0. Here \in Nat /\ nonce \in Nat /\ nonce <= Here
  BY HereNat DEF TypeOK, DeploysInv
<1>1. CASE AdmitsDeploy(bootstrapTx)
  <2>1. nonce = Here /\ ~Taken(nonce)
    BY <1>0, <1>1 DEF AdmitsDeploy, bootstrapTx, Here, Taken
  <2>2. ~Bootstrapping
    BY <2>1 DEF Bootstrapping, Taken, DeploysInv
  <2>3. deploys' = deploys \cup {bootstrapTx}
    BY <1>1
  <2>4. Bootstrapping' /\ \A n : n # Here => (Taken(n)' <=> Taken(n))
    BY <2>1, <2>3 DEF Bootstrapping, Taken, bootstrapTx
  <2> QED BY <2>1, <2>2, <2>4
<1> QED BY <1>1

LEMMA FloodAdmitted ==
    ASSUME TypeOK
    PROVE  AdmitsDeploy(floodTx) <=> NextFree /\ ~deployed
  BY DEF AdmitsDeploy, floodTx, NextFree, Taken, Here

(* A contract that is taken claims a bootstrap only if its own is gone.    *)
LEMMA BoundFlood ==
    ASSUME TypeOK, DeploysInv, pc = "deploy", AdmitsDeploy(floodTx),
           deploys' = deploys \cup {floodTx},
           UNCHANGED <<conf, deployed, fundings>>
    PROVE  Claimed' <= Claimed + (IF Settled THEN 0 ELSE 1)
<1>0. /\ Here \in Nat /\ nonce \in Nat /\ fundings \in Nat
      /\ nonce <= Here /\ Here' = Here
  BY HereNat DEF TypeOK, DeploysInv, Here
<1>1. /\ Bootstrapping' <=> Bootstrapping
      /\ \A n : Taken(n)' <=> Taken(n) \/ n = nonce + 1
  BY DEF Bootstrapping, Taken, floodTx
<1>2. NextFree /\ ~deployed
  BY FloodAdmitted
<1>3. Taken(Here + 1)' <=> Taken(Here + 1) \/ nonce = Here
  BY <1>0, <1>1 DEF Taken
<1>4. Settled <=> Bootstrapping \/ nonce + 1 = Here
  BY <1>2 DEF Settled, DeploysInv
<1>5. nonce = Here \/ nonce + 1 = Here
  BY <1>0, <1>2 DEF NextFree
<1> QED BY <1>0, <1>1, <1>2, <1>3, <1>4, <1>5 DEF Claimed

(* The steps of the loop, all of which leave the chain and the counters of *)
(* the bound alone unless a request fails.                                 *)
LEMMA BoundLoop ==
    ASSUME TypeOK, DeploysInv, BoundInv,
           \/ waitForNakamoto \/ ReadBootstrapNonce \/ BroadcastBootstrap
           \/ isContractDeployed \/ BroadcastFlood \/ BootstrapFails
    PROVE  BoundInv'
<1> USE DEF mempool, chain, process, counters
<1>0. /\ Here \in Nat /\ nonce \in Nat /\ fundings \in Nat
      /\ faults \in Nat /\ restarts \in Nat
  BY HereNat DEF TypeOK
<1>1. /\ UNCHANGED <<conf, deployed, fundings, restarts>> /\ Here' = Here
      /\ faults' = faults \/ faults' = faults + 1
  BY DEF waitForNakamoto, ReadBootstrapNonce, BroadcastBootstrap, isContractDeployed,
         BroadcastFlood, BootstrapFails, Here
<1>2. ASSUME deploys' = deploys
      PROVE  /\ Claimed' = Claimed
             /\ \A n : Taken(n)' <=> Taken(n)
             /\ Bootstrapping' <=> Bootstrapping
  BY <1>1, <1>2 DEF Claimed, Bootstrapping, Taken
<1>3. CASE waitForNakamoto \/ ReadBootstrapNonce
  <2>1. deploys' = deploys /\ UNCHANGED <<faults, hasSentToFlooders>>
    BY <1>3 DEF waitForNakamoto, ReadBootstrapNonce
  <2>2. Settled => hasSentToFlooders
    BY <1>3 DEF waitForNakamoto, ReadBootstrapNonce, Settled
  <2>3. hasSentToFlooders => Settled'
    BY <2>1 DEF Settled
  <2> QED BY <1>0, <1>1, <1>2, <2>1, <2>2, <2>3 DEF BoundInv, Claimed
<1>4. CASE BroadcastBootstrap
  <2>1. /\ pc = "bootstrap" /\ pc' = "check" /\ UNCHANGED <<nonce, hasSentToFlooders>>
        /\ faults' = faults \/ (faults' = faults + 1 /\ deploys' = deploys)
        /\ \/ deploys' = IF AdmitsDeploy(bootstrapTx) THEN deploys \cup {bootstrapTx}
                        ELSE deploys
           \/ deploys' = deploys
    BY <1>4 DEF BroadcastBootstrap
  <2>2. ~hasSentToFlooders /\ ~Settled
    BY <2>1 DEF DeploysInv, Settled
  <2>3. CASE deploys' = deploys
    BY <1>0, <1>1, <1>2, <2>1, <2>2, <2>3 DEF BoundInv, Claimed
  <2>4. CASE /\ faults' = faults
             /\ nonce = Here /\ ~Bootstrapping /\ Bootstrapping'
             /\ \A n : n # Here => (Taken(n)' <=> Taken(n))
    <3>1. Taken(Here + 1)' <=> Taken(Here + 1)
      BY <1>0, <1>1, <2>4 DEF Taken
    <3>2. CASE ~deployed /\ Taken(Here + 1)
      BY <1>0, <1>1, <2>1, <2>2, <2>4, <3>2 DEF BoundInv, Claimed
    <3>3. CASE deployed
      <4>1. Settled'
        BY <1>1, <2>1, <3>3 DEF Settled
      <4> QED BY <1>0, <1>1, <2>1, <2>2, <2>4, <3>3, <4>1 DEF BoundInv, Claimed
    <3>4. CASE ~deployed /\ ~Taken(Here + 1)
      <4>1. ~Taken(nonce + 1)'
        BY <1>1, <2>1, <2>4, <3>1, <3>4 DEF Taken
      <4>2. NextFree'
        BY <1>0, <1>1, <2>1, <2>4, <4>1 DEF NextFree
      <4>3. Settled'
        BY <1>1, <2>1, <2>4, <3>4, <4>2 DEF Settled
      <4> QED BY <1>0, <1>1, <2>1, <2>2, <2>4, <3>1, <3>4, <4>3 DEF BoundInv, Claimed
    <3> QED BY <3>2, <3>3, <3>4
  <2> QED BY <2>1, <2>3, <2>4, <1>1, BootstrapTaken
<1>5. CASE isContractDeployed
  <2>1. deploys' = deploys /\ pc = "check" /\ ~hasSentToFlooders
    BY <1>5 DEF isContractDeployed, DeploysInv
  <2>2. \/ deployed /\ hasSentToFlooders' /\ faults' = faults
        \/ ~deployed /\ pc' = "deploy" /\ nonce' = nonce
        \/ deployed /\ faults' = faults + 1
    BY <1>5 DEF isContractDeployed, AnswerOnError, TypeOK
  <2>3. CASE deployed
    <3>1. Settled
      BY <2>1, <2>3 DEF Settled
    <3>2. Settled' \/ faults' = faults + 1
      BY <2>2, <2>3 DEF Settled
    <3> QED BY <1>0, <1>1, <1>2, <2>1, <3>1, <3>2 DEF BoundInv, Claimed
  <2>4. CASE ~deployed
    <3>1. Settled => Settled'
      BY <1>1, <1>2, <2>1, <2>2, <2>4 DEF Settled, NextFree, Taken
    <3> QED BY <1>0, <1>1, <1>2, <2>1, <3>1 DEF BoundInv, Claimed
  <2> QED BY <2>3, <2>4
<1>6. CASE BroadcastFlood
  <2>1. /\ pc = "deploy" /\ faults' = faults
        /\ hasSentToFlooders' = AllWorked
        /\ deploys' = IF AdmitsDeploy(floodTx) THEN deploys \cup {floodTx} ELSE deploys
    BY <1>6 DEF BroadcastFlood
  <2>2. AllWorked => Settled'
    BY <2>1, Zenon DEF Settled
  <2>3. CASE ~AdmitsDeploy(floodTx)
    <3>1. deploys' = deploys /\ ~Settled
      BY <2>1, <2>3, FloodAdmitted DEF Settled, DeploysInv
    <3> QED BY <1>0, <1>1, <1>2, <2>1, <3>1 DEF BoundInv, Claimed
  <2>4. CASE AdmitsDeploy(floodTx)
    <3>1. Claimed' <= Claimed + (IF Settled THEN 0 ELSE 1)
      BY <1>1, <2>1, <2>4, BoundFlood
    <3>2. Settled'
      BY <2>2, <2>4 DEF AllWorked
    <3> QED BY <1>0, <1>1, <2>1, <3>1, <3>2 DEF BoundInv, Claimed
  <2> QED BY <2>3, <2>4
<1>7. CASE BootstrapFails
  <2>1. faults' = faults + 1
    BY <1>7 DEF BootstrapFails
  <2>2. \/ deploys' = deploys
        \/ /\ pc = "bootstrap" /\ AdmitsDeploy(bootstrapTx)
           /\ deploys' = deploys \cup {bootstrapTx}
        \/ /\ pc = "deploy" /\ AdmitsDeploy(floodTx)
           /\ deploys' = deploys \cup {floodTx}
    BY <1>7 DEF BootstrapFails
  <2>3. Claimed' <= Claimed + (IF Settled THEN 0 ELSE 1)
    <3>1. CASE deploys' = deploys
      BY <1>0, <1>2, <3>1 DEF Claimed
    <3>2. CASE /\ pc = "deploy" /\ AdmitsDeploy(floodTx)
               /\ deploys' = deploys \cup {floodTx}
      BY <1>1, <3>2, BoundFlood
    <3>3. CASE /\ pc = "bootstrap" /\ AdmitsDeploy(bootstrapTx)
               /\ deploys' = deploys \cup {bootstrapTx}
      <4>1. ~Settled
        BY <3>3 DEF DeploysInv, Settled
      <4>2. deploys' = deploys \/ (~Bootstrapping /\ Bootstrapping')
        BY <1>1, <3>3, BootstrapTaken
      <4> QED BY <1>0, <1>1, <1>2, <4>1, <4>2 DEF Claimed
    <3> QED BY <2>2, <3>1, <3>2, <3>3
  <2> QED BY <1>0, <1>1, <2>1, <2>3 DEF BoundInv, Claimed
<1> QED BY <1>3, <1>4, <1>5, <1>6, <1>7

(* The node mines the next deploy.                                         *)
LEMMA BoundMines ==
    ASSUME TypeOK, DeploysInv, BoundInv, MineDeploy
    PROVE  BoundInv'
<1>0. /\ Here \in Nat /\ nonce \in Nat /\ fundings \in Nat
      /\ faults \in Nat /\ restarts \in Nat
  BY HereNat DEF TypeOK
<1>1. PICK tx \in deploys :
        /\ tx.nonce = Here /\ deploys' = deploys \ {tx}
        /\ UNCHANGED <<pc, nonce, hasSentToFlooders, faults, restarts>>
        /\ \/ /\ tx.call = "flood" /\ deployed
              /\ Here' = Here /\ deployed' /\ fundings' = fundings
           \/ /\ tx.call = "flood" /\ ~deployed
              /\ Here' = Here + 1 /\ deployed' /\ fundings' = fundings
           \/ /\ tx.call = "bootstrap"
              /\ Here' = Here + 1 /\ deployed' = deployed /\ fundings' = fundings + 1
  BY Mined
<1>2. \A n : n # Here => (Taken(n)' <=> Taken(n))
  BY <1>1 DEF Taken
<1>3. ~Taken(Here + 2)
  BY <1>0, <1>1, DeployFields DEF Taken, DeploysInv
<1>4. CASE tx.call = "bootstrap"
  <2>1. Bootstrapping /\ ~Bootstrapping'
    BY <1>1, <1>4, DeployFields DEF Bootstrapping, DeploysInv
  <2>2. ~Taken(Here + 1)'
    BY <1>0, <1>1, <1>2, <1>3, <1>4 DEF Taken
  <2>3. Claimed' = Claimed
    BY <1>0, <1>1, <1>4, <2>1, <2>2 DEF Claimed
  <2>4. Settled => Settled'
    <3>1. CASE hasSentToFlooders \/ (pc = "check" /\ deployed)
      BY <1>1, <1>4, <3>1 DEF Settled
    <3>2. CASE /\ pc \in {"check", "deploy"} /\ ~deployed
               /\ NextFree /\ (Bootstrapping \/ nonce + 1 = Here)
      <4>1. nonce <= Here /\ nonce + 1 >= Here /\ ~Taken(nonce + 1)
        BY <3>2 DEF NextFree, DeploysInv
      <4>2. Taken(Here)
        BY <1>1 DEF Taken
      <4>3. nonce = Here
        <5>1. nonce = Here \/ nonce + 1 = Here
          BY <1>0, <4>1
        <5> QED BY <4>1, <4>2, <5>1 DEF Taken
      <4>4. nonce' + 1 = Here'
        BY <1>0, <1>1, <1>4, <4>3
      <4>5. ~Taken(nonce + 1)'
        BY <1>0, <1>1, <1>2, <4>1, <4>3 DEF Taken
      <4>6. NextFree'
        BY <1>0, <1>1, <4>4, <4>5 DEF NextFree
      <4> QED BY <1>1, <1>4, <3>2, <4>4, <4>6 DEF Settled
    <3> QED BY <3>1, <3>2 DEF Settled
  <2> QED BY <1>0, <1>1, <2>3, <2>4 DEF BoundInv, Claimed
<1>5. CASE tx.call = "flood"
  <2>1. ~Bootstrapping /\ ~Bootstrapping'
    BY <1>1, <1>5, DeployFields DEF Bootstrapping, DeploysInv
  <2>2. deployed' /\ Claimed' = fundings
    BY <1>0, <1>1, <1>5, <2>1 DEF Claimed
  <2>3. Claimed >= fundings
    BY <1>0 DEF Claimed
  <2>4. Settled => Settled'
    <3>1. CASE hasSentToFlooders \/ pc = "check"
      BY <1>1, <2>2, <3>1 DEF Settled
    <3>2. CASE ~hasSentToFlooders /\ pc # "check"
      <4>1. Settled => NextFree /\ nonce + 1 = Here
        BY <2>1, <3>2 DEF Settled
      <4>2. Taken(Here)
        BY <1>1 DEF Taken
      <4> QED BY <4>1, <4>2 DEF NextFree, Taken
    <3> QED BY <3>1, <3>2
  <2> QED BY <1>0, <1>1, <2>2, <2>3, <2>4 DEF BoundInv, Claimed
<1> QED BY <1>1, <1>4, <1>5

(* The mempool drops a deploy: what a bootstrap claimed passes to the      *)
(* contract above it, if there is one.                                     *)
LEMMA BoundLoses ==
    ASSUME TypeOK, DeploysInv, BoundInv, LoseDeploy
    PROVE  BoundInv'
<1>0. /\ Here \in Nat /\ nonce \in Nat /\ fundings \in Nat
      /\ faults \in Nat /\ restarts \in Nat
  BY HereNat DEF TypeOK
<1>1. PICK tx \in deploys : deploys' = deploys \ {tx}
  BY DEF LoseDeploy
<1>2. /\ UNCHANGED <<conf, deployed, fundings, pc, nonce, hasSentToFlooders, faults, restarts>>
      /\ Here' = Here
  BY DEF LoseDeploy, chain, process, Here
<1>3. /\ Bootstrapping' => Bootstrapping
      /\ \A n : Taken(n)' => Taken(n)
  BY <1>1 DEF Bootstrapping, Taken
<1>4. Claimed' <= Claimed
  <2>1. Taken(Here + 1)' => Taken(Here + 1)
    BY <1>2, <1>3 DEF Taken
  <2> QED BY <1>0, <1>2, <1>3, <2>1 DEF Claimed
<1>5. CASE Settled => Settled'
  BY <1>0, <1>2, <1>4, <1>5 DEF BoundInv, Claimed
<1>6. CASE Settled /\ ~Settled'
  <2>1. ~hasSentToFlooders /\ ~deployed /\ pc \in {"check", "deploy"} /\ NextFree
    BY <1>2, <1>6 DEF Settled
  <2>2. NextFree'
    <3>1. ~Taken(nonce + 1)'
      BY <1>2, <1>3, <2>1 DEF NextFree, Taken
    <3> QED BY <1>2, <2>1, <3>1 DEF NextFree
  <2>3. Bootstrapping /\ ~Bootstrapping' /\ nonce + 1 # Here
    BY <1>2, <1>6, <2>1, <2>2 DEF Settled
  <2>4. nonce = Here /\ ~Taken(Here + 1)
    <3>1. nonce <= Here /\ nonce + 1 >= Here
      BY <2>1 DEF NextFree, DeploysInv
    <3>2. nonce = Here
      BY <1>0, <2>3, <3>1
    <3> QED BY <2>1, <3>2 DEF NextFree, Taken
  <2>5. ~Taken(Here + 1)'
    BY <1>2, <1>3, <2>4 DEF Taken
  <2>6. Claimed = fundings + 1 /\ Claimed' = fundings
    BY <1>0, <1>2, <2>3, <2>4, <2>5 DEF Claimed
  <2> QED BY <1>0, <1>2, <1>6, <2>6 DEF BoundInv
<1> QED BY <1>5, <1>6

LEMMA BoundStep == TypeOK /\ DeploysInv /\ BoundInv /\ [Next]_vars => BoundInv'
<1> SUFFICES ASSUME TypeOK, DeploysInv, BoundInv, [Next]_vars PROVE BoundInv'
  OBVIOUS
<1>0. /\ Here \in Nat /\ nonce \in Nat /\ fundings \in Nat
      /\ faults \in Nat /\ restarts \in Nat
  BY HereNat DEF TypeOK
<1>1. CASE Bystander
  <2>1. /\ UNCHANGED <<deploys, deployed, fundings, nonce, hasSentToFlooders, restarts>>
        /\ Here' = Here /\ faults' \in Nat /\ faults' >= faults
    BY <1>1, BystanderKeeps, BystanderPc DEF Here
  <2>2. Claimed' = Claimed
    BY <2>1 DEF Claimed, Bootstrapping, Taken
  <2>3. Claimed \in Nat
    BY <1>0 DEF Claimed
  <2>4. Settled => Settled'
    <3>1. pc' = pc \/ hasSentToFlooders
      BY <1>1, BystanderPc DEF DeploysInv
    <3> QED BY <2>1, <3>1 DEF Settled, NextFree, Bootstrapping, Taken
  <2>5. PICK n \in Nat : faults' = n /\ faults <= n /\ restarts' = restarts
    BY <2>1, <1>0
  <2>6. PICK y \in {0, 1} : y = IF Settled THEN 0 ELSE 1
    OBVIOUS
  <2>7. PICK x \in {0, 1} : x = (IF Settled THEN 0 ELSE 1)'
    OBVIOUS
  <2>8. x <= y
    BY <2>4, <2>6, <2>7
  <2>9. Claimed + y <= 1 + faults + restarts
    BY <2>6 DEF BoundInv
  <2>10. Claimed + x <= 1 + n + restarts
    BY <1>0, <2>3, <2>5, <2>8, <2>9
  <2> QED BY <2>2, <2>5, <2>7, <2>10 DEF BoundInv
<1>2. CASE \/ waitForNakamoto \/ ReadBootstrapNonce \/ BroadcastBootstrap
           \/ isContractDeployed \/ BroadcastFlood \/ BootstrapFails
  BY <1>2, BoundLoop
<1>3. CASE Restart
  <2>1. /\ UNCHANGED <<deploys, deployed, fundings, faults>> /\ restarts' = restarts + 1
        /\ Here' = Here
    BY <1>3 DEF Restart, Here, TypeOK, Accounts
  <2>2. Claimed' = Claimed
    BY <2>1 DEF Claimed, Bootstrapping, Taken
  <2> QED BY <1>0, <2>1, <2>2 DEF BoundInv, Claimed
<1>4. CASE MineDeploy
  BY <1>4, BoundMines
<1>5. CASE LoseDeploy
  BY <1>5, BoundLoses
<1> QED BY <1>1, <1>2, <1>3, <1>4, <1>5, BootstrapCases

(* The flooders are paid once, and once more at most for every request     *)
(* that fails and for every restart, whatever the mempool drops or still   *)
(* holds of an earlier process (flood.ts:84-105).                          *)
THEOREM FundingBoundHolds == Spec => []FundingBounded
<1>1. TypeOK /\ DeploysInv /\ BoundInv /\ [Next]_vars => DeploysInv' /\ BoundInv'
  BY DeploysStep, BoundStep
<1> QED BY <1>1, BoundInit, BoundInvImplies, TypeCorrect, PTL DEF Spec
=============================================================================
