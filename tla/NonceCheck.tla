----------------------------- MODULE NonceCheck -----------------------------
(***************************************************************************)
(* How one authority sends transactions to one node                        *)
(* (bridge/src/bridge/nonce.rs).  Every transaction is a future of its     *)
(* own; all of them share the nonce kept in Node.info.  A transaction the  *)
(* node refuses because its nonce is taken asks the node for the pending   *)
(* transaction count, writes it to the shared nonce and is sent again.     *)
(*                                                                         *)
(* The process may stop at any moment (a timeout or an error of one future *)
(* stops all of them) and is restarted; requests it had sent are still on  *)
(* their way to the node.  The node's transaction pool is external and is  *)
(* modelled from the answers nonce.rs tells apart.                         *)
(***************************************************************************)
EXTENDS Integers

CONSTANTS
  Tx,           \* the transactions the relays want sent (their payloads)
  Price,        \* gas prices the relays may read when they create one
  Empty,        \* marks a nonce no transaction in the pool or chain has
  MaxNonce,     \* bound on nonces
  MaxRun        \* bound on the number of times the process stops

ASSUME NonceAssumption ==
  /\ Price \subseteq Nat
  /\ MaxNonce \in Nat
  /\ MaxRun \in Nat
  /\ Empty \notin [tx : Tx, price : Price, run : Nat]

VARIABLES
  up,          \* the process is running
  run,         \* how often it has stopped
  nodeNonce,   \* Node.info.nonce, shared by all futures
  state,       \* per transaction, NonceCheckState or "Done"
  nonce,       \* per transaction, the nonce it was last sent with; in
               \* "NonceRequest", the answer to the count request
  price,       \* per transaction, its gas price
  reply,       \* per transaction, the node's answer to its last request
  net,         \* eth_sendRawTransaction requests not yet at the node
  slot,        \* the node: the transaction it holds for each nonce
  mined        \* the node: number of the account's transactions in blocks

futureVars == <<nodeNonce, state, nonce, price, reply>>
poolVars == <<slot, mined>>
vars == <<up, run, futureVars, net, poolVars>>

Nonce == 0..(MaxNonce - 1)
Request == [tx : Tx, price : Price, run : Nat, nonce : Nonce]
Entry == [tx : Tx, price : Price, run : Nat]   \* run is a history field
Filled(k) == slot[k] # Empty

Init ==
  /\ up = TRUE
  /\ run = 0
  /\ nodeNonce = 0
  /\ state = [t \in Tx |-> "Ready"]
  /\ nonce = [t \in Tx |-> 0]
  /\ price \in [Tx -> Price]
  /\ reply = [t \in Tx |-> "None"]
  /\ net = {}
  /\ slot = [k \in Nonce |-> Empty]
  /\ mined = 0

-----------------------------------------------------------------------------
(* The node.                                                               *)

\* eth_getTransactionCount(.., "pending"): the first nonce not taken.
PendingCount(k) ==
  /\ \A j \in 0..(k - 1) : Filled(j)
  /\ k < MaxNonce => ~Filled(k)

\* The pool's verdict on a request.  "NonceUsed" stands for the two -32010
\* errors that end in "incrementing the nonce.": nonce too low, and another
\* transaction with that nonce is at least as expensive.
SameTransaction(r) == /\ Filled(r.nonce)
                      /\ slot[r.nonce].tx = r.tx
                      /\ slot[r.nonce].price = r.price

Replaceable(r) == \/ ~Filled(r.nonce)
                  \/ r.nonce >= mined /\ r.price > slot[r.nonce].price

Verdict(r) == IF SameTransaction(r) THEN "Imported"
              ELSE IF Replaceable(r) THEN "Ok" ELSE "NonceUsed"

\* The request reaches the node, which answers it if its sender still runs.
Import(r) ==
  /\ net' = net \ {r}
  /\ slot' = IF Verdict(r) = "Ok"
               THEN [slot EXCEPT ![r.nonce] =
                       [tx |-> r.tx, price |-> r.price, run |-> r.run]]
               ELSE slot
  /\ reply' = IF up /\ r.run = run
                THEN [reply EXCEPT ![r.tx] = Verdict(r)] ELSE reply
  /\ UNCHANGED <<up, run, nodeNonce, state, nonce, price, mined>>

\* The request is lost; its future will time out.
Lose(r) ==
  /\ run < MaxRun
  /\ net' = net \ {r}
  /\ UNCHANGED <<up, run, futureVars, poolVars>>

MineNext ==
  /\ mined < MaxNonce /\ Filled(mined)
  /\ mined' = mined + 1
  /\ UNCHANGED <<up, run, futureVars, net, slot>>

AnswerCount(t, k) ==
  /\ up /\ state[t] = "NonceRequest" /\ reply[t] = "None"
  /\ PendingCount(k)
  /\ nonce' = [nonce EXCEPT ![t] = k]
  /\ reply' = [reply EXCEPT ![t] = "Count"]
  /\ UNCHANGED <<up, run, nodeNonce, state, price, net, poolVars>>

-----------------------------------------------------------------------------
(* NonceCheck::poll.  One poll runs until a future is not ready, so taking *)
(* a nonce, signing and sending are one step.                              *)

\* NonceCheckState::Nonce: sign with nonce n and send.
Send(t, n) ==
  /\ n \in Nonce
  /\ state' = [state EXCEPT ![t] = "TransactionRequest"]
  /\ nonce' = [nonce EXCEPT ![t] = n]
  /\ reply' = [reply EXCEPT ![t] = "None"]
  /\ net' = net \cup {[tx |-> t, price |-> price[t], run |-> run, nonce |-> n]}

\* MUTANT: a request that is not answered in time is repeated.
StartsAgain(t) == state[t] \in {"Ready", "TransactionRequest"} /\ reply[t] = "None"

Starts(t) == state[t] = "Ready"

\* MUTANT: the shared nonce is advanced twice.
NextNonceSkips == nodeNonce + 2

NextNonce == nodeNonce + 1

\* Ready: take the shared nonce and advance it.
PollReady(t) ==
  /\ up /\ Starts(t)
  /\ Send(t, nodeNonce)
  /\ nodeNonce' = NextNonce
  /\ UNCHANGED <<up, run, price, poolVars>>

\* NonceRequest: the count becomes the shared nonce (not the one after it).
PollNonceRequest(t) ==
  /\ up /\ state[t] = "NonceRequest" /\ reply[t] = "Count"
  /\ Send(t, nonce[t])
  /\ nodeNonce' = nonce[t]
  /\ UNCHANGED <<up, run, price, poolVars>>

\* MUTANT: any answer counts as success.
AcceptedAny == {"Ok", "Imported", "NonceUsed"}

Accepted == {"Ok", "Imported"}

\* TransactionRequest answered with a hash or "already imported".
PollAccepted(t) ==
  /\ up /\ state[t] = "TransactionRequest" /\ reply[t] \in Accepted
  /\ state' = [state EXCEPT ![t] = "Done"]
  /\ UNCHANGED <<up, run, nodeNonce, nonce, price, reply, net, poolVars>>

\* TransactionRequest answered "incrementing the nonce.": Reacquire.
PollNonceUsed(t) ==
  /\ up /\ state[t] = "TransactionRequest" /\ reply[t] = "NonceUsed"
  /\ state' = [state EXCEPT ![t] = "NonceRequest"]
  /\ reply' = [reply EXCEPT ![t] = "None"]
  /\ UNCHANGED <<up, run, nodeNonce, nonce, price, net, poolVars>>

-----------------------------------------------------------------------------
(* The process.                                                            *)

\* A timeout, any other error, or a crash ends the process.
Stop ==
  /\ up /\ run < MaxRun
  /\ up' = FALSE
  /\ run' = run + 1
  /\ UNCHANGED <<futureVars, net, poolVars>>

\* The next process starts from the pending count and sends again whatever
\* its checkpoints do not show as relayed, at the gas prices of the moment.
Restart ==
  /\ ~up
  /\ up' = TRUE
  /\ \E k \in 0..MaxNonce : PendingCount(k) /\ nodeNonce' = k
  /\ \E kept \in SUBSET {t \in Tx : state[t] = "Done"} :
        state' = [t \in Tx |-> IF t \in kept THEN "Done" ELSE "Ready"]
  /\ price' \in [Tx -> Price]
  /\ reply' = [t \in Tx |-> "None"]
  /\ UNCHANGED <<run, nonce, net, poolVars>>

-----------------------------------------------------------------------------
Poll(t) == \/ PollReady(t) \/ PollNonceRequest(t)
           \/ PollAccepted(t) \/ PollNonceUsed(t)

Next ==
  \/ \E r \in net : Import(r) \/ Lose(r)
  \/ MineNext
  \/ \E t \in Tx : Poll(t)
  \/ \E t \in Tx, k \in 0..MaxNonce : AnswerCount(t, k)
  \/ Stop
  \/ Restart

Spec == Init /\ [][Next]_vars

\* A future waiting for an answer to a lost request.
Hangs(t) == /\ up /\ state[t] = "TransactionRequest" /\ reply[t] = "None"
            /\ \A r \in net : ~(r.tx = t /\ r.run = run)

\* The event loop polls every future it wakes, request timeouts fire, the
\* restart script restarts the process, nodes answer and mine.
Fairness ==
  /\ WF_vars(\E r \in net : Import(r))
  /\ WF_vars(MineNext)
  /\ \A t \in Tx : WF_vars(Poll(t)) /\ WF_vars(Hangs(t) /\ Stop)
  /\ \A t \in Tx : WF_vars(\E k \in 0..MaxNonce : AnswerCount(t, k))
  /\ WF_vars(Restart)

FairSpec == Spec /\ Fairness

-----------------------------------------------------------------------------
(* Properties.                                                             *)

\* The types; in particular neither the shared nonce nor a count runs past the
\* nonces the bounded run can use.
TypeOK ==
  /\ up \in BOOLEAN
  /\ run \in Nat
  /\ nodeNonce \in 0..MaxNonce
  /\ state \in [Tx -> {"Ready", "NonceRequest", "TransactionRequest", "Done"}]
  /\ nonce \in [Tx -> 0..MaxNonce]
  /\ price \in [Tx -> Price]
  /\ reply \in [Tx -> {"None", "Ok", "Imported", "NonceUsed", "Count"}]
  /\ net \subseteq Request
  /\ slot \in [Nonce -> Entry \cup {Empty}]
  /\ mined \in 0..MaxNonce

\* nonce.rs, Ready and NonceRequest: however the futures interleave, whatever
\* is lost and whenever the process stops, every nonce below the shared one is
\* taken at the node or belongs to a transaction still being sent.  So the
\* next transaction never queues behind a nonce nobody will fill.
NoGap ==
  up => \A k \in 0..(nodeNonce - 1) :
          \/ Filled(k)
          \/ \E t \in Tx : /\ state[t] = "TransactionRequest"
                           /\ nonce[t] = k /\ reply[t] = "None"

\* nonce.rs, Reacquire: sending a transaction again under a new nonce never
\* leaves it at the node twice; only a restart can do that.
SentOncePerRun ==
  \A k1, k2 \in Nonce :
    /\ Filled(k1) /\ Filled(k2)
    /\ slot[k1].tx = slot[k2].tx /\ slot[k1].run = slot[k2].run
    => k1 = k2

\* nonce.rs, TransactionRequest: a transaction reported as sent is at the node,
\* pending or mined, and stays there (deposit_relay.rs, Yield: "All deposits
\* till given block has been relayed.").
SentStaysSent ==
  \A t \in Tx : state[t] = "Done" => \E k \in Nonce : Filled(k) /\ slot[k].tx = t

\* Why NoGap and SentOncePerRun hold: a request of this run is on its way only
\* while its future waits for the answer, a transaction this run placed at the
\* node has been or is about to be reported as sent, counts the node answered
\* with stay covered, and no run has a transaction both at the node and on its
\* way to it.
RequestsOfThisRun ==
  \A r \in net :
    /\ r.run <= run
    /\ r.run = run => /\ up
                      /\ state[r.tx] = "TransactionRequest"
                      /\ nonce[r.tx] = r.nonce /\ reply[r.tx] = "None"

EntriesOfThisRun ==
  \A k \in Nonce : Filled(k) =>
    /\ slot[k].run <= run
    /\ slot[k].run = run =>
         /\ up
         /\ \/ state[slot[k].tx] = "Done"
            \/ /\ state[slot[k].tx] = "TransactionRequest"
               /\ reply[slot[k].tx] = "Ok"

CountsCovered ==
  \A t \in Tx : reply[t] = "Count" => \A j \in 0..(nonce[t] - 1) : Filled(j)

OneRequestPerRun ==
  /\ \A r1, r2 \in net : r1.tx = r2.tx /\ r1.run = r2.run => r1 = r2
  /\ \A r \in net, k \in Nonce :
       Filled(k) => ~(slot[k].tx = r.tx /\ slot[k].run = r.run)

\* The inductive invariant: the properties with what they rest on.
Inductive ==
  /\ TypeOK
  /\ RequestsOfThisRun
  /\ EntriesOfThisRun
  /\ CountsCovered
  /\ OneRequestPerRun
  /\ NoGap
  /\ SentOncePerRun

\* Every transaction is mined in the end, once the process stops no more.
AllMined ==
  \A t \in Tx : <>(\E k \in 0..(mined - 1) : slot[k].tx = t)
=============================================================================
