---------------------------- MODULE DepositRelay ----------------------------
(***************************************************************************)
(* Deposits from home to foreign: every authority runs a deposit relay     *)
(* (bridge/src/bridge/deposit_relay.rs) that reads the confirmed deposit   *)
(* logs of home, sends one ForeignBridge.deposit transaction per log, and  *)
(* when all of a batch have been accepted by its foreign node records the  *)
(* last block of the batch in its database (Bridge::poll).  A process may  *)
(* stop at any moment and is restarted from the database.                  *)
(*                                                                         *)
(* The log stream is used as ConfirmedLogs promises, and sending as        *)
(* NonceCheck does at one gas price: a transaction reported as sent stays  *)
(* at the node until it is executed.                                       *)
(***************************************************************************)
EXTENDS ForeignDeposits

CONSTANTS
  TheToken,            \* the token the authorities have agreed on
  Log,                 \* Deposit events of the home contract
  LogBlock,            \* the home block of each event
  Payload,             \* the deposit each event is relayed as
  LastBlock,           \* bound on the home chain
  MaxStops,            \* bound on the stops of all processes together
  Reliable             \* the authorities whose processes are kept running

ASSUME RelayAssumption ==
  /\ TheToken \in Token
  /\ IsFiniteSet(Log)
  /\ LastBlock \in Nat
  /\ LogBlock \in [Log -> 1..LastBlock]
  /\ Payload \in [Log -> Deposit]
  /\ MaxStops \in Nat
  /\ Reliable \subseteq Authority

VARIABLES
  final,       \* height of the last final home block
  up,          \* per authority: its process runs
  relay,       \* per authority: DepositRelayState
  after,       \* per authority: LogStream.after, the last block of the batch
  todo,        \* per authority: logs of the batch not yet sent
  checked,     \* per authority: checked_deposit_relay in the database file
  stops,       \* how many stops there have been
  pool,        \* <<authority, deposit>> transactions waiting to be executed
  executed     \* history: transactions executed, with success or not

processVars == <<up, relay, after, todo, checked, stops>>
vars == <<final, processVars, pool, executed, foreignVars>>

\* "Tokens must be transfered to the bridge contract BEFORE the first deposit."
Init ==
  /\ final = 0
  /\ up = [a \in Authority |-> TRUE]
  /\ relay = [a \in Authority |-> "Wait"]
  /\ after = [a \in Authority |-> 0]
  /\ todo = [a \in Authority |-> {}]
  /\ checked = [a \in Authority |-> 0]
  /\ stops = 0
  /\ pool = {}
  /\ executed = {}
  /\ tokenVotes = Authority \X {TheToken}
  /\ numTokenVotes =
       [k \in Token |-> IF k = TheToken THEN Cardinality(Authority) ELSE 0]
  /\ erc20token = TheToken
  /\ depositsSigned = {}
  /\ numDepositsSigned = [d \in Deposit |-> 0]
  /\ reserve = [k \in Token |-> IF k = TheToken THEN MaxReserve ELSE 0]
  /\ paid = [d \in Deposit |-> 0]

-----------------------------------------------------------------------------
(* The chains.                                                             *)

HomeFinalizes ==
  /\ final < LastBlock
  /\ final' = final + 1
  /\ UNCHANGED <<processVars, pool, executed, foreignVars>>

\* A transaction is mined on foreign: deposit either succeeds or is undone.
ForeignExecutes(a, d) ==
  /\ <<a, d>> \in pool
  /\ pool' = pool \ {<<a, d>>}
  /\ executed' = executed \cup {<<a, d>>}
  /\ \/ deposit(a, d)
     \/ ~accepts(a, d) /\ UNCHANGED foreignVars
  /\ UNCHANGED <<final, processVars>>

-----------------------------------------------------------------------------
(* DepositRelay::poll.                                                     *)

LogsIn(from, to) == {l \in Log : LogBlock[l] \in from..to}

\* MUTANT: the stream does not wait for blocks to be final.
AvailableUnconfirmed(a) == (after[a] + 1)..LastBlock

\* The blocks an item of the log stream can end with.
Available(a) == (after[a] + 1)..final

\* Wait: an item [after + 1, to] of confirmed logs starts a batch.
PollWait(a, to) ==
  /\ up[a] /\ relay[a] = "Wait"
  /\ to \in Available(a)
  /\ relay' = [relay EXCEPT ![a] = "RelayDeposits"]
  /\ after' = [after EXCEPT ![a] = to]
  /\ todo' = [todo EXCEPT ![a] = LogsIn(after[a] + 1, to)]
  /\ UNCHANGED <<final, up, checked, stops, pool, executed, foreignVars>>

\* RelayDeposits: one of the batch's transactions has been accepted.
Sent(a, l) ==
  /\ up[a] /\ relay[a] = "RelayDeposits" /\ l \in todo[a]
  /\ todo' = [todo EXCEPT ![a] = @ \ {l}]
  /\ pool' = pool \cup {<<a, Payload[l]>>}
  /\ UNCHANGED <<final, up, relay, after, checked, stops, executed, foreignVars>>

\* MUTANT: the batch ends with its last transaction still to be sent.
BatchCompleteEarly(a) == Cardinality(todo[a]) <= 1

BatchComplete(a) == todo[a] = {}

\* RelayDeposits: the batch is complete.  The same poll yields its last block
\* through the event stream to Bridge::poll, which saves the database.
BatchDone(a) ==
  /\ up[a] /\ relay[a] = "RelayDeposits" /\ BatchComplete(a)
  /\ relay' = [relay EXCEPT ![a] = "Wait"]
  /\ checked' = [checked EXCEPT ![a] = after[a]]
  /\ UNCHANGED <<final, up, after, todo, stops, pool, executed, foreignVars>>

-----------------------------------------------------------------------------
(* Stops: a failing request, insufficient funds, an error of another        *)
(* stream, a failing save, a crash.                                        *)

Stop(a) ==
  /\ up[a] /\ stops < MaxStops
  /\ up' = [up EXCEPT ![a] = FALSE]
  /\ stops' = stops + 1
  /\ UNCHANGED <<final, relay, after, todo, checked, pool, executed, foreignVars>>

\* The node has taken the transaction but the answer comes too late.
SentButTimedOut(a, l) ==
  /\ up[a] /\ relay[a] = "RelayDeposits" /\ l \in todo[a] /\ stops < MaxStops
  /\ up' = [up EXCEPT ![a] = FALSE]
  /\ stops' = stops + 1
  /\ pool' = pool \cup {<<a, Payload[l]>>}
  /\ UNCHANGED <<final, relay, after, todo, checked, executed, foreignVars>>

\* MUTANT: the restarted stream continues where the last one was.
StartsAfterForgets(a) == after[a]

StartsAfter(a) == checked[a]

\* create_deposit_relay: the log stream starts after the block in the database.
Restart(a) ==
  /\ ~up[a]
  /\ up' = [up EXCEPT ![a] = TRUE]
  /\ relay' = [relay EXCEPT ![a] = "Wait"]
  /\ after' = [after EXCEPT ![a] = StartsAfter(a)]
  /\ todo' = [todo EXCEPT ![a] = {}]
  /\ UNCHANGED <<final, checked, stops, pool, executed, foreignVars>>

-----------------------------------------------------------------------------
Process(a) ==
  \/ \E to \in 1..LastBlock : PollWait(a, to)
  \/ \E l \in Log : Sent(a, l)
  \/ BatchDone(a)
  \/ Restart(a)

Next ==
  \/ HomeFinalizes
  \/ \E a \in Authority, d \in Deposit : ForeignExecutes(a, d)
  \/ \E a \in Authority : Process(a) \/ Stop(a)
  \/ \E a \in Authority, l \in Log : SentButTimedOut(a, l)

Spec == Init /\ [][Next]_vars

\* The foreign chain mines what is in the pool; the event loop keeps polling,
\* and the restart script restarts, the processes of the reliable authorities.
FairSpec ==
  /\ Spec
  /\ WF_vars(\E a \in Authority, d \in Deposit : ForeignExecutes(a, d))
  /\ \A a \in Reliable : WF_vars(Process(a))

-----------------------------------------------------------------------------
(* Properties.                                                             *)

\* The types; no stream or checkpoint is beyond the last block.
TypeOK ==
  /\ final \in 0..LastBlock
  /\ up \in [Authority -> BOOLEAN]
  /\ relay \in [Authority -> {"Wait", "RelayDeposits"}]
  /\ after \in [Authority -> 0..LastBlock]
  /\ todo \in [Authority -> SUBSET Log]
  /\ checked \in [Authority -> 0..LastBlock]
  /\ stops \in 0..MaxStops
  /\ pool \subseteq Authority \X Deposit
  /\ executed \subseteq Authority \X Deposit
  /\ TypeOKForeign

\* Bridge::poll and deposit_relay.rs ("All deposits till given block has been
\* relayed."): when an authority's database says that a block is checked, its
\* transaction for every deposit up to that block is at its foreign node or has
\* been executed, wherever the process stopped and however often.
CheckedMeansRelayed ==
  \A a \in Authority, l \in Log :
    LogBlock[l] <= checked[a] => <<a, Payload[l]>> \in pool \cup executed

\* The final events of a deposit on home.
Backing(d) == {l \in Log : Payload[l] = d /\ LogBlock[l] <= final}

\* deposit_relay.rs with ForeignBridge.deposit: each transaction an authority
\* makes and the contract counts is for a deposit event in a final home block,
\* so what foreign pays out is backed on home: no deposit is paid more often
\* than final home events call for.
PaidIsBacked ==
  \A d \in Deposit : paid[d] <= Cardinality(Backing(d))

\* Why they hold.  Between two batches the stream stands at the checkpoint;
\* within a batch every log up to its last block has been sent or is still to
\* be sent; nothing is sent, and nothing counted, that is not final on home.
BatchCovers ==
  \A a \in Authority :
    /\ relay[a] = "Wait" => after[a] = checked[a]
    /\ relay[a] = "RelayDeposits" =>
         \A l \in Log : LogBlock[l] <= after[a] =>
            l \in todo[a] \/ <<a, Payload[l]>> \in pool \cup executed

OnlyFinal ==
  /\ \A a \in Authority : checked[a] <= final /\ after[a] <= final
  /\ \A a \in Authority, l \in Log : l \in todo[a] => LogBlock[l] <= final
  /\ \A a \in Authority, d \in Deposit :
       <<a, d>> \in pool => Backing(d) # {}
  /\ \A d \in Deposit : numDepositsSigned[d] > 0 => Backing(d) # {}

\* The inductive invariant: the properties with what they rest on, the
\* contract's own invariant included.
Inductive == /\ TypeOK /\ CheckedMeansRelayed /\ BatchCovers
             /\ OnlyFinal /\ InductiveForeign

\* Seen from its ends: a deposit is locked by its final events on home, and every
\* payment releases its value.
Locked == {d \in Deposit : Backing(d) # {}}
Released == [d \in Deposit |-> paid[d] * Value[d]]

Promised == INSTANCE Transfers WITH
  Transfer <- Deposit, Worth <- Value, locked <- Locked, released <- Released

\* README and deposit_relay.rs with ForeignBridge.deposit: with relays that
\* repeat batches after every stop and votes that arrive in any order, the
\* deposit side implements Transfers.  Tokens leave the foreign contract only
\* for a deposit that is final on home, once, and in the amount deposited.
ImplementsTransfers == Promised!Spec

\* How often a deposit is made on home.
Events(d) == Cardinality({l \in Log : Payload[l] = d})

\* README: a user who deposits on home gets the same amount of tokens on
\* foreign.  Every final deposit event is paid, each once, as long as a quorum
\* of authorities keeps running.
EveryDepositIsPaid ==
  (<>(final = LastBlock)) => \A d \in Deposit : <>(paid[d] = Events(d))
=============================================================================
