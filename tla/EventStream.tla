---------------------------- MODULE EventStream ----------------------------
(***************************************************************************)
(* The event loop of one process: Bridge::poll on top of                   *)
(* BridgeEventStream::poll (bridge/src/bridge/mod.rs), the balance checks  *)
(* (balance.rs), the gas price streams (gas_price.rs), the Ctrl-C flag and *)
(* the exit (cli/src/main.rs), under a supervisor that restarts it.        *)
(*                                                                         *)
(* poll runs until it has to wait and then returns NotReady: the task is   *)
(* parked until a future it polled completes.  Every iteration of poll's   *)
(* loop is one action, and completions may come between any two of them.   *)
(* The three relays are modelled by what select passes on: that a batch is *)
(* finished, nothing, or an error.                                         *)
(***************************************************************************)
EXTENDS Integers

CONSTANTS
  Relay,          \* the relays, by the constructor of BridgeChecked
  Oracle,         \* the chains with a gas_price_oracle_url
  Price,          \* gas prices an oracle may answer
  Default,        \* default_gas_price, of both chains
  MaxBlock,       \* bound: finished batches per relay, over all runs
  MaxRestarts     \* bound: restarts by the supervisor

Chain == {"home", "foreign"}
NoItem == "none"
Unusable == -1    \* an error, a timeout, or a text without the price

ASSUME EventStreamAssumption ==
  /\ Relay \subseteq {"DepositRelay", "WithdrawRelay", "WithdrawConfirm"}
  /\ Oracle \subseteq Chain
  /\ Price \subseteq Nat /\ Default \in Nat
  /\ {MaxBlock, MaxRestarts} \subseteq Nat

VARIABLES
  state,      \* BridgeStatus, or "Ended" when the process has exited
  item,       \* the relay whose item NextItem holds
  parked,     \* poll has returned NotReady and nothing has completed since
  running,    \* cleared by Ctrl-C
  exit,       \* why the process exited
  known,      \* per chain: the balance is Some
  check,      \* per chain: BalanceCheckState, with the answer of its request
  gas,        \* per chain: GasPriceStream
  price,      \* per chain: the gas price the relays use
  done,       \* per relay: last block of its finished batches
  yielded,    \* per relay: last block its stream has returned
  file,       \* per relay: the checkpoint in the database file
  restarts

streamVars == <<state, item, parked, exit>>
balanceVars == <<known, check>>
gasVars == <<gas, price>>
relayVars == <<done, yielded, file>>
vars == <<streamVars, running, balanceVars, gasVars, relayVars, restarts>>

\* interval_at(now, 5 minutes): the first tick is there from the start.
NewGasStream ==
  [state |-> "Initial", tick |-> TRUE, pending |-> FALSE,
   answer |-> Unusable, last_price |-> Default]

Init ==
  /\ state = "Init" /\ item = NoItem /\ parked = FALSE /\ exit = "none"
  /\ running = TRUE
  /\ known = [c \in Chain |-> FALSE]
  /\ check = [c \in Chain |-> "Wait"]
  /\ gas = [c \in Chain |-> NewGasStream]
  /\ price = [c \in Chain |-> Default]
  /\ done = [k \in Relay |-> 0]
  /\ yielded = [k \in Relay |-> 0]
  /\ file = [k \in Relay |-> 0]
  /\ restarts = 0

Polling(s) == state = s /\ ~parked

\* poll returns an error: collect ends, main exits, and the process takes its
\* memory with it; the balances and prices of the next one start afresh.
End(why) ==
  /\ state' = "Ended" /\ item' = NoItem /\ parked' = FALSE /\ exit' = why
  /\ known' = [c \in Chain |-> FALSE]
  /\ check' = [c \in Chain |-> "Wait"]
  /\ gas' = [c \in Chain |-> NewGasStream]
  /\ price' = [c \in Chain |-> Default]
  /\ UNCHANGED <<running, relayVars, restarts>>

-----------------------------------------------------------------------------
(* BridgeStatus::Init: check_balances.                                     *)

\* BalanceCheck::poll on a request that has not failed.  A stream that has
\* yielded makes its next request before it returns.
CheckPolled(s) == IF s = "Answered" THEN "Yield" ELSE "BalanceRequest"

\* A balance that was answered replaces the old one; otherwise that is kept.
NowKnown(c) == known[c] \/ check[c] = "Answered"

\* MUTANT: one balance is enough.
AnyKnown == \E c \in Chain : NowKnown(c)

AllKnown == \A c \in Chain : NowKnown(c)

CheckBalances ==
  /\ Polling("Init")
  /\ \A c \in Chain : check[c] # "Failed"
  /\ check' = [c \in Chain |-> CheckPolled(check[c])]
  /\ known' = [c \in Chain |-> NowKnown(c)]
  /\ IF AllKnown
     THEN state' = "Wait" /\ UNCHANGED parked
     ELSE parked' = TRUE /\ UNCHANGED state
  /\ UNCHANGED <<item, exit, running, gasVars, relayVars, restarts>>

CheckBalancesFails ==
  /\ Polling("Init")
  /\ \E c \in Chain : check[c] = "Failed"
  /\ End("error")

-----------------------------------------------------------------------------
(* BridgeStatus::Wait: the flag, the gas prices, the relays.               *)

\* GasPriceStream::poll in Initial, where Yield continues: a tick starts a
\* request.
Requested(g) ==
  IF g.tick
  THEN [g EXCEPT !.state = "WaitingForResponse", !.tick = FALSE,
                 !.pending = TRUE]
  ELSE [g EXCEPT !.state = "Initial"]

\* An answer with a price becomes the last price; after any other answer the
\* stream yields the last price again.
Answered(g) ==
  [g EXCEPT !.state = "Yield", !.answer = Unusable,
            !.last_price = IF g.answer = Unusable THEN @ ELSE g.answer]

HasAnswer(g) == g.state = "WaitingForResponse" /\ ~g.pending

GasPolled(g) ==
  CASE HasAnswer(g) -> Answered(g)
    [] g.state = "WaitingForResponse" /\ g.pending -> g
    [] OTHER -> Requested(g)

\* The interval is polled, and may fail, unless a request is under way.
MayFail(c) == c \in Oracle /\ gas[c].state # "WaitingForResponse"

\* MUTANT: without an answer the price falls back to the default.
PriceOrDefault(c) ==
  IF HasAnswer(gas[c]) THEN Answered(gas[c]).last_price ELSE Default

PriceNow(c) ==
  IF HasAnswer(gas[c]) THEN Answered(gas[c]).last_price ELSE price[c]

\* get_gas_prices: the streams in polled return a price or NotReady, those in
\* failing an error, the others are not polled.
GetGasPrices(polled, failing) ==
  /\ gas' = [c \in Chain |->
       IF c \in polled THEN GasPolled(gas[c])
       ELSE IF c \in failing THEN [gas[c] EXCEPT !.state = "Initial"]
       ELSE gas[c]]
  /\ price' = [c \in Chain |->
       IF c \in polled THEN PriceNow(c) ELSE price[c]]

\* Home first: its error returns before foreign is polled.  The result is
\* ignored.
PollGasPrices ==
  \/ GetGasPrices(Oracle, {})
  \/ MayFail("home") /\ GetGasPrices({}, {"home"})
  \/ MayFail("foreign") /\ GetGasPrices(Oracle \cap {"home"}, {"foreign"})

\* MUTANT: the flag is not looked at.
FlagIgnored == FALSE

FlagCleared == ~running

PollShutdown ==
  /\ Polling("Wait") /\ FlagCleared
  /\ End("ShutdownRequested")

PollItem(k) ==
  /\ Polling("Wait") /\ ~FlagCleared
  /\ PollGasPrices
  /\ yielded[k] < done[k]
  /\ yielded' = [yielded EXCEPT ![k] = done[k]]
  /\ state' = "NextItem" /\ item' = k
  /\ UNCHANGED <<parked, exit, running, balanceVars, done, file, restarts>>

PollNotReady ==
  /\ Polling("Wait") /\ ~FlagCleared
  /\ PollGasPrices
  /\ \A k \in Relay : yielded[k] = done[k]
  /\ parked' = TRUE
  /\ UNCHANGED <<state, item, exit, running, balanceVars, relayVars, restarts>>

\* One of the three relays fails: InsufficientFunds, a timeout, an RPC error.
PollRelayFails ==
  /\ Polling("Wait") /\ ~FlagCleared
  /\ End("error")

-----------------------------------------------------------------------------
(* BridgeStatus::NextItem: the item is returned to Bridge::poll, which     *)
(* saves it; the next poll goes on to Init.                                *)

\* MUTANT: the checkpoint is saved when the next item comes.
SavedLate == [k \in Relay |-> IF k = item THEN file[k] ELSE yielded[k]]

\* MUTANT: batches are saved that have not been returned yet.
SavedEarly == done

Saved == [file EXCEPT ![item] = yielded[item]]

Deliver ==
  /\ Polling("NextItem")
  /\ file' = Saved
  /\ state' = "Init" /\ item' = NoItem
  /\ UNCHANGED <<parked, exit, running, balanceVars, gasVars, done, yielded,
                 restarts>>

SaveFails ==
  /\ Polling("NextItem")
  /\ End("save")

-----------------------------------------------------------------------------
(* What completes in the meantime.  A future that was polled wakes the     *)
(* task up.                                                                *)

\* The node answers, or the request fails or times out.
CompleteBalance(c, answer) ==
  /\ state # "Ended"
  /\ check[c] = "BalanceRequest"
  /\ check' = [check EXCEPT ![c] = answer]
  /\ parked' = FALSE
  /\ UNCHANGED <<state, item, exit, running, known, gasVars, relayVars, restarts>>

\* A tick wakes the task only if the interval was polled, that is in Initial.
Tick(c) ==
  /\ state # "Ended"
  /\ c \in Oracle /\ ~gas[c].tick
  /\ gas' = [gas EXCEPT ![c].tick = TRUE]
  /\ parked' = (parked /\ gas[c].state # "Initial")
  /\ UNCHANGED <<state, item, exit, running, balanceVars, price, relayVars,
                 restarts>>

CompletePrice(c, answer) ==
  /\ state # "Ended"
  /\ gas[c].state = "WaitingForResponse" /\ gas[c].pending
  /\ gas' = [gas EXCEPT ![c].pending = FALSE, ![c].answer = answer]
  /\ parked' = FALSE
  /\ UNCHANGED <<state, item, exit, running, balanceVars, price, relayVars,
                 restarts>>

\* A relay can finish a batch once it has been polled, and goes on only after
\* that batch has been returned.
RelayFinishes(k) ==
  /\ state # "Ended"
  /\ \A c \in Chain : known[c]
  /\ done[k] = yielded[k] /\ done[k] < MaxBlock
  /\ done' = [done EXCEPT ![k] = @ + 1]
  /\ parked' = FALSE
  /\ UNCHANGED <<state, item, exit, running, balanceVars, gasVars, yielded, file,
                 restarts>>

\* The relays' own timers, the poll_interval of a log stream or the timeout of
\* a request, wake the task up.
RelayTimer ==
  /\ state = "Wait" /\ parked
  /\ parked' = FALSE
  /\ UNCHANGED <<state, item, exit, running, balanceVars, gasVars, relayVars,
                 restarts>>

\* The Ctrl-C handler only clears the flag.
CtrlC ==
  /\ state # "Ended" /\ running
  /\ running' = FALSE
  /\ UNCHANGED <<streamVars, balanceVars, gasVars, relayVars, restarts>>

\* The supervisor starts the process again unless it exited with code 3; the
\* relays start from the database file.
Restart ==
  /\ state = "Ended" /\ exit # "ShutdownRequested"
  /\ restarts < MaxRestarts
  /\ restarts' = restarts + 1
  /\ state' = "Init" /\ exit' = "none" /\ running' = TRUE
  /\ yielded' = file /\ done' = file
  /\ UNCHANGED <<item, parked, balanceVars, gasVars, file>>

-----------------------------------------------------------------------------
Poll ==
  \/ CheckBalances \/ CheckBalancesFails
  \/ PollShutdown
  \/ \E k \in Relay : PollItem(k)
  \/ PollNotReady \/ PollRelayFails
  \/ Deliver \/ SaveFails

BalanceAnswer ==
  \E c \in Chain : \E a \in {"Answered", "Failed"} : CompleteBalance(c, a)

Next ==
  \/ Poll \/ BalanceAnswer \/ RelayTimer \/ CtrlC \/ Restart
  \/ \E c \in Chain : Tick(c)
  \/ \E c \in Chain : \E p \in Price \cup {Unusable} : CompletePrice(c, p)
  \/ \E k \in Relay : RelayFinishes(k)

Spec == Init /\ [][Next]_vars

\* The reactor polls a task that was woken up; a balance request is answered
\* or runs into its timeout; the relays' timers fire.
FairSpec ==
  Spec /\ WF_vars(Poll) /\ WF_vars(RelayTimer)
       /\ \A c \in Chain :
            WF_vars(\E a \in {"Answered", "Failed"} : CompleteBalance(c, a))

-----------------------------------------------------------------------------
(* Properties.                                                             *)

GasStream ==
  [state : {"Initial", "WaitingForResponse", "Yield"}, tick : BOOLEAN,
   pending : BOOLEAN, answer : Price \cup {Unusable},
   last_price : Price \cup {Default}]

(* Every variable has its type; in particular an answer of the oracle      *)
(* without a price never becomes the price (gas_price.rs:105-120).         *)
TypeOK ==
  /\ state \in {"Init", "Wait", "NextItem", "Ended"}
  /\ item \in Relay \cup {NoItem}
  /\ (state = "NextItem") = (item # NoItem)
  /\ parked \in BOOLEAN /\ running \in BOOLEAN
  /\ exit \in {"none", "error", "save", "ShutdownRequested"}
  /\ known \in [Chain -> BOOLEAN]
  /\ check \in [Chain ->
       {"Wait", "BalanceRequest", "Answered", "Failed", "Yield"}]
  /\ gas \in [Chain -> GasStream]
  /\ price \in [Chain -> Price \cup {Default}]
  /\ done \in [Relay -> 0..MaxBlock]
  /\ yielded \in [Relay -> 0..MaxBlock]
  /\ file \in [Relay -> 0..MaxBlock]
  /\ restarts \in 0..MaxRestarts

(* The relays are polled only when both balances are known: a relay that   *)
(* finds its balance unknown returns NotReady without anything that would  *)
(* wake it (deposit_relay.rs:84, withdraw_confirm.rs:85,                   *)
(* withdraw_relay.rs:180), and a parked task always waits for something    *)
(* that is still to come: an answer that is outstanding, or the relays'    *)
(* timers.                                                                 *)
NoLostWakeup ==
  /\ state \in {"Wait", "NextItem"} => \A c \in Chain : known[c]
  /\ parked =>
       \/ state = "Wait"
       \/ state = "Init" /\ \E c \in Chain : check[c] = "BalanceRequest"

(* No finished batch is forgotten once its stream has returned it: it is   *)
(* in the file before a failing balance check, gas price or relay can end  *)
(* the process, and only a failing save loses it (mod.rs:47-66, 208-213).  *)
(* The file never names a block whose batch was not finished.              *)
YieldedIsSaved ==
  \A k \in Relay :
    /\ file[k] <= done[k]
    /\ \/ file[k] = yielded[k]
       \/ state = "NextItem" /\ item = k
       \/ state = "Ended" /\ exit = "save"

(* The price the relays use is the last one the oracle's stream has        *)
(* returned, whatever fails in between (mod.rs:169-181, gas_price.rs).     *)
PriceIsLast == \A c \in Chain : price[c] = gas[c].last_price

(* A requested shutdown ends the process, wherever it finds it waiting     *)
(* (mod.rs:199).                                                           *)
ShutdownHappens == ~running ~> state = "Ended"

(* A finished batch gets to the file unless the process ends first         *)
(* (mod.rs:47-66).                                                         *)
FinishedIsSaved ==
  \A k \in Relay : yielded[k] < done[k] ~> file[k] = done[k] \/ state = "Ended"
=============================================================================
