------------------------- MODULE EventStreamProofs -------------------------
(***************************************************************************)
(* The event loop's safety properties, for every set of oracles, every set *)
(* of prices and any number of batches and restarts.                       *)
(***************************************************************************)
EXTENDS EventStream, TLAPS

(* YieldedIsSaved is inductive only together with the order of the two     *)
(* positions of a relay's stream.                                          *)
InOrder == \A k \in Relay : file[k] <= yielded[k] /\ yielded[k] <= done[k]

IInv == TypeOK /\ NoLostWakeup /\ YieldedIsSaved /\ PriceIsLast /\ InOrder

-----------------------------------------------------------------------------
(* The bounds and the default price are natural numbers.                   *)
LEMMA BoundsAreNumbers == {MaxBlock, MaxRestarts, Default} \subseteq Nat
  BY EventStreamAssumption

(* A new gas price stream starts with the default price (gas_price.rs:67). *)
LEMMA NewGasStreamType ==
  NewGasStream \in GasStream /\ NewGasStream.last_price = Default
  BY DEF NewGasStream, GasStream

(* A poll of a gas price stream keeps its type (gas_price.rs:84-137).      *)
LEMMA GasPolledType ==
  ASSUME NEW g \in GasStream
  PROVE  /\ GasPolled(g) \in GasStream
         /\ [g EXCEPT !.state = "Initial"] \in GasStream
         /\ Answered(g).last_price \in Price \cup {Default}
         /\ GasPolled(g).last_price =
              IF HasAnswer(g) THEN Answered(g).last_price ELSE g.last_price
         /\ [g EXCEPT !.state = "Initial"].last_price = g.last_price
<1> USE DEF GasStream
<1>1. /\ [g EXCEPT !.state = "Initial"] \in GasStream
      /\ [g EXCEPT !.state = "Initial"].last_price = g.last_price
  OBVIOUS
<1>2. Answered(g) \in GasStream /\ Answered(g).last_price \in Price \cup {Default}
  BY DEF Answered, Unusable
<1>3. Requested(g) \in GasStream /\ Requested(g).last_price = g.last_price
  BY DEF Requested
<1>4. CASE HasAnswer(g)
  BY <1>1, <1>2, <1>4 DEF GasPolled, HasAnswer
<1>5. CASE ~HasAnswer(g) /\ g.state = "WaitingForResponse"
  BY <1>1, <1>2, <1>5 DEF GasPolled, HasAnswer
<1>6. CASE g.state # "WaitingForResponse"
  <2>1. ~HasAnswer(g) BY <1>6 DEF HasAnswer
  <2>2. GasPolled(g) = Requested(g) BY <1>6, <2>1 DEF GasPolled
  <2> QED BY <1>1, <1>2, <1>3, <2>1, <2>2
<1> QED BY <1>4, <1>5, <1>6

(* get_gas_prices keeps the types, and the shared prices equal to the last *)
(* ones of the streams (mod.rs:169-181).                                   *)
LEMMA GetGasPricesKeeps ==
  ASSUME NEW polled, NEW failing,
         gas \in [Chain -> GasStream], price \in [Chain -> Price \cup {Default}],
         PriceIsLast, GetGasPrices(polled, failing)
  PROVE  /\ gas' \in [Chain -> GasStream]
         /\ price' \in [Chain -> Price \cup {Default}]
         /\ PriceIsLast'
<1> USE DEF GetGasPrices, PriceNow
<1>1. gas' \in [Chain -> GasStream]
  BY GasPolledType
<1>2. price' \in [Chain -> Price \cup {Default}]
  BY GasPolledType
<1>3. ASSUME NEW c \in Chain PROVE price'[c] = gas'[c].last_price
  BY GasPolledType DEF PriceIsLast
<1> QED BY <1>1, <1>2, <1>3 DEF PriceIsLast

(* The same for a poll of both streams with an ignored error (mod.rs:203). *)
LEMMA PollGasPricesKeeps ==
  ASSUME gas \in [Chain -> GasStream], price \in [Chain -> Price \cup {Default}],
         PriceIsLast, PollGasPrices
  PROVE  /\ gas' \in [Chain -> GasStream]
         /\ price' \in [Chain -> Price \cup {Default}]
         /\ PriceIsLast'
  BY GetGasPricesKeeps DEF PollGasPrices

(* However the process ends, the invariant holds of what is left.          *)
LEMMA EndKeeps ==
  ASSUME IInv, NEW why \in {"error", "save", "ShutdownRequested"}, End(why),
         state # "Ended", state = "NextItem" => why = "save"
  PROVE  IInv'
<1> USE DEF IInv, End, relayVars
<1>1. TypeOK'
  BY NewGasStreamType DEF TypeOK
<1>2. NoLostWakeup'
  BY DEF NoLostWakeup
<1>3. InOrder'
  BY DEF InOrder
<1>4. YieldedIsSaved'
  BY DEF YieldedIsSaved, TypeOK
<1>5. PriceIsLast'
  BY NewGasStreamType DEF PriceIsLast
<1> QED BY <1>1, <1>2, <1>3, <1>4, <1>5

-----------------------------------------------------------------------------
(* One lemma per step of poll.                                             *)

(* A new process satisfies the invariant (mod.rs:81-124).                  *)
LEMMA InitKeeps == Init => IInv
<1> SUFFICES ASSUME Init PROVE IInv OBVIOUS
<1> USE DEF Init
<1>1. TypeOK
  <2>1. gas \in [Chain -> GasStream] BY NewGasStreamType
  <2>2. 0 \in 0..MaxBlock /\ 0 \in 0..MaxRestarts BY BoundsAreNumbers
  <2>3. (state = "NextItem") = (item # NoItem) BY DEF NoItem
  <2> QED BY <2>1, <2>2, <2>3 DEF TypeOK
<1>2. PriceIsLast
  BY NewGasStreamType DEF PriceIsLast
<1> QED BY <1>1, <1>2 DEF IInv, NoLostWakeup, YieldedIsSaved, InOrder

(* check_balances (mod.rs:149-167): it parks only on an unknown balance,   *)
(* whose request is then outstanding.                                      *)
LEMMA CheckBalancesKeeps == IInv /\ CheckBalances => IInv'
<1> SUFFICES ASSUME IInv, CheckBalances PROVE IInv' OBVIOUS
<1> USE DEF IInv, CheckBalances, AllKnown, Polling, gasVars, relayVars
<1>1. TypeOK'
  BY DEF TypeOK, CheckPolled, NowKnown
<1>2. NoLostWakeup'
  BY DEF NoLostWakeup, TypeOK, CheckPolled, NowKnown
<1>3. InOrder' /\ PriceIsLast'
  BY DEF InOrder, PriceIsLast
<1>4. YieldedIsSaved'
  BY DEF YieldedIsSaved
<1> QED BY <1>1, <1>2, <1>3, <1>4

(* An item is taken from a relay (mod.rs:203-206).                         *)
LEMMA PollItemKeeps ==
  ASSUME IInv, NEW k \in Relay, PollItem(k)
  PROVE  IInv'
<1> USE DEF IInv, PollItem, FlagCleared, Polling, balanceVars
<1>1. /\ gas' \in [Chain -> GasStream]
      /\ price' \in [Chain -> Price \cup {Default}]
      /\ PriceIsLast'
  BY PollGasPricesKeeps DEF TypeOK
<1>2. k # NoItem
  BY EventStreamAssumption DEF NoItem
<1>3. TypeOK'
  BY <1>1, <1>2 DEF TypeOK
<1>4. NoLostWakeup'
  BY DEF NoLostWakeup
<1>5. InOrder'
  BY DEF InOrder, TypeOK
<1>6. YieldedIsSaved'
  BY DEF YieldedIsSaved, TypeOK
<1> QED BY <1>1, <1>3, <1>4, <1>5, <1>6

(* No relay has an item: the task is parked (mod.rs:205).                  *)
LEMMA PollNotReadyKeeps == IInv /\ PollNotReady => IInv'
<1> SUFFICES ASSUME IInv, PollNotReady PROVE IInv' OBVIOUS
<1> USE DEF IInv, PollNotReady, FlagCleared, Polling, balanceVars, relayVars
<1>1. /\ gas' \in [Chain -> GasStream]
      /\ price' \in [Chain -> Price \cup {Default}]
      /\ PriceIsLast'
  BY PollGasPricesKeeps DEF TypeOK
<1>2. TypeOK'
  BY <1>1 DEF TypeOK
<1>3. NoLostWakeup' /\ InOrder' /\ YieldedIsSaved'
  BY DEF NoLostWakeup, InOrder, YieldedIsSaved
<1> QED BY <1>1, <1>2, <1>3

(* The item is saved (mod.rs:47-66).                                       *)
LEMMA DeliverKeeps == IInv /\ Deliver => IInv'
<1> SUFFICES ASSUME IInv, Deliver PROVE IInv' OBVIOUS
<1> USE DEF IInv, Deliver, Saved, Polling, balanceVars, gasVars
<1>1. item \in Relay
  BY DEF TypeOK
<1>2. TypeOK'
  BY <1>1 DEF TypeOK
<1>3. NoLostWakeup' /\ PriceIsLast'
  BY DEF NoLostWakeup, PriceIsLast
<1>4. InOrder'
  BY <1>1 DEF InOrder, TypeOK
<1>5. YieldedIsSaved'
  BY <1>1 DEF YieldedIsSaved, InOrder, TypeOK
<1> QED BY <1>2, <1>3, <1>4, <1>5

(* Every iteration of poll keeps the invariant.                            *)
LEMMA PollKeeps == IInv /\ Poll => IInv'
<1> SUFFICES ASSUME IInv, Poll PROVE IInv' OBVIOUS
<1>1. CASE CheckBalances BY <1>1, CheckBalancesKeeps
<1>2. CASE CheckBalancesFails
  BY <1>2, EndKeeps DEF CheckBalancesFails, Polling
<1>3. CASE PollShutdown BY <1>3, EndKeeps DEF PollShutdown, FlagCleared, Polling
<1>4. CASE \E k \in Relay : PollItem(k) BY <1>4, PollItemKeeps
<1>5. CASE PollNotReady BY <1>5, PollNotReadyKeeps
<1>6. CASE PollRelayFails BY <1>6, EndKeeps DEF PollRelayFails, FlagCleared, Polling
<1>7. CASE Deliver BY <1>7, DeliverKeeps
<1>8. CASE SaveFails BY <1>8, EndKeeps DEF SaveFails, Polling
<1> QED BY <1>1, <1>2, <1>3, <1>4, <1>5, <1>6, <1>7, <1>8 DEF Poll

-----------------------------------------------------------------------------
(* What completes in the meantime.                                         *)

(* A balance request is answered or fails (api.rs:106).                    *)
LEMMA CompleteBalanceKeeps ==
  ASSUME IInv, NEW c \in Chain, NEW a \in {"Answered", "Failed"},
         CompleteBalance(c, a)
  PROVE  IInv'
<1> USE DEF IInv, CompleteBalance, gasVars, relayVars
<1>1. TypeOK' BY DEF TypeOK
<1>2. NoLostWakeup' /\ InOrder' /\ YieldedIsSaved' /\ PriceIsLast'
  BY DEF NoLostWakeup, InOrder, YieldedIsSaved, PriceIsLast
<1> QED BY <1>1, <1>2

(* The interval or the oracle: only the stream changes, not its last price. *)
LEMMA OracleKeeps ==
  ASSUME IInv, NEW c \in Chain,
         \/ Tick(c)
         \/ \E p \in Price \cup {Unusable} : CompletePrice(c, p)
  PROVE  IInv'
<1> USE DEF IInv, balanceVars, relayVars
<1>1. /\ gas' \in [Chain -> GasStream]
      /\ \A d \in Chain : gas'[d].last_price = gas[d].last_price
  <2>1. gas \in [Chain -> GasStream]
    BY DEF TypeOK
  <2>2. CASE Tick(c)
    <3>1. gas' = [gas EXCEPT ![c] = [gas[c] EXCEPT !.tick = TRUE]]
      BY <2>1, <2>2 DEF Tick
    <3>2. /\ [gas[c] EXCEPT !.tick = TRUE] \in GasStream
          /\ [gas[c] EXCEPT !.tick = TRUE].last_price = gas[c].last_price
      BY <2>1 DEF GasStream
    <3> QED BY <2>1, <3>1, <3>2
  <2>3. ASSUME NEW p \in Price \cup {Unusable}, CompletePrice(c, p)
        PROVE  <1>1
    <3> DEFINE new == [gas[c] EXCEPT !.pending = FALSE, !.answer = p]
    <3>1. gas' = [gas EXCEPT ![c] = new]
      BY <2>1, <2>3 DEF CompletePrice
    <3>2. new \in GasStream /\ new.last_price = gas[c].last_price
      BY <2>1 DEF GasStream
    <3> QED BY <2>1, <3>1, <3>2
  <2> QED BY <2>2, <2>3
<1>2. TypeOK' BY <1>1 DEF TypeOK, Tick, CompletePrice
<1>3. NoLostWakeup' /\ InOrder' /\ YieldedIsSaved'
  BY DEF NoLostWakeup, InOrder, YieldedIsSaved, Tick, CompletePrice, TypeOK
<1>4. PriceIsLast' BY <1>1 DEF PriceIsLast, Tick, CompletePrice
<1> QED BY <1>2, <1>3, <1>4

(* A relay finishes a batch (deposit_relay.rs:123-131).                    *)
LEMMA RelayFinishesKeeps ==
  ASSUME IInv, NEW k \in Relay, RelayFinishes(k)
  PROVE  IInv'
<1> USE DEF IInv, RelayFinishes, balanceVars, gasVars
<1>1. done[k] + 1 \in 0..MaxBlock BY BoundsAreNumbers DEF TypeOK
<1>5. TypeOK' BY <1>1 DEF TypeOK
<1>2. NoLostWakeup' /\ PriceIsLast' BY DEF NoLostWakeup, PriceIsLast
<1>3. InOrder' BY DEF InOrder, TypeOK
<1>4. YieldedIsSaved' BY DEF YieldedIsSaved, TypeOK
<1> QED BY <1>5, <1>2, <1>3, <1>4

(* A timer fires or Ctrl-C is pressed (main.rs:102).                       *)
LEMMA TimerOrCtrlCKeeps == IInv /\ (RelayTimer \/ CtrlC) => IInv'
<1> SUFFICES ASSUME IInv, RelayTimer \/ CtrlC PROVE IInv' OBVIOUS
<1> USE DEF IInv, RelayTimer, CtrlC, streamVars, balanceVars, gasVars, relayVars
<1>1. TypeOK' BY DEF TypeOK
<1>2. NoLostWakeup' /\ PriceIsLast' BY DEF NoLostWakeup, PriceIsLast
<1>3. InOrder' /\ YieldedIsSaved' BY DEF InOrder, YieldedIsSaved
<1> QED BY <1>1, <1>2, <1>3

(* The relays of the next process start from the file.                     *)
LEMMA RestartKeeps == IInv /\ Restart => IInv'
<1> SUFFICES ASSUME IInv, Restart PROVE IInv' OBVIOUS
<1> USE DEF IInv, Restart, balanceVars, gasVars
<1>1. TypeOK' BY EventStreamAssumption DEF TypeOK
<1>2. NoLostWakeup' /\ PriceIsLast' BY DEF NoLostWakeup, PriceIsLast
<1>3. InOrder' /\ YieldedIsSaved' BY DEF InOrder, YieldedIsSaved, TypeOK
<1> QED BY <1>1, <1>2, <1>3

(* Every step keeps the invariant.                                         *)
LEMMA StepKeeps == IInv /\ [Next]_vars => IInv'
<1> SUFFICES ASSUME IInv, [Next]_vars PROVE IInv' OBVIOUS
<1>1. CASE Poll BY <1>1, PollKeeps
<1>2. CASE BalanceAnswer BY <1>2, CompleteBalanceKeeps DEF BalanceAnswer
<1>3. CASE RelayTimer \/ CtrlC BY <1>3, TimerOrCtrlCKeeps
<1>4. CASE Restart BY <1>4, RestartKeeps
<1>5. CASE \E c \in Chain : Tick(c) BY <1>5, OracleKeeps
<1>6. CASE \E c \in Chain : \E p \in Price \cup {Unusable} : CompletePrice(c, p)
  BY <1>6, OracleKeeps
<1>7. CASE \E k \in Relay : RelayFinishes(k) BY <1>7, RelayFinishesKeeps
<1>8. CASE UNCHANGED vars
  BY <1>8 DEF IInv, TypeOK, NoLostWakeup, YieldedIsSaved, PriceIsLast, InOrder,
       vars, streamVars, balanceVars, gasVars, relayVars
<1> QED BY <1>1, <1>2, <1>3, <1>4, <1>5, <1>6, <1>7, <1>8 DEF Next

(* The invariant holds in every reachable state.                           *)
LEMMA Invariance == Spec => []IInv
  BY InitKeeps, StepKeeps, PTL DEF Spec

-----------------------------------------------------------------------------
(* The event loop's variables keep their types, and no unusable answer     *)
(* becomes a gas price (gas_price.rs:105-120).                             *)
THEOREM TypeCorrect == Spec => []TypeOK
<1>1. IInv => TypeOK BY DEF IInv
<1> QED BY <1>1, Invariance, PTL

(* The relays are never polled with an unknown balance, and the loop never *)
(* sleeps without an answer outstanding or the relays' timers to wake it   *)
(* (mod.rs:149-167, 188-218).                                              *)
THEOREM LoopNeverSleepsForever == Spec => []NoLostWakeup
<1>1. IInv => NoLostWakeup BY DEF IInv
<1> QED BY <1>1, Invariance, PTL

(* A batch a relay has returned is in the file before anything but the     *)
(* save itself can end the process (mod.rs:47-66, 208-213).                *)
THEOREM ReturnedBatchesAreSaved == Spec => []YieldedIsSaved
<1>1. IInv => YieldedIsSaved BY DEF IInv
<1> QED BY <1>1, Invariance, PTL

(* The shared gas price is always the stream's last price                  *)
(* (mod.rs:169-181).                                                       *)
THEOREM SharedPriceIsLast == Spec => []PriceIsLast
<1>1. IInv => PriceIsLast BY DEF IInv
<1> QED BY <1>1, Invariance, PTL
=============================================================================
