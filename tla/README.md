# Verification of the POA bridge

The bridge connects two Ethereum chains. Coins deposited in the `HomeBridge`
contract on *home* become ERC20 tokens on *foreign*; tokens given back to the
`ForeignBridge` contract on foreign become coins on home. Several *authorities*
run the bridge program (`bridge/`, `cli/`). Each of them watches the logs of both
contracts and sends transactions; the contracts act once enough authorities agree.

This directory holds TLA+ modules for the program, for the contracts in
`contracts/bridge.sol` and for the bridge contracts in `truffle/contracts`, TLC
configurations, and TLAPS proofs. `PROJECT.json` maps definitions to source lines, and
lists runs, mutants, hazards, findings and theorems.

## 1. Inventory

| component | state | operations | interacts with | what is hard | what makes it correct |
|---|---|---|---|---|---|
| Log stream (`api.rs`) | `after`, request in flight | `poll` | node (two requests per item) | reorganisation between the requests, stale block number, errors | every confirmed block once, in order, final |
| Nonce handling (`nonce.rs`, `transaction.rs`) | nonce shared by all futures; state of each future | `poll` of each future | node's pool | interleaved futures, lost and late requests, restart | no nonce skipped, nothing sent twice in one run, what is sent stays |
| Deposit relay (`deposit_relay.rs`) | batch, last block | `poll` | home logs, foreign pool, database | stop between sending and saving | checkpoint never ahead of the work; paid deposits exist on home |
| Withdraw confirm (`withdraw_confirm.rs`) | batch, last block | `poll` | foreign logs, foreign pool, database | as above | every withdraw up to the checkpoint is signed |
| Withdraw relay (`withdraw_relay.rs`) | assignments, fetched messages, batch | `poll` | foreign logs and storage, home pool, database | fetched signatures are newer than the event | each relay is acceptable to home |
| Bridge, event stream (`bridge/mod.rs`) | the three streams, balances, gas prices, shutdown flag | `poll` | all of the above | one error ends everything; a task that sleeps with nothing to wake it; stale balances | saves what a stream yields before anything else can fail; obeys a shutdown |
| Balance check (`balance.rs`), gas prices (`gas_price.rs`) | request in flight, last price | `poll` | node, oracle | errors, timeouts, ticks nobody waits for | balances known before relays run; the price in use is the last one answered |
| Database (`database.rs`) | contract addresses, three checkpoints | load, create, save | disk | overwritten without truncating; created and never written | a save is read back |
| Startup, deployment (`cli/src/main.rs`, `config.rs`, `app.rs`, `deploy.rs`, `chain_id.rs`), `examples/supervisor` | step of `execute`, nonces, deployments under way, shutdown flag | start, deploy, stop, restart | configuration, nodes, database, supervisor | deployments that fail halfway or arrive late; exit codes decide whether to restart; nothing looks at the flag yet | contracts left unused only by faults, checkpoints of the right chain, the bridge gets running again, Ctrl-C ends it |
| Messages, signatures (`message_to_mainnet.rs`, `signature.rs`) | - | encode, decode | contracts | one byte layout, written and read in two languages | everyone reads what was written |
| `HomeBridge` (`contracts/bridge.sol`) | coins, paid transaction hashes | fallback, `withdraw` | users, authorities | wrapping arithmetic, several relays of one withdraw | exactly the value, once, with a quorum |
| `ForeignBridge` (`contracts/bridge.sol`) | votes, counts, messages, signatures, token | `setTokenAddress`, `deposit`, `receiveApproval`, `submitSignature` | token, users, authorities | late votes, undone votes, overwritten signatures | paid once, by a quorum |
| `BridgeValidators` (`truffle/contracts`) | array and status of validators, requirement | `initialize`, `addValidator`, `removeValidator`, `setRequiredSignatures` | its owner, both bridge contracts | removed validators stay in the array | as many validators as required signatures |
| `ForeignBridge`, `HomeBridge` (`truffle/contracts`) | confirmations, signatures, ether | fallback, `deposit`, `submitSignature`, `withdraw` | `BridgeValidators`, authorities | requirement and validators change in between | paid once |

## 2. Modules

| module | models | state and actions |
|---|---|---|
| `ConfirmedLogs` | abstract: what a log stream promises | final blocks grow at one end; the consumer gets them in order |
| `LogStream` | `LogStream::poll` and a node whose chain grows and reorganises | one `Poll...` action per `LogStreamState`; `PollError` for every `try_ready!`; `Mine`, `Reorg`, `Answer...` are the node |
| `NonceCheck` | `NonceCheck::poll`, the shared nonce, the pool (external), stops and restarts | one poll runs until a future is not ready, so taking a nonce, signing and sending are one action |
| `Transfers` | abstract: what the bridge promises users, in either direction | `Lock`, `Release`: released only after it was locked, once, and exactly its worth |
| `ForeignDeposits` | token side of `ForeignBridge` | one action per public function; a call that fails is no step |
| `DepositRelay` | `DepositRelay::poll`, `Bridge::poll`'s save, restart; extends `ForeignDeposits`, starting when the authorities have agreed on a token | `PollWait`, `Sent`, `BatchDone` (including the save), `SentButTimedOut`, `Stop`, `Restart` |
| `SignatureCollection` | signature side of `ForeignBridge` | `submitSignature` |
| `HomeBridge` | `HomeBridge` with words that wrap around | `fallback`, `withdraw` |
| `WithdrawRelay` | `WithdrawConfirm::poll`, `WithdrawRelay::poll`, their saves, restart; composed with `SignatureCollection` and `HomeBridge` | `Confirm...`, `Fetch`, `Relay...`, `ForeignExecutes`, `HomeExecutes`, `Stop`, `Restart` |
| `EventStream` | `Bridge::poll`, `BridgeEventStream::poll`, `BalanceCheck::poll`, `GasPriceStream::poll`, Ctrl-C, exit and supervisor | one action per iteration of the loop and outcome (`CheckBalances`, `PollShutdown`, `PollItem`, `PollNotReady`, `Deliver`, ...); `parked` is a task that returned `NotReady`; what completes meanwhile unparks it if it was polled (`CompleteBalance`, `CompletePrice`, `Tick`, `RelayFinishes`, `RelayTimer`) |
| `MessageLayout` | bytes of messages and signatures, in `message_to_mainnet.rs`, `signature.rs` and the libraries of `bridge.sol` | no state: `to_bytes`, `from_bytes`, and the contracts' readers through `mload` |
| `LoggedWithdraws` | the way from the Withdraw log through the bytes to the payment; extends `HomeBridge` and `MessageLayout` | `from_log`; messages are the bytes the program writes, their fields what the contract reads |
| `Startup` | `execute` from the configuration to the exit code, `Deploy::poll`, `TransactionWithConfirmation`, the database file, the supervisor | `phase` is the step of `execute`; one action per step and one for its failure; requests, pools and blocks of deployments are the nodes' |
| `BridgeValidators` | the truffle validators contract | one action per function |
| `ValidatedForeignBridge`, `ValidatedHomeBridge` | the truffle `ForeignBridge` and `HomeBridge`, each extends `BridgeValidators` | one action per function, interleaved with the owner's |
| `ValidatedBridges` | both of them (`INSTANCE`): a behaviour is about one chain | `OnForeign`, `OnHome` |
| `MC...` | values for TLC | - |
| `...Proofs` | theorems | - |

How they fit together: `DepositRelay` and `WithdrawRelay` use log streams as
`ConfirmedLogs` promises (proved of `LogStream`) and take a transaction that was
reported as sent to stay at its node until it is executed. `NonceCheck` shows
when the latter is justified: always on home, where every transaction has the
price the foreign contract fixes (`homeGasPrice`, bridge.sol:371), and on foreign
only while the oracle's price does not change between two transactions that meet
at one nonce (section 5, first finding). Both relays, each with the contracts it
calls, implement `Transfers`: a deposit is locked when an event for it is final on home
and released by `ForeignBridge`'s transfer, a withdraw is locked by its Withdraw event
and released by what recipient and relaying authority get on home.

### Abstractions

- A block is the list of its logs that match the filter. In `WithdrawRelay` each
  event is in a block of its own and a stream's position is the number of events
  it has seen; blocks without events change nothing, as an empty item has no
  transactions. In `DepositRelay` events share blocks as `LogBlock` says.
- `keccak256` is injective; a signature is its signer. `WithdrawRelay` and
  `HomeBridge` take a message's fields from constants; `LoggedWithdraws` takes them
  to be what `MessageLayout`'s readers find in the bytes `from_log` makes. A message names the transaction of
  its Withdraw event, and the instances give every withdraw one of its own in
  `WithdrawRelay`; in `HomeBridge` two messages share one.
- Home and foreign transactions of a withdraw carry the gas price their message
  asks for, as `withdraw_relay.rs` builds them.
- A request that times out after the node took the transaction is a stop right
  after the transaction was sent (`SentButTimedOut`; in `WithdrawRelay` the stop
  may come at any point after it).
- Insufficient funds, a failing save, an error of a stream and a crash are all
  `Stop`: each of them ends the process (`main.rs`), and what it had sent stays.
- `EventStream` keeps of a balance whether it is known, of a relay that a batch is
  finished, and of an oracle's answer the price or that there is none. The step
  from `NextItem(None)` to `Init` changes nothing else and is part of `Deliver`. The
  process's memory is reset when it ends. A failing save leaves the file as it was.
- `Startup` keeps of a file whether it is there, its value, its length and whether it
  parses. The program's text has one length per number of digits of the three block
  numbers, and `Thresholds` are the numbers at which a number gets a digit more; a file the operator wrote may be longer (comments, spaces), and what is left
  of it behind a shorter text may parse or not. One save is one write. Deployments
  carry the same code and gas price in every process, so that two with one nonce are
  one transaction and a contract is known by its nonce. The operator may change the
  configuration between two processes, so each loads, fails or panics by itself. The
  exit codes of RPC errors (4 to 7 and 20, by the node's message) are one: the
  supervisor only looks for 3.
- The two chains of the truffle contracts share nothing; deposits and signed messages
  of the other chain are arbitrary, and anyone calls `withdraw` with any signatures.
- The instance of `DepositRelay` gives the foreign contract tokens for all deposits, as
  `EveryDepositIsPaid` needs them; `ForeignDeposits`, and the proofs about both, treat
  the case where it runs out.

## 3. Runs

| run | instance | shows |
|---|---|---|
| `log_stream` | chain up to 6 blocks of 2 kinds, 2 confirmations, reorganisations up to 2 deep, start at block 1 | `ExactDelivery` although the chain changes between the two requests; refinement of `ConfirmedLogs`; `ConfirmedIsDelivered` |
| `nonce` | 2 transactions, 1 price, 6 nonces, 2 restarts | `NoGap`, `SentOncePerRun`, `SentStaysSent`, `AllMined` |
| `nonce_replaced` | 2 transactions, 2 prices | violation of `SentStaysSent` |
| `foreign_deposits` | 3 authorities, quorum 2, 2 tokens, 2 deposits, reserve up to 2 | `PaidOnceByQuorum`, `TokenByQuorum` |
| `deposits` | 3 authorities, quorum 2, 2 deposits of values 1 and 2 in 2 blocks, a reserve of 3, 1 stop, 2 reliable authorities | `CheckedMeansRelayed`, refinement of `Transfers`, `EveryDepositIsPaid` |
| `signature_quorum` | 3 authorities, 2 signatures required | violation of `CollectedWhenEnough` |
| `home_bridge` | 5 messages (two of one transaction, one below its cost, one equal to it, one withdrawn by its recipient), words of 16 values, 11 coins; addresses of 3 and words of 4 bytes of 2 values | `PaidExactlyValue`, `QuorumNeeded`; `PaidAsLogged` for the whole way from the log through the bytes to the payment |
| `withdraws` | 2 authorities, 1 withdraw, 2 stops, 1 reliable authority | `RelaysAreValid`, `CheckedMeansDone`, refinement of `Transfers`, `EveryWithdrawIsPaid` |
| `startup` | built with `deploy`; heights 8 and 9, up to 10, where numbers get a second digit; no file, the operator's file, or a longer one; 2 faults | `SavedFileLoads`, `DatabaseIsSound`, `QuietStartDeploys`, `OrphansNeedFaults`, `RunsAgain`, `CtrlCEnds` |
| `event_stream` | 2 relays with 1 batch each per database, 2 oracles, 1 price besides the default, 1 restart | `NoLostWakeup`, `YieldedIsSaved`, `PriceIsLast`, `ShutdownHappens`, `FinishedIsSaved` |
| `validated_bridges` | 3 addresses and the zero address, arrays up to 4, 2 coins, 1 change of the requirement; foreign: 1 deposit, 1 message; home: 3 messages of 2 transactions, up to 3 signatures | `RequirementInReach`, `PaidOnceAtFixedRequirement`, `CollectedHasSignatures`, `WithdrawnOnceByQuorum` |
| `requirement_raised` | the same, foreign only | violation of `NeverPaidTwice` |

Each `Inductive` is an invariant of the run of its module, and contains its types; that
of `deposits` contains `InductiveForeign`. (`HomeBridgeProofs` and `EventStreamProofs`
put theirs together from properties their runs check.) For every property `PROJECT.json` names a mutant, a plausible mistake in the code with
which TLC finds the property violated.

### Bounds

- A chain of 6 blocks with 2 confirmations leaves three blocks that can become
  confirmed after the start, so an item of one block, an item of several, and a
  further item after each of them occur, with reorganisations in between.
- Two futures are enough for every pair of them to compete for a nonce, and one
  stop for a request of the old process to arrive in the new one; `MaxNonce` is
  high enough not to cut anything off. `nonce` has one price because the last two properties need it; the
  proofs of the others are for any prices and remove these bounds.
- Three authorities with a quorum of 2 have a vote after the quorum; two deposits
  and a reserve of 2 have one that is undone for lack of tokens and succeeds later.
- Two stops in `withdraws` allow a stop in each of the two streams' batches, or one
  during the repetition of a batch. Batches of several withdraws are covered by the
  proofs only.
- In `event_stream` two relays are enough for one to finish, fail or wait while the
  other's item is being saved; ticks of the intervals are not bounded.
- Four entries for three addresses let a validator be removed and added again;
  with a third address a deposit is confirmed by a validator who comes later.
- In `startup` block 10 has a digit more than the blocks before it, so texts get longer
  and a mistake that lets a checkpoint go back makes one shorter. Two faults are enough
  for a request of the first process to meet the deployment of the second or third one,
  and for two contracts of a chain to be left behind before a third is recorded.
- Three and four bytes leave an address shorter than a word, as in the code; the
  theorems of `HomeBridgeProofs` are for all lengths.
- Words of 16 values with 11 coins keep `CoinsFit` true and let `value - cost`
  wrap around.

### Fairness

Liveness is checked under weak fairness of these steps only:

- polling: the tokio event loop polls a stream again when a timer or an answer
  wakes it (`main.rs`, `EventLoop`);
- answers: every request ends with an answer or with a timeout error
  (`request_timeout`); in `NonceCheck` a lost request leads to `Stop`;
- restarts: `examples/supervisor` restarts the process one second after it ended,
  unless it ended with the code for a shutdown;
- timers: in `event_stream` the relays' timers (`poll_interval`, `request_timeout`)
  fire; nothing is assumed of oracles and their intervals;
- startup: `execute` goes on when what it waits for is there, a deployment request
  arrives, or the deployment times out if it is lost; `RunsAgain` and `CtrlCEnds`
  therefore assume nodes that answer, as nonces are requested without a timeout;
- chains: nodes mine what is in their pools.

No fairness is assumed of users, of chain growth or of stops (there are at most
`MaxStops`, `MaxRun` or `MaxEnds` of them), nor of authorities outside `Reliable`.
`EveryDepositIsPaid` needs a quorum of reliable authorities, `EveryWithdrawIsPaid` one.

## 4. Proofs

| module | theorems | argument |
|---|---|---|
| `LogStreamProofs` | `TypeCorrect`, `DeliveryIsExact`, `StreamRefinesConfirmedLogs` | `ExactDelivery` is not inductive: the range in flight must start where delivery ends and end below `peak - Confirmations`, and a received answer must still agree with the chain. Blocks below `peak - MaxReorg` never change, and `MaxReorg <= Confirmations` |
| `NonceCheckProofs` | `TypeCorrect`, `NonceHasNoGap`, `NeverSentTwicePerRun`, `SentStaysSentAtOnePrice` | requests and pool entries of the current run belong to futures in the matching state; a count the node answered stays covered, because the pool never gives up a nonce; with one price nothing is ever replaced |
| `DepositRelayProofs` | of `ForeignDeposits`: `ForeignInvariant`, `DepositPaidOnceByQuorum`, `TokenChosenByQuorum`; of `DepositRelay`: `CheckpointIsSound`, `PaymentsAreBacked`, `StepsOfTheContract`, `RelayedDepositPaidOnce`, `DepositsImplementTransfers` | the contract's counters are the cardinalities of the sets of senders, and a count passes `RequiredSignatures` only once. A batch with what has been sent covers every event up to the block it reaches, and a restart goes back to the checkpoint. Steps of the relays are steps of the contract or leave it alone (`StepsOfTheContract`), so its invariant carries over; with it, a vote that pays finds the deposit final and never paid, which is the step `Release` |
| `EventStreamProofs` | `TypeCorrect`, `LoopNeverSleepsForever`, `ReturnedBatchesAreSaved`, `SharedPriceIsLast` | the conjunction of these with `InOrder` (file <= yielded <= done) is inductive: the loop parks in `Init` only on an unknown balance, whose request is then outstanding; an item is taken only when nothing is unsaved |
| `HomeBridgeProofs` | `WithdrawPaysValueOnce`, `QuorumIsNeeded`, `SmallWithdrawIsNeverPaid`; of `MessageLayout`: `MessagesAlwaysAgree`, `SignaturesAlwaysAgree`; of `LoggedWithdraws`: `PaymentIsAsLogged` | if the wrapped difference can be paid, it has not wrapped, because all coins and a cost fit into one word together; so a withdraw below its cost is never paid. The signers at the first `requiredSignatures` positions are different, so they are that many. Functions on intervals are equal point by point, and each position of a field lies in exactly one of the ranges `to_bytes` distinguishes. What is paid is what the contract read, and that is what the log said |
| `WithdrawRelayProofs` | `TypeCorrect`, `CheckpointsAreSound`, `RelaysAreAcceptable`, `WithdrawsAreBacked`, `WithdrawsImplementTransfers` | one lemma per action; the invariant is split into sides (confirm, relay, foreign, home) and a step only has to preserve the sides it touches. A sender is let through once, so events are emitted only if one signature is required; index 0 then always holds some authority's signature. For the refinement: a withdraw home accepts was requested, is unpaid because its hash is not marked, and has not wrapped around, which is the step `Release` |
| `StartupProofs` | `StartupInvariant`, `FileLoads`, `DatabaseAlwaysSound`, `QuietAlwaysDeploys`, `OrphansAlwaysNeedFaults`, `RecordedContractsStay` | four parts support each other. `FileShape`: without the operator's hand a file is missing, empty, or exactly as long as the text of its value; blocks only grow, so a text never gets shorter and overwriting without truncating leaves nothing behind. `KnownIsSound`: contracts stay and chains grow. `RequestsOfRun`: who has a deployment request under way, with which nonce. `QuietIsOwn`: if none was under way when a nonce was read, only this process's request can use it, so that its deployment is never ignored. On top of them `DeploymentsCounted`: per chain, contracts and requests under way are at most as many as the processes that have deployed, a process that ends without a fault has not deployed or has its file written, and a file with the operator's contracts goes with no deployment; of the contracts counted, the one the file names is the running process's own or an earlier one's, and the others were each paid for by a fault. `RecordedContractsStay` needs `FileShape`: only a process that found no file creates one, and none exists until then |
| `ValidatedBridgesProofs` | `InductiveInvariant`, `RequirementStaysInReach`, `DepositPaidOnce`, `CollectedOnce`, `WithdrawnOnce` | arrays of signers without repeats have as many entries as signers (`SignersDiffer`), validators are in the array (`StatusInArray`), and a foreign transaction that was paid for is marked (`PaidIsMarked`); an array without repeats loses, with a removed validator, exactly one |

Most of them also have a theorem `InductiveInvariant`, that `Spec` implies the inductive
invariant, and a theorem `TypeCorrect`. None of the theorems uses the bounds of section
3: numbers of authorities, stops, blocks, batches and messages are arbitrary.

Assumptions: `StreamAssumption` (confirmations cover the depth of
reorganisations), `NonceAssumption`, `ForeignAssumption`, `RelayAssumption` and
`WithdrawAssumption` (the constructors' requirements; finite sets; deposits carry
natural numbers), `EventStreamAssumption` (bounds and prices are numbers),
`LayoutAssumption` (a word is at least as long as an address), `LoggedAssumption`
(messages are what the program makes of logs, their fields what the contract reads),
`StartupAssumption` (blocks and lengths are numbers, finitely many digits),
`ValidatorsAssumption` with the truffle contracts' `ForeignAssumption` and
`HomeAssumption` (addresses, values and bounds), and for `bridge.sol` `HomeAssumption`
(in `WithdrawRelay`: `HomeParametersAssumption`). The last one says
that a word can hold all coins plus the cost of a withdraw: about 2^87 wei exist,
and the cost is a gas amount times the gas price `ForeignBridge` fixes, so 2^256
leaves ample room. TLC evaluates every assumption in some run.

Every safety property of a passing run is stated by a theorem. Only model-checked is
liveness: `ConfirmedIsDelivered`, `AllMined`, `EveryDepositIsPaid`,
`EveryWithdrawIsPaid`, `ShutdownHappens`, `FinishedIsSaved`, `RunsAgain` and
`CtrlCEnds`. They rest on fairness, whose `ENABLED` the prover does not treat.

## 5. Where the code and its documentation disagree

1. *A transaction reported as sent can be replaced* (`nonce_replaced`). After
   `Reacquire` the shared nonce is set to the count the future itself is about to
   use (nonce.rs:88), so the next future uses the same one; and a request of a
   stopped process may arrive late. If the prices differ, the dearer one replaces
   the other, which has been reported, and checkpointed, as relayed.
2. *A raised requirement pays deposits again* (`requirement_raised`): the truffle
   `ForeignBridge` pays whenever the number of confirmations equals the requirement
   (ForeignBridge.sol:102) and does not record that it has paid. A lowered one
   skips deposits in the same way.
3. *With more than one required signature no withdraw is ever announced*
   (`signature_quorum`): signatures are counted per sender (bridge.sol:534).

Seen, and without a run of their own: a withdraw worth less than its relay costs is
announced, signed and relayed, and never paid (`SmallWithdrawIsNeverPaid`); two equal
deposits made by one home transaction have the same hash (bridge.sol:469) and are paid once, so
`EveryDepositIsPaid` needs payloads that differ; a validator that is removed and
added again is counted twice (BridgeValidators.sol:68, 87), so that more signatures
can be required than there are validators, which is why `RequirementInReach` is
stated for arrays without repeats; if an error ends the process between Ctrl-C and
the next look at the flag, the exit code is not 3 and the supervisor restarts it;
`hasEnoughValidSignatures` looks at the first
`requiredSignatures` entries only (bridge.sol:51), while its comment (38-41) speaks
of the signatures "containing" enough; of two withdraws made by one foreign
transaction only one is paid (bridge.sol:328), which `PaidExactlyValue` states as
the behaviour; the comment above `getRecipient` (bridge.sol:125-130) says that twelve
zero bytes are read before the address, "because message length is stored as little
endian"; they are the end of the length, 116, and do no harm because an address is the
last twenty bytes of a word (`MessagesAlwaysAgree`).

Of the start: a node that cannot be reached when chain ids or nonces are read makes
`expect` panic with 101, while `ERR_CANNOT_CONNECT` (10) is only returned by
`App::new_http`, which makes no request; the branch of `execute` for "Transaction gas price is
too low. There is another" (code 7) is never reached, since that message also begins with
the text of the branch before it (code 6); a deployment that is
"already imported" gives a receipt without an address and a panic (deploy.rs:123)
instead of the address the contract will have; and a process that ends between
`fs::File::create` and the write leaves an empty file, after which no process starts
until the operator removes it. The bridge contracts of truffle require no signature
while their validators contract is not initialised, since the requirement is then 0;
the deployment scripts initialise the validators first.

## 6. Not modelled, and the plan

In this order:

1. Amounts of balances: batches of several streams that together spend more than the
   balance each of them was checked against. What follows, a rejected transaction and a
   stop in the middle of a batch, is in `DepositRelay` and `WithdrawRelay`.
2. Torn writes of the database file: a save is one short `write_all`, which `Startup`
   takes to happen or not.
3. Both directions in one behaviour: the tokens given back on foreign are the reserve
   that later deposits are paid from. `Transfers` treats each direction by itself.

Left out for good: default values and syntax of the configuration, the wording of
errors, logging, RLP and ABI encoding (parts of `config.rs`, `error.rs`, `app.rs`, and
`util.rs`), the deployment scripts, the
truffle token contracts, and the gas limit setters of `bridge.sol`, which store
numbers no code here reads.
