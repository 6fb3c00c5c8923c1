---------------------------- MODULE WithdrawRelay ----------------------------
(***************************************************************************)
(* Withdraws from foreign to home.  Every authority runs                   *)
(*   - a withdraw confirm (bridge/src/bridge/withdraw_confirm.rs): for each *)
(*     Withdraw event of foreign it sends a submitSignature transaction;   *)
(*   - a withdraw relay (withdraw_relay.rs): for each CollectedSignatures  *)
(*     event that makes it responsible it fetches message and signatures   *)
(*     from the foreign contract and sends a HomeBridge.withdraw           *)
(*     transaction.                                                        *)
(* Both record the last block they are done with in one database file      *)
(* (Bridge::poll); a process may stop at any moment, with both streams,    *)
(* and is restarted from that file.                                        *)
(*                                                                         *)
(* The log streams are used as ConfirmedLogs promises; a transaction       *)
(* reported as sent stays at the node until it is executed (NonceCheck).   *)
(* A stream only sees the events of its filter, so a block is known to it  *)
(* by how many of them the chain holds up to that block; blocks without    *)
(* any are left out, and each event is in a block of its own.              *)
(***************************************************************************)
EXTENDS Integers, Sequences, FiniteSets

CONSTANTS
  Authority, RequiredSignatures,
  Account, Recipient, TxHash, Amount, GasPrice,   \* see HomeBridge
  estimatedGasCostOfWithdraw, Word, MaxBalance,
  Message,         \* withdraw messages, one per Withdraw event
  NoSignature,     \* see SignatureCollection
  MaxStops,        \* bound on the stops of all processes together
  Reliable         \* the authorities whose processes are kept running

ASSUME WithdrawAssumption ==
  /\ IsFiniteSet(Authority)
  /\ RequiredSignatures \in 1..Cardinality(Authority)
  /\ NoSignature \notin Authority
  /\ MaxStops \in Nat
  /\ Reliable \subseteq Authority

VARIABLES
  requested,   \* the messages of foreign's Withdraw events, in chain order
  assigned,    \* the <<authority, message>> pairs of its CollectedSignatures
               \* events, in chain order
  submits,     \* <<authority, message>> submitSignature transactions waiting
  relays,      \* withdraw transactions waiting to be executed on home
  relayed,     \* history: <<sender, message>> of those executed or undone
  up,          \* per authority: its process runs
  stops,       \* how many stops there have been
  confirm,     \* per authority: its withdraw confirm
  relay,       \* per authority: its withdraw relay
  checked,     \* per authority: checked_withdraw_confirm and _relay on disk
  messages, signatures, messagesSigned, numMessagesSigned, collected,  \* foreign
  balance, withdraws, received                                         \* home

foreignVars == <<messages, signatures, messagesSigned, numMessagesSigned, collected>>
homeVars == <<balance, withdraws, received>>
logVars == <<requested, assigned>>
poolVars == <<submits, relays, relayed>>
processVars == <<up, stops, confirm, relay, checked>>
vars == <<logVars, poolVars, processVars, foreignVars, homeVars>>

Foreign == INSTANCE SignatureCollection
Home == INSTANCE HomeBridge

ASSUME HomeParametersAssumption == Home!ParametersOK /\ Home!CoinsFit

\* A withdraw transaction: its sender, the signatures it carries, its message.
\* Its gas price is the one the message asks for.
RelayTx == [authority : Authority, message : Message, 
            signers : Seq(Authority \cup {NoSignature})]

\* The streams of a new process: WithdrawConfirm and WithdrawRelay as created
\* from the blocks the database holds.
NewConfirm(block) == [state |-> "Wait", after |-> block, todo |-> {}]
NewRelay(block) == [state |-> "Wait", after |-> block, todo |-> {}, txs |-> {}]

Init ==
  /\ requested = << >> /\ assigned = << >>
  /\ submits = {}
  /\ relays = {} /\ relayed = {}
  /\ up = [a \in Authority |-> TRUE]
  /\ stops = 0
  /\ confirm = [a \in Authority |-> NewConfirm(0)]
  /\ relay = [a \in Authority |-> NewRelay(0)]
  /\ checked = [a \in Authority |-> [confirm |-> 0, relay |-> 0]]
  /\ Foreign!Init
  /\ balance = MaxBalance
  /\ withdraws = {}
  /\ received = [m \in Message |-> Home!Unpaid]

-----------------------------------------------------------------------------
(* The chains.                                                             *)

IsIn(x, log) == \E i \in 1..Len(log) : log[i] = x

\* A holder converts tokens: ForeignBridge.receiveApproval emits Withdraw.
UserWithdraws(m) ==
  /\ ~IsIn(m, requested)
  /\ requested' = Append(requested, m)
  /\ UNCHANGED <<assigned, poolVars, processVars, foreignVars, homeVars>>

\* A submitSignature transaction is mined: it succeeds or is undone.
ForeignExecutes(a, m) ==
  /\ <<a, m>> \in submits
  /\ submits' = submits \ {<<a, m>>}
  /\ \/ /\ Foreign!submitSignature(a, m)
        /\ assigned' = IF Foreign!emitted(a, m) = {} THEN assigned
                       ELSE Append(assigned, <<a, m>>)
     \/ /\ ~Foreign!acceptsSignature(a, m)
        /\ UNCHANGED <<assigned, foreignVars>>
  /\ UNCHANGED <<requested, relays, relayed, processVars, homeVars>>

\* A withdraw transaction is mined: it succeeds or is undone.
HomeExecutes(tx) ==
  /\ relays' = relays \ {tx}
  /\ relayed' = relayed \cup {<<tx.authority, tx.message>>}
  /\ LET m == tx.message IN
     \/ Home!withdraw(tx.authority, GasPrice[m], tx.signers, m)
     \/ /\ ~Home!acceptsWithdraw(tx.authority, GasPrice[m], tx.signers, m)
        /\ UNCHANGED homeVars
  /\ UNCHANGED <<logVars, submits, processVars, foreignVars>>

-----------------------------------------------------------------------------
(* WithdrawConfirm::poll.                                                  *)

Entries(log, from, to) == {log[i] : i \in from..to}

\* Wait: an item of confirmed logs is signed and becomes a batch.
ConfirmWait(a, to) ==
  /\ up[a] /\ confirm[a].state = "Wait"
  /\ to > confirm[a].after
  /\ confirm' = [confirm EXCEPT ![a] =
       [state |-> "ConfirmWithdraws", after |-> to,
        todo |-> Entries(requested, confirm[a].after + 1, to)]]
  /\ UNCHANGED <<logVars, poolVars, up, stops, relay, checked, foreignVars, homeVars>>

\* ConfirmWithdraws: one of the batch's transactions has been accepted.
ConfirmSent(a, m) ==
  /\ up[a] /\ m \in confirm[a].todo
  /\ confirm' = [confirm EXCEPT ![a].todo = @ \ {m}]
  /\ submits' = submits \cup {<<a, m>>}
  /\ UNCHANGED <<logVars, relays, relayed, up, stops, relay, checked,
                 foreignVars, homeVars>>

\* MUTANT: the block is saved as the one of the other stream.
ConfirmDoneSavesRelay(a) ==
  /\ up[a] /\ confirm[a].state = "ConfirmWithdraws" /\ confirm[a].todo = {}
  /\ confirm' = [confirm EXCEPT ![a].state = "Wait"]
  /\ checked' = [checked EXCEPT ![a].relay = confirm[a].after]
  /\ UNCHANGED <<logVars, poolVars, up, stops, relay, foreignVars, homeVars>>

\* ConfirmWithdraws: the batch is complete, Yield, and the database is saved.
ConfirmDone(a) ==
  /\ up[a] /\ confirm[a].state = "ConfirmWithdraws" /\ confirm[a].todo = {}
  /\ confirm' = [confirm EXCEPT ![a].state = "Wait"]
  /\ checked' = [checked EXCEPT ![a].confirm = confirm[a].after]
  /\ UNCHANGED <<logVars, poolVars, up, stops, relay, foreignVars, homeVars>>

-----------------------------------------------------------------------------
(* WithdrawRelay::poll.                                                    *)

\* Wait: the events of an item become assignments to fetch; signatures_payload
\* leaves out those that name another authority.  With none left there is
\* nothing to wait for and the same poll goes on.
RelayWait(a, to) ==
  LET mine == {m \in Message : <<a, m>> \in Entries(assigned, relay[a].after + 1, to)}
  IN /\ up[a] /\ relay[a].state = "Wait"
     /\ to > relay[a].after
     /\ relay' = [relay EXCEPT ![a] =
          [state |-> IF mine = {} THEN "RelayWithdraws" ELSE "FetchMessagesSignatures",
           after |-> to, todo |-> mine, txs |-> {}]]
     /\ UNCHANGED <<logVars, poolVars, up, stops, confirm, checked, foreignVars, homeVars>>

\* MUTANT: indices start with 1.
FetchedTxFromOne(a, m) ==
  [authority |-> a, message |-> m,
   signers |-> [i \in 1..RequiredSignatures |-> signatures[<<m, i>>]]]

\* FetchMessagesSignatures: the foreign contract answers with what it holds
\* now, which a later submitSignature may have overwritten.  An assignment has
\* RequiredSignatures indices.
FetchedTx(a, m) ==
  [authority |-> a, message |-> m,
   signers |-> [i \in 1..RequiredSignatures |-> signatures[<<m, i - 1>>]]]

\* The last answer lets poll make the transactions.
Fetch(a, m) ==
  /\ up[a] /\ relay[a].state = "FetchMessagesSignatures" /\ m \in relay[a].todo
  /\ relay' = [relay EXCEPT
       ![a].state = IF relay[a].todo = {m} THEN "RelayWithdraws" ELSE @,
       ![a].todo = @ \ {m},
       ![a].txs = @ \cup {FetchedTx(a, m)}]
  /\ UNCHANGED <<logVars, poolVars, up, stops, confirm, checked, foreignVars, homeVars>>

\* RelayWithdraws: one of the batch's transactions has been accepted.
RelaySent(a, tx) ==
  /\ up[a] /\ relay[a].state = "RelayWithdraws"
  /\ relay' = [relay EXCEPT ![a].txs = @ \ {tx}]
  /\ relays' = relays \cup {tx}
  /\ UNCHANGED <<logVars, submits, relayed, up, stops, confirm, checked,
                 foreignVars, homeVars>>

\* MUTANT: the block is saved with transactions of the batch still to be sent.
RelayDoneEarly(a) ==
  /\ up[a] /\ relay[a].state = "RelayWithdraws"
  /\ relay' = [relay EXCEPT ![a].state = "Wait", ![a].txs = {}]
  /\ checked' = [checked EXCEPT ![a].relay = relay[a].after]
  /\ UNCHANGED <<logVars, poolVars, up, stops, confirm, foreignVars, homeVars>>

\* RelayWithdraws: the batch is complete, Yield, and the database is saved.
RelayDone(a) ==
  /\ up[a] /\ relay[a].state = "RelayWithdraws" /\ relay[a].txs = {}
  /\ relay' = [relay EXCEPT ![a].state = "Wait"]
  /\ checked' = [checked EXCEPT ![a].relay = relay[a].after]
  /\ UNCHANGED <<logVars, poolVars, up, stops, confirm, foreignVars, homeVars>>

-----------------------------------------------------------------------------
(* Stops: a failing request or save, insufficient funds, an error of        *)
(* another stream, a crash.  A transaction whose answer comes too late is  *)
(* one sent before the stop.                                               *)

Stop(a) ==
  /\ up[a] /\ stops < MaxStops
  /\ up' = [up EXCEPT ![a] = FALSE]
  /\ stops' = stops + 1
  /\ UNCHANGED <<logVars, poolVars, confirm, relay, checked, foreignVars, homeVars>>

\* create_withdraw_confirm and create_withdraw_relay.
Restart(a) ==
  /\ ~up[a]
  /\ up' = [up EXCEPT ![a] = TRUE]
  /\ confirm' = [confirm EXCEPT ![a] = NewConfirm(checked[a].confirm)]
  /\ relay' = [relay EXCEPT ![a] = NewRelay(checked[a].relay)]
  /\ UNCHANGED <<logVars, poolVars, stops, checked, foreignVars, homeVars>>

-----------------------------------------------------------------------------
ConfirmPoll(a) ==
  \/ \E to \in 1..Len(requested) : ConfirmWait(a, to)
  \/ \E m \in Message : ConfirmSent(a, m)
  \/ ConfirmDone(a)

RelayPoll(a) ==
  \/ \E to \in 1..Len(assigned) : RelayWait(a, to)
  \/ \E m \in Message : Fetch(a, m)
  \/ \E tx \in relay[a].txs : RelaySent(a, tx)
  \/ RelayDone(a)

Next ==
  \/ \E m \in Message : UserWithdraws(m)
  \/ \E a \in Authority, m \in Message : ForeignExecutes(a, m)
  \/ \E tx \in relays : HomeExecutes(tx)
  \/ \E a \in Authority : ConfirmPoll(a) \/ RelayPoll(a) \/ Stop(a) \/ Restart(a)

Spec == Init /\ [][Next]_vars

\* Both chains mine what is in their pools; the event loop polls both streams,
\* and the restart script restarts the processes, of the reliable authorities.
Fairness ==
  /\ WF_vars(\E a \in Authority, m \in Message : ForeignExecutes(a, m))
  /\ WF_vars(\E tx \in relays : HomeExecutes(tx))
  /\ \A a \in Reliable :
       WF_vars(ConfirmPoll(a)) /\ WF_vars(RelayPoll(a)) /\ WF_vars(Restart(a))

FairSpec == Spec /\ Fairness

-----------------------------------------------------------------------------
(* Properties.                                                             *)

\* The types of logs, pools, processes and both contracts.
TypeOK ==
  /\ requested \in Seq(Message)
  /\ assigned \in Seq(Authority \X Message)
  /\ submits \subseteq Authority \X Message
  /\ relays \subseteq RelayTx
  /\ relayed \subseteq Authority \X Message
  /\ up \in [Authority -> BOOLEAN]
  /\ stops \in 0..MaxStops
  /\ confirm \in [Authority ->
       [state : {"Wait", "ConfirmWithdraws"}, after : Nat, todo : SUBSET Message]]
  /\ relay \in [Authority ->
       [state : {"Wait", "FetchMessagesSignatures", "RelayWithdraws"},
        after : Nat, todo : SUBSET Message, txs : SUBSET RelayTx]]
  /\ checked \in [Authority -> [confirm : Nat, relay : Nat]]
  /\ Foreign!TypeOK
  /\ Home!TypeOK

HasSigned(a, m) == <<a, m>> \in submits \cup messagesSigned

HasRelayed(a, m) ==
  \/ <<a, m>> \in relayed
  \/ \E tx \in relays : tx.authority = a /\ tx.message = m

\* withdraw_confirm.rs ("All withdraws till given block has been confirmed.")
\* and withdraw_relay.rs: what an authority's database says is checked has been
\* dealt with, wherever the process stopped and however often.  Its signature
\* of every withdraw up to checked_withdraw_confirm is at the foreign node or
\* counted by the contract, and so, on home, is its relay of everything it is
\* responsible for up to checked_withdraw_relay.
CheckedMeansDone ==
  \A a \in Authority :
    /\ \A i \in 1..Len(requested) :
         i <= checked[a].confirm => HasSigned(a, requested[i])
    /\ \A i \in 1..Len(assigned) :
         i <= checked[a].relay /\ assigned[i][1] = a => HasRelayed(a, assigned[i][2])

\* withdraw_relay.rs, FetchMessagesSignatures: although other authorities may
\* overwrite the stored signatures between the event and the calls, every
\* withdraw transaction carries signatures home accepts, for a withdraw a user
\* asked for.  So home undoes one only if the withdraw has been paid already or
\* cannot be paid.
RelaysAreValid ==
  \A tx \in relays :
    /\ Home!hasEnoughValidSignatures(tx.signers)
    /\ IsIn(tx.message, requested)

\* HomeBridge.withdraw under all authorities relaying the same withdraw: coins
\* leave home only for tokens a user locked on foreign, once, and in the amount
\* locked.
PaidIsBacked ==
  /\ Home!PaidExactlyValue
  /\ \A m \in Message : received[m] # Home!Unpaid => IsIn(m, requested)

\* Why they hold.  A batch, with what has been sent, covers everything up to
\* the block its stream has reached.
ConfirmCoversFor(a) ==
  /\ confirm[a].after <= Len(requested) /\ checked[a].confirm <= Len(requested)
  /\ confirm[a].state = "Wait" => confirm[a].todo = {}
  /\ \A m \in confirm[a].todo : IsIn(m, requested)
  /\ \A i \in 1..confirm[a].after :
       requested[i] \in confirm[a].todo \/ HasSigned(a, requested[i])

ConfirmCovers == \A a \in Authority : ConfirmCoversFor(a)

\* The same of a relay: what it is responsible for is to be fetched, fetched,
\* or sent.
RelayCoversFor(a) ==
  /\ relay[a].after <= Len(assigned) /\ checked[a].relay <= Len(assigned)
  /\ relay[a].state # "FetchMessagesSignatures" => relay[a].todo = {}
  /\ relay[a].state = "Wait" => relay[a].txs = {}
  /\ \A m \in relay[a].todo : IsIn(<<a, m>>, assigned)
  /\ \A tx \in relay[a].txs : tx.authority = a
  /\ \A i \in 1..relay[a].after : assigned[i][1] = a =>
       \/ assigned[i][2] \in relay[a].todo
       \/ \E tx \in relay[a].txs : tx.message = assigned[i][2]
       \/ HasRelayed(a, assigned[i][2])

RelayCovers == \A a \in Authority : RelayCoversFor(a)

\* A stored signature is only ever replaced by another authority's.
SignaturesStored ==
  /\ \A a \in Authority, m \in Message :
       numMessagesSigned[<<a, m>>] = IF <<a, m>> \in messagesSigned THEN 1 ELSE 0
  /\ \A a \in Authority, m \in Message :
       <<a, m>> \in messagesSigned => signatures[<<m, 0>>] \in Authority
  /\ \A i \in 1..Len(assigned) :
       RequiredSignatures = 1 /\ assigned[i] \in messagesSigned

\* Only requested withdraws are signed, and only valid relays are made.
SignedAreRequested ==
  \A a \in Authority, m \in Message : HasSigned(a, m) => IsIn(m, requested)

FetchedAreValid ==
  \A a \in Authority : \A tx \in relay[a].txs :
    Home!hasEnoughValidSignatures(tx.signers) /\ IsIn(tx.message, requested)

\* The inductive invariant: the properties with what they rest on.
Inductive ==
  /\ TypeOK
  /\ ConfirmCovers /\ RelayCovers
  /\ SignaturesStored /\ SignedAreRequested /\ FetchedAreValid
  /\ CheckedMeansDone /\ RelaysAreValid /\ PaidIsBacked

\* Seen from its ends: a withdraw locks tokens on foreign, and what recipient and
\* relaying authority receive on home is released.
Locked == {m \in Message : IsIn(m, requested)}
Released == [m \in Message |-> received[m].recipient + received[m].caller]

Promised == INSTANCE Transfers WITH
  Transfer <- Message, Worth <- Amount, locked <- Locked, released <- Released

\* README and withdraw_relay.rs with HomeBridge.withdraw: with every authority
\* relaying, stopping and repeating, the withdraw side implements Transfers.
\* Coins leave home only for tokens a user gave back on foreign, once, and
\* together exactly the amount given back.
ImplementsTransfers == Promised!Spec

relayCost(m) == estimatedGasCostOfWithdraw * GasPrice[m]

\* bridge.sol:502: "An authority will pick up `CollectedSignatures` an call
\* `HomeBridge.withdraw` which transfers `value - relayCost` to the recipient".
\* Every withdraw is paid in the end, as long as one authority keeps running.
EveryWithdrawIsPaid ==
  \A m \in Message :
    IsIn(m, requested)
      ~> received[m] = [recipient |-> Amount[m] - relayCost(m), caller |-> relayCost(m)]
=============================================================================
