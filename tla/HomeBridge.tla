----------------------------- MODULE HomeBridge -----------------------------
(***************************************************************************)
(* contracts/bridge.sol's HomeBridge: it takes deposits and pays out       *)
(* withdraws that enough authorities have signed.  Amounts are words of    *)
(* Word values (2^256 in the EVM) and wrap around, as Solidity 0.4's do.   *)
(* A call that fails is undone as a whole: it is no step.                  *)
(***************************************************************************)
EXTENDS Integers, Sequences, FiniteSets

CONSTANTS
  Authority, RequiredSignatures,
  Account,                  \* callers and recipients
  Message,                  \* the withdraw messages authorities may sign
  Recipient, Amount, TxHash, GasPrice,   \* the fields of each message
  estimatedGasCostOfWithdraw,
  Word,
  MaxBalance                \* bound on the coins in existence

ParametersOK ==
  /\ Authority \subseteq Account
  /\ RequiredSignatures \in Nat \ {0}
  /\ Recipient \in [Message -> Account]
  /\ Word \in Nat \ {0}
  /\ Amount \in [Message -> 0..(Word - 1)]
  /\ GasPrice \in [Message -> 0..(Word - 1)]
  /\ estimatedGasCostOfWithdraw \in 0..(Word - 1)
  /\ MaxBalance \in 0..(Word - 1)

\* There are far fewer coins than a word can count: adding the cost of a
\* withdraw to all of them does not overflow.
CoinsFit ==
  \A m \in Message :
    MaxBalance + estimatedGasCostOfWithdraw * GasPrice[m] < Word

ASSUME HomeAssumption == ParametersOK /\ CoinsFit

VARIABLES
  balance,     \* coins the contract owns
  withdraws,   \* hashes of the foreign transactions already paid
  received     \* history: what recipient and caller got for each message

vars == <<balance, withdraws, received>>

Unpaid == [recipient |-> 0, caller |-> 0]

Init == /\ balance = 0
        /\ withdraws = {}
        /\ received = [m \in Message |-> Unpaid]

\* The payable fallback function: emits Deposit.
fallback(value) ==
  /\ balance + value <= MaxBalance
  /\ balance' = balance + value
  /\ UNCHANGED <<withdraws, received>>

\* MUTANT: duplicates are not looked for.
hasEnoughSignatures(signers) ==
  /\ Len(signers) >= RequiredSignatures
  /\ \A i \in 1..RequiredSignatures : signers[i] \in Authority

\* Helpers.hasEnoughValidSignatures: the first requiredSignatures entries are
\* by different authorities.
hasEnoughValidSignatures(signers) ==
  /\ Len(signers) >= RequiredSignatures
  /\ \A i \in 1..RequiredSignatures :
       /\ signers[i] \in Authority
       /\ \A j \in 1..(i - 1) : signers[j] # signers[i]

cost(m) == (estimatedGasCostOfWithdraw * GasPrice[m]) % Word

\* MUTANT: the recipient is not charged for the relay.
remainingUncharged(m) == Amount[m]

remaining(m) == (Amount[m] - cost(m)) % Word   \* unchecked subtraction

\* MUTANT: a foreign transaction hash may be used again.
acceptsWithdrawAgain(caller, gasprice, signers, m) ==
  /\ hasEnoughValidSignatures(signers)
  /\ Recipient[m] = caller \/ gasprice = GasPrice[m]
  /\ remaining(m) <= balance
  /\ cost(m) <= balance - remaining(m)

acceptsWithdraw(caller, gasprice, signers, m) ==
  /\ hasEnoughValidSignatures(signers)
  /\ Recipient[m] = caller \/ gasprice = GasPrice[m]
  /\ TxHash[m] \notin withdraws
  /\ remaining(m) <= balance                \* recipient.transfer
  /\ cost(m) <= balance - remaining(m)      \* msg.sender.transfer

withdraw(caller, gasprice, signers, m) ==
  /\ acceptsWithdraw(caller, gasprice, signers, m)
  /\ withdraws' = withdraws \cup {TxHash[m]}
  /\ balance' = balance - remaining(m) - cost(m)
  /\ received' = [received EXCEPT ![m] =
                    [recipient |-> @.recipient + remaining(m),
                     caller |-> @.caller + cost(m)]]

\* Anyone may call withdraw with any signatures that exist; one more than
\* required shows what the code makes of surplus ones.
Signatures == UNION {[1..n -> Account] : n \in 0..(RequiredSignatures + 1)}

Next ==
  \/ \E value \in 1..MaxBalance : fallback(value)
  \/ \E caller \in Account, m \in Message, signers \in Signatures :
       \E gasprice \in {0, GasPrice[m]} : withdraw(caller, gasprice, signers, m)

Spec == Init /\ [][Next]_vars

-----------------------------------------------------------------------------
(* Properties.                                                             *)

\* The types; the contract's balance stays within the coins there are.
TypeOK ==
  /\ balance \in 0..MaxBalance
  /\ withdraws \subseteq {TxHash[m] : m \in Message}
  /\ received \in [Message -> [recipient : Nat, caller : Nat]]

\* HomeBridge.withdraw: although `value - cost' wraps around, a message is
\* either not paid or paid once, and then recipient and relaying authority
\* together get exactly its value; of messages with the same foreign
\* transaction hash at most one is paid.
PaidExactlyValue ==
  \A m \in Message :
    \/ received[m] = Unpaid
    \/ /\ received[m].recipient + received[m].caller = Amount[m]
       /\ TxHash[m] \in withdraws
       /\ \A n \in Message \ {m} : TxHash[n] = TxHash[m] => received[n] = Unpaid

\* The different authorities among the signers.
Authorities(signers) == {signers[i] : i \in 1..Len(signers)} \cap Authority

\* HomeBridge.withdraw: whoever calls it with whatever signatures, no coins
\* leave without signatures of as many different authorities as are required.
QuorumNeeded ==
  \A caller \in Account, m \in Message, signers \in Signatures :
    acceptsWithdraw(caller, GasPrice[m], signers, m)
      => Cardinality(Authorities(signers)) >= RequiredSignatures
=============================================================================
