----------------------- MODULE ValidatedForeignBridge -----------------------
(***************************************************************************)
(* truffle/contracts/ForeignBridge.sol, the foreign contract whose         *)
(* validators and requirement are those of a BridgeValidators contract.    *)
(* A call whose requirements fail, or whose transfer fails, changes        *)
(* nothing and is no step.  A signature is identified with its signer.     *)
(***************************************************************************)
EXTENDS BridgeValidators

CONSTANTS
  Deposit,            \* values of keccak256(recipient, value, transactionHash)
  Value,              \* the value of each deposit
  Message,
  MaxBalance,         \* bound on the contract's ether
  MaxChanges          \* bound on changes of the requirement

ASSUME ForeignAssumption ==
  /\ Value \in [Deposit -> Nat]
  /\ MaxBalance \in Nat /\ MaxChanges \in Nat

VARIABLES
  validatorContract,   \* initialize has been called
  deposits,            \* per deposit: the validators who confirmed it
  signatures,          \* per message: SignaturesCollection
  balance,
  paid,                \* history: how often each deposit was paid
  collected            \* history: CollectedSignatures events of each message

bridgeVars == <<validatorContract, deposits, signatures, balance, paid, collected>>
vars == <<validatorVars, bridgeVars>>

Init ==
  /\ InitValidators
  /\ validatorContract = FALSE
  /\ deposits = [d \in Deposit |-> <<>>]
  /\ signatures = [m \in Message |-> [signed |-> <<>>, signatures |-> <<>>]]
  /\ balance = 0
  /\ paid = [d \in Deposit |-> 0]
  /\ collected = [m \in Message |-> 0]

initializeBridge ==
  /\ ~validatorContract
  /\ validatorContract' = TRUE
  /\ UNCHANGED <<validatorVars, deposits, signatures, balance, paid, collected>>

onlyValidator(a) == validatorContract /\ isValidator(a)

\* The fallback function: ether for the bridge, announced as a withdraw.
fallback(value) ==
  /\ value > 0 /\ balance + value <= MaxBalance
  /\ balance' = balance + value
  /\ UNCHANGED <<validatorVars, validatorContract, deposits, signatures, paid,
                 collected>>

\* MUTANT: the loop starts with the second entry.
addressArrayContainsLater(array, a) == \E i \in 2..Len(array) : array[i] = a

\* Helpers.addressArrayContains
addressArrayContains(array, a) == \E i \in DOMAIN array : array[i] = a

\* MUTANT: every confirmation from the requirement on pays.
reachedAtLeast(array) == Len(array) >= requiredSignatures

\* The length after the push is compared with ==.
reached(array) == Len(array) = requiredSignatures

\* MUTANT: send instead of transfer, and its result is not looked at.
sendUnchecked(d) ==
  IF Value[d] <= balance
  THEN balance' = balance - Value[d] /\ paid' = [paid EXCEPT ![d] = @ + 1]
  ELSE UNCHANGED <<balance, paid>>

\* recipient.transfer(value): without enough ether the call is undone.
transfer(d) ==
  /\ Value[d] <= balance
  /\ balance' = balance - Value[d]
  /\ paid' = [paid EXCEPT ![d] = @ + 1]

deposit(a, d) ==
  LET confirmed == Append(deposits[d], a) IN
  /\ onlyValidator(a)
  /\ ~addressArrayContains(deposits[d], a)
  /\ deposits' = [deposits EXCEPT ![d] = confirmed]
  /\ IF reached(confirmed)
     THEN transfer(d)
     ELSE UNCHANGED <<balance, paid>>
  /\ UNCHANGED <<validatorVars, validatorContract, signatures, collected>>

\* The signature is the sender's, as recoverAddressFromSignedMessage makes sure.
submitSignature(a, m) ==
  LET s == signatures[m]
      new == [signed |-> Append(s.signed, a), signatures |-> Append(s.signatures, a)]
  IN
  /\ onlyValidator(a)
  /\ ~addressArrayContains(s.signed, a)
  /\ signatures' = [signatures EXCEPT ![m] = new]
  /\ collected' = [collected EXCEPT ![m] = IF reached(new.signed) THEN @ + 1 ELSE @]
  /\ UNCHANGED <<validatorVars, validatorContract, deposits, balance, paid>>

Next ==
  \/ OwnerStep /\ changes' <= MaxChanges /\ UNCHANGED bridgeVars
  \/ initializeBridge
  \/ \E value \in 1..MaxBalance : fallback(value)
  \/ \E a \in Address :
       \/ \E d \in Deposit : deposit(a, d)
       \/ \E m \in Message : submitSignature(a, m)

Spec == Init /\ [][Next]_vars

-----------------------------------------------------------------------------
(* Properties.                                                             *)

(* Every variable has its type; in particular the balance never falls      *)
(* below zero (ForeignBridge.sol:104).                                     *)
TypeOK ==
  /\ TypeOKValidators
  /\ validatorContract \in BOOLEAN
  /\ deposits \in [Deposit -> Seq(Address)]
  /\ signatures \in
       [Message -> [signed : Seq(Address), signatures : Seq(Address)]]
  /\ balance \in 0..MaxBalance
  /\ paid \in [Deposit -> Nat]
  /\ collected \in [Message -> Nat]

(* A deposit is paid exactly once, when as many different validators have  *)
(* confirmed it as are required, although validators come and go in        *)
(* between; provided the requirement never changes (ForeignBridge.sol:102). *)
PaidOnceAtFixedRequirement ==
  initialized /\ changes = 0 =>
    \A d \in Deposit :
      paid[d] = IF Cardinality(Range(deposits[d])) >= requiredSignatures
                THEN 1 ELSE 0

(* At a fixed requirement CollectedSignatures is emitted exactly once for a *)
(* message, and then the signatures 0 .. requiredSignatures - 1, which the *)
(* relay fetches (withdraw_relay.rs:150-166), are there and by different   *)
(* signers (ForeignBridge.sol:114-138).                                    *)
CollectedHasSignatures ==
  initialized /\ changes = 0 =>
    \A m \in Message :
      LET s == signatures[m].signatures IN
      /\ collected[m] = IF Len(s) >= requiredSignatures THEN 1 ELSE 0
      /\ IsInjective(s)

(* "mainnet transaction hash (bytes32) // to avoid transaction             *)
(* duplication" (ForeignBridge.sol:89): no deposit is paid twice.          *)
NeverPaidTwice == \A d \in Deposit : paid[d] <= 1
=============================================================================
