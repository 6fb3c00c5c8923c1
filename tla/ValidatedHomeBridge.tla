------------------------ MODULE ValidatedHomeBridge ------------------------
(***************************************************************************)
(* truffle/contracts/HomeBridge.sol, the home contract whose validators    *)
(* and requirement are those of home's own BridgeValidators contract at    *)
(* the time of the withdraw, whatever they were when the validators of     *)
(* foreign signed.  Anyone may call withdraw with any signatures.  A       *)
(* signature is identified with its signer, a bad one with the zero        *)
(* address, as ecrecover does.  A call that fails is no step.              *)
(***************************************************************************)
EXTENDS BridgeValidators

CONSTANTS
  Message,
  Value,              \* getValue of each message
  TransactionHash,    \* getTransactionHash of each message
  MaxBalance,         \* bound on the contract's ether
  MaxSignatures       \* bound on the signatures given to withdraw

VARIABLES
  validatorContract,   \* initialize has been called
  balance,
  withdraws,           \* the used foreign transaction hashes
  payments             \* history: the message of each withdraw, how many
                       \* validators in office had signed it, and how many
                       \* signatures were required

InitHome ==
  /\ validatorContract = FALSE
  /\ balance = 0
  /\ withdraws = {}
  /\ payments = <<>>

initializeHome ==
  /\ ~validatorContract
  /\ validatorContract' = TRUE
  /\ UNCHANGED <<validatorVars, balance, withdraws, payments>>

fallbackHome(value) ==
  /\ value > 0 /\ balance + value <= MaxBalance
  /\ balance' = balance + value
  /\ UNCHANGED <<validatorVars, validatorContract, withdraws, payments>>

\* MUTANT: repeated signatures count.
hasEnoughSignatures(signers) ==
  /\ Len(signers) >= requiredSignatures
  /\ \A i \in 1..requiredSignatures : isValidator(signers[i])

\* Message.hasEnoughValidSignatures: the first requiredSignatures entries are
\* of different validators; those after them are not looked at.
hasEnoughValidSignatures(signers) ==
  /\ Len(signers) >= requiredSignatures
  /\ \A i \in 1..requiredSignatures :
       /\ isValidator(signers[i])
       /\ \A j \in 1..(i - 1) : signers[j] # signers[i]

withdraw(signers, m) ==
  /\ validatorContract
  /\ hasEnoughValidSignatures(signers)
  /\ TransactionHash[m] \notin withdraws
  /\ withdraws' = withdraws \cup {TransactionHash[m]}
  /\ Value[m] <= balance
  /\ balance' = balance - Value[m]
  /\ payments' = Append(payments,
       [message |-> m, required |-> requiredSignatures,
        signed |-> Cardinality(Range(signers) \cap validatorStatus)])
  /\ UNCHANGED <<validatorVars, validatorContract>>

HomeStep ==
  \/ initializeHome
  \/ \E value \in 1..MaxBalance : fallbackHome(value)
  \/ \E n \in 0..MaxSignatures, m \in Message :
       \E signers \in [1..n -> Address] : withdraw(signers, m)

-----------------------------------------------------------------------------
(* Properties.                                                             *)

(* A withdraw is paid only if validators that hold the office when it is    *)
(* paid, as many different ones as are then required, signed the message,   *)
(* although validators and requirement change between signing and paying    *)
(* (helpers.sol:135-155); and of the messages of one foreign transaction    *)
(* only one is ever paid (HomeBridge.sol:81-84).                            *)
WithdrawnOnceByQuorum ==
  /\ \A i \in DOMAIN payments : payments[i].signed >= payments[i].required
  /\ \A i, j \in DOMAIN payments :
       TransactionHash[payments[i].message] = TransactionHash[payments[j].message]
         => i = j
=============================================================================
