-------------------------- MODULE BridgeValidators --------------------------
(***************************************************************************)
(* truffle/contracts/BridgeValidators.sol: the validators of one chain and *)
(* the number of their signatures that is required, both changed by the    *)
(* owner while the bridge works.  A removed validator stays in the array,  *)
(* only its status is cleared; added again it is in the array twice.       *)
(***************************************************************************)
EXTENDS Integers, Sequences, FiniteSets, Functions

CONSTANTS
  Address, ZeroAddress,
  MaxValidators       \* bound on the length of the array

ASSUME ValidatorsAssumption ==
  /\ IsFiniteSet(Address)
  /\ ZeroAddress \in Address
  /\ MaxValidators \in Nat

VARIABLES
  initialized,
  validators,          \* the array
  validatorStatus,     \* the addresses whose status is true
  requiredSignatures,
  changes              \* history: how often the requirement was changed

validatorVars ==
  <<initialized, validators, validatorStatus, requiredSignatures, changes>>

InitValidators ==
  /\ initialized = FALSE
  /\ validators = <<>>
  /\ validatorStatus = {}
  /\ requiredSignatures = 0
  /\ changes = 0

isValidator(a) == a \in validatorStatus

\* Entries of the array whose address is a validator.
validatorCount == Cardinality({i \in DOMAIN validators : isValidator(validators[i])})

initialize(required, initial) ==
  /\ ~initialized
  /\ required # 0
  /\ Len(initial) >= required
  /\ ZeroAddress \notin Range(initial)
  /\ validators' = initial
  /\ validatorStatus' = Range(initial)
  /\ requiredSignatures' = required
  /\ initialized' = TRUE
  /\ UNCHANGED changes

\* onlyOwner: there is no owner before initialize.
addValidator(a) ==
  /\ initialized
  /\ Len(validators) < MaxValidators
  /\ a # ZeroAddress
  /\ ~isValidator(a)
  /\ validators' = Append(validators, a)
  /\ validatorStatus' = validatorStatus \cup {a}
  /\ UNCHANGED <<initialized, requiredSignatures, changes>>

\* MUTANT: one validator fewer than required may be left.
mayRemoveOneMore == validatorCount >= requiredSignatures

mayRemove == validatorCount > requiredSignatures

removeValidator(a) ==
  /\ initialized
  /\ mayRemove
  /\ isValidator(a)
  /\ validatorStatus' = validatorStatus \ {a}
  /\ UNCHANGED <<initialized, validators, requiredSignatures, changes>>

setRequiredSignatures(required) ==
  /\ initialized
  /\ validatorCount >= required
  /\ required # 0
  /\ requiredSignatures' = required
  /\ changes' = IF required = requiredSignatures THEN changes ELSE changes + 1
  /\ UNCHANGED <<initialized, validators, validatorStatus>>

OwnerStep ==
  \/ \E n \in 1..MaxValidators, k \in 0..MaxValidators :
       \E initial \in [1..n -> Address] : initialize(k, initial)
  \/ \E a \in Address : addValidator(a) \/ removeValidator(a)
  \/ \E k \in 0..MaxValidators : setRequiredSignatures(k)

-----------------------------------------------------------------------------
(* The types of the contract's storage; the zero address, which ecrecover  *)
(* returns for a bad signature, is never a validator.                      *)
TypeOKValidators ==
  /\ initialized \in BOOLEAN
  /\ validators \in Seq(Address) /\ Len(validators) <= MaxValidators
  /\ validatorStatus \in SUBSET (Address \ {ZeroAddress})
  /\ requiredSignatures \in 0..MaxValidators
  /\ changes \in Nat

\* No address was given twice to initialize or added again after its removal.
NoRepeats == IsInjective(validators)

(* However validators are removed, added and the requirement changed       *)
(* (BridgeValidators.sol:63-83), there are as many validators as signatures *)
(* are required, as long as no address is in the array twice.  (With       *)
(* repeats validatorCount counts one address several times and this fails.) *)
RequirementInReach ==
  initialized /\ NoRepeats => Cardinality(validatorStatus) >= requiredSignatures
=============================================================================
