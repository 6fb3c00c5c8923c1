-------------------------- MODULE ValidatedBridges --------------------------
(***************************************************************************)
(* The truffle contracts of one of the two chains.  Each chain has a       *)
(* BridgeValidators contract of its own and one bridge contract that calls *)
(* it, and no step of one chain touches the other: a behaviour is about    *)
(* one chain.  What comes from the other chain, the deposits and the       *)
(* signed messages, is arbitrary.                                          *)
(***************************************************************************)
EXTENDS ValidatedForeignBridge

CONSTANTS
  HomeMessage, HomeValue, TransactionHash, MaxSignatures

ASSUME HomeAssumption ==
  /\ HomeValue \in [HomeMessage -> Nat]
  /\ DOMAIN TransactionHash = HomeMessage
  /\ MaxSignatures \in Nat

VARIABLES chain, withdraws, payments

Home == INSTANCE ValidatedHomeBridge WITH
          Message <- HomeMessage, Value <- HomeValue

chainVars == <<vars, chain, withdraws, payments>>

InitChain ==
  /\ Init
  /\ chain \in {"home", "foreign"}
  /\ Home!InitHome

OnForeign == Next /\ UNCHANGED <<withdraws, payments>>

OnHome ==
  /\ \/ Home!HomeStep
     \/ /\ OwnerStep /\ changes' <= MaxChanges
        /\ UNCHANGED <<validatorContract, balance, withdraws, payments>>
  /\ UNCHANGED <<deposits, signatures, paid, collected>>

NextChain ==
  /\ \/ chain = "foreign" /\ OnForeign
     \/ chain = "home" /\ OnHome
  /\ UNCHANGED chain

SpecChain == InitChain /\ [][NextChain]_chainVars

-----------------------------------------------------------------------------
(* What ValidatedHomeBridge promises: a quorum of the validators in office *)
(* for every withdraw, and one withdraw per foreign transaction            *)
(* (truffle/contracts/HomeBridge.sol:71-90).                               *)
WithdrawnOnceByQuorum == Home!WithdrawnOnceByQuorum

-----------------------------------------------------------------------------
(* Why this and the promises of the contracts used here hold.              *)

\* A validator is in the array; without validators nothing is confirmed.
StatusInArray ==
  /\ validatorStatus \subseteq Range(validators)
  /\ ~initialized => /\ validatorStatus = {}
                     /\ \A d \in Deposit : deposits[d] = <<>> /\ paid[d] = 0
                     /\ \A m \in Message : /\ signatures[m].signatures = <<>>
                                           /\ collected[m] = 0

\* No validator is counted twice, so that the length of an array is the number
\* of those in it.
SignersDiffer ==
  /\ \A d \in Deposit : IsInjective(deposits[d])
  /\ \A m \in Message : /\ IsInjective(signatures[m].signed)
                        /\ signatures[m].signatures = signatures[m].signed

\* Every foreign transaction that was paid for is marked.
PaidIsMarked ==
  /\ payments \in Seq([message : HomeMessage, required : Nat, signed : Nat])
  /\ \A i \in DOMAIN payments : TransactionHash[payments[i].message] \in withdraws

\* The inductive invariant of a chain.
Inductive ==
  /\ TypeOK /\ StatusInArray /\ SignersDiffer /\ PaidIsMarked
  /\ RequirementInReach /\ PaidOnceAtFixedRequirement
  /\ CollectedHasSignatures /\ WithdrawnOnceByQuorum
=============================================================================
