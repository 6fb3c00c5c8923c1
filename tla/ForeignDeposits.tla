-------------------------- MODULE ForeignDeposits --------------------------
(***************************************************************************)
(* The token side of contracts/bridge.sol's ForeignBridge: authorities     *)
(* vote for the ERC20 token to use and confirm deposits made on home; the  *)
(* confirmation that completes the quorum transfers tokens to the          *)
(* recipient.  Holders convert tokens back by approveAndCall.  A call that *)
(* a `require' or the token rejects is undone as a whole: it is no step.   *)
(*                                                                         *)
(* keccak256(recipient, value, transactionHash) is taken to be injective,  *)
(* so a deposit is identified with that hash.                              *)
(***************************************************************************)
EXTENDS Integers, FiniteSets

CONSTANTS
  Authority,            \* ForeignBridge.authorities
  RequiredSignatures,   \* ForeignBridge.requiredSignatures
  Token, NoToken,       \* ERC20 contracts, and address 0
  Deposit,              \* the values of hash_msg
  Value,                \* the value each of them carries
  MaxReserve            \* bound on the tokens the bridge owns

\* The constructor's requirements, and finitely many authorities.
ASSUME ForeignAssumption ==
  /\ IsFiniteSet(Authority)
  /\ RequiredSignatures \in 1..Cardinality(Authority)
  /\ NoToken \notin Token
  /\ Value \in [Deposit -> Nat]
  /\ MaxReserve \in Nat

VARIABLES
  tokenVotes,      \* tokenAddressAprroval_signs: the <<sender, token>> set
  numTokenVotes,   \* num_tokenAddressAprroval_signs
  erc20token,      \* the token in use
  depositsSigned,  \* deposits_signed: the <<sender, deposit>> set
  numDepositsSigned,
  reserve,         \* tokens of each ERC20 contract that the bridge owns
  paid             \* history: how often each deposit has been paid out

tokenVars == <<tokenVotes, numTokenVotes, erc20token>>
depositVars == <<depositsSigned, numDepositsSigned, paid>>
foreignVars == <<tokenVars, depositVars, reserve>>

InitForeign ==
  /\ tokenVotes = {}
  /\ numTokenVotes = [k \in Token |-> 0]
  /\ erc20token = NoToken
  /\ depositsSigned = {}
  /\ numDepositsSigned = [d \in Deposit |-> 0]
  /\ reserve = [k \in Token |-> 0]
  /\ paid = [d \in Deposit |-> 0]

\* MUTANT: an authority may vote for a token again.
mayVoteAgain(a, token) == numTokenVotes[token] < RequiredSignatures

mayVote(a, token) == <<a, token>> \notin tokenVotes

setTokenAddress(a, token) ==
  /\ mayVote(a, token)
  /\ tokenVotes' = tokenVotes \cup {<<a, token>>}
  /\ numTokenVotes' = [numTokenVotes EXCEPT ![token] = @ + 1]
  /\ erc20token' = IF numTokenVotes[token] + 1 = RequiredSignatures
                     THEN token ELSE erc20token
  /\ UNCHANGED <<depositVars, reserve>>

\* MUTANT: every confirmation from the quorum on pays.
paysFromQuorumOn(d) == numDepositsSigned[d] + 1 >= RequiredSignatures

\* The confirmation that completes the quorum pays; the token contract's
\* transfer asserts that the bridge owns enough.
pays(d) == numDepositsSigned[d] + 1 = RequiredSignatures

accepts(a, d) ==
  /\ erc20token # NoToken
  /\ <<a, d>> \notin depositsSigned
  /\ pays(d) => reserve[erc20token] >= Value[d]

deposit(a, d) ==
  /\ accepts(a, d)
  /\ depositsSigned' = depositsSigned \cup {<<a, d>>}
  /\ numDepositsSigned' = [numDepositsSigned EXCEPT ![d] = @ + 1]
  /\ IF pays(d)
       THEN /\ reserve' = [reserve EXCEPT ![erc20token] = @ - Value[d]]
            /\ paid' = [paid EXCEPT ![d] = @ + 1]
       ELSE UNCHANGED <<reserve, paid>>
  /\ UNCHANGED tokenVars

\* A holder calls approveAndCall: the token calls receiveApproval, which takes
\* the tokens and emits Withdraw.  A plain transfer to the bridge, with which
\* its operators fund it, changes no more than this does.
receiveApproval(token, value) ==
  /\ erc20token # NoToken
  /\ token = erc20token
  /\ reserve[token] + value <= MaxReserve
  /\ reserve' = [reserve EXCEPT ![token] = @ + value]
  /\ UNCHANGED <<tokenVars, depositVars>>

\* Tokens sent to the bridge without telling it.
transferToBridge(token, value) ==
  /\ reserve[token] + value <= MaxReserve
  /\ reserve' = [reserve EXCEPT ![token] = @ + value]
  /\ UNCHANGED <<tokenVars, depositVars>>

NextForeign ==
  \/ \E a \in Authority, token \in Token : setTokenAddress(a, token)
  \/ \E a \in Authority, d \in Deposit : deposit(a, d)
  \/ \E token \in Token, value \in 1..MaxReserve :
       receiveApproval(token, value) \/ transferToBridge(token, value)

SpecForeign == InitForeign /\ [][NextForeign]_foreignVars

-----------------------------------------------------------------------------
(* Properties.                                                             *)

\* The types; the tokens the bridge owns never become negative.
TypeOKForeign ==
  /\ tokenVotes \subseteq Authority \X Token
  /\ numTokenVotes \in [Token -> Nat]
  /\ erc20token \in Token \cup {NoToken}
  /\ depositsSigned \subseteq Authority \X Deposit
  /\ numDepositsSigned \in [Deposit -> Nat]
  /\ reserve \in [Token -> Nat]
  /\ paid \in [Deposit -> Nat]

Signers(d) == {a \in Authority : <<a, d>> \in depositsSigned}
Voters(token) == {a \in Authority : <<a, token>> \in tokenVotes}

\* ForeignBridge.deposit: a deposit is paid when, and only when, a quorum of
\* different authorities has confirmed it, and then once: not again by a late
\* confirmation, and not at all by one undone for lack of tokens.
PaidOnceByQuorum ==
  \A d \in Deposit :
    paid[d] = IF Cardinality(Signers(d)) >= RequiredSignatures THEN 1 ELSE 0

\* ForeignBridge.setTokenAddress: the token in use was voted for by a quorum of
\* different authorities.
TokenByQuorum ==
  erc20token # NoToken => Cardinality(Voters(erc20token)) >= RequiredSignatures

\* Why they hold: the contract's counters count the authorities in its maps.
InductiveForeign ==
  /\ TypeOKForeign
  /\ \A d \in Deposit : numDepositsSigned[d] = Cardinality(Signers(d))
  /\ \A token \in Token : numTokenVotes[token] = Cardinality(Voters(token))
  /\ PaidOnceByQuorum
  /\ TokenByQuorum
=============================================================================
