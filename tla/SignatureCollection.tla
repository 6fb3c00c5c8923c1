------------------------ MODULE SignatureCollection ------------------------
(***************************************************************************)
(* The signature side of contracts/bridge.sol's ForeignBridge: authorities *)
(* submit their signatures of withdraw messages, the contract stores them  *)
(* and announces by CollectedSignatures that there are enough.  signature  *)
(* and message give the relaying authority what it needs for home.         *)
(*                                                                         *)
(* keccak256 is taken to be injective: num_messages_signed, keyed by the   *)
(* hash of sender and message, is a map from <<sender, message>>, and      *)
(* signatures one from <<message, index>>.  A signature is represented by  *)
(* its signer.                                                             *)
(***************************************************************************)
EXTENDS Integers, FiniteSets

CONSTANTS Authority, RequiredSignatures, Message, NoSignature

VARIABLES
  messages,            \* the messages stored
  signatures,          \* the signer of the signature stored at each index
  messagesSigned,      \* messages_signed: the <<sender, message>> set
  numMessagesSigned,   \* num_messages_signed, per <<sender, message>>
  collected            \* the CollectedSignatures events emitted

vars == <<messages, signatures, messagesSigned, numMessagesSigned, collected>>

\* The indices a relay asks for, and one beyond them.
Index == 0..RequiredSignatures

CollectedSignatures == [authority : Authority, message : Message, count : Nat]

Init ==
  /\ messages = {}
  /\ signatures = [i \in Message \X Index |-> NoSignature]
  /\ messagesSigned = {}
  /\ numMessagesSigned = [s \in Authority \X Message |-> 0]
  /\ collected = {}

\* `signed' counts the submissions of this sender for this message.
signed(a, m) == numMessagesSigned[<<a, m>>] + 1

acceptsSignature(a, m) == signed(a, m) > 1 => <<a, m>> \notin messagesSigned

event(a, m) == [authority |-> a, message |-> m, count |-> signed(a, m)]

\* CollectedSignatures is emitted when `signed' is the number required.
emitted(a, m) ==
  IF signed(a, m) = RequiredSignatures THEN {event(a, m)} ELSE {}

submitSignature(a, m) ==
  /\ acceptsSignature(a, m)
  /\ messages' = IF signed(a, m) > 1 THEN messages ELSE messages \cup {m}
  /\ messagesSigned' = messagesSigned \cup {<<a, m>>}
  /\ signatures' = [signatures EXCEPT ![<<m, signed(a, m) - 1>>] = a]
  /\ numMessagesSigned' = [numMessagesSigned EXCEPT ![<<a, m>>] = signed(a, m)]
  /\ collected' = collected \cup emitted(a, m)

Next == \E a \in Authority, m \in Message : submitSignature(a, m)

Spec == Init /\ [][Next]_vars

-----------------------------------------------------------------------------
(* Properties.                                                             *)

\* No sender gets past its first signature of a message, so nothing is ever
\* stored at an index above 0.
TypeOK ==
  /\ messages \subseteq Message
  /\ signatures \in [Message \X Index -> Authority \cup {NoSignature}]
  /\ messagesSigned \subseteq Authority \X Message
  /\ numMessagesSigned \in [Authority \X Message -> 0..1]
  /\ collected \subseteq CollectedSignatures

Signers(m) == {a \in Authority : <<a, m>> \in messagesSigned}

\* bridge.sol:500: "Once `requiredSignatures` are collected a
\* `CollectedSignatures` event will be emitted."
CollectedWhenEnough ==
  \A m \in Message :
    Cardinality(Signers(m)) >= RequiredSignatures
      => \E e \in collected : e.message = m
=============================================================================
