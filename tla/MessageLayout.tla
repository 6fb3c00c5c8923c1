--------------------------- MODULE MessageLayout ---------------------------
(***************************************************************************)
(* The bytes of a withdraw message and of a signature.  The program writes *)
(* and reads them (message_to_mainnet.rs, signature.rs), the contracts     *)
(* read them by the position of a 32-byte word in memory (libraries        *)
(* Message and MessageSigning of contracts/bridge.sol).  Addresses and     *)
(* numbers are sequences of bytes, the most significant one first; their   *)
(* lengths, 20 and 32 in the code, are parameters, and an offset of the    *)
(* code stands for the sum it comes from.                                  *)
(***************************************************************************)
EXTENDS Integers, Sequences

CONSTANTS
  AddressLength,   \* 20
  WordLength,      \* 32
  ByteValues       \* 256

ASSUME LayoutAssumption ==
  /\ AddressLength \in Nat \ {0}
  /\ WordLength \in Nat /\ WordLength >= AddressLength
  /\ ByteValues \in Nat \ {0}

Bytes(n) == [1..n -> 0..(ByteValues - 1)]
Address == Bytes(AddressLength)
H256 == Bytes(WordLength)

MessageToMainnet ==
  [recipient : Address, value : H256, sidenet_transaction_hash : H256,
   mainnet_gas_price : H256]
Signature == [v : 0..(ByteValues - 1), r : H256, s : H256]

\* bytes[from..to]
Slice(bytes, from, to) == [i \in 1..(to - from) |-> bytes[from + i]]

-----------------------------------------------------------------------------
(* The program.                                                            *)

\* Where the fields begin, and the length of it all: 20, 52, 84, 116.
ValueAt == AddressLength
HashAt == AddressLength + WordLength
PriceAt == AddressLength + 2 * WordLength
MESSAGE_LENGTH == AddressLength + 3 * WordLength

to_bytes(m) ==
  [i \in 1..MESSAGE_LENGTH |->
     IF i <= ValueAt THEN m.recipient[i]
     ELSE IF i <= HashAt THEN m.value[i - ValueAt]
     ELSE IF i <= PriceAt THEN m.sidenet_transaction_hash[i - HashAt]
     ELSE m.mainnet_gas_price[i - PriceAt]]

from_bytes(bytes) ==
  [recipient |-> Slice(bytes, 0, ValueAt),
   value |-> Slice(bytes, ValueAt, HashAt),
   sidenet_transaction_hash |-> Slice(bytes, HashAt, PriceAt),
   mainnet_gas_price |-> Slice(bytes, PriceAt, MESSAGE_LENGTH)]

SIGNATURE_LENGTH == 2 * WordLength + 1

signature_to_bytes(sig) ==
  [i \in 1..SIGNATURE_LENGTH |->
     IF i <= WordLength THEN sig.r[i]
     ELSE IF i <= 2 * WordLength THEN sig.s[i - WordLength]
     ELSE sig.v]

signature_from_bytes(bytes) ==
  [v |-> bytes[SIGNATURE_LENGTH],
   r |-> Slice(bytes, 0, WordLength),
   s |-> Slice(bytes, WordLength, 2 * WordLength)]

-----------------------------------------------------------------------------
(* The contracts.                                                          *)

WordOf(n) ==
  [i \in 1..WordLength |-> (n \div ByteValues^(WordLength - i)) % ByteValues]

\* A bytes value in memory: a word with its length, then the bytes.  What
\* follows them is not part of it.
byteAt(bytes, i) ==
  IF i <= WordLength THEN WordOf(Len(bytes))[i]
  ELSE IF i <= WordLength + Len(bytes) THEN bytes[i - WordLength] ELSE 0

\* mload(add(bytes, offset))
mload(bytes, offset) == [i \in 1..WordLength |-> byteAt(bytes, offset + i)]

\* MUTANT: the recipient is read from where the message begins.
getRecipientAt32(message) ==
  Slice(mload(message, WordLength), WordLength - AddressLength, WordLength)

\* Message.getRecipient reads at 20 to have the address in the last 20 bytes of
\* the word; those before it, the end of the length, are no part of an address.
getRecipient(message) ==
  Slice(mload(message, AddressLength), WordLength - AddressLength, WordLength)

\* Message.getValue, getTransactionHash and getHomeGasPrice: 52, 84, 116.
getValue(message) == mload(message, AddressLength + WordLength)
getTransactionHash(message) == mload(message, AddressLength + 2 * WordLength)
getHomeGasPrice(message) == mload(message, AddressLength + 3 * WordLength)

\* MessageSigning.recoverAddressFromSignedMessage: v is the first byte of the
\* word that begins where s ends.
recoveredParts(signature) ==
  [v |-> mload(signature, 3 * WordLength)[1],
   r |-> mload(signature, WordLength),
   s |-> mload(signature, 2 * WordLength)]

-----------------------------------------------------------------------------
(* Properties.                                                             *)

\* What the program writes it reads back, and the contracts read the same
\* fields from it (message_to_mainnet.rs:24-62, bridge.sol:136-170), whatever
\* the length in front of a message does to the recipient's word.
MessagesAgree ==
  \A m \in MessageToMainnet :
    LET bytes == to_bytes(m) IN
    /\ from_bytes(bytes) = m
    /\ getRecipient(bytes) = m.recipient
    /\ getValue(bytes) = m.value
    /\ getTransactionHash(bytes) = m.sidenet_transaction_hash
    /\ getHomeGasPrice(bytes) = m.mainnet_gas_price

\* The parts of a signature the foreign contract checks are the ones the relay
\* passes on to home (signature.rs:21-40, bridge.sol:88-99).
SignaturesAgree ==
  \A sig \in Signature :
    LET bytes == signature_to_bytes(sig) IN
    /\ signature_from_bytes(bytes) = sig
    /\ recoveredParts(bytes) = sig
=============================================================================
