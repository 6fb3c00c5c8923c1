-------------------------- MODULE HomeBridgeProofs --------------------------
(***************************************************************************)
(* HomeBridge.withdraw pays each message at most once and exactly its      *)
(* value, for every word size that holds all coins; the bytes of messages  *)
(* and signatures are read as they were written, for every length of       *)
(* addresses and words; and so a payment is what the Withdraw log said.    *)
(* Only the last section uses that the messages come from logs.            *)
(***************************************************************************)
EXTENDS LoggedWithdraws, FiniteSetTheorems, TLAPS

-----------------------------------------------------------------------------
(* HomeBridge.                                                             *)

\* PaidExactlyValue is inductive as it stands: it says that a message is unpaid
\* until its transaction hash is used.
Inductive == TypeOK /\ PaidExactlyValue

\* What `%' does to a word, and to the difference of two words.
LEMMA Wraps ==
  ASSUME NEW w \in Nat \ {0}, NEW x \in (-w)..(w - 1)
  PROVE  x % w = IF x >= 0 THEN x ELSE x + w
OBVIOUS

\* The cost of a withdraw fits in a word.
LEMMA CostFits ==
  ASSUME NEW m \in Message
  PROVE  /\ cost(m) = estimatedGasCostOfWithdraw * GasPrice[m]
         /\ cost(m) \in Nat
         /\ cost(m) + MaxBalance < Word
<1> DEFINE c == estimatedGasCostOfWithdraw * GasPrice[m]
<1>1. /\ estimatedGasCostOfWithdraw \in Nat
      /\ GasPrice[m] \in Nat
      /\ MaxBalance \in Nat
      /\ Word \in Nat \ {0}
      /\ MaxBalance + c < Word
  BY HomeAssumption DEF ParametersOK, CoinsFit
<1>2. c \in Nat
  BY <1>1
<1> HIDE DEF c
<1>3. c % Word = c
  BY <1>1, <1>2, Wraps
<1>4. cost(m) = c
  BY <1>3 DEF cost, c
<1>5. cost(m) = estimatedGasCostOfWithdraw * GasPrice[m]
  BY <1>4 DEF c
<1> QED
  BY <1>1, <1>2, <1>4, <1>5

\* If what remains after the cost can be paid, the subtraction did not wrap.
LEMMA NoWrap ==
  ASSUME NEW m \in Message, balance \in 0..MaxBalance, remaining(m) <= balance
  PROVE  /\ remaining(m) \in Nat
         /\ remaining(m) + cost(m) = Amount[m]
<1>1. /\ Amount[m] \in 0..(Word - 1)
      /\ MaxBalance \in Nat
      /\ Word \in Nat \ {0}
  BY HomeAssumption DEF ParametersOK
<1>2. cost(m) \in Nat /\ cost(m) + MaxBalance < Word
  BY CostFits
<1>3. Amount[m] - cost(m) \in (-Word)..(Word - 1)
  BY <1>1, <1>2
<1>4. remaining(m) = IF Amount[m] - cost(m) >= 0 THEN Amount[m] - cost(m)
                     ELSE Amount[m] - cost(m) + Word
  BY <1>1, <1>3, Wraps DEF remaining
<1> QED
  BY <1>1, <1>2, <1>4

\* The invariant holds initially.
LEMMA InitInductive == Init => Inductive
BY HomeAssumption DEF Init, Inductive, TypeOK, PaidExactlyValue, Unpaid, ParametersOK

\* A withdraw pays a message that was unpaid: the wrapped difference and the
\* cost, which add up to its value.
LEMMA WithdrawEffect ==
  ASSUME Inductive, NEW caller, NEW gasprice, NEW signers, NEW m \in Message,
         withdraw(caller, gasprice, signers, m)
  PROVE  /\ TxHash[m] \notin withdraws
         /\ remaining(m) \in Nat /\ cost(m) \in Nat
         /\ remaining(m) + cost(m) = Amount[m]
         /\ balance' \in 0..MaxBalance
         /\ received' = [received EXCEPT ![m] =
                           [recipient |-> remaining(m), caller |-> cost(m)]]
<1>1. /\ TxHash[m] \notin withdraws
      /\ remaining(m) <= balance
      /\ cost(m) <= balance - remaining(m)
  BY DEF withdraw, acceptsWithdraw
<1>2. balance \in 0..MaxBalance /\ MaxBalance \in Nat
  BY HomeAssumption DEF Inductive, TypeOK, ParametersOK
<1>3. /\ remaining(m) \in Nat
      /\ cost(m) \in Nat
      /\ remaining(m) + cost(m) = Amount[m]
  BY <1>1, <1>2, CostFits, NoWrap
<1>4. received[m] = Unpaid
  BY <1>1 DEF Inductive, PaidExactlyValue
<1>5. received' = [received EXCEPT ![m] = [recipient |-> remaining(m), caller |-> cost(m)]]
  <2>1. received[m].recipient = 0 /\ received[m].caller = 0
    BY <1>4 DEF Unpaid
  <2>2. /\ received[m].recipient + remaining(m) = remaining(m)
        /\ received[m].caller + cost(m) = cost(m)
    BY <1>3, <2>1
  <2> QED
    BY <2>2 DEF withdraw
<1>6. balance' \in 0..MaxBalance
  BY <1>1, <1>2, <1>3 DEF withdraw
<1> QED
  BY <1>1, <1>3, <1>5, <1>6

\* An accepted withdraw pays an unpaid message its exact value.
LEMMA WithdrawInductive ==
  ASSUME Inductive, NEW caller, NEW gasprice, NEW signers, NEW m \in Message,
         withdraw(caller, gasprice, signers, m)
  PROVE  Inductive'
<1>1. TxHash[m] \notin withdraws
  BY WithdrawEffect
<1>3. /\ remaining(m) \in Nat
      /\ cost(m) \in Nat
      /\ remaining(m) + cost(m) = Amount[m]
  BY WithdrawEffect
<1>5. received' = [received EXCEPT ![m] = [recipient |-> remaining(m), caller |-> cost(m)]]
  BY WithdrawEffect
<1>6. withdraws' = withdraws \cup {TxHash[m]}
  BY DEF withdraw
<1>7. TypeOK'
  <2>1. balance' \in 0..MaxBalance
    BY WithdrawEffect
  <2>2. received' \in [Message -> [recipient : Nat, caller : Nat]]
    BY <1>3, <1>5 DEF Inductive, TypeOK
  <2> QED
    BY <1>6, <2>1, <2>2 DEF Inductive, TypeOK
<1>8. PaidExactlyValue'
  <2> SUFFICES ASSUME NEW n \in Message, received'[n] # Unpaid
               PROVE  /\ received'[n].recipient + received'[n].caller = Amount[n]
                      /\ TxHash[n] \in withdraws'
                      /\ \A k \in Message \ {n} : TxHash[k] = TxHash[n] => received'[k] = Unpaid
    BY DEF PaidExactlyValue
  <2>1. CASE n = m
    <3>1. received'[n] = [recipient |-> remaining(m), caller |-> cost(m)]
      BY <1>5, <2>1 DEF Inductive, TypeOK
    <3>2. ASSUME NEW k \in Message \ {n}, TxHash[k] = TxHash[n]
          PROVE  received'[k] = Unpaid
      BY <1>1, <1>5, <2>1, <3>2 DEF Inductive, TypeOK, PaidExactlyValue
    <3> QED
      BY <1>3, <1>6, <2>1, <3>1, <3>2
  <2>2. CASE n # m
    <3>1. received'[n] = received[n]
      BY <1>5, <2>2 DEF Inductive, TypeOK
    <3>2. /\ received[n].recipient + received[n].caller = Amount[n]
          /\ TxHash[n] \in withdraws
          /\ \A k \in Message \ {n} : TxHash[k] = TxHash[n] => received[k] = Unpaid
      BY <3>1 DEF Inductive, PaidExactlyValue
    <3>3. ASSUME NEW k \in Message \ {n}, TxHash[k] = TxHash[n]
          PROVE  received'[k] = Unpaid
      BY <1>1, <1>5, <3>2, <3>3 DEF Inductive, TypeOK
    <3> QED
      BY <1>6, <3>1, <3>2, <3>3
  <2> QED
    BY <2>1, <2>2
<1> QED
  BY <1>7, <1>8 DEF Inductive

\* Every step preserves it.
LEMMA NextInductive == Inductive /\ [Next]_vars => Inductive'
<1> SUFFICES ASSUME Inductive, [Next]_vars PROVE Inductive'
  OBVIOUS
<1>1. CASE \E value \in 1..MaxBalance : fallback(value)
  <2> PICK value \in 1..MaxBalance : fallback(value)
    BY <1>1
  <2>1. balance' \in 0..MaxBalance /\ withdraws' = withdraws /\ received' = received
    BY HomeAssumption DEF fallback, Inductive, TypeOK, ParametersOK
  <2> QED
    BY <2>1 DEF Inductive, TypeOK, PaidExactlyValue
<1>2. ASSUME NEW caller \in Account, NEW m \in Message, NEW signers \in Signatures,
             NEW gasprice \in {0, GasPrice[m]}, withdraw(caller, gasprice, signers, m)
      PROVE  Inductive'
  BY <1>2, WithdrawInductive
<1>3. CASE UNCHANGED vars
  BY <1>3 DEF vars, Inductive, TypeOK, PaidExactlyValue
<1> QED
  BY <1>1, <1>2, <1>3 DEF Next

\* HomeBridge: both functions preserve the types and PaidExactlyValue.
THEOREM InductiveInvariant == Spec => []Inductive
<1> QED
  BY InitInductive, NextInductive, PTL DEF Spec

\* HomeBridge: the variables keep their types; the balance never leaves the coins
\* there are, although the arithmetic wraps around.
THEOREM TypeCorrect == Spec => []TypeOK
<1>1. Inductive => TypeOK
  BY DEF Inductive
<1> QED BY <1>1, InductiveInvariant, PTL

\* HomeBridge.withdraw: whatever the word size, the number of authorities and
\* the messages, recipient and caller together get the value of a message, once.
THEOREM WithdrawPaysValueOnce == Spec => []PaidExactlyValue
<1>1. Inductive => PaidExactlyValue
  BY DEF Inductive
<1> QED
  BY InductiveInvariant, <1>1, PTL

-----------------------------------------------------------------------------
\* Helpers.hasEnoughValidSignatures: the entries it looks at are as many
\* different authorities.
LEMMA ValidIsQuorum ==
  ASSUME NEW signers \in Signatures, hasEnoughValidSignatures(signers)
  PROVE  Cardinality(Authorities(signers)) >= RequiredSignatures
<1> DEFINE I == 1..RequiredSignatures
           A == Authorities(signers)
           S == {signers[i] : i \in 1..Len(signers)}
           f == [i \in I |-> signers[i]]
           g == [i \in 1..Len(signers) |-> signers[i]]
<1>1. RequiredSignatures \in Nat /\ Len(signers) \in Nat
      /\ RequiredSignatures <= Len(signers)
  <2>1. RequiredSignatures \in Nat
    BY HomeAssumption DEF ParametersOK
  <2>2. PICK n \in 0..(RequiredSignatures + 1) : signers \in [1..n -> Account]
    BY DEF Signatures
  <2>3. Len(signers) = n
    BY <2>1, <2>2
  <2> QED BY <2>1, <2>2, <2>3 DEF hasEnoughValidSignatures
<1>2. IsFiniteSet(I) /\ Cardinality(I) = RequiredSignatures
      /\ IsFiniteSet(1..Len(signers))
  BY <1>1, FS_Interval
<1>3. g \in Surjection(1..Len(signers), S)
  BY DEF Surjection
<1>4. IsFiniteSet(A)
  <2>1. IsFiniteSet(S)
    BY <1>2, <1>3, FS_Surjection
  <2>2. A \in SUBSET S
    BY DEF Authorities
  <2> QED BY <2>1, <2>2, FS_Subset
<1>5. f \in Injection(I, A)
  <2>1. \A i \in I : i \in 1..Len(signers) /\ signers[i] \in Authority
    BY <1>1 DEF hasEnoughValidSignatures
  <2>2. \A i \in I : f[i] \in A
    BY <2>1 DEF Authorities
  <2>3. ASSUME NEW i \in I, NEW j \in I, f[i] = f[j]
        PROVE  i = j
    <3>1. ~(j < i) /\ ~(i < j)
      BY <1>1, <2>3 DEF hasEnoughValidSignatures
    <3> QED BY <1>1, <3>1
  <2> QED BY <2>2, <2>3 DEF Injection, IsInjective
<1> HIDE DEF I, A, f
<1>6. Cardinality(I) <= Cardinality(A)
  BY <1>4, <1>5, FS_Injection
<1>7. Cardinality(A) \in Nat
  BY <1>4, FS_CardinalityType
<1> QED BY <1>1, <1>2, <1>6, <1>7 DEF A

\* HomeBridge.withdraw: no coins leave without signatures of as many different
\* authorities as are required, whoever calls it with whatever signatures.
THEOREM QuorumIsNeeded == Spec => []QuorumNeeded
<1>1. QuorumNeeded
  BY ValidIsQuorum DEF QuorumNeeded, acceptsWithdraw
<1> QED BY <1>1, PTL

\* A message worth less than the cost of relaying it.
SmallIsRefused ==
  \A m \in Message : Amount[m] < cost(m) =>
    \A caller, gasprice, signers : ~acceptsWithdraw(caller, gasprice, signers, m)

\* HomeBridge.withdraw (bridge.sol:335): the difference wraps around to more
\* than the contract can ever own, so no call for such a message succeeds, with
\* whatever balance: what was locked for it on foreign stays locked.
THEOREM SmallWithdrawIsNeverPaid == Spec => []SmallIsRefused
<1>1. Inductive => SmallIsRefused
  <2> SUFFICES ASSUME Inductive, NEW m \in Message, Amount[m] < cost(m),
                      NEW caller, NEW gasprice, NEW signers,
                      acceptsWithdraw(caller, gasprice, signers, m)
               PROVE  FALSE
    BY DEF SmallIsRefused
  <2>1. balance \in 0..MaxBalance /\ remaining(m) <= balance
    BY DEF Inductive, TypeOK, acceptsWithdraw
  <2>2. remaining(m) \in Nat /\ remaining(m) + cost(m) = Amount[m]
    BY <2>1, NoWrap
  <2>3. cost(m) \in Nat
    BY CostFits
  <2> QED BY <2>2, <2>3
<1> QED BY <1>1, InductiveInvariant, PTL

-----------------------------------------------------------------------------
(* MessageLayout.                                                          *)

\* f is a string of n elements.
IsString(f, n) == f = [i \in 1..n |-> f[i]]

\* The positions of a function over 1..n are those of a sequence of length n.
LEMMA LengthOfBytes ==
  ASSUME NEW n \in Nat, NEW f, IsString(f, n)
  PROVE  Len(f) = n
BY DEF IsString

\* Behind the length come the bytes.
LEMMA ByteInMemory ==
  ASSUME NEW n \in Nat, NEW f, IsString(f, n),
         NEW x \in Int, WordLength < x, x <= WordLength + n
  PROVE  byteAt(f, x) = f[x - WordLength]
<1>1. Len(f) = n
  BY LengthOfBytes
<1>2. ~(x <= WordLength)
  BY LayoutAssumption
<1> QED BY <1>1, <1>2 DEF byteAt

\* mload at an offset not before the first byte returns a word of the bytes.
LEMMA WordAt ==
  ASSUME NEW n \in Nat, NEW f, IsString(f, n),
         NEW at \in Nat, at + WordLength <= n, NEW offset, offset = WordLength + at
  PROVE  mload(f, offset) = Slice(f, at, at + WordLength)
<1>1. ASSUME NEW i \in 1..WordLength
      PROVE  byteAt(f, offset + i) = f[at + i]
  <2> DEFINE x == offset + i
  <2>1. x \in Int /\ WordLength < x /\ x <= WordLength + n
        /\ x - WordLength = at + i
    BY LayoutAssumption
  <2> HIDE DEF x
  <2>2. byteAt(f, x) = f[x - WordLength]
    BY <2>1, ByteInMemory
  <2> QED BY <2>1, <2>2 DEF x
<1>2. Slice(f, at, at + WordLength) = [i \in 1..WordLength |-> f[at + i]]
  <2> DEFINE end == at + WordLength
  <2>1. end - at = WordLength
    BY LayoutAssumption
  <2> HIDE DEF end
  <2>2. Slice(f, at, end) = [i \in 1..WordLength |-> f[at + i]]
    BY <2>1 DEF Slice
  <2> QED BY <2>2 DEF end
<1>3. mload(f, offset) = [i \in 1..WordLength |-> f[at + i]]
  BY <1>1 DEF mload
<1> QED BY <1>2, <1>3

\* mload at 20, before the first byte, has the address at its end: the bytes
\* of the length in front of it are cut off.
LEMMA AddressAt ==
  ASSUME NEW n \in Nat, NEW f, IsString(f, n), AddressLength <= n
  PROVE  getRecipient(f) = [i \in 1..AddressLength |-> f[i]]
<1>1. AddressLength \in Nat /\ WordLength \in Nat /\ AddressLength <= WordLength
  BY LayoutAssumption
<1>2. ASSUME NEW i \in 1..AddressLength
      PROVE  mload(f, AddressLength)[WordLength - AddressLength + i] = f[i]
  <2> DEFINE x == AddressLength + (WordLength - AddressLength + i)
  <2>1. WordLength - AddressLength + i \in 1..WordLength
    BY <1>1
  <2>2. x \in Int /\ WordLength < x /\ x <= WordLength + n
        /\ x - WordLength = i
    BY <1>1
  <2> HIDE DEF x
  <2>3. byteAt(f, x) = f[x - WordLength]
    BY <2>2, ByteInMemory
  <2> QED BY <2>1, <2>2, <2>3 DEF mload, x
<1>3. WordLength - (WordLength - AddressLength) = AddressLength
  BY <1>1
<1> QED BY <1>2, <1>3 DEF getRecipient, Slice

\* The fields of a message are the bytes at their positions.
LEMMA FieldsOfMessage ==
  ASSUME NEW m \in MessageToMainnet
  PROVE  LET b == to_bytes(m) IN
         /\ IsString(b, MESSAGE_LENGTH)
         /\ \A i \in 1..AddressLength : b[i] = m.recipient[i]
         /\ \A i \in 1..WordLength :
              /\ b[ValueAt + i] = m.value[i]
              /\ b[HashAt + i] = m.sidenet_transaction_hash[i]
              /\ b[PriceAt + i] = m.mainnet_gas_price[i]
<1> DEFINE b == to_bytes(m)
<1>1. AddressLength \in Nat /\ WordLength \in Nat
  BY LayoutAssumption
<1>2. IsString(b, MESSAGE_LENGTH)
  BY DEF to_bytes, IsString
<1>3. ASSUME NEW i \in 1..AddressLength
      PROVE  b[i] = m.recipient[i]
  BY <1>1 DEF to_bytes, MESSAGE_LENGTH, ValueAt
<1>4. ASSUME NEW i \in 1..WordLength
      PROVE  b[ValueAt + i] = m.value[i]
  <2> DEFINE x == ValueAt + i
  <2>1. x \in 1..MESSAGE_LENGTH /\ ~(x <= ValueAt) /\ x <= HashAt /\ x - ValueAt = i
    BY <1>1 DEF MESSAGE_LENGTH, ValueAt, HashAt
  <2> HIDE DEF x
  <2>2. b[x] = m.value[x - ValueAt]
    BY <2>1 DEF to_bytes
  <2> QED BY <2>1, <2>2 DEF x
<1>5. ASSUME NEW i \in 1..WordLength
      PROVE  b[HashAt + i] = m.sidenet_transaction_hash[i]
  <2> DEFINE x == HashAt + i
  <2>1. x \in 1..MESSAGE_LENGTH /\ ~(x <= ValueAt) /\ ~(x <= HashAt)
        /\ x <= PriceAt /\ x - HashAt = i
    BY <1>1 DEF MESSAGE_LENGTH, ValueAt, HashAt, PriceAt
  <2> HIDE DEF x
  <2>2. b[x] = m.sidenet_transaction_hash[x - HashAt]
    BY <2>1 DEF to_bytes
  <2> QED BY <2>1, <2>2 DEF x
<1>6. ASSUME NEW i \in 1..WordLength
      PROVE  b[PriceAt + i] = m.mainnet_gas_price[i]
  <2> DEFINE x == PriceAt + i
  <2>1. x \in 1..MESSAGE_LENGTH /\ ~(x <= ValueAt) /\ ~(x <= HashAt)
        /\ ~(x <= PriceAt) /\ x - PriceAt = i
    BY <1>1 DEF MESSAGE_LENGTH, ValueAt, HashAt, PriceAt
  <2> HIDE DEF x
  <2>2. b[x] = m.mainnet_gas_price[x - PriceAt]
    BY <2>1 DEF to_bytes
  <2> QED BY <2>1, <2>2 DEF x
<1> QED BY <1>2, <1>3, <1>4, <1>5, <1>6

\* MessageToMainnet::to_bytes, from_bytes and the getters of the Solidity
\* library Message agree on every message, for every length of addresses and
\* words and every number of byte values.
THEOREM MessagesAlwaysAgree == MessagesAgree
<1> SUFFICES ASSUME NEW m \in MessageToMainnet
             PROVE  LET b == to_bytes(m) IN
                    /\ from_bytes(b) = m
                    /\ getRecipient(b) = m.recipient
                    /\ getValue(b) = m.value
                    /\ getTransactionHash(b) = m.sidenet_transaction_hash
                    /\ getHomeGasPrice(b) = m.mainnet_gas_price
  BY DEF MessagesAgree
<1> DEFINE b == to_bytes(m)
<1>1. AddressLength \in Nat /\ WordLength \in Nat /\ MESSAGE_LENGTH \in Nat
  BY LayoutAssumption DEF MESSAGE_LENGTH
<1>2. /\ m.recipient \in Bytes(AddressLength)
      /\ m.value \in Bytes(WordLength)
      /\ m.sidenet_transaction_hash \in Bytes(WordLength)
      /\ m.mainnet_gas_price \in Bytes(WordLength)
      /\ m = [recipient |-> m.recipient, value |-> m.value,
              sidenet_transaction_hash |-> m.sidenet_transaction_hash,
              mainnet_gas_price |-> m.mainnet_gas_price]
  BY DEF MessageToMainnet, Address, H256
<1>3. /\ IsString(b, MESSAGE_LENGTH)
      /\ \A i \in 1..AddressLength : b[i] = m.recipient[i]
      /\ \A i \in 1..WordLength :
           /\ b[ValueAt + i] = m.value[i]
           /\ b[HashAt + i] = m.sidenet_transaction_hash[i]
           /\ b[PriceAt + i] = m.mainnet_gas_price[i]
  BY FieldsOfMessage
<1> HIDE DEF b
<1>4. IsString(b, MESSAGE_LENGTH)
  BY <1>3
<1>5. [i \in 1..AddressLength |-> b[i]] = m.recipient
  BY <1>2, <1>3 DEF Bytes
<1>6. [i \in 1..WordLength |-> b[ValueAt + i]] = m.value
  BY <1>2, <1>3 DEF Bytes
<1>7. [i \in 1..WordLength |-> b[HashAt + i]] = m.sidenet_transaction_hash
  BY <1>2, <1>3 DEF Bytes
<1>8. [i \in 1..WordLength |-> b[PriceAt + i]] = m.mainnet_gas_price
  BY <1>2, <1>3 DEF Bytes
<1>9. /\ Slice(b, 0, ValueAt) = m.recipient
      /\ Slice(b, ValueAt, HashAt) = m.value
      /\ Slice(b, HashAt, PriceAt) = m.sidenet_transaction_hash
      /\ Slice(b, PriceAt, MESSAGE_LENGTH) = m.mainnet_gas_price
  <2>1. /\ ValueAt - 0 = AddressLength /\ HashAt - ValueAt = WordLength
        /\ PriceAt - HashAt = WordLength /\ MESSAGE_LENGTH - PriceAt = WordLength
    BY <1>1 DEF ValueAt, HashAt, PriceAt, MESSAGE_LENGTH
  <2>2. [i \in 1..AddressLength |-> b[0 + i]] = [i \in 1..AddressLength |-> b[i]]
    BY <1>1
  <2> QED BY <1>5, <1>6, <1>7, <1>8, <2>1, <2>2 DEF Slice
<1>10. from_bytes(b) = m
  BY <1>2, <1>9 DEF from_bytes
<1>11. getRecipient(b) = m.recipient
  <2>1. AddressLength <= MESSAGE_LENGTH
    BY <1>1 DEF MESSAGE_LENGTH
  <2> QED BY <1>1, <1>4, <1>5, <2>1, AddressAt
<1>12. getValue(b) = m.value
  <2>1. ValueAt \in Nat /\ ValueAt + WordLength <= MESSAGE_LENGTH
        /\ AddressLength + WordLength = WordLength + ValueAt /\ HashAt = ValueAt + WordLength
    BY <1>1 DEF ValueAt, HashAt, MESSAGE_LENGTH
  <2>2. mload(b, AddressLength + WordLength) = Slice(b, ValueAt, ValueAt + WordLength)
    BY <1>1, <1>4, <2>1, WordAt
  <2> QED BY <1>9, <2>1, <2>2 DEF getValue
<1>13. getTransactionHash(b) = m.sidenet_transaction_hash
  <2>1. HashAt \in Nat /\ HashAt + WordLength <= MESSAGE_LENGTH
        /\ AddressLength + 2 * WordLength = WordLength + HashAt /\ PriceAt = HashAt + WordLength
    BY <1>1 DEF HashAt, PriceAt, MESSAGE_LENGTH
  <2>2. mload(b, AddressLength + 2 * WordLength) = Slice(b, HashAt, HashAt + WordLength)
    BY <1>1, <1>4, <2>1, WordAt
  <2> QED BY <1>9, <2>1, <2>2 DEF getTransactionHash
<1>14. getHomeGasPrice(b) = m.mainnet_gas_price
  <2>1. PriceAt \in Nat /\ PriceAt + WordLength <= MESSAGE_LENGTH
        /\ AddressLength + 3 * WordLength = WordLength + PriceAt /\ MESSAGE_LENGTH = PriceAt + WordLength
    BY <1>1 DEF PriceAt, MESSAGE_LENGTH
  <2>2. mload(b, AddressLength + 3 * WordLength) = Slice(b, PriceAt, PriceAt + WordLength)
    BY <1>1, <1>4, <2>1, WordAt
  <2> QED BY <1>9, <2>1, <2>2 DEF getHomeGasPrice
<1> QED BY <1>10, <1>11, <1>12, <1>13, <1>14 DEF b

\* Signature::to_bytes, from_bytes and the parts MessageSigning takes from a
\* signature agree on every signature, although the word v is read from
\* reaches beyond the end of it.
THEOREM SignaturesAlwaysAgree == SignaturesAgree
<1> SUFFICES ASSUME NEW sig \in Signature
             PROVE  LET b == signature_to_bytes(sig) IN
                    signature_from_bytes(b) = sig /\ recoveredParts(b) = sig
  BY DEF SignaturesAgree
<1> DEFINE b == signature_to_bytes(sig)
<1>1. WordLength \in Nat \ {0} /\ SIGNATURE_LENGTH \in Nat
  BY LayoutAssumption DEF SIGNATURE_LENGTH
<1>2. /\ sig.r \in Bytes(WordLength) /\ sig.s \in Bytes(WordLength)
      /\ sig = [v |-> sig.v, r |-> sig.r, s |-> sig.s]
  BY DEF Signature, H256
<1>3. IsString(b, SIGNATURE_LENGTH)
  BY DEF signature_to_bytes, IsString
<1>4. ASSUME NEW i \in 1..WordLength
      PROVE  b[0 + i] = sig.r[i] /\ b[WordLength + i] = sig.s[i]
  <2> DEFINE x == WordLength + i
  <2>1. x \in 1..SIGNATURE_LENGTH /\ ~(x <= WordLength) /\ x <= 2 * WordLength
        /\ x - WordLength = i
    BY <1>1 DEF SIGNATURE_LENGTH
  <2>2. 0 + i = i /\ i \in 1..SIGNATURE_LENGTH /\ i <= WordLength
    BY <1>1 DEF SIGNATURE_LENGTH
  <2> HIDE DEF x
  <2>3. b[x] = sig.s[x - WordLength]
    BY <2>1 DEF signature_to_bytes
  <2>4. b[i] = sig.r[i]
    BY <2>2 DEF signature_to_bytes
  <2> QED BY <2>1, <2>2, <2>3, <2>4 DEF x
<1>5. b[SIGNATURE_LENGTH] = sig.v
  BY <1>1 DEF signature_to_bytes, SIGNATURE_LENGTH
<1> HIDE DEF b
<1>6. [i \in 1..WordLength |-> b[0 + i]] = sig.r
  BY <1>2, <1>4 DEF Bytes
<1>7. [i \in 1..WordLength |-> b[WordLength + i]] = sig.s
  BY <1>2, <1>4 DEF Bytes
<1>8. Slice(b, 0, WordLength) = sig.r /\ Slice(b, WordLength, 2 * WordLength) = sig.s
  <2>1. WordLength - 0 = WordLength /\ 2 * WordLength - WordLength = WordLength
    BY <1>1
  <2> QED BY <1>6, <1>7, <2>1 DEF Slice
<1>9. signature_from_bytes(b) = sig
  BY <1>2, <1>5, <1>8 DEF signature_from_bytes
<1>10. mload(b, WordLength) = sig.r /\ mload(b, 2 * WordLength) = sig.s
  <2>1. /\ 0 + WordLength <= SIGNATURE_LENGTH /\ WordLength = WordLength + 0
        /\ 0 + WordLength = WordLength
        /\ WordLength + WordLength <= SIGNATURE_LENGTH
        /\ 2 * WordLength = WordLength + WordLength
    BY <1>1 DEF SIGNATURE_LENGTH
  <2>2. mload(b, WordLength) = Slice(b, 0, 0 + WordLength)
    BY <1>1, <1>3, <2>1, WordAt
  <2>3. mload(b, 2 * WordLength) = Slice(b, WordLength, WordLength + WordLength)
    BY <1>1, <1>3, <2>1, WordAt
  <2> QED BY <1>8, <2>1, <2>2, <2>3
<1>11. mload(b, 3 * WordLength)[1] = sig.v
  <2> DEFINE x == 3 * WordLength + 1
  <2>1. x \in Int /\ WordLength < x /\ x <= WordLength + SIGNATURE_LENGTH
        /\ x - WordLength = SIGNATURE_LENGTH
    BY <1>1 DEF SIGNATURE_LENGTH
  <2>2. mload(b, 3 * WordLength)[1] = byteAt(b, x)
    BY <1>1 DEF mload
  <2> HIDE DEF x
  <2>3. byteAt(b, x) = b[x - WordLength]
    BY <1>1, <1>3, <2>1, ByteInMemory
  <2> QED BY <1>5, <2>1, <2>2, <2>3
<1>12. recoveredParts(b) = sig
  BY <1>2, <1>10, <1>11 DEF recoveredParts
<1> QED BY <1>9, <1>12 DEF b

-----------------------------------------------------------------------------
(* LoggedWithdraws.                                                        *)

\* What the caller of a paid withdraw got is its cost.
CostIsCharged == \A m \in Message : received[m] # Unpaid => received[m].caller = cost(m)

\* HomeBridge.withdraw: msg.sender gets the cost of the relay, in every step.
LEMMA ChargedInvariant == Spec => []CostIsCharged
<1>1. Init => CostIsCharged
  BY DEF Init, CostIsCharged
<1>2. Inductive /\ CostIsCharged /\ [Next]_vars => CostIsCharged'
  <2> SUFFICES ASSUME Inductive, CostIsCharged, [Next]_vars PROVE CostIsCharged'
    OBVIOUS
  <2>1. CASE \E value \in 1..MaxBalance : fallback(value)
    BY <2>1 DEF fallback, CostIsCharged, cost
  <2>2. ASSUME NEW caller \in Account, NEW m \in Message, NEW signers \in Signatures,
               NEW gasprice \in {0, GasPrice[m]}, withdraw(caller, gasprice, signers, m)
        PROVE  CostIsCharged'
    <3>1. received' = [received EXCEPT ![m] =
                         [recipient |-> remaining(m), caller |-> cost(m)]]
      BY <2>2, WithdrawEffect
    <3> QED BY <3>1 DEF CostIsCharged, cost, Inductive, TypeOK
  <2>3. CASE UNCHANGED vars
    BY <2>3 DEF vars, CostIsCharged, cost
  <2> QED BY <2>1, <2>2, <2>3 DEF Next
<1> QED BY <1>1, <1>2, InductiveInvariant, PTL DEF Spec

\* The fields the contract has for a log's message are those of the log.
LEMMA FieldsOfLog ==
  ASSUME NEW l \in Logged
  PROVE  LET m == to_bytes(l) IN
         /\ m \in Message
         /\ Recipient[m] = l.recipient
         /\ Amount[m] = NumberOf(l.value)
         /\ TxHash[m] = l.sidenet_transaction_hash
         /\ GasPrice[m] = NumberOf(l.mainnet_gas_price)
         /\ from_bytes(m) = l
<1> DEFINE m == to_bytes(l)
<1>1. l \in MessageToMainnet /\ m \in Message
  BY LoggedAssumption
<1>2. /\ Recipient[m] = getRecipient(m)
      /\ Amount[m] = NumberOf(getValue(m))
      /\ TxHash[m] = getTransactionHash(m)
      /\ GasPrice[m] = NumberOf(getHomeGasPrice(m))
  BY <1>1, LoggedAssumption
<1>3. /\ from_bytes(m) = l
      /\ getRecipient(m) = l.recipient
      /\ getValue(m) = l.value
      /\ getTransactionHash(m) = l.sidenet_transaction_hash
      /\ getHomeGasPrice(m) = l.mainnet_gas_price
  BY <1>1, MessagesAlwaysAgree DEF MessagesAgree
<1> QED BY <1>1, <1>2, <1>3

\* From the Withdraw log of foreign through the bytes that authorities sign to
\* the payment of home (message_to_mainnet.rs, bridge.sol:305-346): whatever
\* is paid is what was logged, for every set of logs, every word size that
\* holds the coins, every number of authorities and every length of the fields.
THEOREM PaymentIsAsLogged == Spec => []PaidAsLogged
<1>1. Inductive /\ CostIsCharged => PaidAsLogged
  <2> SUFFICES ASSUME Inductive, CostIsCharged, NEW l \in Logged
               PROVE  LET m == to_bytes(l) IN
                 /\ received[m] # Unpaid =>
                      /\ received[m].recipient + received[m].caller = NumberOf(l.value)
                      /\ received[m].caller =
                           estimatedGasCostOfWithdraw * NumberOf(l.mainnet_gas_price)
                      /\ l.sidenet_transaction_hash \in withdraws
                      /\ from_bytes(m) = l
                 /\ \A caller \in Account, signers \in Signatures,
                       gasprice \in {0, GasPrice[m]} :
                      acceptsWithdraw(caller, gasprice, signers, m) =>
                        caller = l.recipient \/ gasprice = NumberOf(l.mainnet_gas_price)
    BY DEF PaidAsLogged
  <2> DEFINE m == to_bytes(l)
  <2>1. /\ m \in Message
        /\ Recipient[m] = l.recipient
        /\ Amount[m] = NumberOf(l.value)
        /\ TxHash[m] = l.sidenet_transaction_hash
        /\ GasPrice[m] = NumberOf(l.mainnet_gas_price)
        /\ from_bytes(m) = l
    BY FieldsOfLog
  <2> HIDE DEF m
  <2>2. ASSUME received[m] # Unpaid
        PROVE  /\ received[m].recipient + received[m].caller = Amount[m]
               /\ received[m].caller = estimatedGasCostOfWithdraw * GasPrice[m]
               /\ TxHash[m] \in withdraws
    BY <2>1, <2>2, CostFits DEF Inductive, PaidExactlyValue, CostIsCharged
  <2>3. ASSUME NEW caller, NEW signers, NEW gasprice,
               acceptsWithdraw(caller, gasprice, signers, m)
        PROVE  Recipient[m] = caller \/ gasprice = GasPrice[m]
    BY <2>3 DEF acceptsWithdraw
  <2> QED BY <2>1, <2>2, <2>3 DEF m
<1> QED BY <1>1, InductiveInvariant, ChargedInvariant, PTL
=============================================================================
