----------------------- MODULE ValidatedBridgesProofs -----------------------
(***************************************************************************)
(* Proofs about the truffle contracts: for any addresses, deposits and     *)
(* messages, and any order in which the owner adds and removes validators, *)
(* changes the requirement, and validators and users make their calls.     *)
(***************************************************************************)
EXTENDS ValidatedBridges, FiniteSetTheorems, TLAPS

-----------------------------------------------------------------------------
(* Counting.                                                               *)

\* A function that gives no value twice has as many values as arguments.
LEMMA CountOfValues ==
  ASSUME NEW S, IsFiniteSet(S), NEW T, NEW f \in [S -> T],
         \A x, y \in S : f[x] = f[y] => x = y,
         \A t \in T : \E x \in S : f[x] = t
  PROVE  IsFiniteSet(T) /\ Cardinality(T) = Cardinality(S)
<1>1. f \in Bijection(S, T)
  BY DEF Bijection, Injection, Surjection, IsInjective
<1> QED BY <1>1, FS_Bijection DEF ExistsBijection

\* The length of an array without repeats is the number of its entries.
LEMMA CountOfEntries ==
  ASSUME NEW s \in Seq(Address), IsInjective(s)
  PROVE  IsFiniteSet(Range(s)) /\ Cardinality(Range(s)) = Len(s)
<1>1. /\ Len(s) \in Nat /\ DOMAIN s = 1..Len(s)
      /\ s \in [1..Len(s) -> Range(s)]
  BY DEF Range
<1>2. IsFiniteSet(1..Len(s)) /\ Cardinality(1..Len(s)) = Len(s)
  BY <1>1, FS_Interval
<1>3. /\ \A x, y \in 1..Len(s) : s[x] = s[y] => x = y
      /\ \A t \in Range(s) : \E x \in 1..Len(s) : s[x] = t
  BY <1>1 DEF IsInjective, Range
<1> QED BY <1>1, <1>2, <1>3, CountOfValues

\* What an array is after a push.
LEMMA Pushed ==
  ASSUME NEW s \in Seq(Address), NEW a \in Address
  PROVE  /\ Append(s, a) \in Seq(Address) /\ Len(s) \in Nat
         /\ Len(Append(s, a)) = Len(s) + 1
         /\ Range(Append(s, a)) = Range(s) \cup {a}
         /\ IsInjective(Append(s, a)) => IsInjective(s)
         /\ (IsInjective(s) /\ ~addressArrayContains(s, a)) =>
               IsInjective(Append(s, a))
<1> DEFINE t == Append(s, a)
           n == Len(s)
<1>1. /\ t \in Seq(Address) /\ n \in Nat /\ Len(t) = n + 1
      /\ DOMAIN s = 1..n /\ DOMAIN t = 1..(n + 1)
      /\ \A i \in 1..n : t[i] = s[i]
      /\ t[n + 1] = a
  OBVIOUS
<1> HIDE DEF t, n
<1>2. 1..(n + 1) = 1..n \cup {n + 1} /\ n + 1 \notin 1..n
  BY <1>1
<1>3. Range(t) = Range(s) \cup {a}
  BY <1>1, <1>2 DEF Range
<1>4. IsInjective(t) => IsInjective(s)
  BY <1>1, <1>2 DEF IsInjective
<1>5. ASSUME IsInjective(s), ~addressArrayContains(s, a) PROVE IsInjective(t)
  <2>1. \A i \in 1..n : s[i] # a
    BY <1>1, <1>5 DEF addressArrayContains
  <2> QED BY <1>1, <1>2, <1>5, <2>1 DEF IsInjective
<1> QED BY <1>1, <1>3, <1>4, <1>5 DEF t, n

\* Without repeats, the array's entries with the status are counted right.
LEMMA CountOfValidators ==
  ASSUME validators \in Seq(Address), NoRepeats,
         validatorStatus \subseteq Range(validators)
  PROVE  IsFiniteSet(validatorStatus)
         /\ Cardinality(validatorStatus) = validatorCount
<1> DEFINE I == {i \in DOMAIN validators : isValidator(validators[i])}
           f == [i \in I |-> validators[i]]
<1>1. IsFiniteSet(I)
  <2>1. DOMAIN validators = 1..Len(validators) /\ Len(validators) \in Nat
    OBVIOUS
  <2>2. IsFiniteSet(1..Len(validators)) /\ I \subseteq 1..Len(validators)
    BY <2>1, FS_Interval
  <2> QED BY <2>2, FS_Subset
<1>2. f \in [I -> validatorStatus]
  BY DEF isValidator
<1>3. \A x, y \in I : f[x] = f[y] => x = y
  BY DEF NoRepeats, IsInjective
<1>4. \A t \in validatorStatus : \E x \in I : f[x] = t
  BY DEF Range, isValidator
<1> HIDE DEF f
<1>5. IsFiniteSet(validatorStatus) /\ Cardinality(validatorStatus) = Cardinality(I)
  BY <1>1, <1>2, <1>3, <1>4, CountOfValues
<1> QED BY <1>5 DEF validatorCount

-----------------------------------------------------------------------------
(* The owner's steps.                                                      *)

\* BridgeValidators keeps its types, its validators in the array, and the
\* requirement in reach.
LEMMA OwnerKeepsValidators ==
  ASSUME TypeOKValidators, RequirementInReach,
         validatorStatus \subseteq Range(validators), OwnerStep
  PROVE  /\ TypeOKValidators' /\ RequirementInReach'
         /\ validatorStatus' \subseteq Range(validators')
         /\ initialized' /\ changes <= changes'
         /\ (initialized /\ changes' = 0) => requiredSignatures' = requiredSignatures
         /\ ~initialized => requiredSignatures' # 0
<1> DEFINE Kept ==
      /\ TypeOKValidators' /\ RequirementInReach'
      /\ validatorStatus' \subseteq Range(validators')
      /\ initialized' /\ changes <= changes'
      /\ (initialized /\ changes' = 0) => requiredSignatures' = requiredSignatures
      /\ ~initialized => requiredSignatures' # 0
<1> USE ValidatorsAssumption
<1>1. ASSUME NEW n \in 1..MaxValidators, NEW k \in 0..MaxValidators,
             NEW initial \in [1..n -> Address], initialize(k, initial)
      PROVE  Kept
  <2>1. n \in Nat /\ initial \in Seq(Address) /\ Len(initial) = n
    OBVIOUS
  <2>2. /\ ~initialized /\ k # 0 /\ Len(initial) >= k
        /\ ZeroAddress \notin Range(initial)
        /\ validators' = initial /\ validatorStatus' = Range(initial)
        /\ requiredSignatures' = k /\ initialized' = TRUE /\ changes' = changes
    BY <1>1 DEF initialize
  <2>3. Range(initial) \subseteq Address
    BY DEF Range
  <2>4. TypeOKValidators'
    BY <2>1, <2>2, <2>3 DEF TypeOKValidators
  <2>5. RequirementInReach'
    BY <2>1, <2>2, CountOfEntries DEF RequirementInReach, NoRepeats
  <2>6. changes <= changes'
    BY <2>2 DEF TypeOKValidators
  <2> QED BY <2>2, <2>4, <2>5, <2>6
<1>2. ASSUME NEW a \in Address, addValidator(a)
      PROVE  Kept
  <2>1. /\ initialized /\ a # ZeroAddress /\ a \notin validatorStatus
        /\ Len(validators) < MaxValidators
        /\ validators' = Append(validators, a)
        /\ validatorStatus' = validatorStatus \cup {a}
        /\ UNCHANGED <<initialized, requiredSignatures, changes>>
    BY <1>2 DEF addValidator, isValidator
  <2>2. /\ validators' \in Seq(Address) /\ Len(validators) \in Nat
        /\ Len(validators') = Len(validators) + 1
        /\ Range(validators') = Range(validators) \cup {a}
        /\ NoRepeats' => NoRepeats
    BY <2>1, Pushed DEF TypeOKValidators, NoRepeats
  <2>3. TypeOKValidators'
    <3>1. Len(validators') <= MaxValidators
      BY <2>1, <2>2
    <3> QED BY <2>1, <2>2, <3>1 DEF TypeOKValidators
  <2>4. RequirementInReach'
    <3> SUFFICES ASSUME NoRepeats'
                 PROVE  Cardinality(validatorStatus') >= requiredSignatures
      BY <2>1 DEF RequirementInReach
    <3>1. IsFiniteSet(validatorStatus) /\ Cardinality(validatorStatus) \in Nat
      BY FS_Subset, FS_CardinalityType DEF TypeOKValidators
    <3>2. Cardinality(validatorStatus') = Cardinality(validatorStatus) + 1
      BY <2>1, <3>1, FS_AddElement
    <3>3. Cardinality(validatorStatus) >= requiredSignatures
      BY <2>1, <2>2 DEF RequirementInReach
    <3> QED BY <3>1, <3>2, <3>3 DEF TypeOKValidators
  <2>5. changes <= changes'
    BY <2>1 DEF TypeOKValidators
  <2> QED BY <2>1, <2>2, <2>3, <2>4, <2>5
<1>3. ASSUME NEW a \in Address, removeValidator(a)
      PROVE  Kept
  <2>1. /\ initialized /\ validatorCount > requiredSignatures
        /\ a \in validatorStatus /\ validatorStatus' = validatorStatus \ {a}
        /\ UNCHANGED <<initialized, validators, requiredSignatures, changes>>
    BY <1>3 DEF removeValidator, mayRemove, isValidator
  <2>2. TypeOKValidators'
    BY <2>1 DEF TypeOKValidators
  <2>3. RequirementInReach'
    <3> SUFFICES ASSUME NoRepeats
                 PROVE  Cardinality(validatorStatus') >= requiredSignatures
      BY <2>1 DEF RequirementInReach, NoRepeats
    <3>1. /\ IsFiniteSet(validatorStatus)
          /\ Cardinality(validatorStatus) = validatorCount
      BY CountOfValidators DEF TypeOKValidators
    <3>2. Cardinality(validatorStatus) \in Nat
      BY <3>1, FS_CardinalityType
    <3>3. Cardinality(validatorStatus') = Cardinality(validatorStatus) - 1
      BY <2>1, <3>1, FS_RemoveElement
    <3> QED BY <2>1, <3>1, <3>2, <3>3 DEF TypeOKValidators
  <2>4. changes <= changes'
    BY <2>1 DEF TypeOKValidators
  <2> QED BY <2>1, <2>2, <2>3, <2>4
<1>4. ASSUME NEW k \in 0..MaxValidators, setRequiredSignatures(k)
      PROVE  Kept
  <2>1. /\ initialized /\ validatorCount >= k /\ requiredSignatures' = k
        /\ changes' = IF k = requiredSignatures THEN changes ELSE changes + 1
        /\ UNCHANGED <<initialized, validators, validatorStatus>>
    BY <1>4 DEF setRequiredSignatures
  <2>2. changes \in Nat
    BY DEF TypeOKValidators
  <2>3. /\ changes' \in Nat /\ changes <= changes'
        /\ changes' = 0 => requiredSignatures' = requiredSignatures
    BY <2>1, <2>2
  <2>4. TypeOKValidators'
    BY <2>1, <2>3 DEF TypeOKValidators
  <2>5. RequirementInReach'
    BY <2>1, CountOfValidators DEF RequirementInReach, NoRepeats, TypeOKValidators
  <2> QED BY <2>1, <2>3, <2>4, <2>5
<1> QED BY <1>1, <1>2, <1>3, <1>4 DEF OwnerStep

-----------------------------------------------------------------------------
(* The invariant.                                                          *)

\* It holds before anything is initialized.
LEMMA InitInductive == InitChain => Inductive
<1> SUFFICES ASSUME InitChain PROVE Inductive
  OBVIOUS
<1> USE ValidatorsAssumption, ForeignAssumption
    DEF InitChain, Init, InitValidators, Home!InitHome
<1>1. TypeOK
  <2>1. <<>> \in Seq(Address) /\ Len(<<>>) = 0
    OBVIOUS
  <2>2. TypeOKValidators
    <3>1. validators \in Seq(Address) /\ Len(validators) <= MaxValidators
      BY <2>1
    <3>2. requiredSignatures \in 0..MaxValidators
      OBVIOUS
    <3> QED BY <3>1, <3>2 DEF TypeOKValidators
  <2>3. deposits \in [Deposit -> Seq(Address)]
    BY <2>1
  <2>4. signatures \in
          [Message -> [signed : Seq(Address), signatures : Seq(Address)]]
    BY <2>1
  <2>5. balance \in 0..MaxBalance
    OBVIOUS
  <2> QED BY <2>2, <2>3, <2>4, <2>5 DEF TypeOK
<1>2. StatusInArray
  BY DEF StatusInArray
<1>3. SignersDiffer
  BY DEF SignersDiffer, IsInjective
<1>4. PaidIsMarked /\ WithdrawnOnceByQuorum
  BY DEF PaidIsMarked, WithdrawnOnceByQuorum, Home!WithdrawnOnceByQuorum
<1>5. RequirementInReach /\ PaidOnceAtFixedRequirement /\ CollectedHasSignatures
  BY DEF RequirementInReach, PaidOnceAtFixedRequirement, CollectedHasSignatures
<1> QED BY <1>1, <1>2, <1>3, <1>4, <1>5 DEF Inductive

\* The owner changes validators or requirement.
LEMMA OwnerInductive ==
  ASSUME Inductive, OwnerStep, UNCHANGED <<bridgeVars, withdraws, payments>>
  PROVE  Inductive'
<1>0. UNCHANGED <<validatorContract, deposits, signatures, balance, paid,
                  collected, withdraws, payments>>
  BY DEF bridgeVars
<1>t. TypeOK
  BY DEF Inductive
<1>1. /\ TypeOKValidators' /\ RequirementInReach'
      /\ validatorStatus' \subseteq Range(validators')
      /\ initialized' /\ changes <= changes'
      /\ (initialized /\ changes' = 0) => requiredSignatures' = requiredSignatures
      /\ ~initialized => requiredSignatures' # 0
  BY OwnerKeepsValidators DEF Inductive, TypeOK, StatusInArray
<1>2. /\ changes' = 0 => changes = 0
      /\ requiredSignatures' \in Nat
  BY <1>1, <1>t, ValidatorsAssumption DEF TypeOK, TypeOKValidators
<1>3. TypeOK'
  BY <1>0, <1>1, <1>t DEF TypeOK
<1>4. StatusInArray'
  BY <1>1 DEF StatusInArray
<1>5. SignersDiffer' /\ PaidIsMarked' /\ WithdrawnOnceByQuorum'
  BY <1>0 DEF Inductive, SignersDiffer, PaidIsMarked, WithdrawnOnceByQuorum,
              Home!WithdrawnOnceByQuorum
<1>6. PaidOnceAtFixedRequirement'
  <2> SUFFICES ASSUME changes' = 0, NEW d \in Deposit
               PROVE  paid[d] = IF Cardinality(Range(deposits[d])) >= requiredSignatures'
                                THEN 1 ELSE 0
    BY <1>0 DEF PaidOnceAtFixedRequirement
  <2>1. CASE initialized
    BY <1>1, <1>2, <2>1 DEF Inductive, PaidOnceAtFixedRequirement
  <2>2. CASE ~initialized
    <3>1. deposits[d] = <<>> /\ paid[d] = 0
      BY <2>2 DEF Inductive, StatusInArray
    <3>2. Range(<<>>) = {} /\ Cardinality({}) = 0
      BY FS_EmptySet DEF Range
    <3>3. ~(0 >= requiredSignatures')
      BY <1>1, <1>2, <2>2
    <3> QED BY <3>1, <3>2, <3>3
  <2> QED BY <2>1, <2>2
<1>7. CollectedHasSignatures'
  <2> SUFFICES ASSUME changes' = 0, NEW m \in Message
               PROVE  /\ collected[m] = IF Len(signatures[m].signatures) >= requiredSignatures'
                                        THEN 1 ELSE 0
                      /\ IsInjective(signatures[m].signatures)
    BY <1>0 DEF CollectedHasSignatures
  <2>1. IsInjective(signatures[m].signatures)
    BY DEF Inductive, SignersDiffer
  <2>2. CASE initialized
    BY <1>1, <1>2, <2>2 DEF Inductive, CollectedHasSignatures
  <2>3. CASE ~initialized
    <3>1. signatures[m].signatures = <<>> /\ collected[m] = 0
      BY <2>3 DEF Inductive, StatusInArray
    <3>2. ~(0 >= requiredSignatures')
      BY <1>1, <1>2, <2>3
    <3> QED BY <2>1, <3>1, <3>2
  <2> QED BY <2>2, <2>3
<1> QED BY <1>1, <1>3, <1>4, <1>5, <1>6, <1>7 DEF Inductive

\* A step that only initializes the bridge or gives it ether.
LEMMA FundsInductive ==
  ASSUME Inductive, validatorContract' \in BOOLEAN, balance' \in 0..MaxBalance,
         UNCHANGED <<validatorVars, deposits, signatures, paid, collected,
                     withdraws, payments>>
  PROVE  Inductive'
<1> USE DEF validatorVars
<1>1. TypeOK'
  BY DEF Inductive, TypeOK, TypeOKValidators
<1>2. StatusInArray' /\ SignersDiffer' /\ PaidIsMarked' /\ RequirementInReach'
  BY DEF Inductive, StatusInArray, SignersDiffer, PaidIsMarked, RequirementInReach,
         NoRepeats
<1>3. PaidOnceAtFixedRequirement' /\ CollectedHasSignatures'
  BY DEF Inductive, PaidOnceAtFixedRequirement, CollectedHasSignatures
<1>4. WithdrawnOnceByQuorum'
  BY DEF Inductive, WithdrawnOnceByQuorum, Home!WithdrawnOnceByQuorum
<1> QED BY <1>1, <1>2, <1>3, <1>4 DEF Inductive

\* A validator confirms a deposit: one more, and it pays when that is as many
\* as required.
LEMMA DepositInductive ==
  ASSUME Inductive, NEW a \in Address, NEW d \in Deposit, deposit(a, d),
         UNCHANGED <<withdraws, payments>>
  PROVE  Inductive'
<1> DEFINE confirmed == Append(deposits[d], a)
<1> USE DEF validatorVars
<1>t. TypeOK
  BY DEF Inductive
<1>0. /\ initialized /\ ~addressArrayContains(deposits[d], a)
      /\ deposits' = [deposits EXCEPT ![d] = confirmed]
      /\ UNCHANGED <<initialized, validators, validatorStatus, requiredSignatures,
                     changes, validatorContract, signatures, collected,
                     withdraws, payments>>
  BY DEF deposit, onlyValidator, isValidator, Inductive, StatusInArray
<1>1. /\ deposits[d] \in Seq(Address) /\ IsInjective(deposits[d])
      /\ confirmed \in Seq(Address) /\ IsInjective(confirmed)
      /\ Len(deposits[d]) \in Nat /\ Len(confirmed) = Len(deposits[d]) + 1
  BY <1>0, <1>t, Pushed DEF TypeOK, Inductive, SignersDiffer
<1>2. /\ Cardinality(Range(deposits[d])) = Len(deposits[d])
      /\ Cardinality(Range(confirmed)) = Len(deposits[d]) + 1
  BY <1>1, CountOfEntries
<1>3. /\ requiredSignatures \in Nat /\ paid[d] \in Nat
      /\ paid' \in [Deposit -> Nat] /\ balance' \in 0..MaxBalance
      /\ paid'[d] = IF Len(deposits[d]) + 1 = requiredSignatures
                    THEN paid[d] + 1 ELSE paid[d]
      /\ \A e \in Deposit \ {d} : paid'[e] = paid[e]
  <2>1. requiredSignatures \in Nat /\ paid \in [Deposit -> Nat]
        /\ balance \in 0..MaxBalance /\ Value[d] \in Nat /\ MaxBalance \in Nat
    BY <1>t, ForeignAssumption, ValidatorsAssumption DEF TypeOK, TypeOKValidators
  <2>2. CASE reached(confirmed)
    <3>1. /\ Value[d] <= balance /\ balance' = balance - Value[d]
          /\ paid' = [paid EXCEPT ![d] = @ + 1]
      BY <2>2 DEF deposit, transfer
    <3>2. Len(deposits[d]) + 1 = requiredSignatures
      BY <1>1, <2>2 DEF reached
    <3> QED BY <2>1, <3>1, <3>2
  <2>3. CASE ~reached(confirmed)
    <3>1. UNCHANGED <<balance, paid>>
      BY <2>3 DEF deposit
    <3>2. Len(deposits[d]) + 1 # requiredSignatures
      BY <1>1, <2>3 DEF reached
    <3> QED BY <2>1, <3>1, <3>2
  <2> QED BY <2>2, <2>3
<1> HIDE DEF confirmed
<1>4. deposits'[d] = confirmed /\ \A e \in Deposit \ {d} : deposits'[e] = deposits[e]
  BY <1>0, <1>t DEF TypeOK
<1>5. TypeOK'
  <2>1. deposits' \in [Deposit -> Seq(Address)]
    BY <1>0, <1>1, <1>t DEF TypeOK
  <2> QED BY <1>0, <1>3, <1>t, <2>1 DEF TypeOK, TypeOKValidators
<1>6. StatusInArray' /\ PaidIsMarked' /\ RequirementInReach'
  BY <1>0 DEF Inductive, StatusInArray, PaidIsMarked, RequirementInReach, NoRepeats
<1>7. SignersDiffer'
  BY <1>0, <1>1, <1>4 DEF Inductive, SignersDiffer
<1>8. PaidOnceAtFixedRequirement'
  <2> SUFFICES ASSUME changes = 0, NEW e \in Deposit
               PROVE  paid'[e] = IF Cardinality(Range(deposits'[e])) >= requiredSignatures
                                 THEN 1 ELSE 0
    BY <1>0 DEF PaidOnceAtFixedRequirement
  <2>1. paid[e] = IF Cardinality(Range(deposits[e])) >= requiredSignatures
                  THEN 1 ELSE 0
    BY <1>0 DEF Inductive, PaidOnceAtFixedRequirement
  <2>2. CASE e = d
    BY <1>1, <1>2, <1>3, <1>4, <2>1, <2>2
  <2>3. CASE e # d
    BY <1>3, <1>4, <2>1, <2>3
  <2> QED BY <2>2, <2>3
<1>9. CollectedHasSignatures' /\ WithdrawnOnceByQuorum'
  BY <1>0 DEF Inductive, CollectedHasSignatures, WithdrawnOnceByQuorum,
              Home!WithdrawnOnceByQuorum
<1> QED BY <1>5, <1>6, <1>7, <1>8, <1>9 DEF Inductive

\* A validator adds its signature to a message.
LEMMA SubmitInductive ==
  ASSUME Inductive, NEW a \in Address, NEW m \in Message, submitSignature(a, m),
         UNCHANGED <<withdraws, payments>>
  PROVE  Inductive'
<1> DEFINE s == signatures[m].signed
           t == Append(s, a)
<1> USE DEF validatorVars
<1>t. TypeOK
  BY DEF Inductive
<1>1. /\ s \in Seq(Address) /\ IsInjective(s) /\ signatures[m].signatures = s
      /\ Len(s) \in Nat
  BY <1>t DEF TypeOK, Inductive, SignersDiffer
<1>0. /\ initialized /\ ~addressArrayContains(s, a)
      /\ signatures' = [signatures EXCEPT ![m] = [signed |-> t, signatures |-> t]]
      /\ collected' = [collected EXCEPT ![m] = IF reached(t) THEN @ + 1 ELSE @]
      /\ UNCHANGED <<initialized, validators, validatorStatus, requiredSignatures,
                     changes, validatorContract, deposits, balance, paid,
                     withdraws, payments>>
  BY <1>1 DEF submitSignature, onlyValidator, isValidator, Inductive, StatusInArray
<1>2. /\ t \in Seq(Address) /\ IsInjective(t) /\ Len(t) = Len(s) + 1
  BY <1>0, <1>1, Pushed
<1>3. /\ requiredSignatures \in Nat /\ collected[m] \in Nat
      /\ collected' \in [Message -> Nat]
      /\ collected'[m] = IF Len(s) + 1 = requiredSignatures
                         THEN collected[m] + 1 ELSE collected[m]
      /\ \A n \in Message \ {m} : collected'[n] = collected[n]
  <2>1. requiredSignatures \in Nat /\ collected \in [Message -> Nat]
    BY <1>t, ValidatorsAssumption DEF TypeOK, TypeOKValidators
  <2>2. reached(t) <=> Len(s) + 1 = requiredSignatures
    BY <1>2 DEF reached
  <2> QED BY <1>0, <2>1, <2>2
<1> HIDE DEF s, t
<1>4. /\ signatures'[m].signed = t /\ signatures'[m].signatures = t
      /\ \A n \in Message \ {m} : signatures'[n] = signatures[n]
  BY <1>0, <1>t DEF TypeOK
<1>5. TypeOK'
  <2>1. signatures' \in
          [Message -> [signed : Seq(Address), signatures : Seq(Address)]]
    BY <1>0, <1>2, <1>t DEF TypeOK
  <2> QED BY <1>0, <1>3, <1>t, <2>1 DEF TypeOK, TypeOKValidators
<1>6. StatusInArray' /\ PaidIsMarked' /\ RequirementInReach'
  BY <1>0 DEF Inductive, StatusInArray, PaidIsMarked, RequirementInReach, NoRepeats
<1>7. SignersDiffer'
  BY <1>0, <1>2, <1>4 DEF Inductive, SignersDiffer
<1>8. CollectedHasSignatures'
  <2> SUFFICES ASSUME changes = 0, NEW n \in Message
               PROVE  /\ collected'[n] =
                           IF Len(signatures'[n].signatures) >= requiredSignatures
                           THEN 1 ELSE 0
                      /\ IsInjective(signatures'[n].signatures)
    BY <1>0 DEF CollectedHasSignatures
  <2>1. /\ collected[n] = IF Len(signatures[n].signatures) >= requiredSignatures
                          THEN 1 ELSE 0
        /\ IsInjective(signatures[n].signatures)
    BY <1>0 DEF Inductive, CollectedHasSignatures
  <2>2. CASE n = m
    BY <1>1, <1>2, <1>3, <1>4, <2>1, <2>2
  <2>3. CASE n # m
    BY <1>3, <1>4, <2>1, <2>3
  <2> QED BY <2>2, <2>3
<1>9. PaidOnceAtFixedRequirement' /\ WithdrawnOnceByQuorum'
  BY <1>0 DEF Inductive, PaidOnceAtFixedRequirement, WithdrawnOnceByQuorum,
              Home!WithdrawnOnceByQuorum
<1> QED BY <1>5, <1>6, <1>7, <1>8, <1>9 DEF Inductive

\* Signatures that hasEnoughValidSignatures accepts are by as many different
\* validators in office as are required.
LEMMA EnoughAreValid ==
  ASSUME TypeOKValidators, NEW n \in Nat, NEW signers \in [1..n -> Address],
         Home!hasEnoughValidSignatures(signers)
  PROVE  /\ Cardinality(Range(signers) \cap validatorStatus) \in Nat
         /\ Cardinality(Range(signers) \cap validatorStatus) >= requiredSignatures
<1> DEFINE k == requiredSignatures
           S == Range(signers) \cap validatorStatus
           g == [i \in 1..k |-> signers[i]]
<1>1. k \in Nat /\ Len(signers) = n /\ DOMAIN signers = 1..n /\ k <= n
  BY ValidatorsAssumption DEF TypeOKValidators, Home!hasEnoughValidSignatures
<1>2. \A i \in 1..k : /\ i \in 1..n /\ signers[i] \in validatorStatus
                      /\ \A j \in 1..(i - 1) : signers[j] # signers[i]
  BY <1>1 DEF Home!hasEnoughValidSignatures, Home!isValidator
<1>3. \A i \in 1..k : g[i] \in S
  BY <1>1, <1>2 DEF Range
<1>4. ASSUME NEW i \in 1..k, NEW j \in 1..k, g[i] = g[j] PROVE i = j
  <2>1. CASE i < j
    <3>1. i \in 1..(j - 1)
      BY <1>1, <2>1
    <3> QED BY <1>2, <1>4, <3>1
  <2>2. CASE j < i
    <3>1. j \in 1..(i - 1)
      BY <1>1, <2>2
    <3> QED BY <1>2, <1>4, <3>1
  <2> QED BY <1>1, <2>1, <2>2
<1>5. IsFiniteSet(S)
  <2>1. S \subseteq Address
    BY DEF TypeOKValidators
  <2> QED BY <2>1, ValidatorsAssumption, FS_Subset
<1>6. g \in Injection(1..k, S)
  BY <1>3, <1>4 DEF Injection, IsInjective
<1>7. Cardinality(1..k) = k
  BY <1>1, FS_Interval
<1>8. Cardinality(1..k) <= Cardinality(S) /\ Cardinality(S) \in Nat
  BY <1>5, <1>6, FS_Injection, FS_CardinalityType
<1> QED BY <1>1, <1>7, <1>8

\* A withdraw on home.
LEMMA WithdrawInductive ==
  ASSUME Inductive, NEW n \in Nat, NEW signers \in [1..n -> Address],
         NEW m \in HomeMessage, Home!withdraw(signers, m),
         UNCHANGED <<deposits, signatures, paid, collected>>
  PROVE  Inductive'
<1> USE DEF validatorVars, Home!validatorVars
<1>t. TypeOK
  BY DEF Inductive
<1> DEFINE p == [message |-> m, required |-> requiredSignatures,
                 signed |-> Cardinality(Range(signers) \cap validatorStatus)]
<1>0. /\ Home!hasEnoughValidSignatures(signers)
      /\ TransactionHash[m] \notin withdraws
      /\ withdraws' = withdraws \cup {TransactionHash[m]}
      /\ HomeValue[m] <= balance /\ balance' = balance - HomeValue[m]
      /\ payments' = Append(payments, p)
      /\ UNCHANGED <<initialized, validators, validatorStatus, requiredSignatures,
                     changes, validatorContract, deposits, signatures, paid,
                     collected>>
  BY DEF Home!withdraw, Home!Range, Range, Home!Cardinality, Cardinality
<1>1. p.signed \in Nat /\ p.signed >= p.required /\ p.required \in Nat
  <2>1. TypeOKValidators
    BY <1>t DEF TypeOK
  <2>2. requiredSignatures \in Nat
    BY <2>1, ValidatorsAssumption DEF TypeOKValidators
  <2> QED BY <1>0, <2>1, <2>2, EnoughAreValid
<1>2. p \in [message : HomeMessage, required : Nat, signed : Nat] /\ p.message = m
  BY <1>1
<1> HIDE DEF p
<1>3. balance' \in 0..MaxBalance
  <2>1. balance \in 0..MaxBalance /\ MaxBalance \in Nat /\ HomeValue[m] \in Nat
    BY <1>t, ForeignAssumption, HomeAssumption DEF TypeOK
  <2> QED BY <1>0, <2>1
<1>4. /\ payments' \in Seq([message : HomeMessage, required : Nat, signed : Nat])
      /\ \A i \in DOMAIN payments' :
           \/ i \in DOMAIN payments /\ payments'[i] = payments[i]
           \/ i = Len(payments) + 1 /\ payments'[i] = p
  <2>1. payments \in Seq([message : HomeMessage, required : Nat, signed : Nat])
    BY DEF Inductive, PaidIsMarked
  <2> QED BY <1>0, <1>2, <2>1
<1>5. TypeOK'
  BY <1>0, <1>3, <1>t DEF TypeOK, TypeOKValidators
<1>6. PaidIsMarked'
  BY <1>0, <1>2, <1>4 DEF Inductive, PaidIsMarked
<1>7. WithdrawnOnceByQuorum'
  <2>1. \A i \in DOMAIN payments' : payments'[i].signed >= payments'[i].required
    BY <1>1, <1>4 DEF Inductive, WithdrawnOnceByQuorum, Home!WithdrawnOnceByQuorum
  <2>2. ASSUME NEW i \in DOMAIN payments', NEW j \in DOMAIN payments',
               TransactionHash[payments'[i].message]
                 = TransactionHash[payments'[j].message]
        PROVE  i = j
    <3>1. \A l \in DOMAIN payments :
             TransactionHash[payments[l].message] # TransactionHash[m]
      BY <1>0 DEF Inductive, PaidIsMarked
    <3>2. \A k, l \in DOMAIN payments :
             TransactionHash[payments[k].message] = TransactionHash[payments[l].message]
               => k = l
      BY DEF Inductive, WithdrawnOnceByQuorum, Home!WithdrawnOnceByQuorum
    <3> QED BY <1>2, <1>4, <2>2, <3>1, <3>2
  <2> QED BY <2>1, <2>2 DEF WithdrawnOnceByQuorum, Home!WithdrawnOnceByQuorum
<1>8. StatusInArray' /\ SignersDiffer' /\ RequirementInReach'
  BY <1>0 DEF Inductive, StatusInArray, SignersDiffer, RequirementInReach, NoRepeats
<1>9. PaidOnceAtFixedRequirement' /\ CollectedHasSignatures'
  BY <1>0 DEF Inductive, PaidOnceAtFixedRequirement, CollectedHasSignatures
<1> QED BY <1>5, <1>6, <1>7, <1>8, <1>9 DEF Inductive

\* Every step of a chain preserves the invariant.
LEMMA NextInductive == Inductive /\ [NextChain]_chainVars => Inductive'
<1> SUFFICES ASSUME Inductive, [NextChain]_chainVars PROVE Inductive'
  OBVIOUS
<1>b. /\ MaxBalance \in Nat /\ balance \in 0..MaxBalance
      /\ validatorContract \in BOOLEAN
  BY ForeignAssumption DEF Inductive, TypeOK
<1>1. CASE OnForeign
  <2> USE <1>1 DEF OnForeign
  <2>1. CASE OwnerStep /\ UNCHANGED bridgeVars
    BY <2>1, OwnerInductive
  <2>2. CASE initializeBridge
    BY <1>b, <2>2, FundsInductive DEF initializeBridge
  <2>3. ASSUME NEW value \in 1..MaxBalance, fallback(value) PROVE Inductive'
    <3>1. balance' \in 0..MaxBalance
      BY <1>b, <2>3 DEF fallback
    <3> QED BY <1>b, <2>3, <3>1, FundsInductive DEF fallback
  <2>4. ASSUME NEW a \in Address, NEW d \in Deposit, deposit(a, d)
        PROVE  Inductive'
    BY <2>4, DepositInductive
  <2>5. ASSUME NEW a \in Address, NEW m \in Message, submitSignature(a, m)
        PROVE  Inductive'
    BY <2>5, SubmitInductive
  <2> QED BY <2>1, <2>2, <2>3, <2>4, <2>5 DEF Next
<1>2. CASE OnHome
  <2> USE <1>2 DEF OnHome
  <2>1. CASE OwnerStep /\ UNCHANGED <<validatorContract, balance, withdraws, payments>>
    BY <2>1, OwnerInductive DEF bridgeVars
  <2>2. CASE Home!initializeHome
    BY <1>b, <2>2, FundsInductive DEF Home!initializeHome, Home!validatorVars,
                                      validatorVars
  <2>3. ASSUME NEW value \in 1..MaxBalance, Home!fallbackHome(value)
        PROVE  Inductive'
    <3>1. balance' \in 0..MaxBalance
      BY <1>b, <2>3 DEF Home!fallbackHome
    <3> QED BY <1>b, <2>3, <3>1, FundsInductive DEF Home!fallbackHome,
                Home!validatorVars, validatorVars
  <2>4. ASSUME NEW n \in 0..MaxSignatures, NEW m \in HomeMessage,
               NEW signers \in [1..n -> Address], Home!withdraw(signers, m)
        PROVE  Inductive'
    BY <2>4, HomeAssumption, WithdrawInductive
  <2> QED BY <2>1, <2>2, <2>3, <2>4 DEF Home!HomeStep
<1>3. CASE UNCHANGED chainVars
  BY <1>3, <1>b, FundsInductive DEF chainVars, vars, bridgeVars
<1> QED BY <1>1, <1>2, <1>3 DEF NextChain

-----------------------------------------------------------------------------
(* The theorems.                                                           *)

\* truffle/contracts: on either chain, the bridge never spends ether it does
\* not have, and confirmations are of different validators.
THEOREM InductiveInvariant == SpecChain => []Inductive
<1> QED BY InitInductive, NextInductive, PTL DEF SpecChain

\* BridgeValidators.sol: as long as the array has no repeats, the validators
\* in office can always meet the requirement.
THEOREM RequirementStaysInReach == SpecChain => []RequirementInReach
<1>1. Inductive => RequirementInReach
  BY DEF Inductive
<1> QED BY <1>1, InductiveInvariant, PTL

\* ForeignBridge.sol, deposit: at a fixed requirement each deposit is paid
\* exactly once, when enough validators have confirmed it.
THEOREM DepositPaidOnce == SpecChain => []PaidOnceAtFixedRequirement
<1>1. Inductive => PaidOnceAtFixedRequirement
  BY DEF Inductive
<1> QED BY <1>1, InductiveInvariant, PTL

\* ForeignBridge.sol, submitSignature: at a fixed requirement the event comes
\* exactly once, with enough signatures of different validators.
THEOREM CollectedOnce == SpecChain => []CollectedHasSignatures
<1>1. Inductive => CollectedHasSignatures
  BY DEF Inductive
<1> QED BY <1>1, InductiveInvariant, PTL

\* HomeBridge.sol, withdraw: whatever signatures it is given, and however
\* validators and requirement change, each withdraw had a quorum of the
\* validators in office, and none was made twice.
THEOREM WithdrawnOnce == SpecChain => []WithdrawnOnceByQuorum
<1>1. Inductive => WithdrawnOnceByQuorum
  BY DEF Inductive
<1> QED BY <1>1, InductiveInvariant, PTL
=============================================================================
