------------------------- MODULE DepositRelayProofs -------------------------
(***************************************************************************)
(* Proofs about ForeignDeposits and about DepositRelay, which is built on  *)
(* it: for any finite set of authorities, any quorum, any tokens, deposits *)
(* and values, any home chain and any number of stops and restarts.        *)
(***************************************************************************)
EXTENDS DepositRelay, FiniteSetTheorems, TLAPS

-----------------------------------------------------------------------------
(* The foreign contract by itself.                                         *)

\* Sets of authorities can be counted.
LEMMA CardinalityOfAuthorities ==
  ASSUME NEW S \in SUBSET Authority
  PROVE  IsFiniteSet(S) /\ Cardinality(S) \in Nat
BY ForeignAssumption, FS_Subset, FS_CardinalityType

\* A new sender raises the count by one.
LEMMA OneMoreAuthority ==
  ASSUME NEW S \in SUBSET Authority, NEW a \in Authority, a \notin S
  PROVE  Cardinality(S \cup {a}) = Cardinality(S) + 1
BY CardinalityOfAuthorities, FS_AddElement

\* The invariant holds initially.
LEMMA ForeignInitInductive == InitForeign => InductiveForeign
<1> SUFFICES ASSUME InitForeign PROVE InductiveForeign
  OBVIOUS
<1> USE ForeignAssumption DEF InitForeign
<1>1. TypeOKForeign
  BY DEF TypeOKForeign
<1>2. Cardinality({}) = 0
  BY FS_EmptySet
<1>3. \A d \in Deposit : Signers(d) = {}
  BY DEF Signers
<1>4. \A token \in Token : Voters(token) = {}
  BY DEF Voters
<1>5. RequiredSignatures \in Nat \ {0}
  BY CardinalityOfAuthorities
<1>6. PaidOnceByQuorum
  BY <1>2, <1>3, <1>5 DEF PaidOnceByQuorum
<1> QED BY <1>1, <1>2, <1>3, <1>4, <1>6 DEF InductiveForeign, TokenByQuorum

\* Every step preserves it.
LEMMA ForeignNextInductive == InductiveForeign /\ [NextForeign]_foreignVars => InductiveForeign'
<1> SUFFICES ASSUME InductiveForeign, [NextForeign]_foreignVars PROVE InductiveForeign'
  OBVIOUS
<1> USE ForeignAssumption
<1>t. TypeOKForeign
  BY DEF InductiveForeign
<1>q. RequiredSignatures \in Nat \ {0}
  BY CardinalityOfAuthorities
<1>c. /\ \A d \in Deposit : Signers(d) \in SUBSET Authority
      /\ \A d \in Deposit : Cardinality(Signers(d)) \in Nat
      /\ \A token \in Token : Voters(token) \in SUBSET Authority
      /\ \A token \in Token : Cardinality(Voters(token)) \in Nat
  BY CardinalityOfAuthorities DEF Signers, Voters
<1>1. CASE \E a \in Authority, token \in Token : setTokenAddress(a, token)
  <2> PICK a \in Authority, token \in Token : setTokenAddress(a, token)
    BY <1>1
  <2>1. /\ UNCHANGED <<depositsSigned, numDepositsSigned, paid, reserve>>
        /\ <<a, token>> \notin tokenVotes
        /\ tokenVotes' = tokenVotes \cup {<<a, token>>}
        /\ numTokenVotes' = [numTokenVotes EXCEPT ![token] = @ + 1]
        /\ erc20token' = IF numTokenVotes[token] + 1 = RequiredSignatures
                           THEN token ELSE erc20token
    BY DEF setTokenAddress, mayVote, depositVars
  <2>2. /\ Voters(token)' = Voters(token) \cup {a}
        /\ a \notin Voters(token)
        /\ \A k \in Token : k # token => Voters(k)' = Voters(k)
    BY <2>1 DEF Voters
  <2>3. Cardinality(Voters(token)') = Cardinality(Voters(token)) + 1
    BY <1>c, <2>2, OneMoreAuthority
  <2>4. \A d \in Deposit : Signers(d)' = Signers(d)
    BY <2>1 DEF Signers
  <2>5. TypeOKForeign'
    BY <1>t, <2>1 DEF TypeOKForeign
  <2>6. \A k \in Token : numTokenVotes'[k] = Cardinality(Voters(k)')
    BY <1>t, <2>1, <2>2, <2>3 DEF TypeOKForeign, InductiveForeign
  <2>7. TokenByQuorum'
    <3>1. CASE erc20token' = token
      <4>1. CASE numTokenVotes[token] + 1 = RequiredSignatures
        BY <1>q, <2>3, <3>1, <4>1 DEF TokenByQuorum, InductiveForeign
      <4>2. CASE numTokenVotes[token] + 1 # RequiredSignatures
        <5>1. erc20token = token
          BY <2>1, <3>1, <4>2
        <5>2. Cardinality(Voters(token)) >= RequiredSignatures
          BY <5>1 DEF InductiveForeign, TokenByQuorum
        <5> QED BY <1>c, <1>q, <2>3, <3>1, <5>2 DEF TokenByQuorum
      <4> QED BY <4>1, <4>2
    <3>2. CASE erc20token' # token
      <4>1. erc20token' = erc20token
        BY <2>1, <3>2
      <4>2. erc20token # NoToken => Voters(erc20token)' = Voters(erc20token)
        BY <1>t, <2>2, <3>2, <4>1 DEF TypeOKForeign
      <4> QED BY <4>1, <4>2 DEF InductiveForeign, TokenByQuorum, Voters
    <3> QED BY <3>1, <3>2
  <2>8. PaidOnceByQuorum'
    BY <2>1, <2>4 DEF InductiveForeign, PaidOnceByQuorum
  <2> QED BY <2>1, <2>4, <2>5, <2>6, <2>7, <2>8 DEF InductiveForeign
<1>2. CASE \E a \in Authority, d \in Deposit : deposit(a, d)
  <2> PICK a \in Authority, d \in Deposit : deposit(a, d)
    BY <1>2
  <2>1. /\ UNCHANGED <<tokenVotes, numTokenVotes, erc20token>>
        /\ erc20token \in Token
        /\ <<a, d>> \notin depositsSigned
        /\ depositsSigned' = depositsSigned \cup {<<a, d>>}
        /\ numDepositsSigned' = [numDepositsSigned EXCEPT ![d] = @ + 1]
    BY <1>t DEF deposit, accepts, tokenVars, TypeOKForeign
  <2>2. /\ Signers(d)' = Signers(d) \cup {a}
        /\ a \notin Signers(d)
        /\ \A e \in Deposit : e # d => Signers(e)' = Signers(e)
    BY <2>1 DEF Signers
  <2>3. Cardinality(Signers(d)') = Cardinality(Signers(d)) + 1
    BY <1>c, <2>2, OneMoreAuthority
  <2>4. \A k \in Token : Voters(k)' = Voters(k)
    BY <2>1 DEF Voters
  <2>5. \A e \in Deposit : numDepositsSigned'[e] = Cardinality(Signers(e)')
    BY <1>t, <2>1, <2>2, <2>3 DEF TypeOKForeign, InductiveForeign
  <2>6. CASE pays(d)
    <3>1. /\ reserve[erc20token] >= Value[d]
          /\ reserve' = [reserve EXCEPT ![erc20token] = @ - Value[d]]
          /\ paid' = [paid EXCEPT ![d] = @ + 1]
      BY <2>6 DEF deposit, accepts
    <3>2. reserve' \in [Token -> Nat]
      BY <1>t, <2>1, <3>1 DEF TypeOKForeign
    <3>3. TypeOKForeign'
      BY <1>t, <2>1, <3>1, <3>2 DEF TypeOKForeign
    <3>4. Cardinality(Signers(d)) + 1 = RequiredSignatures
      BY <2>6 DEF InductiveForeign, pays
    <3>5. paid[d] = 0
      BY <1>c, <1>q, <3>4 DEF InductiveForeign, PaidOnceByQuorum
    <3>6. PaidOnceByQuorum'
      <4> SUFFICES ASSUME NEW e \in Deposit
                   PROVE  paid'[e] = IF Cardinality(Signers(e)') >= RequiredSignatures
                                       THEN 1 ELSE 0
        BY DEF PaidOnceByQuorum
      <4>1. CASE e = d
        BY <1>t, <1>q, <2>3, <3>1, <3>4, <3>5, <4>1 DEF TypeOKForeign
      <4>2. CASE e # d
        BY <1>t, <2>2, <3>1, <4>2 DEF TypeOKForeign, InductiveForeign, PaidOnceByQuorum
      <4> QED BY <4>1, <4>2
    <3> QED BY <2>1, <2>4, <2>5, <3>3, <3>6 DEF InductiveForeign, TokenByQuorum, Voters
  <2>7. CASE ~pays(d)
    <3>1. UNCHANGED <<reserve, paid>>
      BY <2>7 DEF deposit
    <3>2. TypeOKForeign'
      BY <1>t, <2>1, <3>1 DEF TypeOKForeign
    <3>3. Cardinality(Signers(d)) + 1 # RequiredSignatures
      BY <2>7 DEF InductiveForeign, pays
    <3>4. PaidOnceByQuorum'
      <4> SUFFICES ASSUME NEW e \in Deposit
                   PROVE  paid[e] = IF Cardinality(Signers(e)') >= RequiredSignatures
                                      THEN 1 ELSE 0
        BY <3>1 DEF PaidOnceByQuorum
      <4>1. paid[e] = IF Cardinality(Signers(e)) >= RequiredSignatures THEN 1 ELSE 0
        BY DEF InductiveForeign, PaidOnceByQuorum
      <4>2. CASE e = d
        BY <1>c, <1>q, <2>3, <3>3, <4>1, <4>2
      <4>3. CASE e # d
        BY <2>2, <4>1, <4>3
      <4> QED BY <4>2, <4>3
    <3> QED BY <2>1, <2>4, <2>5, <3>2, <3>4 DEF InductiveForeign, TokenByQuorum, Voters
  <2> QED BY <2>6, <2>7
<1>3. CASE \E token \in Token, value \in 1..MaxReserve :
             receiveApproval(token, value) \/ transferToBridge(token, value)
  <2> PICK token \in Token, value \in 1..MaxReserve :
             receiveApproval(token, value) \/ transferToBridge(token, value)
    BY <1>3
  <2>1. /\ UNCHANGED <<tokenVotes, numTokenVotes, erc20token, depositsSigned,
                       numDepositsSigned, paid>>
        /\ reserve' = [reserve EXCEPT ![token] = @ + value]
    BY DEF receiveApproval, transferToBridge, tokenVars, depositVars
  <2>2. TypeOKForeign'
    BY <1>t, <2>1 DEF TypeOKForeign
  <2> QED BY <2>1, <2>2 DEF InductiveForeign, PaidOnceByQuorum, TokenByQuorum, Signers,
             Voters
<1>4. CASE UNCHANGED foreignVars
  BY <1>4 DEF foreignVars, tokenVars, depositVars, InductiveForeign, TypeOKForeign,
     PaidOnceByQuorum, TokenByQuorum, Signers, Voters
<1> QED BY <1>1, <1>2, <1>3, <1>4 DEF NextForeign

\* bridge.sol, ForeignBridge: the vote counters are the numbers of different
\* senders recorded.
THEOREM ForeignInvariant == SpecForeign => []InductiveForeign
<1> QED BY ForeignInitInductive, ForeignNextInductive, PTL DEF SpecForeign

\* ForeignBridge: its variables keep their types, for every number of authorities,
\* deposits and tokens; it never pays tokens it does not own.
THEOREM ForeignTypeCorrect == SpecForeign => []TypeOKForeign
<1>1. InductiveForeign => TypeOKForeign
  BY DEF InductiveForeign
<1> QED BY <1>1, ForeignInvariant, PTL

\* ForeignBridge.deposit: for any authorities and any quorum, a deposit is paid
\* exactly when a quorum has confirmed it, and never twice.
THEOREM DepositPaidOnceByQuorum == SpecForeign => []PaidOnceByQuorum
<1>1. InductiveForeign => PaidOnceByQuorum
  BY DEF InductiveForeign
<1> QED BY <1>1, ForeignInvariant, PTL

\* ForeignBridge.setTokenAddress: the token in use always has a quorum.
THEOREM TokenChosenByQuorum == SpecForeign => []TokenByQuorum
<1>1. InductiveForeign => TokenByQuorum
  BY DEF InductiveForeign
<1> QED BY <1>1, ForeignInvariant, PTL

-----------------------------------------------------------------------------
(* The relays and the contract together.                                   *)

\* A deposit is never paid by no confirmation at all.
LEMMA QuorumNotEmpty == RequiredSignatures \in Nat \ {0}
BY ForeignAssumption, FS_CardinalityType

\* What the contract does in a step of the whole is a step of the contract, or
\* nothing: a transaction that fails is undone.
LEMMA StepIsContractStep == [Next]_vars => [NextForeign]_foreignVars
<1> SUFFICES ASSUME [Next]_vars PROVE [NextForeign]_foreignVars
  OBVIOUS
<1>1. ASSUME NEW a \in Authority, NEW d \in Deposit, ForeignExecutes(a, d)
      PROVE  [NextForeign]_foreignVars
  BY <1>1 DEF ForeignExecutes, NextForeign
<1>2. CASE HomeFinalizes \/ UNCHANGED vars
  BY <1>2 DEF HomeFinalizes, vars
<1>3. ASSUME NEW a \in Authority, Process(a) \/ Stop(a)
      PROVE  UNCHANGED foreignVars
  BY <1>3 DEF Process, PollWait, Sent, BatchDone, Restart, Stop
<1>4. ASSUME NEW a \in Authority, NEW l \in Log, SentButTimedOut(a, l)
      PROVE  UNCHANGED foreignVars
  BY <1>4 DEF SentButTimedOut
<1> QED BY <1>1, <1>2, <1>3, <1>4 DEF Next

\* The invariant holds initially.
LEMMA InitInductive == Init => Inductive
<1> SUFFICES ASSUME Init PROVE Inductive
  OBVIOUS
<1> USE RelayAssumption, ForeignAssumption DEF Init
<1>0. Cardinality(Authority) \in Nat /\ Cardinality({}) = 0
  BY FS_CardinalityType, FS_EmptySet
<1>1. TypeOKForeign
  BY <1>0 DEF TypeOKForeign
<1>2. TypeOK
  BY <1>1 DEF TypeOK
<1>3. CheckedMeansRelayed
  BY DEF CheckedMeansRelayed
<1>4. BatchCovers /\ OnlyFinal
  BY DEF BatchCovers, OnlyFinal
<1>5. InductiveForeign
  <2>1. \A d \in Deposit : Signers(d) = {}
    BY DEF Signers
  <2>2. \A k \in Token : Voters(k) = IF k = TheToken THEN Authority ELSE {}
    BY DEF Voters
  <2>3. PaidOnceByQuorum
    <3>1. \A d \in Deposit : Cardinality(Signers(d)) = 0 /\ paid[d] = 0
      BY <1>0, <2>1
    <3>2. ~(0 >= RequiredSignatures)
      BY QuorumNotEmpty
    <3> QED BY <3>1, <3>2 DEF PaidOnceByQuorum
  <2>4. TokenByQuorum
    BY <1>0, <2>2 DEF TokenByQuorum
  <2> QED BY <1>0, <1>1, <2>1, <2>2, <2>3, <2>4 DEF InductiveForeign
<1> QED BY <1>2, <1>3, <1>4, <1>5 DEF Inductive

\* Every step preserves it.
LEMMA NextInductive == Inductive /\ [Next]_vars => Inductive'
<1> SUFFICES ASSUME Inductive, [Next]_vars PROVE Inductive'
  OBVIOUS
<1> USE RelayAssumption
<1>t. TypeOK
  BY DEF Inductive
<1>f. InductiveForeign' /\ TypeOKForeign'
  BY StepIsContractStep, ForeignNextInductive DEF Inductive, InductiveForeign
<1>1. CASE HomeFinalizes
  <2>1. /\ final' = final + 1 /\ final' \in 0..LastBlock
        /\ UNCHANGED <<up, relay, after, todo, checked, stops, pool, executed,
                       numDepositsSigned>>
    BY <1>1, <1>t DEF HomeFinalizes, processVars, foreignVars, depositVars, TypeOK
  <2>2. TypeOK'
    BY <1>f, <1>t, <2>1 DEF TypeOK
  <2>3. \A d \in Deposit : Backing(d) \subseteq Backing(d)'
    BY <1>t, <2>1 DEF Backing, TypeOK
  <2>4. OnlyFinal'
    <3>1. /\ \A a \in Authority : checked[a] <= final + 1 /\ after[a] <= final + 1
          /\ \A a \in Authority, l \in Log : l \in todo[a] => LogBlock[l] <= final + 1
      BY <1>t DEF TypeOK, Inductive, OnlyFinal
    <3> QED BY <2>1, <2>3, <3>1 DEF Inductive, OnlyFinal
  <2> QED BY <1>f, <2>1, <2>2, <2>4 DEF Inductive, CheckedMeansRelayed, BatchCovers
<1>2. CASE \E a \in Authority, d \in Deposit : ForeignExecutes(a, d)
  <2> PICK a \in Authority, d \in Deposit : ForeignExecutes(a, d)
    BY <1>2
  <2>1. /\ <<a, d>> \in pool /\ pool' = pool \ {<<a, d>>}
        /\ executed' = executed \cup {<<a, d>>}
        /\ UNCHANGED <<final, up, relay, after, todo, checked, stops>>
    BY DEF ForeignExecutes, processVars
  <2>2. pool' \cup executed' = pool \cup executed
    BY <2>1
  <2>3. CheckedMeansRelayed' /\ BatchCovers'
    BY <2>1, <2>2 DEF Inductive, CheckedMeansRelayed, BatchCovers
  <2>4. \A e \in Deposit : Backing(e)' = Backing(e)
    BY <2>1 DEF Backing
  <2>5. Backing(d) # {}
    BY <2>1 DEF Inductive, OnlyFinal
  <2>6. TypeOK'
    BY <1>f, <1>t, <2>1 DEF TypeOK
  <2>7. \A e \in Deposit : numDepositsSigned'[e] > 0 =>
          e = d \/ numDepositsSigned[e] > 0
    <3>1. CASE deposit(a, d)
      BY <1>t, <3>1 DEF deposit, TypeOK, TypeOKForeign
    <3>2. CASE UNCHANGED foreignVars
      BY <3>2 DEF foreignVars, depositVars
    <3> QED BY <3>1, <3>2 DEF ForeignExecutes
  <2>8. OnlyFinal'
    BY <2>1, <2>4, <2>5, <2>7 DEF Inductive, OnlyFinal
  <2> QED BY <1>f, <2>3, <2>6, <2>8 DEF Inductive
<1>3. CASE \E a \in Authority, to \in 1..LastBlock : PollWait(a, to)
  <2> PICK a \in Authority, to \in 1..LastBlock : PollWait(a, to)
    BY <1>3
  <2>1. /\ relay[a] = "Wait" /\ to \in (after[a] + 1)..final
        /\ relay' = [relay EXCEPT ![a] = "RelayDeposits"]
        /\ after' = [after EXCEPT ![a] = to]
        /\ todo' = [todo EXCEPT ![a] = LogsIn(after[a] + 1, to)]
        /\ UNCHANGED <<final, up, checked, stops, pool, executed,
                       numDepositsSigned>>
    BY DEF PollWait, Available, foreignVars, depositVars
  <2>2. /\ relay'[a] = "RelayDeposits" /\ after'[a] = to
        /\ todo'[a] = LogsIn(after[a] + 1, to)
        /\ \A b \in Authority : b # a => /\ relay'[b] = relay[b]
                                         /\ after'[b] = after[b]
                                         /\ todo'[b] = todo[b]
    BY <1>t, <2>1 DEF TypeOK
  <2>3. TypeOK'
    BY <1>f, <1>t, <2>1 DEF TypeOK, LogsIn
  <2>4. CheckedMeansRelayed'
    BY <2>1 DEF Inductive, CheckedMeansRelayed
  <2>5. \A l \in Log : LogBlock[l] <= to => \/ l \in todo'[a]
                                            \/ LogBlock[l] <= checked[a]
    <3>1. after[a] = checked[a] /\ after[a] \in Nat /\ to \in Nat
      BY <1>t, <2>1 DEF Inductive, BatchCovers, TypeOK
    <3> QED BY <2>2, <3>1 DEF LogsIn
  <2>6. BatchCovers'
    BY <2>1, <2>2, <2>5 DEF Inductive, BatchCovers, CheckedMeansRelayed
  <2>7. OnlyFinal'
    <3>1. \A l \in Log : l \in todo'[a] => LogBlock[l] <= final
      BY <1>t, <2>1, <2>2 DEF LogsIn, TypeOK
    <3>2. after'[a] <= final
      BY <2>1, <2>2
    <3> QED BY <2>1, <2>2, <3>1, <3>2 DEF Inductive, OnlyFinal, Backing
  <2> QED BY <1>f, <2>1, <2>3, <2>4, <2>6, <2>7 DEF Inductive
<1>4. CASE \E a \in Authority, l \in Log : Sent(a, l) \/ SentButTimedOut(a, l)
  <2> PICK a \in Authority, l \in Log : Sent(a, l) \/ SentButTimedOut(a, l)
    BY <1>4
  <2>1. /\ relay[a] = "RelayDeposits" /\ l \in todo[a]
        /\ pool' = pool \cup {<<a, Payload[l]>>}
        /\ todo' \in [Authority -> SUBSET Log]
        /\ \A b \in Authority : todo'[b] \subseteq todo[b]
        /\ \A b \in Authority, m \in Log :
              m \in todo[b] => m \in todo'[b] \/ <<b, Payload[m]>> \in pool'
        /\ up' \in [Authority -> BOOLEAN]
        /\ stops' \in 0..MaxStops
        /\ UNCHANGED <<final, relay, after, checked, executed,
                       numDepositsSigned>>
    <3>1. CASE Sent(a, l)
      BY <1>t, <3>1 DEF Sent, foreignVars, depositVars, TypeOK
    <3>2. CASE SentButTimedOut(a, l)
      BY <1>t, <3>2 DEF SentButTimedOut, foreignVars, depositVars, TypeOK
    <3> QED BY <3>1, <3>2
  <2>2. TypeOK'
    BY <1>f, <1>t, <2>1 DEF TypeOK
  <2>3. CheckedMeansRelayed' /\ BatchCovers'
    BY <2>1 DEF Inductive, CheckedMeansRelayed, BatchCovers
  <2>4. l \in Backing(Payload[l])
    BY <2>1 DEF Backing, Inductive, OnlyFinal
  <2>5. OnlyFinal'
    BY <2>1, <2>4 DEF Inductive, OnlyFinal, Backing
  <2> QED BY <1>f, <2>1, <2>2, <2>3, <2>5 DEF Inductive
<1>5. CASE \E a \in Authority : BatchDone(a)
  <2> PICK a \in Authority : BatchDone(a)
    BY <1>5
  <2>1. /\ relay[a] = "RelayDeposits" /\ todo[a] = {}
        /\ relay' = [relay EXCEPT ![a] = "Wait"]
        /\ checked' = [checked EXCEPT ![a] = after[a]]
        /\ UNCHANGED <<final, up, after, todo, stops, pool, executed,
                       numDepositsSigned>>
    BY DEF BatchDone, BatchComplete, foreignVars, depositVars
  <2>2. TypeOK'
    BY <1>f, <1>t, <2>1 DEF TypeOK
  <2>3. CheckedMeansRelayed'
    BY <1>t, <2>1 DEF TypeOK, Inductive, CheckedMeansRelayed, BatchCovers
  <2>4. BatchCovers'
    BY <1>t, <2>1 DEF TypeOK, Inductive, BatchCovers
  <2>5. OnlyFinal'
    BY <1>t, <2>1 DEF TypeOK, Inductive, OnlyFinal, Backing
  <2> QED BY <1>f, <2>1, <2>2, <2>3, <2>4, <2>5 DEF Inductive
<1>6. CASE \E a \in Authority : Stop(a)
  <2> PICK a \in Authority : Stop(a)
    BY <1>6
  <2>1. /\ up' \in [Authority -> BOOLEAN] /\ stops' \in 0..MaxStops
        /\ UNCHANGED <<final, relay, after, todo, checked, pool, executed,
                       numDepositsSigned>>
    BY <1>t DEF Stop, foreignVars, depositVars, TypeOK
  <2>2. TypeOK'
    BY <1>f, <1>t, <2>1 DEF TypeOK
  <2> QED BY <1>f, <2>1, <2>2 DEF Inductive, CheckedMeansRelayed, BatchCovers,
             OnlyFinal, Backing
<1>7. CASE \E a \in Authority : Restart(a)
  <2> PICK a \in Authority : Restart(a)
    BY <1>7
  <2>1. /\ up' \in [Authority -> BOOLEAN]
        /\ relay' = [relay EXCEPT ![a] = "Wait"]
        /\ after' = [after EXCEPT ![a] = checked[a]]
        /\ todo' = [todo EXCEPT ![a] = {}]
        /\ UNCHANGED <<final, checked, stops, pool, executed,
                       numDepositsSigned>>
    BY <1>t DEF Restart, StartsAfter, foreignVars, depositVars, TypeOK
  <2>2. TypeOK'
    BY <1>f, <1>t, <2>1 DEF TypeOK
  <2>3. CheckedMeansRelayed'
    BY <2>1 DEF Inductive, CheckedMeansRelayed
  <2>4. BatchCovers' /\ OnlyFinal'
    BY <1>t, <2>1 DEF TypeOK, Inductive, BatchCovers, OnlyFinal, Backing
  <2> QED BY <1>f, <2>1, <2>2, <2>3, <2>4 DEF Inductive
<1>8. CASE UNCHANGED vars
  BY <1>8, <1>f DEF vars, processVars, foreignVars, depositVars, Inductive,
     TypeOK, CheckedMeansRelayed, BatchCovers, OnlyFinal, Backing
<1> QED BY <1>1, <1>2, <1>3, <1>4, <1>5, <1>6, <1>7, <1>8 DEF Next, Process

\* deposit_relay.rs: batch and transactions sent together cover every deposit up
\* to the block the stream has reached.
THEOREM InductiveInvariant == Spec => []Inductive
<1> QED BY InitInductive, NextInductive, PTL DEF Spec

\* deposit_relay.rs: the variables of all processes keep their types.
THEOREM TypeCorrect == Spec => []TypeOK
<1>1. Inductive => TypeOK
  BY DEF Inductive
<1> QED BY <1>1, InductiveInvariant, PTL

\* Bridge::poll, deposit_relay.rs: a checkpoint never runs ahead of what the
\* authority has handed to its foreign node, through any stops and restarts.
THEOREM CheckpointIsSound == Spec => []CheckedMeansRelayed
<1>1. Inductive => CheckedMeansRelayed
  BY DEF Inductive
<1> QED BY <1>1, InductiveInvariant, PTL

\* deposit_relay.rs with ForeignBridge.deposit: foreign pays no deposit more
\* often than final deposit events on home call for.
THEOREM PaymentsAreBacked == Spec => []PaidIsBacked
<1>1. Inductive => PaidIsBacked
  <2> SUFFICES ASSUME Inductive, NEW d \in Deposit
               PROVE  paid[d] <= Cardinality(Backing(d))
    BY DEF PaidIsBacked
  <2>1. IsFiniteSet(Backing(d)) /\ Cardinality(Backing(d)) \in Nat
    BY RelayAssumption, FS_Subset, FS_CardinalityType DEF Backing
  <2>2. Backing(d) # {} => Cardinality(Backing(d)) # 0
    BY <2>1, FS_EmptySet
  <2>3. /\ numDepositsSigned[d] \in Nat
        /\ numDepositsSigned[d] = Cardinality(Signers(d))
        /\ paid[d] = IF Cardinality(Signers(d)) >= RequiredSignatures THEN 1 ELSE 0
    BY DEF Inductive, InductiveForeign, TypeOKForeign, PaidOnceByQuorum
  <2>4. paid[d] = 0 \/ (paid[d] = 1 /\ Backing(d) # {})
    BY <2>3, QuorumNotEmpty DEF Inductive, OnlyFinal
  <2> QED BY <2>1, <2>2, <2>4
<1> QED BY <1>1, InductiveInvariant, PTL

\* deposit_relay.rs with bridge.sol: whatever relays and chains do, foreign's
\* contract only sees steps of its own, so what is proved of it by itself holds
\* in the whole system.
THEOREM StepsOfTheContract == Spec => [][NextForeign]_foreignVars
<1> QED BY StepIsContractStep, PTL DEF Spec

\* With relays that repeat their transactions after every restart, a deposit is
\* paid exactly when a quorum of authorities has confirmed it, and once.
THEOREM RelayedDepositPaidOnce == Spec => []PaidOnceByQuorum
<1>1. Inductive => PaidOnceByQuorum
  BY DEF Inductive, InductiveForeign
<1> QED BY <1>1, InductiveInvariant, PTL

-----------------------------------------------------------------------------
(* The deposit side implements Transfers.                                  *)

\* No block is final at the start, and nothing is paid.
LEMMA TransfersInit == Init => Promised!Init
<1> SUFFICES ASSUME Init PROVE Promised!Init
  OBVIOUS
<1>1. \A d \in Deposit : Backing(d) = {}
  BY RelayAssumption DEF Init, Backing
<1>2. \A d \in Deposit : paid[d] * Value[d] = 0
  BY ForeignAssumption DEF Init
<1> QED BY <1>1, <1>2 DEF Promised!Init, Locked, Released

\* deposit: a vote that counts pays a deposit that was never paid, or nothing.
LEMMA DepositReleases ==
  ASSUME InductiveForeign, NEW a \in Authority, NEW d \in Deposit, deposit(a, d),
         d \in Locked, Locked' = Locked
  PROVE  [Promised!Next]_<<Locked, Released>>
<1>t. /\ paid \in [Deposit -> Nat] /\ numDepositsSigned[d] \in Nat
      /\ Value[d] \in Nat /\ Released \in [Deposit -> Int]
  BY ForeignAssumption DEF InductiveForeign, TypeOKForeign, Released
<1>1. CASE pays(d)
  <2>1. paid[d] = 0
    <3>1. /\ numDepositsSigned[d] = Cardinality(Signers(d))
          /\ numDepositsSigned[d] + 1 = RequiredSignatures
      BY <1>1 DEF InductiveForeign, pays
    <3>2. ~(Cardinality(Signers(d)) >= RequiredSignatures)
      BY <1>t, <3>1
    <3> QED BY <3>2 DEF InductiveForeign, PaidOnceByQuorum
  <2>2. paid' = [paid EXCEPT ![d] = 1]
    BY <1>1, <1>t, <2>1 DEF deposit
  <2>3. Released[d] = 0
    BY <1>t, <2>1 DEF Released
  <2>4. Released' = [Released EXCEPT ![d] = Value[d]]
    <3>1. Released'[d] = Value[d]
      BY <1>t, <2>2 DEF Released
    <3>2. \A e \in Deposit : e # d => Released'[e] = Released[e]
      BY <1>t, <2>2 DEF Released
    <3>3. Released' = [e \in Deposit |-> Released'[e]]
      BY DEF Released
    <3>4. [Released EXCEPT ![d] = Value[d]]
            = [e \in Deposit |-> IF e = d THEN Value[d] ELSE Released[e]]
      BY <1>t
    <3> QED BY <3>1, <3>2, <3>3, <3>4
  <2> QED BY <2>3, <2>4 DEF Promised!Next, Promised!Release
<1>2. CASE ~pays(d)
  <2>1. paid' = paid
    BY <1>2 DEF deposit
  <2> QED BY <2>1 DEF Released
<1> QED BY <1>1, <1>2

\* Every step locks deposits, releases one, or is a stutter.
LEMMA TransfersNext ==
  Inductive /\ [Next]_vars => [Promised!Next]_<<Locked, Released>>
<1> SUFFICES ASSUME Inductive, [Next]_vars
             PROVE  [Promised!Next]_<<Locked, Released>>
  OBVIOUS
<1>1. CASE HomeFinalizes
  <2>1. final \in Nat /\ final' = final + 1 /\ paid' = paid
    BY <1>1, RelayAssumption
       DEF HomeFinalizes, foreignVars, depositVars, Inductive, TypeOK
  <2>2. \A d \in Deposit : Backing(d) \subseteq Backing(d)'
    BY <2>1, RelayAssumption DEF Backing
  <2>3. Locked \subseteq Locked' /\ Locked' \subseteq Deposit
    BY <2>2 DEF Locked
  <2>4. Released' = Released
    BY <2>1 DEF Released
  <2> QED BY <2>3, <2>4 DEF Promised!Next, Promised!Lock
<1>2. CASE \E a \in Authority, d \in Deposit : ForeignExecutes(a, d)
  <2> PICK a \in Authority, d \in Deposit : ForeignExecutes(a, d)
    BY <1>2
  <2>1. final' = final /\ <<a, d>> \in pool
    BY DEF ForeignExecutes
  <2>2. Locked' = Locked
    BY <2>1 DEF Locked, Backing
  <2>3. d \in Locked
    BY <2>1 DEF Inductive, OnlyFinal, Locked
  <2>4. CASE deposit(a, d)
    BY <2>2, <2>3, <2>4, DepositReleases DEF Inductive
  <2>5. CASE UNCHANGED foreignVars
    BY <2>2, <2>5 DEF foreignVars, depositVars, Released
  <2> QED BY <2>4, <2>5 DEF ForeignExecutes
<1>3. CASE \/ \E a \in Authority : Process(a) \/ Stop(a)
           \/ \E a \in Authority, l \in Log : SentButTimedOut(a, l)
           \/ UNCHANGED vars
  <2>1. final' = final /\ paid' = paid
    BY <1>3 DEF Process, PollWait, Sent, BatchDone, Restart, Stop,
                SentButTimedOut, vars, foreignVars, depositVars
  <2> QED BY <2>1 DEF Locked, Backing, Released
<1> QED BY <1>1, <1>2, <1>3 DEF Next

\* deposit_relay.rs with ForeignBridge.deposit: tokens leave the foreign
\* contract only for deposits that are final on home, each once and in the
\* amount deposited, for any authorities, blocks, stops and restarts.
THEOREM DepositsImplementTransfers == Spec => ImplementsTransfers
<1> QED BY TransfersInit, TransfersNext, InductiveInvariant, PTL
        DEF Spec, ImplementsTransfers, Promised!Spec
=============================================================================
