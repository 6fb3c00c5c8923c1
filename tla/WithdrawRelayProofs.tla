------------------------ MODULE WithdrawRelayProofs ------------------------
(***************************************************************************)
(* Withdraws, for any number of authorities, withdraws and stops: the      *)
(* checkpoints are sound, every relay is acceptable to home, and home pays *)
(* only what was requested, once.                                          *)
(***************************************************************************)
EXTENDS WithdrawRelay, FiniteSetTheorems, TLAPS

\* The two halves of CheckedMeansDone.
ConfirmChecked ==
  \A a \in Authority : \A i \in 1..Len(requested) :
    i <= checked[a].confirm => HasSigned(a, requested[i])

RelayChecked ==
  \A a \in Authority : \A i \in 1..Len(assigned) :
    i <= checked[a].relay /\ assigned[i][1] = a => HasRelayed(a, assigned[i][2])

\* Types of what the processes and the pools keep.
ProcessTypeOK ==
  /\ submits \subseteq Authority \X Message
  /\ relays \subseteq RelayTx
  /\ relayed \subseteq Authority \X Message
  /\ up \in [Authority -> BOOLEAN]
  /\ stops \in 0..MaxStops
  /\ confirm \in [Authority ->
       [state : {"Wait", "ConfirmWithdraws"}, after : Nat, todo : SUBSET Message]]
  /\ relay \in [Authority ->
       [state : {"Wait", "FetchMessagesSignatures", "RelayWithdraws"},
        after : Nat, todo : SUBSET Message, txs : SUBSET RelayTx]]
  /\ checked \in [Authority -> [confirm : Nat, relay : Nat]]

LogTypeOK ==
  /\ requested \in Seq(Message)
  /\ assigned \in Seq(Authority \X Message)

\* The invariant, as the sides that a step changes or keeps together.
ConfirmSide == ConfirmCovers /\ SignedAreRequested /\ ConfirmChecked
RelaySide == RelayCovers /\ FetchedAreValid /\ RelaysAreValid /\ RelayChecked
ForeignSide == Foreign!TypeOK /\ SignaturesStored
HomeSide == Home!TypeOK /\ PaidIsBacked

\* The sides are the whole invariant.
LEMMA Sides ==
  Inductive <=> LogTypeOK /\ ProcessTypeOK /\ ConfirmSide /\ RelaySide
                /\ ForeignSide /\ HomeSide
BY DEF Inductive, TypeOK, LogTypeOK, ProcessTypeOK, ConfirmSide, RelaySide,
       ForeignSide, HomeSide, CheckedMeansDone, ConfirmChecked, RelayChecked

\* The same after a step.
LEMMA SidesNext ==
  (LogTypeOK /\ ProcessTypeOK /\ ConfirmSide /\ RelaySide
     /\ ForeignSide /\ HomeSide)' => Inductive'
BY DEF Inductive, TypeOK, LogTypeOK, ProcessTypeOK, ConfirmSide, RelaySide,
       ForeignSide, HomeSide, CheckedMeansDone, ConfirmChecked, RelayChecked

\* A step that keeps what a side is about keeps the side.
LEMMA ConfirmKept ==
  ASSUME ConfirmSide, UNCHANGED <<requested, submits, messagesSigned, confirm>>,
         \A a \in Authority : checked'[a].confirm = checked[a].confirm
  PROVE  ConfirmSide'
BY DEF ConfirmSide, ConfirmCovers, ConfirmCoversFor, SignedAreRequested, ConfirmChecked, HasSigned, IsIn

LEMMA RelayKept ==
  ASSUME RelaySide, UNCHANGED <<requested, assigned, relays, relayed, relay>>,
         \A a \in Authority : checked'[a].relay = checked[a].relay
  PROVE  RelaySide'
<1>1. ASSUME NEW a \in Authority PROVE RelayCoversFor(a)'
  <2>1. RelayCoversFor(a)
    BY DEF RelaySide, RelayCovers
  <2>2. checked'[a].relay = checked[a].relay
    OBVIOUS
  <2> QED
    BY <2>1, <2>2 DEF RelayCoversFor, HasRelayed, IsIn
<1>2. FetchedAreValid' /\ RelaysAreValid'
  BY DEF RelaySide, FetchedAreValid, RelaysAreValid, IsIn, Home!hasEnoughValidSignatures
<1>3. RelayChecked'
  BY DEF RelaySide, RelayChecked, HasRelayed
<1> QED
  BY <1>1, <1>2, <1>3 DEF RelaySide, RelayCovers

LEMMA ForeignKept ==
  ASSUME ForeignSide, UNCHANGED <<assigned, foreignVars>>
  PROVE  ForeignSide'
BY DEF ForeignSide, foreignVars, Foreign!TypeOK, SignaturesStored

LEMMA HomeKept ==
  ASSUME HomeSide, UNCHANGED <<requested, homeVars>>
  PROVE  HomeSide'
BY DEF HomeSide, homeVars, Home!TypeOK, PaidIsBacked, Home!PaidExactlyValue, IsIn

LEMMA LogKept ==
  ASSUME LogTypeOK, UNCHANGED logVars
  PROVE  LogTypeOK'
BY DEF LogTypeOK, logVars

-----------------------------------------------------------------------------
(* The processes.                                                          *)

\* A step of a withdraw confirm has only its own side to preserve.
LEMMA ConfirmStep ==
  ASSUME Inductive,
         UNCHANGED <<logVars, relays, relayed, relay, foreignVars, homeVars>>,
         \A a \in Authority : checked'[a].relay = checked[a].relay,
         ProcessTypeOK', ConfirmSide'
  PROVE  Inductive'
<1>1. LogTypeOK' /\ ForeignSide' /\ HomeSide'
  BY Sides, LogKept, ForeignKept, HomeKept DEF logVars
<1>2. RelaySide'
  BY Sides, RelayKept DEF logVars
<1> QED
  BY <1>1, <1>2, SidesNext

\* A step of a withdraw relay has only its own side to preserve.
LEMMA RelayStep ==
  ASSUME Inductive,
         UNCHANGED <<logVars, submits, confirm, foreignVars, homeVars>>,
         \A a \in Authority : checked'[a].confirm = checked[a].confirm,
         ProcessTypeOK', RelaySide'
  PROVE  Inductive'
<1>1. LogTypeOK' /\ ForeignSide' /\ HomeSide'
  BY Sides, LogKept, ForeignKept, HomeKept DEF logVars
<1>2. ConfirmSide'
  BY Sides, ConfirmKept DEF logVars, foreignVars
<1> QED
  BY <1>1, <1>2, SidesNext

\* WithdrawConfirm::poll, Wait.
LEMMA ConfirmWaitInductive ==
  ASSUME Inductive, NEW a \in Authority, NEW to \in 1..Len(requested), ConfirmWait(a, to)
  PROVE  Inductive'
<1> DEFINE batch == Entries(requested, confirm[a].after + 1, to)
<1>s. LogTypeOK /\ ProcessTypeOK /\ ConfirmSide
  BY Sides
<1>u. UNCHANGED <<logVars, poolVars, up, stops, relay, checked, foreignVars, homeVars>>
  BY DEF ConfirmWait
<1>1. /\ confirm[a].state = "Wait" /\ to > confirm[a].after
      /\ confirm' = [confirm EXCEPT ![a] =
           [state |-> "ConfirmWithdraws", after |-> to, todo |-> batch]]
  BY DEF ConfirmWait
<1>2. confirm[a].after \in Nat /\ to \in Nat
  BY <1>s DEF ProcessTypeOK, LogTypeOK
<1>3. batch \subseteq Message /\ \A m \in batch : IsIn(m, requested)
  BY <1>s, <1>2 DEF LogTypeOK, Entries, IsIn
<1>4. \A i \in 1..to : i <= confirm[a].after \/ requested[i] \in batch
  BY <1>2 DEF Entries
<1> HIDE DEF batch
<1>5. confirm' \in [Authority ->
       [state : {"Wait", "ConfirmWithdraws"}, after : Nat, todo : SUBSET Message]]
  BY <1>s, <1>1, <1>2, <1>3 DEF ProcessTypeOK
<1>6. ProcessTypeOK'
  BY <1>s, <1>u, <1>5 DEF ProcessTypeOK, poolVars
<1>7. ConfirmCoversFor(a)'
  <2>1. ConfirmCoversFor(a)
    BY <1>s DEF ConfirmSide, ConfirmCovers
  <2>2. \A i \in 1..to : requested[i] \in batch \/ HasSigned(a, requested[i])
    BY <2>1, <1>1, <1>2, <1>4 DEF ConfirmCoversFor
  <2>3. confirm'[a] = [state |-> "ConfirmWithdraws", after |-> to, todo |-> batch]
    BY <1>s, <1>1 DEF ProcessTypeOK
  <2> QED
    BY <2>1, <2>2, <2>3, <1>u, <1>3 DEF ConfirmCoversFor, HasSigned, IsIn, logVars, poolVars, foreignVars
<1>8. ASSUME NEW b \in Authority \ {a} PROVE ConfirmCoversFor(b)'
  <2>1. ConfirmCoversFor(b) /\ confirm'[b] = confirm[b]
    BY <1>s, <1>1 DEF ConfirmSide, ConfirmCovers, ProcessTypeOK
  <2> QED
    BY <2>1, <1>u DEF ConfirmCoversFor, HasSigned, IsIn, logVars, poolVars, foreignVars
<1>9. SignedAreRequested' /\ ConfirmChecked'
  BY <1>s, <1>u DEF ConfirmSide, SignedAreRequested, ConfirmChecked, HasSigned, IsIn,
                    logVars, poolVars, foreignVars
<1>10. ConfirmSide'
  BY <1>7, <1>8, <1>9 DEF ConfirmSide, ConfirmCovers
<1> QED
  BY <1>u, <1>6, <1>10, ConfirmStep DEF poolVars

\* WithdrawConfirm::poll, ConfirmWithdraws: what leaves the batch is at the node.
LEMMA ConfirmSentInductive ==
  ASSUME Inductive, NEW a \in Authority, NEW m \in Message, ConfirmSent(a, m)
  PROVE  Inductive'
<1>s. LogTypeOK /\ ProcessTypeOK /\ ConfirmSide
  BY Sides
<1>u. UNCHANGED <<logVars, relays, relayed, up, stops, relay, checked, foreignVars, homeVars>>
  BY DEF ConfirmSent
<1>1. /\ m \in confirm[a].todo
      /\ confirm' = [confirm EXCEPT ![a].todo = @ \ {m}]
      /\ submits' = submits \cup {<<a, m>>}
  BY DEF ConfirmSent
<1>2. ProcessTypeOK'
  BY <1>s, <1>u, <1>1 DEF ProcessTypeOK
<1>3. /\ confirm'[a].state = confirm[a].state
      /\ confirm'[a].after = confirm[a].after
      /\ confirm'[a].todo = confirm[a].todo \ {m}
      /\ \A b \in Authority \ {a} : confirm'[b] = confirm[b]
  BY <1>s, <1>1 DEF ProcessTypeOK
<1>4. \A b \in Authority, n \in Message :
        HasSigned(b, n)' <=> HasSigned(b, n) \/ (b = a /\ n = m)
  BY <1>1, <1>u DEF HasSigned, foreignVars
<1>5. IsIn(m, requested) /\ \A x : IsIn(x, requested)' <=> IsIn(x, requested)
  BY <1>s, <1>u, <1>1 DEF ConfirmSide, ConfirmCovers, ConfirmCoversFor, IsIn, logVars
<1>6. ASSUME NEW b \in Authority PROVE ConfirmCoversFor(b)'
  <2>1. ConfirmCoversFor(b)
    BY <1>s DEF ConfirmSide, ConfirmCovers
  <2>2. requested' = requested /\ checked' = checked
    BY <1>u DEF logVars
  <2>3. confirm'[b].after = confirm[b].after /\ confirm'[b].state = confirm[b].state
        /\ confirm'[b].todo \subseteq confirm[b].todo
    BY <1>3
  <2>4. ASSUME NEW i \in 1..confirm[b].after
        PROVE  requested[i] \in confirm'[b].todo \/ HasSigned(b, requested[i])'
    <3>1. requested[i] \in Message
      BY <1>s, <2>1 DEF ConfirmCoversFor, LogTypeOK, ProcessTypeOK
    <3> QED
      BY <1>3, <1>4, <2>1, <2>2, <3>1 DEF ConfirmCoversFor
  <2>5. \A n \in confirm'[b].todo : IsIn(n, requested)'
    BY <1>5, <2>1, <2>3 DEF ConfirmCoversFor
  <2> QED
    BY <2>1, <2>2, <2>3, <2>4, <2>5 DEF ConfirmCoversFor, HasSigned
<1>7. SignedAreRequested'
  BY <1>s, <1>4, <1>5 DEF ConfirmSide, SignedAreRequested, IsIn
<1>8. ConfirmChecked'
  <2>1. requested' = requested /\ checked' = checked /\ requested \in Seq(Message)
    BY <1>s, <1>u DEF logVars, LogTypeOK
  <2> QED
    BY <1>s, <1>4, <2>1 DEF ConfirmSide, ConfirmChecked
<1>9. ConfirmSide'
  BY <1>6, <1>7, <1>8 DEF ConfirmSide, ConfirmCovers
<1> QED
  BY <1>u, <1>2, <1>9, ConfirmStep

\* Bridge::poll after WithdrawConfirm's Yield: an empty batch may be checked.
LEMMA ConfirmDoneInductive ==
  ASSUME Inductive, NEW a \in Authority, ConfirmDone(a)
  PROVE  Inductive'
<1>s. LogTypeOK /\ ProcessTypeOK /\ ConfirmSide
  BY Sides
<1>u. UNCHANGED <<logVars, poolVars, up, stops, relay, foreignVars, homeVars>>
  BY DEF ConfirmDone
<1>1. /\ confirm[a].todo = {}
      /\ confirm' = [confirm EXCEPT ![a].state = "Wait"]
      /\ checked' = [checked EXCEPT ![a].confirm = confirm[a].after]
  BY DEF ConfirmDone
<1>2. confirm[a].after \in Nat
  BY <1>s DEF ProcessTypeOK
<1>3. ProcessTypeOK'
  BY <1>s, <1>u, <1>1, <1>2 DEF ProcessTypeOK, poolVars
<1>4. \A b \in Authority : /\ checked'[b].relay = checked[b].relay
                           /\ confirm'[b].after = confirm[b].after
                           /\ confirm'[b].todo = confirm[b].todo
  BY <1>s, <1>1 DEF ProcessTypeOK
<1>5. /\ checked'[a].confirm = confirm[a].after
      /\ \A b \in Authority \ {a} : checked'[b].confirm = checked[b].confirm
                                    /\ confirm'[b].state = confirm[b].state
  BY <1>s, <1>1 DEF ProcessTypeOK
<1>6. /\ \A b, n : HasSigned(b, n)' <=> HasSigned(b, n)
      /\ \A x : IsIn(x, requested)' <=> IsIn(x, requested)
      /\ requested' = requested
  BY <1>u DEF HasSigned, IsIn, logVars, poolVars, foreignVars
<1>7. ASSUME NEW b \in Authority PROVE ConfirmCoversFor(b)'
  <2>1. ConfirmCoversFor(b)
    BY <1>s DEF ConfirmSide, ConfirmCovers
  <2>2. checked'[b].confirm <= Len(requested)
    BY <1>5, <2>1 DEF ConfirmCoversFor
  <2>3. confirm'[b].state = "Wait" => confirm'[b].todo = {}
    BY <1>1, <1>4, <1>5, <2>1 DEF ConfirmCoversFor
  <2> QED
    BY <1>4, <1>6, <2>1, <2>2, <2>3 DEF ConfirmCoversFor
<1>8. SignedAreRequested'
  BY <1>s, <1>6 DEF ConfirmSide, SignedAreRequested
<1>9. ConfirmChecked'
  <2> SUFFICES ASSUME NEW b \in Authority, NEW i \in 1..Len(requested),
                      i <= checked'[b].confirm
               PROVE  HasSigned(b, requested[i])
    BY <1>6 DEF ConfirmChecked
  <2>1. CASE b = a
    <3>1. i \in 1..confirm[a].after
      BY <1>2, <1>5, <2>1
    <3> QED
      BY <1>s, <1>1, <2>1, <3>1 DEF ConfirmSide, ConfirmCovers, ConfirmCoversFor
  <2>2. CASE b # a
    BY <1>s, <1>5, <2>2 DEF ConfirmSide, ConfirmChecked
  <2> QED
    BY <2>1, <2>2
<1>10. ConfirmSide'
  BY <1>7, <1>8, <1>9 DEF ConfirmSide, ConfirmCovers
<1> QED
  BY <1>u, <1>3, <1>4, <1>10, ConfirmStep DEF poolVars

\* WithdrawRelay::poll, Wait: the events of the item that name this authority.
LEMMA RelayWaitInductive ==
  ASSUME Inductive, NEW a \in Authority, NEW to \in 1..Len(assigned), RelayWait(a, to)
  PROVE  Inductive'
<1> DEFINE mine == {m \in Message : <<a, m>> \in Entries(assigned, relay[a].after + 1, to)}
           new == [state |-> IF mine = {} THEN "RelayWithdraws" ELSE "FetchMessagesSignatures",
                   after |-> to, todo |-> mine, txs |-> {}]
<1>s. LogTypeOK /\ ProcessTypeOK /\ RelaySide
  BY Sides
<1>u. UNCHANGED <<logVars, poolVars, up, stops, confirm, checked, foreignVars, homeVars>>
  BY DEF RelayWait
<1>1. /\ relay[a].state = "Wait" /\ to > relay[a].after
      /\ relay' = [relay EXCEPT ![a] = new]
  BY DEF RelayWait
<1>2. relay[a].after \in Nat /\ to \in Nat
  BY <1>s DEF ProcessTypeOK, LogTypeOK
<1>3. /\ mine \subseteq Message
      /\ \A m \in mine : IsIn(<<a, m>>, assigned)
  BY <1>s, <1>2 DEF LogTypeOK, Entries, IsIn
<1>4. ASSUME NEW i \in 1..to, i > relay[a].after, assigned[i][1] = a
      PROVE  assigned[i][2] \in mine
  <2>1. assigned[i] \in Authority \X Message
    BY <1>s DEF LogTypeOK
  <2>2. assigned[i] = <<a, assigned[i][2]>> /\ assigned[i][2] \in Message
    BY <1>4, <2>1
  <2>3. assigned[i] \in Entries(assigned, relay[a].after + 1, to)
    BY <1>2, <1>4 DEF Entries
  <2> QED
    BY <2>2, <2>3
<1> HIDE DEF mine
<1>5. /\ relay'[a] = new
      /\ \A b \in Authority \ {a} : relay'[b] = relay[b]
  BY <1>s, <1>1 DEF ProcessTypeOK
<1>6. ProcessTypeOK'
  <2>1. new \in [state : {"Wait", "FetchMessagesSignatures", "RelayWithdraws"},
                 after : Nat, todo : SUBSET Message, txs : SUBSET RelayTx]
    BY <1>2, <1>3
  <2> QED
    BY <1>s, <1>u, <1>1, <2>1 DEF ProcessTypeOK, poolVars
<1>7. /\ \A b, n : HasRelayed(b, n)' <=> HasRelayed(b, n)
      /\ \A x : IsIn(x, assigned)' <=> IsIn(x, assigned)
      /\ \A x : IsIn(x, requested)' <=> IsIn(x, requested)
      /\ assigned' = assigned /\ checked' = checked /\ relays' = relays
  BY <1>u DEF HasRelayed, IsIn, logVars, poolVars
<1>8. ASSUME NEW b \in Authority PROVE RelayCoversFor(b)'
  <2>1. RelayCoversFor(b)
    BY <1>s DEF RelaySide, RelayCovers
  <2>2. CASE b # a
    BY <1>5, <1>7, <2>1, <2>2 DEF RelayCoversFor
  <2>3. CASE b = a
    <3>1. \A i \in 1..to : assigned[i][1] = a =>
            assigned[i][2] \in mine \/ HasRelayed(a, assigned[i][2])
      BY <1>1, <1>2, <1>4, <2>1, <2>3 DEF RelayCoversFor
    <3>2. /\ relay'[a].after = to /\ relay'[a].todo = mine /\ relay'[a].txs = {}
          /\ relay'[a].state = IF mine = {} THEN "RelayWithdraws" ELSE "FetchMessagesSignatures"
      BY <1>5
    <3> QED
      BY <1>3, <1>7, <2>1, <2>3, <3>1, <3>2 DEF RelayCoversFor
  <2> QED
    BY <2>2, <2>3
<1>9. FetchedAreValid' /\ RelaysAreValid'
  BY <1>s, <1>5, <1>7 DEF RelaySide, FetchedAreValid, RelaysAreValid,
                          Home!hasEnoughValidSignatures
<1>10. RelayChecked'
  BY <1>s, <1>7 DEF RelaySide, RelayChecked
<1>11. RelaySide'
  BY <1>8, <1>9, <1>10 DEF RelaySide, RelayCovers
<1> QED
  BY <1>u, <1>6, <1>11, RelayStep DEF poolVars

\* FetchMessagesSignatures: what the contract answers for an assignment is
\* enough for home, whoever's signature index 0 now holds.
LEMMA FetchedIsValid ==
  ASSUME Inductive, NEW a \in Authority, NEW m \in relay[a].todo
  PROVE  /\ FetchedTx(a, m) \in RelayTx
         /\ Home!hasEnoughValidSignatures(FetchedTx(a, m).signers)
         /\ IsIn(m, requested)
<1>s. LogTypeOK /\ ProcessTypeOK /\ RelaySide /\ ConfirmSide /\ ForeignSide
  BY Sides
<1>1. m \in Message
  BY <1>s DEF ProcessTypeOK
<1>2. PICK k \in 1..Len(assigned) : assigned[k] = <<a, m>>
  BY <1>s DEF RelaySide, RelayCovers, RelayCoversFor, IsIn
<1>3. RequiredSignatures = 1 /\ <<a, m>> \in messagesSigned
  BY <1>s, <1>2 DEF ForeignSide, SignaturesStored
<1>4. signatures[<<m, 0>>] \in Authority
  BY <1>s, <1>1, <1>3 DEF ForeignSide, SignaturesStored
<1>5. IsIn(m, requested)
  BY <1>s, <1>1, <1>3 DEF ConfirmSide, SignedAreRequested, HasSigned
<1> DEFINE signers == [i \in 1..RequiredSignatures |-> signatures[<<m, i - 1>>]]
<1>6. signers = [i \in 1..1 |-> signatures[<<m, 0>>]]
  BY <1>3
<1>7. signers \in Seq(Authority) /\ Len(signers) = 1 /\ signers[1] \in Authority
  <2> DEFINE s1 == [i \in 1..1 |-> signatures[<<m, 0>>]]
  <2>1. s1 \in [1..1 -> Authority]
    BY <1>4
  <2>2. s1 \in Seq(Authority) /\ Len(s1) = 1 /\ s1[1] \in Authority
    BY <2>1
  <2> QED
    BY <1>6, <2>2
<1>8. FetchedTx(a, m) = [authority |-> a, message |-> m, signers |-> signers]
  BY DEF FetchedTx
<1> HIDE DEF signers
<1>9. FetchedTx(a, m) \in RelayTx
  <2>1. signers \in Seq(Authority \cup {NoSignature})
    BY <1>7
  <2> QED
    BY <1>1, <1>8, <2>1 DEF RelayTx
<1>10. Home!hasEnoughValidSignatures(signers)
  BY <1>3, <1>7 DEF Home!hasEnoughValidSignatures
<1> QED
  BY <1>5, <1>8, <1>9, <1>10

\* WithdrawRelay::poll, FetchMessagesSignatures.
LEMMA FetchInductive ==
  ASSUME Inductive, NEW a \in Authority, NEW m \in Message, Fetch(a, m)
  PROVE  Inductive'
<1> DEFINE tx == FetchedTx(a, m)
<1>s. LogTypeOK /\ ProcessTypeOK /\ RelaySide
  BY Sides
<1>u. UNCHANGED <<logVars, poolVars, up, stops, confirm, checked, foreignVars, homeVars>>
  BY DEF Fetch
<1>1. /\ m \in relay[a].todo
      /\ relay[a].state = "FetchMessagesSignatures"
  BY DEF Fetch
<1>2. /\ tx \in RelayTx /\ Home!hasEnoughValidSignatures(tx.signers)
      /\ IsIn(m, requested)
  BY <1>1, FetchedIsValid
<1>3. tx.authority = a /\ tx.message = m
  BY DEF FetchedTx
<1> HIDE DEF tx
<1>4. relay' = [relay EXCEPT
        ![a].state = IF relay[a].todo = {m} THEN "RelayWithdraws" ELSE @,
        ![a].todo = @ \ {m},
        ![a].txs = @ \cup {tx}]
  BY DEF Fetch, tx
<1>5. /\ relay'[a].state = (IF relay[a].todo = {m} THEN "RelayWithdraws"
                            ELSE "FetchMessagesSignatures")
      /\ relay'[a].todo = relay[a].todo \ {m}
      /\ relay'[a].txs = relay[a].txs \cup {tx}
      /\ relay'[a].after = relay[a].after
      /\ \A b \in Authority \ {a} : relay'[b] = relay[b]
  BY <1>s, <1>1, <1>4 DEF ProcessTypeOK
<1>6. ProcessTypeOK'
  <2>1. relay' \in [Authority ->
       [state : {"Wait", "FetchMessagesSignatures", "RelayWithdraws"},
        after : Nat, todo : SUBSET Message, txs : SUBSET RelayTx]]
    <3> DEFINE R == [state : {"Wait", "FetchMessagesSignatures", "RelayWithdraws"},
                     after : Nat, todo : SUBSET Message, txs : SUBSET RelayTx]
               new == [relay[a] EXCEPT
                         !.state = IF relay[a].todo = {m} THEN "RelayWithdraws" ELSE @,
                         !.todo = @ \ {m}, !.txs = @ \cup {tx}]
    <3>1. relay \in [Authority -> R]
      BY <1>s DEF ProcessTypeOK
    <3>2. relay[a] \in R
      BY <3>1
    <3>3. relay[a].txs \cup {tx} \subseteq RelayTx
      BY <1>2, <3>2
    <3>4. new \in R
      BY <3>2, <3>3
    <3>5. relay' = [relay EXCEPT ![a] = new]
      BY <1>4, <3>1
    <3> QED
      BY <3>1, <3>4, <3>5
  <2> QED
    BY <1>s, <1>u, <2>1 DEF ProcessTypeOK, poolVars
<1>7. /\ \A b, n : HasRelayed(b, n)' <=> HasRelayed(b, n)
      /\ \A x : IsIn(x, assigned)' <=> IsIn(x, assigned)
      /\ \A x : IsIn(x, requested)' <=> IsIn(x, requested)
      /\ assigned' = assigned /\ checked' = checked /\ relays' = relays
  BY <1>u DEF HasRelayed, IsIn, logVars, poolVars
<1>8. ASSUME NEW b \in Authority PROVE RelayCoversFor(b)'
  <2>1. RelayCoversFor(b)
    BY <1>s DEF RelaySide, RelayCovers
  <2>2. CASE b # a
    BY <1>5, <1>7, <2>1, <2>2 DEF RelayCoversFor
  <2>3. CASE b = a
    <3>1. \A i \in 1..relay[a].after : assigned[i][1] = a =>
            \/ assigned[i][2] \in relay'[a].todo
            \/ \E t \in relay'[a].txs : t.message = assigned[i][2]
            \/ HasRelayed(a, assigned[i][2])
      BY <1>3, <1>5, <2>1, <2>3 DEF RelayCoversFor
    <3>2. /\ \A n \in relay'[a].todo : IsIn(<<a, n>>, assigned)
          /\ \A t \in relay'[a].txs : t.authority = a
      BY <1>3, <1>5, <2>1, <2>3 DEF RelayCoversFor
    <3> QED
      BY <1>5, <1>7, <2>1, <2>3, <3>1, <3>2 DEF RelayCoversFor
  <2> QED
    BY <2>2, <2>3
<1>9. FetchedAreValid'
  BY <1>s, <1>2, <1>3, <1>5, <1>7 DEF RelaySide, FetchedAreValid,
                                      Home!hasEnoughValidSignatures
<1>10. RelaysAreValid' /\ RelayChecked'
  BY <1>s, <1>7 DEF RelaySide, RelaysAreValid, RelayChecked, Home!hasEnoughValidSignatures
<1>11. RelaySide'
  BY <1>8, <1>9, <1>10 DEF RelaySide, RelayCovers
<1> QED
  BY <1>u, <1>6, <1>11, RelayStep DEF poolVars

\* WithdrawRelay::poll, RelayWithdraws: what leaves the batch is at the node.
LEMMA RelaySentInductive ==
  ASSUME Inductive, NEW a \in Authority, NEW tx \in relay[a].txs, RelaySent(a, tx)
  PROVE  Inductive'
<1>s. LogTypeOK /\ ProcessTypeOK /\ RelaySide
  BY Sides
<1>u. UNCHANGED <<logVars, submits, relayed, up, stops, confirm, checked, foreignVars, homeVars>>
  BY DEF RelaySent
<1>1. /\ relay' = [relay EXCEPT ![a].txs = @ \ {tx}]
      /\ relays' = relays \cup {tx}
  BY DEF RelaySent
<1>2. tx \in RelayTx /\ tx.authority = a
  BY <1>s DEF ProcessTypeOK, RelaySide, RelayCovers, RelayCoversFor
<1>3. /\ relay'[a].txs = relay[a].txs \ {tx}
      /\ \A b \in Authority : /\ relay'[b].state = relay[b].state
                              /\ relay'[b].after = relay[b].after
                              /\ relay'[b].todo = relay[b].todo
                              /\ relay'[b].txs \subseteq relay[b].txs
      /\ \A b \in Authority \ {a} : relay'[b].txs = relay[b].txs
  BY <1>s, <1>1 DEF ProcessTypeOK
<1>4. ProcessTypeOK'
  <2>1. relays' \subseteq RelayTx
    BY <1>s, <1>1, <1>2 DEF ProcessTypeOK
  <2>2. relay' \in [Authority ->
       [state : {"Wait", "FetchMessagesSignatures", "RelayWithdraws"},
        after : Nat, todo : SUBSET Message, txs : SUBSET RelayTx]]
    BY <1>s, <1>1 DEF ProcessTypeOK
  <2> QED
    BY <1>s, <1>u, <2>1, <2>2 DEF ProcessTypeOK
<1>5. /\ \A b, n : HasRelayed(b, n) => HasRelayed(b, n)'
      /\ HasRelayed(a, tx.message)'
      /\ \A x : IsIn(x, assigned)' <=> IsIn(x, assigned)
      /\ \A x : IsIn(x, requested)' <=> IsIn(x, requested)
      /\ assigned' = assigned /\ checked' = checked
  BY <1>u, <1>1, <1>2 DEF HasRelayed, IsIn, logVars
<1>6. ASSUME NEW b \in Authority PROVE RelayCoversFor(b)'
  <2>1. RelayCoversFor(b)
    BY <1>s DEF RelaySide, RelayCovers
  <2>2. ASSUME NEW i \in 1..relay[b].after, assigned[i][1] = b
        PROVE  \/ assigned[i][2] \in relay'[b].todo
               \/ \E t \in relay'[b].txs : t.message = assigned[i][2]
               \/ HasRelayed(b, assigned[i][2])'
    BY <1>3, <1>5, <2>1, <2>2 DEF RelayCoversFor
  <2> QED
    BY <1>3, <1>5, <2>1, <2>2 DEF RelayCoversFor
<1>7. FetchedAreValid' /\ RelaysAreValid'
  BY <1>s, <1>1, <1>3, <1>5 DEF RelaySide, FetchedAreValid, RelaysAreValid,
                                Home!hasEnoughValidSignatures
<1>8. RelayChecked'
  BY <1>s, <1>5 DEF RelaySide, RelayChecked
<1>9. RelaySide'
  BY <1>6, <1>7, <1>8 DEF RelaySide, RelayCovers
<1> QED
  BY <1>u, <1>4, <1>9, RelayStep

\* Bridge::poll after WithdrawRelay's Yield: an empty batch may be checked.
LEMMA RelayDoneInductive ==
  ASSUME Inductive, NEW a \in Authority, RelayDone(a)
  PROVE  Inductive'
<1>s. LogTypeOK /\ ProcessTypeOK /\ RelaySide
  BY Sides
<1>u. UNCHANGED <<logVars, poolVars, up, stops, confirm, foreignVars, homeVars>>
  BY DEF RelayDone
<1>1. /\ relay[a].state = "RelayWithdraws" /\ relay[a].txs = {}
      /\ relay' = [relay EXCEPT ![a].state = "Wait"]
      /\ checked' = [checked EXCEPT ![a].relay = relay[a].after]
  BY DEF RelayDone
<1>2. relay[a].after \in Nat /\ relay[a].todo = {}
  BY <1>s, <1>1 DEF ProcessTypeOK, RelaySide, RelayCovers, RelayCoversFor
<1>3. ProcessTypeOK'
  BY <1>s, <1>u, <1>1, <1>2 DEF ProcessTypeOK, poolVars
<1>4. \A b \in Authority : /\ checked'[b].confirm = checked[b].confirm
                           /\ relay'[b].after = relay[b].after
                           /\ relay'[b].todo = relay[b].todo
                           /\ relay'[b].txs = relay[b].txs
  BY <1>s, <1>1 DEF ProcessTypeOK
<1>5. /\ checked'[a].relay = relay[a].after
      /\ \A b \in Authority \ {a} : checked'[b].relay = checked[b].relay
                                    /\ relay'[b].state = relay[b].state
  BY <1>s, <1>1 DEF ProcessTypeOK
<1>6. /\ \A b, n : HasRelayed(b, n)' <=> HasRelayed(b, n)
      /\ \A x : IsIn(x, assigned)' <=> IsIn(x, assigned)
      /\ \A x : IsIn(x, requested)' <=> IsIn(x, requested)
      /\ assigned' = assigned /\ relays' = relays
  BY <1>u DEF HasRelayed, IsIn, logVars, poolVars
<1>7. ASSUME NEW b \in Authority PROVE RelayCoversFor(b)'
  <2>1. RelayCoversFor(b)
    BY <1>s DEF RelaySide, RelayCovers
  <2>2. checked'[b].relay <= Len(assigned)
    BY <1>5, <2>1 DEF RelayCoversFor
  <2>3. /\ relay'[b].state # "FetchMessagesSignatures" => relay'[b].todo = {}
        /\ relay'[b].state = "Wait" => relay'[b].txs = {}
    BY <1>1, <1>2, <1>4, <1>5, <2>1 DEF RelayCoversFor
  <2> QED
    BY <1>4, <1>6, <2>1, <2>2, <2>3 DEF RelayCoversFor
<1>8. FetchedAreValid' /\ RelaysAreValid'
  BY <1>s, <1>4, <1>6 DEF RelaySide, FetchedAreValid, RelaysAreValid,
                          Home!hasEnoughValidSignatures
<1>9. RelayChecked'
  <2> SUFFICES ASSUME NEW b \in Authority, NEW i \in 1..Len(assigned),
                      i <= checked'[b].relay, assigned[i][1] = b
               PROVE  HasRelayed(b, assigned[i][2])
    BY <1>6 DEF RelayChecked
  <2>1. CASE b = a
    <3>1. i \in 1..relay[a].after
      BY <1>2, <1>5, <2>1
    <3> QED
      BY <1>s, <1>1, <1>2, <2>1, <3>1 DEF RelaySide, RelayCovers, RelayCoversFor
  <2>2. CASE b # a
    BY <1>s, <1>5, <2>2 DEF RelaySide, RelayChecked
  <2> QED
    BY <2>1, <2>2
<1>10. RelaySide'
  BY <1>7, <1>8, <1>9 DEF RelaySide, RelayCovers
<1> QED
  BY <1>u, <1>3, <1>4, <1>10, RelayStep DEF poolVars

\* A stop changes nothing that lasts.
LEMMA StopInductive ==
  ASSUME Inductive, NEW a \in Authority, Stop(a)
  PROVE  Inductive'
<1>u. UNCHANGED <<logVars, poolVars, confirm, relay, checked, foreignVars, homeVars>>
  BY DEF Stop
<1>1. ProcessTypeOK'
  BY Sides, WithdrawAssumption DEF Stop, ProcessTypeOK, poolVars
<1>2. ConfirmSide'
  BY Sides, <1>u, ConfirmKept DEF logVars, poolVars, foreignVars
<1> QED
  BY <1>u, <1>1, <1>2, ConfirmStep DEF poolVars

\* The new streams start at the checkpoints, up to which all is done.
LEMMA RestartInductive ==
  ASSUME Inductive, NEW a \in Authority, Restart(a)
  PROVE  Inductive'
<1>s. LogTypeOK /\ ProcessTypeOK /\ ConfirmSide /\ RelaySide /\ ForeignSide /\ HomeSide
  BY Sides
<1>u. UNCHANGED <<logVars, poolVars, stops, checked, foreignVars, homeVars>>
  BY DEF Restart
<1>1. /\ up' = [up EXCEPT ![a] = TRUE]
      /\ confirm' = [confirm EXCEPT ![a] = NewConfirm(checked[a].confirm)]
      /\ relay' = [relay EXCEPT ![a] = NewRelay(checked[a].relay)]
  BY DEF Restart
<1>2. checked[a].confirm \in Nat /\ checked[a].relay \in Nat
  BY <1>s DEF ProcessTypeOK
<1>3. ProcessTypeOK'
  <2>1. NewConfirm(checked[a].confirm) \in
          [state : {"Wait", "ConfirmWithdraws"}, after : Nat, todo : SUBSET Message]
    BY <1>2 DEF NewConfirm
  <2>2. NewRelay(checked[a].relay) \in
          [state : {"Wait", "FetchMessagesSignatures", "RelayWithdraws"},
           after : Nat, todo : SUBSET Message, txs : SUBSET RelayTx]
    BY <1>2 DEF NewRelay
  <2> QED
    BY <1>s, <1>u, <1>1, <2>1, <2>2 DEF ProcessTypeOK, poolVars
<1>4. /\ \A b \in Authority \ {a} : confirm'[b] = confirm[b] /\ relay'[b] = relay[b]
      /\ confirm'[a].state = "Wait" /\ confirm'[a].todo = {}
      /\ confirm'[a].after = checked[a].confirm
      /\ relay'[a].state = "Wait" /\ relay'[a].todo = {} /\ relay'[a].txs = {}
      /\ relay'[a].after = checked[a].relay
  BY <1>s, <1>1 DEF ProcessTypeOK, NewConfirm, NewRelay
<1>5. /\ \A b, n : HasRelayed(b, n)' <=> HasRelayed(b, n)
      /\ \A b, n : HasSigned(b, n)' <=> HasSigned(b, n)
      /\ \A x : IsIn(x, assigned)' <=> IsIn(x, assigned)
      /\ \A x : IsIn(x, requested)' <=> IsIn(x, requested)
      /\ assigned' = assigned /\ requested' = requested
      /\ relays' = relays /\ checked' = checked
  BY <1>u DEF HasRelayed, HasSigned, IsIn, logVars, poolVars, foreignVars
<1>6. ASSUME NEW b \in Authority PROVE ConfirmCoversFor(b)'
  <2>1. ConfirmCoversFor(b)
    BY <1>s DEF ConfirmSide, ConfirmCovers
  <2>2. CASE b # a
    BY <1>4, <1>5, <2>1, <2>2 DEF ConfirmCoversFor
  <2>3. CASE b = a
    <3>1. \A i \in 1..checked[a].confirm : HasSigned(a, requested[i])
      BY <1>s, <1>2, <2>1, <2>3 DEF ConfirmSide, ConfirmChecked, ConfirmCoversFor, LogTypeOK
    <3> QED
      BY <1>4, <1>5, <2>1, <2>3, <3>1 DEF ConfirmCoversFor
  <2> QED
    BY <2>2, <2>3
<1>7. ASSUME NEW b \in Authority PROVE RelayCoversFor(b)'
  <2>1. RelayCoversFor(b)
    BY <1>s DEF RelaySide, RelayCovers
  <2>2. CASE b # a
    BY <1>4, <1>5, <2>1, <2>2 DEF RelayCoversFor
  <2>3. CASE b = a
    <3>1. \A i \in 1..checked[a].relay :
            assigned[i][1] = a => HasRelayed(a, assigned[i][2])
      BY <1>s, <1>2, <2>1, <2>3 DEF RelaySide, RelayChecked, RelayCoversFor, LogTypeOK
    <3> QED
      BY <1>4, <1>5, <2>1, <2>3, <3>1 DEF RelayCoversFor
  <2> QED
    BY <2>2, <2>3
<1>8. SignedAreRequested' /\ ConfirmChecked'
  BY <1>s, <1>5 DEF ConfirmSide, SignedAreRequested, ConfirmChecked
<1>9. FetchedAreValid' /\ RelaysAreValid' /\ RelayChecked'
  BY <1>s, <1>4, <1>5 DEF RelaySide, FetchedAreValid, RelaysAreValid, RelayChecked,
                          Home!hasEnoughValidSignatures
<1>10. ConfirmSide' /\ RelaySide'
  BY <1>6, <1>7, <1>8, <1>9 DEF ConfirmSide, ConfirmCovers, RelaySide, RelayCovers
<1>11. LogTypeOK' /\ ForeignSide' /\ HomeSide'
  BY <1>s, <1>u, LogKept, ForeignKept, HomeKept DEF logVars
<1> QED
  BY <1>3, <1>10, <1>11, SidesNext

-----------------------------------------------------------------------------
(* The chains.                                                             *)

\* A new event leaves the earlier ones where they are.
LEMMA AppendKeeps ==
  ASSUME NEW S, NEW log \in Seq(S), NEW x \in S
  PROVE  /\ Append(log, x) \in Seq(S)
         /\ Len(Append(log, x)) = Len(log) + 1
         /\ \A i \in 1..Len(log) : Append(log, x)[i] = log[i]
         /\ Append(log, x)[Len(log) + 1] = x
         /\ \A y : IsIn(y, log) => IsIn(y, Append(log, x))
         /\ IsIn(x, Append(log, x))
BY DEF IsIn

\* ForeignBridge.receiveApproval: one more withdraw is requested.
LEMMA UserWithdrawsInductive ==
  ASSUME Inductive, NEW m \in Message, UserWithdraws(m)
  PROVE  Inductive'
<1>s. LogTypeOK /\ ProcessTypeOK /\ ConfirmSide /\ RelaySide /\ ForeignSide /\ HomeSide
  BY Sides
<1>u. UNCHANGED <<assigned, poolVars, processVars, foreignVars, homeVars>>
  BY DEF UserWithdraws
<1>1. requested' = Append(requested, m) /\ requested \in Seq(Message)
  BY <1>s DEF UserWithdraws, LogTypeOK
<1>2. /\ requested' \in Seq(Message)
      /\ Len(requested') = Len(requested) + 1
      /\ \A i \in 1..Len(requested) : requested'[i] = requested[i]
      /\ \A n : IsIn(n, requested) => IsIn(n, requested')
  BY <1>1, AppendKeeps
<1>3. Len(requested) \in Nat
  BY <1>1
<1>4. LogTypeOK' /\ ProcessTypeOK'
  BY <1>s, <1>u, <1>2 DEF LogTypeOK, ProcessTypeOK, poolVars, processVars
<1>5. /\ \A a, n : HasSigned(a, n)' <=> HasSigned(a, n)
      /\ confirm' = confirm /\ checked' = checked
  BY <1>u DEF HasSigned, poolVars, processVars, foreignVars
<1>6. ASSUME NEW a \in Authority PROVE ConfirmCoversFor(a)'
  <2>1. ConfirmCoversFor(a)
    BY <1>s DEF ConfirmSide, ConfirmCovers
  <2>2. confirm[a].after \in Nat /\ checked[a].confirm \in Nat
    BY <1>s DEF ProcessTypeOK
  <2> QED
    BY <1>2, <1>3, <1>5, <2>1, <2>2 DEF ConfirmCoversFor, IsIn
<1>7. SignedAreRequested'
  BY <1>s, <1>2, <1>5 DEF ConfirmSide, SignedAreRequested, IsIn
<1>8. ConfirmChecked'
  <2> SUFFICES ASSUME NEW a \in Authority, NEW i \in 1..Len(requested'),
                      i <= checked[a].confirm
               PROVE  HasSigned(a, requested'[i])
    BY <1>5 DEF ConfirmChecked
  <2>1. checked[a].confirm <= Len(requested) /\ checked[a].confirm \in Nat
    BY <1>s DEF ConfirmSide, ConfirmCovers, ConfirmCoversFor, ProcessTypeOK
  <2>2. i \in 1..Len(requested)
    BY <1>2, <1>3, <2>1
  <2> QED
    BY <1>s, <1>2, <2>2 DEF ConfirmSide, ConfirmChecked
<1>9. ASSUME NEW a \in Authority PROVE RelayCoversFor(a)'
  <2>1. RelayCoversFor(a)
    BY <1>s DEF RelaySide, RelayCovers
  <2> QED
    BY <1>u, <2>1 DEF RelayCoversFor, HasRelayed, IsIn, poolVars, processVars
<1>10. FetchedAreValid' /\ RelaysAreValid' /\ RelayChecked'
  BY <1>s, <1>u, <1>2 DEF RelaySide, FetchedAreValid, RelaysAreValid, RelayChecked,
       HasRelayed, IsIn, Home!hasEnoughValidSignatures, poolVars, processVars
<1>11. HomeSide'
  BY <1>s, <1>u, <1>2 DEF HomeSide, homeVars, Home!TypeOK, PaidIsBacked,
       Home!PaidExactlyValue, IsIn
<1>12. ConfirmSide' /\ RelaySide'
  BY <1>6, <1>7, <1>8, <1>9, <1>10 DEF ConfirmSide, ConfirmCovers, RelaySide, RelayCovers
<1>13. ForeignSide'
  BY <1>s, <1>u, ForeignKept
<1> QED
  BY <1>4, <1>11, <1>12, <1>13, SidesNext

\* The contract lets a sender through once, so it counts to 1 and no further.
LEMMA FirstSignature ==
  ASSUME ForeignSide, NEW a \in Authority, NEW m \in Message,
         Foreign!acceptsSignature(a, m)
  PROVE  /\ Foreign!signed(a, m) = 1
         /\ numMessagesSigned[<<a, m>>] = 0
         /\ <<a, m>> \notin messagesSigned
BY DEF ForeignSide, SignaturesStored, Foreign!acceptsSignature, Foreign!signed

\* ForeignBridge.submitSignature, mined.
LEMMA ForeignExecutesInductive ==
  ASSUME Inductive, NEW a \in Authority, NEW m \in Message, ForeignExecutes(a, m)
  PROVE  Inductive'
<1>s. LogTypeOK /\ ProcessTypeOK /\ ConfirmSide /\ RelaySide /\ ForeignSide /\ HomeSide
  BY Sides
<1>u. UNCHANGED <<requested, relays, relayed, processVars, homeVars>>
  BY DEF ForeignExecutes
<1>1. <<a, m>> \in submits /\ submits' = submits \ {<<a, m>>}
  BY DEF ForeignExecutes
<1>2. ProcessTypeOK'
  BY <1>s, <1>u, <1>1 DEF ProcessTypeOK, processVars
<1>3. HomeSide'
  BY <1>s, <1>u, HomeKept
<1> DEFINE Kept == /\ messagesSigned' \subseteq messagesSigned \cup {<<a, m>>}
                   /\ messagesSigned \cup {<<a, m>>} \subseteq messagesSigned'
                   /\ assigned' \in Seq(Authority \X Message)
                   /\ assigned' = assigned \/ assigned' = Append(assigned, <<a, m>>)
<1>4. ASSUME Foreign!submitSignature(a, m),
             assigned' = IF Foreign!emitted(a, m) = {} THEN assigned
                         ELSE Append(assigned, <<a, m>>)
      PROVE  ForeignSide' /\ Kept
  <2>1. /\ Foreign!signed(a, m) = 1
        /\ numMessagesSigned[<<a, m>>] = 0
        /\ <<a, m>> \notin messagesSigned
    BY <1>s, <1>4, FirstSignature DEF Foreign!submitSignature
  <2>2. /\ messages' = messages \cup {m}
        /\ messagesSigned' = messagesSigned \cup {<<a, m>>}
        /\ signatures' = [signatures EXCEPT ![<<m, 0>>] = a]
        /\ numMessagesSigned' = [numMessagesSigned EXCEPT ![<<a, m>>] = 1]
        /\ collected' = collected \cup Foreign!emitted(a, m)
    BY <1>4, <2>1 DEF Foreign!submitSignature
  <2>3. assigned' # assigned => RequiredSignatures = 1
    BY <1>4, <2>1 DEF Foreign!emitted
  <2>4. 0 \in Foreign!Index
    <3>1. RequiredSignatures \in Nat
      BY WithdrawAssumption, FS_CardinalityType
    <3> QED
      BY <3>1 DEF Foreign!Index
  <2>5. Foreign!TypeOK'
    <3>1. Foreign!emitted(a, m) \subseteq Foreign!CollectedSignatures
      BY <2>1 DEF Foreign!emitted, Foreign!event, Foreign!CollectedSignatures
    <3>2. Foreign!TypeOK
      BY <1>s DEF ForeignSide
    <3>3. signatures' \in [Message \X Foreign!Index -> Authority \cup {NoSignature}]
      BY <2>2, <3>2 DEF Foreign!TypeOK
    <3>4. numMessagesSigned' \in [Authority \X Message -> 0..1]
      BY <2>2, <3>2 DEF Foreign!TypeOK
    <3>5. /\ messages' \subseteq Message
          /\ messagesSigned' \subseteq Authority \X Message
          /\ collected' \subseteq Foreign!CollectedSignatures
      BY <2>2, <3>1, <3>2 DEF Foreign!TypeOK
    <3> QED
      BY <3>3, <3>4, <3>5 DEF Foreign!TypeOK
  <2>6. SignaturesStored'
    <3>1. ASSUME NEW b \in Authority, NEW n \in Message
          PROVE  /\ numMessagesSigned'[<<b, n>>] =
                      IF <<b, n>> \in messagesSigned' THEN 1 ELSE 0
                 /\ <<b, n>> \in messagesSigned' => signatures'[<<n, 0>>] \in Authority
      BY <1>s, <2>2, <2>4 DEF ForeignSide, SignaturesStored, Foreign!TypeOK
    <3>2. ASSUME NEW i \in 1..Len(assigned')
          PROVE  RequiredSignatures = 1 /\ assigned'[i] \in messagesSigned'
      <4>1. CASE assigned' = assigned
        BY <1>s, <2>2, <4>1 DEF ForeignSide, SignaturesStored
      <4>2. CASE assigned' # assigned
        <5>1. /\ assigned' = Append(assigned, <<a, m>>)
              /\ assigned \in Seq(Authority \X Message)
              /\ <<a, m>> \in Authority \X Message
          BY <1>s, <1>4, <4>2 DEF LogTypeOK
        <5>2. i \in 1..Len(assigned) \/ i = Len(assigned) + 1
          BY <5>1
        <5>3. assigned'[i] \in messagesSigned'
          BY <1>s, <2>2, <5>1, <5>2, AppendKeeps DEF ForeignSide, SignaturesStored
        <5> QED
          BY <2>3, <4>2, <5>3
      <4> QED
        BY <4>1, <4>2
    <3> QED
      BY <3>1, <3>2 DEF SignaturesStored
  <2>7. Kept
    BY <1>s, <1>4, <2>2, AppendKeeps DEF LogTypeOK
  <2> QED
    BY <2>5, <2>6, <2>7 DEF ForeignSide
<1>5. ASSUME ~Foreign!acceptsSignature(a, m), UNCHANGED <<assigned, foreignVars>>
      PROVE  ForeignSide' /\ Kept
  <2>1. ForeignSide'
    BY <1>s, <1>5, ForeignKept
  <2>2. <<a, m>> \in messagesSigned
    BY <1>5 DEF Foreign!acceptsSignature
  <2> QED
    BY <1>s, <1>5, <2>1, <2>2 DEF LogTypeOK, foreignVars
<1>6. ForeignSide' /\ Kept
  BY <1>4, <1>5 DEF ForeignExecutes
<1>7. \A b \in Authority, n \in Message : HasSigned(b, n)' <=> HasSigned(b, n)
  BY <1>1, <1>6 DEF HasSigned
<1>8. /\ assigned \in Seq(Authority \X Message)
      /\ Len(assigned') >= Len(assigned) /\ Len(assigned) \in Nat
      /\ \A i \in 1..Len(assigned) : assigned'[i] = assigned[i]
      /\ \A x : IsIn(x, assigned) => IsIn(x, assigned')
  <2>1. assigned \in Seq(Authority \X Message) /\ <<a, m>> \in Authority \X Message
    BY <1>s DEF LogTypeOK
  <2>2. CASE assigned' = assigned
    BY <2>1, <2>2
  <2>3. CASE assigned' = Append(assigned, <<a, m>>)
    BY <2>1, <2>3, AppendKeeps
  <2> QED
    BY <1>6, <2>2, <2>3
<1> HIDE DEF Kept
<1>9. LogTypeOK'
  BY <1>s, <1>u, <1>6 DEF LogTypeOK, Kept
<1>10. ConfirmSide'
  <2>1. requested' = requested /\ confirm' = confirm /\ checked' = checked
        /\ requested \in Seq(Message)
    BY <1>s, <1>u DEF processVars, LogTypeOK
  <2>2. ASSUME NEW b \in Authority PROVE ConfirmCoversFor(b)'
    <3>1. ConfirmCoversFor(b) /\ confirm[b].after \in Nat
      BY <1>s DEF ConfirmSide, ConfirmCovers, ProcessTypeOK
    <3>2. \A i \in 1..confirm[b].after : requested[i] \in Message
      BY <2>1, <3>1 DEF ConfirmCoversFor
    <3> QED
      BY <1>7, <2>1, <3>1, <3>2 DEF ConfirmCoversFor, IsIn
  <2>3. SignedAreRequested'
    BY <1>s, <1>7, <2>1 DEF ConfirmSide, SignedAreRequested, IsIn
  <2>4. ConfirmChecked'
    BY <1>s, <1>7, <2>1 DEF ConfirmSide, ConfirmChecked
  <2> QED
    BY <2>2, <2>3, <2>4 DEF ConfirmSide, ConfirmCovers
<1>11. RelaySide'
  <2>1. /\ relay' = relay /\ checked' = checked /\ relays' = relays
        /\ requested' = requested
        /\ \A b, n : HasRelayed(b, n)' <=> HasRelayed(b, n)
    BY <1>u DEF processVars, HasRelayed
  <2>2. ASSUME NEW b \in Authority PROVE RelayCoversFor(b)'
    <3>1. RelayCoversFor(b) /\ relay[b].after \in Nat /\ checked[b].relay \in Nat
      BY <1>s DEF RelaySide, RelayCovers, ProcessTypeOK
    <3>2. \A n : IsIn(<<b, n>>, assigned) => IsIn(<<b, n>>, assigned)'
      BY <1>8 DEF IsIn
    <3>3. relay[b].after <= Len(assigned') /\ checked[b].relay <= Len(assigned')
      BY <1>6, <1>8, <3>1 DEF RelayCoversFor, Kept
    <3>4. \A i \in 1..relay[b].after : assigned'[i] = assigned[i]
      BY <1>8, <3>1 DEF RelayCoversFor
    <3> QED
      BY <2>1, <3>1, <3>2, <3>3, <3>4 DEF RelayCoversFor
  <2>3. FetchedAreValid' /\ RelaysAreValid'
    BY <1>s, <2>1 DEF RelaySide, FetchedAreValid, RelaysAreValid, IsIn,
                      Home!hasEnoughValidSignatures
  <2>4. RelayChecked'
    <3> SUFFICES ASSUME NEW b \in Authority, NEW i \in 1..Len(assigned'),
                        i <= checked[b].relay, assigned'[i][1] = b
                 PROVE  HasRelayed(b, assigned'[i][2])
      BY <2>1 DEF RelayChecked
    <3>1. checked[b].relay <= Len(assigned) /\ checked[b].relay \in Nat
      BY <1>s DEF RelaySide, RelayCovers, RelayCoversFor, ProcessTypeOK
    <3>2. i \in 1..Len(assigned)
      BY <1>8, <3>1
    <3> QED
      BY <1>s, <1>8, <3>2 DEF RelaySide, RelayChecked
  <2> QED
    BY <2>2, <2>3, <2>4 DEF RelaySide, RelayCovers
<1> QED
  BY <1>2, <1>3, <1>6, <1>9, <1>10, <1>11, SidesNext

-----------------------------------------------------------------------------
(* HomeBridge.withdraw, as in HomeBridgeProofs.                            *)

\* What `%' does to the difference of two words.
LEMMA Wraps ==
  ASSUME NEW w \in Nat \ {0}, NEW x \in (-w)..(w - 1)
  PROVE  x % w = IF x >= 0 THEN x ELSE x + w
OBVIOUS

\* The cost of a withdraw fits in a word.
LEMMA CostFits ==
  ASSUME NEW m \in Message
  PROVE  /\ Home!cost(m) \in Nat
         /\ Home!cost(m) + MaxBalance < Word
<1> DEFINE c == estimatedGasCostOfWithdraw * GasPrice[m]
<1>1. /\ estimatedGasCostOfWithdraw \in Nat
      /\ GasPrice[m] \in Nat
      /\ MaxBalance \in Nat
      /\ Word \in Nat \ {0}
      /\ MaxBalance + c < Word
  BY HomeParametersAssumption DEF Home!ParametersOK, Home!CoinsFit
<1>2. c \in Nat
  BY <1>1
<1> HIDE DEF c
<1>3. c % Word = c
  BY <1>1, <1>2, Wraps
<1>4. Home!cost(m) = c
  BY <1>3 DEF Home!cost, c
<1> QED
  BY <1>1, <1>2, <1>4

\* If what remains after the cost can be paid, the subtraction did not wrap.
LEMMA NoWrap ==
  ASSUME NEW m \in Message, balance \in 0..MaxBalance, Home!remaining(m) <= balance
  PROVE  /\ Home!remaining(m) \in Nat
         /\ Home!remaining(m) + Home!cost(m) = Amount[m]
<1>1. /\ Amount[m] \in 0..(Word - 1)
      /\ MaxBalance \in Nat
      /\ Word \in Nat \ {0}
  BY HomeParametersAssumption DEF Home!ParametersOK
<1>2. Home!cost(m) \in Nat /\ Home!cost(m) + MaxBalance < Word
  BY CostFits
<1>3. Amount[m] - Home!cost(m) \in (-Word)..(Word - 1)
  BY <1>1, <1>2
<1>4. Home!remaining(m) = IF Amount[m] - Home!cost(m) >= 0 THEN Amount[m] - Home!cost(m)
                          ELSE Amount[m] - Home!cost(m) + Word
  BY <1>1, <1>3, Wraps DEF Home!remaining
<1> QED
  BY <1>1, <1>2, <1>4

\* An accepted withdraw of a requested message pays it its exact value.
LEMMA WithdrawKeepsHome ==
  ASSUME HomeSide, NEW caller, NEW gasprice, NEW signers, NEW m \in Message,
         Home!withdraw(caller, gasprice, signers, m),
         requested' = requested, IsIn(m, requested)
  PROVE  HomeSide'
<1>1. /\ TxHash[m] \notin withdraws
      /\ Home!remaining(m) <= balance
      /\ Home!cost(m) <= balance - Home!remaining(m)
  BY DEF Home!withdraw, Home!acceptsWithdraw
<1>2. balance \in 0..MaxBalance /\ MaxBalance \in Nat
  BY HomeParametersAssumption DEF HomeSide, Home!TypeOK, Home!ParametersOK
<1>3. /\ Home!remaining(m) \in Nat
      /\ Home!cost(m) \in Nat
      /\ Home!remaining(m) + Home!cost(m) = Amount[m]
  BY <1>1, <1>2, CostFits, NoWrap
<1>4. received[m] = Home!Unpaid
  BY <1>1 DEF HomeSide, PaidIsBacked, Home!PaidExactlyValue
<1> DEFINE payment == [recipient |-> Home!remaining(m), caller |-> Home!cost(m)]
<1>5. received' = [received EXCEPT ![m] = payment]
  <2>1. received[m].recipient = 0 /\ received[m].caller = 0
    BY <1>4 DEF Home!Unpaid
  <2>2. /\ received[m].recipient + Home!remaining(m) = Home!remaining(m)
        /\ received[m].caller + Home!cost(m) = Home!cost(m)
    BY <1>3, <2>1
  <2> QED
    BY <2>2 DEF Home!withdraw
<1>6. withdraws' = withdraws \cup {TxHash[m]}
  BY DEF Home!withdraw
<1>7. Home!TypeOK'
  <2>1. balance' \in 0..MaxBalance
    BY <1>1, <1>2, <1>3 DEF Home!withdraw
  <2>2. received' \in [Message -> [recipient : Nat, caller : Nat]]
    BY <1>3, <1>5 DEF HomeSide, Home!TypeOK
  <2> QED
    BY <1>6, <2>1, <2>2 DEF HomeSide, Home!TypeOK
<1>8. received'[m] = payment /\ \A n \in Message \ {m} : received'[n] = received[n]
  BY <1>5 DEF HomeSide, Home!TypeOK
<1>9. ASSUME NEW n \in Message, received'[n] # Home!Unpaid
      PROVE  /\ received'[n].recipient + received'[n].caller = Amount[n]
             /\ TxHash[n] \in withdraws'
             /\ \A k \in Message \ {n} : TxHash[k] = TxHash[n] => received'[k] = Home!Unpaid
             /\ IsIn(n, requested)
  <2>1. CASE n = m
    <3>1. ASSUME NEW k \in Message \ {n}, TxHash[k] = TxHash[n]
          PROVE  received'[k] = Home!Unpaid
      BY <1>1, <1>8, <2>1, <3>1 DEF HomeSide, PaidIsBacked, Home!PaidExactlyValue
    <3> QED
      BY <1>3, <1>6, <1>8, <2>1, <3>1
  <2>2. CASE n # m
    <3>1. received'[n] = received[n]
      BY <1>8, <2>2
    <3>2. /\ received[n].recipient + received[n].caller = Amount[n]
          /\ TxHash[n] \in withdraws
          /\ \A k \in Message \ {n} : TxHash[k] = TxHash[n] => received[k] = Home!Unpaid
          /\ IsIn(n, requested)
      BY <1>9, <3>1 DEF HomeSide, PaidIsBacked, Home!PaidExactlyValue
    <3>3. ASSUME NEW k \in Message \ {n}, TxHash[k] = TxHash[n]
          PROVE  received'[k] = Home!Unpaid
      BY <1>1, <1>8, <3>2, <3>3
    <3> QED
      BY <1>6, <3>1, <3>2, <3>3
  <2> QED
    BY <2>1, <2>2
<1>10. Home!PaidExactlyValue'
  BY <1>9 DEF Home!PaidExactlyValue, Home!Unpaid
<1>11. PaidIsBacked'
  BY <1>9, <1>10 DEF PaidIsBacked, Home!Unpaid, IsIn
<1> QED
  BY <1>7, <1>11 DEF HomeSide

\* HomeBridge.withdraw, mined.
LEMMA HomeExecutesInductive ==
  ASSUME Inductive, NEW tx \in relays, HomeExecutes(tx)
  PROVE  Inductive'
<1>s. LogTypeOK /\ ProcessTypeOK /\ ConfirmSide /\ RelaySide /\ ForeignSide /\ HomeSide
  BY Sides
<1>u. UNCHANGED <<logVars, submits, processVars, foreignVars>>
  BY DEF HomeExecutes
<1>1. /\ relays' = relays \ {tx}
      /\ relayed' = relayed \cup {<<tx.authority, tx.message>>}
  BY DEF HomeExecutes
<1>2. tx.authority \in Authority /\ tx.message \in Message
  BY <1>s DEF ProcessTypeOK, RelayTx
<1>3. HomeSide'
  <2>1. IsIn(tx.message, requested) /\ requested' = requested
    BY <1>s, <1>u DEF RelaySide, RelaysAreValid, logVars
  <2>2. CASE UNCHANGED homeVars
    BY <1>s, <2>1, <2>2, HomeKept
  <2>3. CASE Home!withdraw(tx.authority, GasPrice[tx.message], tx.signers, tx.message)
    BY <1>s, <1>2, <2>1, <2>3, WithdrawKeepsHome
  <2> QED
    BY <2>2, <2>3 DEF HomeExecutes
<1>4. ProcessTypeOK'
  BY <1>s, <1>u, <1>1, <1>2 DEF ProcessTypeOK, processVars
<1>5. LogTypeOK' /\ ForeignSide' /\ ConfirmSide'
  BY <1>s, <1>u, LogKept, ForeignKept, ConfirmKept DEF logVars, processVars, foreignVars
<1>6. \A b, n : HasRelayed(b, n) => HasRelayed(b, n)'
  BY <1>1 DEF HasRelayed
<1>7. relay' = relay /\ checked' = checked /\ assigned' = assigned /\ requested' = requested
  BY <1>u DEF processVars, logVars
<1>8. ASSUME NEW b \in Authority PROVE RelayCoversFor(b)'
  <2>1. RelayCoversFor(b)
    BY <1>s DEF RelaySide, RelayCovers
  <2> QED
    BY <1>6, <1>7, <2>1 DEF RelayCoversFor, IsIn
<1>9. FetchedAreValid' /\ RelaysAreValid'
  BY <1>s, <1>1, <1>7 DEF RelaySide, FetchedAreValid, RelaysAreValid, IsIn,
                          Home!hasEnoughValidSignatures
<1>10. RelayChecked'
  BY <1>s, <1>6, <1>7 DEF RelaySide, RelayChecked
<1>11. RelaySide'
  BY <1>8, <1>9, <1>10 DEF RelaySide, RelayCovers
<1> QED
  BY <1>3, <1>4, <1>5, <1>11, SidesNext

-----------------------------------------------------------------------------
\* Nothing has been requested, signed, assigned or relayed at the start.
LEMMA InitInductive == Init => Inductive
<1> SUFFICES ASSUME Init PROVE Inductive
  OBVIOUS
<1>1. LogTypeOK
  BY DEF Init, LogTypeOK
<1>2. ProcessTypeOK
  BY WithdrawAssumption DEF Init, ProcessTypeOK, NewConfirm, NewRelay
<1>3. ConfirmSide
  BY DEF Init, ConfirmSide, ConfirmCovers, ConfirmCoversFor, SignedAreRequested,
         ConfirmChecked, HasSigned, NewConfirm, Foreign!Init
<1>4. RelaySide
  BY DEF Init, RelaySide, RelayCovers, RelayCoversFor, FetchedAreValid,
         RelaysAreValid, RelayChecked, NewRelay
<1>5. ForeignSide
  BY DEF Init, ForeignSide, Foreign!Init, Foreign!TypeOK, SignaturesStored
<1>6. HomeSide
  BY HomeParametersAssumption DEF Init, HomeSide, Home!TypeOK, PaidIsBacked,
     Home!PaidExactlyValue, Home!Unpaid, Home!ParametersOK
<1> QED
  BY <1>1, <1>2, <1>3, <1>4, <1>5, <1>6, Sides

\* Every step preserves the invariant.
LEMMA NextInductive == Inductive /\ [Next]_vars => Inductive'
<1> SUFFICES ASSUME Inductive, [Next]_vars PROVE Inductive'
  OBVIOUS
<1>1. ASSUME NEW m \in Message, UserWithdraws(m) PROVE Inductive'
  BY <1>1, UserWithdrawsInductive
<1>2. ASSUME NEW a \in Authority, NEW m \in Message, ForeignExecutes(a, m) PROVE Inductive'
  BY <1>2, ForeignExecutesInductive
<1>3. ASSUME NEW tx \in relays, HomeExecutes(tx) PROVE Inductive'
  BY <1>3, HomeExecutesInductive
<1>4. ASSUME NEW a \in Authority, ConfirmPoll(a) PROVE Inductive'
  BY <1>4, ConfirmWaitInductive, ConfirmSentInductive, ConfirmDoneInductive DEF ConfirmPoll
<1>5. ASSUME NEW a \in Authority, RelayPoll(a) PROVE Inductive'
  BY <1>5, RelayWaitInductive, FetchInductive, RelaySentInductive, RelayDoneInductive
     DEF RelayPoll
<1>6. ASSUME NEW a \in Authority, Stop(a) PROVE Inductive'
  BY <1>6, StopInductive
<1>7. ASSUME NEW a \in Authority, Restart(a) PROVE Inductive'
  BY <1>7, RestartInductive
<1>8. CASE UNCHANGED vars
  <2>1. ProcessTypeOK'
    BY <1>8, Sides DEF vars, poolVars, processVars, ProcessTypeOK
  <2>2. ConfirmSide'
    BY <1>8, Sides, ConfirmKept DEF vars, logVars, poolVars, processVars, foreignVars
  <2> QED
    BY <1>8, <2>1, <2>2, ConfirmStep DEF vars, poolVars, processVars
<1> QED
  BY <1>1, <1>2, <1>3, <1>4, <1>5, <1>6, <1>7, <1>8 DEF Next

\* withdraw_confirm.rs, withdraw_relay.rs and both contracts: batches cover what
\* their streams have passed, and stored signatures are only ever replaced by
\* other valid ones.
THEOREM InductiveInvariant == Spec => []Inductive
<1> QED
  BY InitInductive, NextInductive, PTL DEF Spec

\* withdraw_confirm.rs, withdraw_relay.rs and the contracts: the variables keep
\* their types.
THEOREM TypeCorrect == Spec => []TypeOK
<1>1. Inductive => TypeOK
  BY DEF Inductive
<1> QED BY <1>1, InductiveInvariant, PTL

\* Bridge::poll with both withdraw streams: neither checkpoint runs ahead of what
\* the authority has handed to its nodes, through any stops and restarts.
THEOREM CheckpointsAreSound == Spec => []CheckedMeansDone
<1>1. Inductive => CheckedMeansDone
  BY DEF Inductive
<1> QED
  BY InductiveInvariant, <1>1, PTL

\* withdraw_relay.rs: whatever other authorities store between the event and the
\* calls, every relay carries signatures home accepts, for a requested withdraw.
THEOREM RelaysAreAcceptable == Spec => []RelaysAreValid
<1>1. Inductive => RelaysAreValid
  BY DEF Inductive
<1> QED
  BY InductiveInvariant, <1>1, PTL

\* HomeBridge.withdraw, relayed by all authorities: home pays only requested
\* withdraws, each once and in the amount locked.
THEOREM WithdrawsAreBacked == Spec => []PaidIsBacked
<1>1. Inductive => PaidIsBacked
  BY DEF Inductive
<1> QED
  BY InductiveInvariant, <1>1, PTL

-----------------------------------------------------------------------------
(* The withdraw side implements Transfers.                                 *)

\* Nothing is requested at the start, and nothing is paid.
LEMMA TransfersInit == Init => Promised!Init
<1> SUFFICES ASSUME Init PROVE Promised!Init
  OBVIOUS
<1>1. Locked = {}
  BY DEF Init, Locked, IsIn
<1>2. \A m \in Message : received[m].recipient + received[m].caller = 0
  BY DEF Init, Home!Unpaid
<1> QED BY <1>1, <1>2 DEF Promised!Init, Released

\* HomeBridge.withdraw: an accepted withdraw releases its value at once, and
\* nothing has been released for it before.
LEMMA WithdrawReleases ==
  ASSUME HomeSide, NEW caller, NEW gasprice, NEW signers, NEW m \in Message,
         Home!withdraw(caller, gasprice, signers, m),
         m \in Locked, Locked' = Locked
  PROVE  Promised!Next
<1>1. TxHash[m] \notin withdraws /\ Home!remaining(m) <= balance
  BY DEF Home!withdraw, Home!acceptsWithdraw
<1>2. /\ Home!remaining(m) \in Nat /\ Home!cost(m) \in Nat
      /\ Home!remaining(m) + Home!cost(m) = Amount[m]
  BY <1>1, CostFits, NoWrap DEF HomeSide, Home!TypeOK
<1>3. received[m] = Home!Unpaid
  BY <1>1 DEF HomeSide, PaidIsBacked, Home!PaidExactlyValue
<1>4. received[m].recipient = 0 /\ received[m].caller = 0
  BY <1>3 DEF Home!Unpaid
<1>5. /\ received[m].recipient + Home!remaining(m) = Home!remaining(m)
      /\ received[m].caller + Home!cost(m) = Home!cost(m)
  BY <1>2, <1>4
<1>6. received' = [received EXCEPT ![m] =
                     [recipient |-> Home!remaining(m), caller |-> Home!cost(m)]]
  BY <1>5 DEF Home!withdraw
<1>7. received \in [Message -> [recipient : Nat, caller : Nat]]
  BY DEF HomeSide, Home!TypeOK
<1>8. /\ received'[m].recipient + received'[m].caller = Amount[m]
      /\ \A n \in Message : n # m => received'[n] = received[n]
  BY <1>2, <1>6, <1>7
<1>9. Released[m] = 0
  BY <1>4 DEF Released
<1>10. Released' = [Released EXCEPT ![m] = Amount[m]]
  BY <1>8 DEF Released
<1> QED BY <1>9, <1>10 DEF Promised!Next, Promised!Release

\* Every step locks a withdraw, releases one, or is a stutter.
LEMMA TransfersNext ==
  Inductive /\ [Next]_vars => [Promised!Next]_<<Locked, Released>>
<1> SUFFICES ASSUME Inductive, [Next]_vars
             PROVE  [Promised!Next]_<<Locked, Released>>
  OBVIOUS
<1>s. HomeSide /\ RelaySide /\ ProcessTypeOK /\ LogTypeOK
  BY Sides
<1>1. ASSUME NEW m \in Message, UserWithdraws(m)
      PROVE  Promised!Next
  <2>1. requested' = Append(requested, m) /\ received' = received
    BY <1>1 DEF UserWithdraws, homeVars
  <2>2. \A n \in Message : IsIn(n, requested) => IsIn(n, requested')
    BY <1>s, <2>1 DEF LogTypeOK, IsIn
  <2>3. Locked \subseteq Locked' /\ Locked' \subseteq Message
    BY <2>2 DEF Locked
  <2>4. Released' = Released
    BY <2>1 DEF Released
  <2> QED BY <2>3, <2>4 DEF Promised!Next, Promised!Lock
<1>2. ASSUME NEW tx \in relays, HomeExecutes(tx)
      PROVE  [Promised!Next]_<<Locked, Released>>
  <2>1. tx.message \in Message /\ requested' = requested
    BY <1>2, <1>s DEF HomeExecutes, logVars, ProcessTypeOK, RelayTx
  <2>2. tx.message \in Locked /\ Locked' = Locked
    BY <1>s, <2>1 DEF RelaySide, RelaysAreValid, Locked, IsIn
  <2>3. CASE Home!withdraw(tx.authority, GasPrice[tx.message], tx.signers, tx.message)
    BY <1>s, <2>1, <2>2, <2>3, WithdrawReleases
  <2>4. CASE UNCHANGED homeVars
    BY <2>2, <2>4 DEF homeVars, Released
  <2> QED BY <1>2, <2>3, <2>4 DEF HomeExecutes
<1>3. CASE \/ \E a \in Authority, m \in Message : ForeignExecutes(a, m)
           \/ \E a \in Authority : ConfirmPoll(a) \/ RelayPoll(a) \/ Stop(a) \/ Restart(a)
           \/ UNCHANGED vars
  <2>1. requested' = requested /\ received' = received
    BY <1>3 DEF ForeignExecutes, ConfirmPoll, ConfirmWait, ConfirmSent, ConfirmDone,
                RelayPoll, RelayWait, Fetch, RelaySent, RelayDone, Stop, Restart,
                vars, logVars, homeVars
  <2> QED BY <2>1 DEF Locked, IsIn, Released
<1> QED BY <1>1, <1>2, <1>3 DEF Next

\* withdraw_relay.rs with HomeBridge.withdraw: coins leave home only for tokens
\* given back on foreign, each withdraw once and in the amount given back, for
\* any authorities, withdraws, stops and restarts.
THEOREM WithdrawsImplementTransfers == Spec => ImplementsTransfers
<1> QED BY TransfersInit, TransfersNext, InductiveInvariant, PTL
        DEF Spec, ImplementsTransfers, Promised!Spec
=============================================================================
