-------------------------- MODULE NonceCheckProofs --------------------------
(***************************************************************************)
(* Proofs about NonceCheck, for any set of transactions, any gas prices    *)
(* and any number of restarts.                                             *)
(***************************************************************************)
EXTENDS NonceCheck, TLAPS

\* What the node holds for a nonce is a transaction or nothing.
LEMMA EntryOrEmpty ==
  ASSUME TypeOK, NEW k \in Nonce, Filled(k)
  PROVE  /\ slot[k] \in Entry
         /\ slot[k].tx \in Tx /\ slot[k].price \in Price /\ slot[k].run \in Nat
BY DEF TypeOK, Filled, Entry

\* The fields of a request.
LEMMA RequestFields ==
  ASSUME TypeOK, NEW r \in net
  PROVE  /\ r.tx \in Tx /\ r.price \in Price /\ r.run \in Nat
         /\ r.nonce \in Nonce
         /\ [tx |-> r.tx, price |-> r.price, run |-> r.run] \in Entry
BY DEF TypeOK, Request, Entry

\* The invariant holds initially.
LEMMA InitInductive == Init => Inductive
<1> SUFFICES ASSUME Init PROVE Inductive
  OBVIOUS
<1> USE NonceAssumption DEF Init
<1>1. TypeOK
  BY DEF TypeOK, Nonce
<1>2. \A k \in Nonce : ~Filled(k)
  BY DEF Filled
<1>3. RequestsOfThisRun /\ CountsCovered
  BY DEF RequestsOfThisRun, CountsCovered
<1>4. EntriesOfThisRun /\ OneRequestPerRun /\ SentOncePerRun
  BY <1>2 DEF EntriesOfThisRun, OneRequestPerRun, SentOncePerRun
<1>5. NoGap
  BY DEF NoGap
<1> QED BY <1>1, <1>3, <1>4, <1>5 DEF Inductive

-----------------------------------------------------------------------------
(* Sending: the transaction is new to the node in this run.                *)

\* Taking a nonce and sending with it.
LEMMA SendInductive ==
  ASSUME Inductive, NEW t \in Tx, NEW n, up, state[t] # "TransactionRequest",
         state[t] # "Done", Send(t, n),
         nodeNonce' \in 0..MaxNonce,
         \A k \in 0..(nodeNonce' - 1) :
            \/ k = n
            \/ Filled(k)
            \/ \E u \in Tx : /\ state[u] = "TransactionRequest"
                             /\ nonce[u] = k /\ reply[u] = "None",
         UNCHANGED <<up, run, price, poolVars>>
  PROVE  Inductive'
<1> DEFINE q == [tx |-> t, price |-> price[t], run |-> run, nonce |-> n]
<1> USE NonceAssumption
<1>t. TypeOK
  BY DEF Inductive
<1>0. /\ UNCHANGED <<up, run, price, slot, mined>>
      /\ n \in Nonce /\ net' = net \cup {q}
      /\ \A k \in Nonce : Filled(k)' <=> Filled(k)
  BY DEF Send, poolVars, Filled
<1>1. TypeOK'
  <2>1. q \in Request
    BY <1>0, <1>t DEF TypeOK, Request
  <2>2. net' \subseteq Request
    BY <1>0, <1>t, <2>1 DEF TypeOK
  <2>3. /\ state' \in [Tx -> {"Ready", "NonceRequest", "TransactionRequest", "Done"}]
        /\ nonce' \in [Tx -> 0..MaxNonce]
        /\ reply' \in [Tx -> {"None", "Ok", "Imported", "NonceUsed", "Count"}]
    BY <1>t, <1>0 DEF TypeOK, Send, Nonce
  <2> QED BY <1>t, <1>0, <2>2, <2>3 DEF TypeOK
<1>2. /\ state'[t] = "TransactionRequest" /\ nonce'[t] = n /\ reply'[t] = "None"
      /\ \A u \in Tx : u # t => /\ state'[u] = state[u] /\ nonce'[u] = nonce[u]
                                /\ reply'[u] = reply[u]
  BY <1>t, <1>0 DEF TypeOK, Send
<1>3. \A r \in net : ~(r.tx = t /\ r.run = run)
  BY DEF Inductive, RequestsOfThisRun
<1>4. \A k \in Nonce : Filled(k) => ~(slot[k].tx = t /\ slot[k].run = run)
  BY DEF Inductive, EntriesOfThisRun
<1>5. RequestsOfThisRun'
  <2> SUFFICES ASSUME NEW r \in net'
               PROVE  /\ r.run <= run
                      /\ r.run = run =>
                           /\ up
                           /\ state'[r.tx] = "TransactionRequest"
                           /\ nonce'[r.tx] = r.nonce /\ reply'[r.tx] = "None"
    BY <1>0 DEF RequestsOfThisRun
  <2>1. CASE r = q
    BY <1>t, <1>2, <2>1 DEF TypeOK
  <2>2. CASE r \in net
    <3>1. r.tx \in Tx
      BY <1>t, <2>2, RequestFields
    <3>2. r.run = run => r.tx # t
      BY <1>3, <2>2
    <3>3. /\ r.run <= run
          /\ r.run = run => /\ up
                            /\ state[r.tx] = "TransactionRequest"
                            /\ nonce[r.tx] = r.nonce /\ reply[r.tx] = "None"
      BY <2>2 DEF Inductive, RequestsOfThisRun
    <3> QED BY <1>2, <3>1, <3>2, <3>3
  <2> QED BY <1>0, <2>1, <2>2
<1>6. EntriesOfThisRun'
  BY <1>t, <1>0, <1>2, <1>4, EntryOrEmpty DEF Inductive, EntriesOfThisRun
<1>7. CountsCovered'
  <2> SUFFICES ASSUME NEW u \in Tx, reply'[u] = "Count",
                      NEW j \in 0..(nonce'[u] - 1)
               PROVE  Filled(j)'
    BY DEF CountsCovered
  <2>1. u # t /\ reply[u] = "Count" /\ nonce'[u] = nonce[u]
    BY <1>2
  <2>2. nonce[u] \in 0..MaxNonce
    BY <1>t DEF TypeOK
  <2> QED BY <1>0, <2>1, <2>2 DEF Inductive, CountsCovered, Nonce
<1>8. OneRequestPerRun'
  <2>1. \A r1, r2 \in net' : r1.tx = r2.tx /\ r1.run = r2.run => r1 = r2
    BY <1>0, <1>3 DEF Inductive, OneRequestPerRun
  <2>2. \A r \in net', k \in Nonce :
           Filled(k) => ~(slot[k].tx = r.tx /\ slot[k].run = r.run)
    BY <1>0, <1>4 DEF Inductive, OneRequestPerRun
  <2> QED BY <1>0, <2>1, <2>2 DEF OneRequestPerRun
<1>9. NoGap'
  <2> SUFFICES ASSUME NEW k \in 0..(nodeNonce' - 1)
               PROVE  \/ Filled(k)'
                      \/ \E u \in Tx : /\ state'[u] = "TransactionRequest"
                                       /\ nonce'[u] = k /\ reply'[u] = "None"
    BY DEF NoGap
  <2>1. CASE k = n
    BY <1>2, <2>1
  <2>2. CASE Filled(k)
    BY <1>0, <2>2 DEF Filled
  <2>3. CASE \E u \in Tx : /\ state[u] = "TransactionRequest"
                           /\ nonce[u] = k /\ reply[u] = "None"
    BY <1>2, <2>3
  <2> QED BY <2>1, <2>2, <2>3
<1>10. SentOncePerRun'
  BY <1>0 DEF Inductive, SentOncePerRun
<1> QED BY <1>1, <1>5, <1>6, <1>7, <1>8, <1>9, <1>10 DEF Inductive

-----------------------------------------------------------------------------
(* The node takes a request in.                                            *)

\* A request, of this run or an earlier one, reaches the pool.
LEMMA ImportInductive ==
  ASSUME Inductive, NEW r \in net, Import(r)
  PROVE  Inductive'
<1> DEFINE e == [tx |-> r.tx, price |-> r.price, run |-> r.run]
<1> USE NonceAssumption
<1>t. TypeOK
  BY DEF Inductive
<1>r. /\ r.tx \in Tx /\ r.price \in Price /\ r.run \in Nat /\ r.nonce \in Nonce
      /\ e \in Entry /\ e # Empty
      /\ e.tx = r.tx /\ e.run = r.run
  BY <1>t, RequestFields, NonceAssumption DEF Entry
<1> HIDE DEF e
<1>0. /\ UNCHANGED <<up, run, nodeNonce, state, nonce, price, mined>>
      /\ net' = net \ {r}
  BY DEF Import
\* What the pool holds afterwards.
<1>1. /\ slot' \in [Nonce -> Entry \cup {Empty}]
      /\ \A k \in Nonce : k # r.nonce => slot'[k] = slot[k]
      /\ \/ Verdict(r) = "Ok" /\ slot'[r.nonce] = e
         \/ Verdict(r) # "Ok" /\ slot' = slot
      /\ slot'[r.nonce] # Empty
  <2>1. CASE Verdict(r) = "Ok"
    <3>1. slot' = [slot EXCEPT ![r.nonce] = e]
      BY <2>1 DEF Import, e
    <3> QED BY <1>t, <1>r, <2>1, <3>1 DEF TypeOK
  <2>2. CASE Verdict(r) # "Ok"
    <3>1. slot' = slot
      BY <2>2 DEF Import
    <3>2. Filled(r.nonce)
      BY <2>2 DEF Verdict, Replaceable, SameTransaction
    <3> QED BY <1>t, <2>2, <3>1, <3>2 DEF TypeOK, Filled
  <2> QED BY <2>1, <2>2
<1>2. \A k \in Nonce : /\ Filled(k) => Filled(k)'
                       /\ Filled(k)' => \/ Filled(k) /\ slot'[k] = slot[k]
                                        \/ /\ k = r.nonce /\ slot'[k] = e
                                           /\ Verdict(r) = "Ok"
  BY <1>1, <1>r DEF Filled
\* What the futures have been told.
<1>3. /\ reply' \in [Tx -> {"None", "Ok", "Imported", "NonceUsed", "Count"}]
      /\ \A t \in Tx : t # r.tx => reply'[t] = reply[t]
      /\ \/ up /\ r.run = run /\ reply'[r.tx] = Verdict(r)
         \/ ~(up /\ r.run = run) /\ reply' = reply
  <2>1. Verdict(r) \in {"Ok", "Imported", "NonceUsed"}
    BY DEF Verdict
  <2> QED BY <1>t, <1>r, <2>1 DEF TypeOK, Import
<1>4. r.run = run => /\ up /\ state[r.tx] = "TransactionRequest"
                     /\ nonce[r.tx] = r.nonce /\ reply[r.tx] = "None"
  BY DEF Inductive, RequestsOfThisRun
<1>5. TypeOK'
  BY <1>t, <1>0, <1>1, <1>3 DEF TypeOK
<1>6. RequestsOfThisRun'
  <2> SUFFICES ASSUME NEW s \in net'
               PROVE  /\ s.run <= run
                      /\ s.run = run =>
                           /\ up
                           /\ state[s.tx] = "TransactionRequest"
                           /\ nonce[s.tx] = s.nonce /\ reply'[s.tx] = "None"
    BY <1>0 DEF RequestsOfThisRun
  <2>1. s \in net /\ s # r /\ s.tx \in Tx
    BY <1>0, <1>t, RequestFields
  <2>2. s.tx = r.tx => s.run # r.run
    BY <2>1 DEF Inductive, OneRequestPerRun
  <2>3. s.run = run => reply'[s.tx] = reply[s.tx]
    BY <1>3, <2>1, <2>2
  <2> QED BY <2>1, <2>3 DEF Inductive, RequestsOfThisRun
<1>7. EntriesOfThisRun'
  <2> SUFFICES ASSUME NEW k \in Nonce, Filled(k)'
               PROVE  /\ slot'[k].run <= run
                      /\ slot'[k].run = run =>
                           /\ up
                           /\ \/ state[slot'[k].tx] = "Done"
                              \/ /\ state[slot'[k].tx] = "TransactionRequest"
                                 /\ reply'[slot'[k].tx] = "Ok"
    BY <1>0 DEF EntriesOfThisRun
  <2>1. CASE Filled(k) /\ slot'[k] = slot[k]
    <3>1. /\ slot[k].run <= run
          /\ slot[k].run = run =>
               /\ up
               /\ \/ state[slot[k].tx] = "Done"
                  \/ /\ state[slot[k].tx] = "TransactionRequest"
                     /\ reply[slot[k].tx] = "Ok"
      BY <2>1 DEF Inductive, EntriesOfThisRun
    <3>2. slot[k].tx = r.tx => slot[k].run # r.run
      BY <2>1 DEF Inductive, OneRequestPerRun
    <3>3. slot[k].run = run => reply'[slot[k].tx] = reply[slot[k].tx]
      BY <1>3, <1>t, <2>1, <3>2, EntryOrEmpty
    <3> QED BY <2>1, <3>1, <3>3
  <2>2. CASE slot'[k] = e /\ Verdict(r) = "Ok"
    <3>1. r.run <= run
      BY DEF Inductive, RequestsOfThisRun
    <3> QED BY <1>r, <1>3, <1>4, <2>2, <3>1
  <2> QED BY <1>2, <2>1, <2>2
<1>8. CountsCovered'
  <2> SUFFICES ASSUME NEW t \in Tx, reply'[t] = "Count",
                      NEW j \in 0..(nonce[t] - 1)
               PROVE  Filled(j)'
    BY <1>0 DEF CountsCovered
  <2>1. reply[t] = "Count"
    BY <1>3 DEF Verdict
  <2>2. Filled(j) /\ j \in Nonce
    BY <1>t, <2>1 DEF TypeOK, Inductive, CountsCovered, Nonce
  <2> QED BY <1>2, <2>2
<1>9. OneRequestPerRun'
  <2>1. \A s1, s2 \in net' : s1.tx = s2.tx /\ s1.run = s2.run => s1 = s2
    BY <1>0 DEF Inductive, OneRequestPerRun
  <2>2. ASSUME NEW s \in net', NEW k \in Nonce, Filled(k)'
        PROVE  ~(slot'[k].tx = s.tx /\ slot'[k].run = s.run)
    <3>1. s \in net /\ s # r
      BY <1>0
    <3>2. ~(s.tx = r.tx /\ s.run = r.run)
      BY <3>1 DEF Inductive, OneRequestPerRun
    <3>3. Filled(k) => ~(slot[k].tx = s.tx /\ slot[k].run = s.run)
      BY <3>1 DEF Inductive, OneRequestPerRun
    <3> QED BY <1>2, <1>r, <2>2, <3>2, <3>3
  <2> QED BY <2>1, <2>2 DEF OneRequestPerRun
<1>10. NoGap'
  <2> SUFFICES ASSUME up, NEW k \in 0..(nodeNonce - 1)
               PROVE  \/ Filled(k)'
                      \/ \E t \in Tx : /\ state[t] = "TransactionRequest"
                                       /\ nonce[t] = k /\ reply'[t] = "None"
    BY <1>0 DEF NoGap
  <2>1. k \in Nonce
    BY <1>t DEF TypeOK, Nonce
  <2>2. CASE Filled(k)
    BY <1>2, <2>1, <2>2
  <2>3. CASE ~Filled(k)
    <3>1. PICK t \in Tx : /\ state[t] = "TransactionRequest"
                          /\ nonce[t] = k /\ reply[t] = "None"
      BY <2>3 DEF Inductive, NoGap
    <3>2. CASE reply'[t] = reply[t]
      BY <3>1, <3>2
    <3>3. CASE reply'[t] # reply[t]
      <4>1. t = r.tx /\ r.run = run
        BY <1>3, <3>3
      <4>2. r.nonce = k
        BY <1>4, <3>1, <4>1
      <4> QED BY <1>1, <4>2 DEF Filled
    <3> QED BY <3>2, <3>3
  <2> QED BY <2>2, <2>3
<1>11. SentOncePerRun'
  <2> SUFFICES ASSUME NEW k1 \in Nonce, NEW k2 \in Nonce,
                      Filled(k1)', Filled(k2)',
                      slot'[k1].tx = slot'[k2].tx, slot'[k1].run = slot'[k2].run
               PROVE  k1 = k2
    BY DEF SentOncePerRun
  <2>1. \A k \in Nonce : Filled(k) => ~(slot[k].tx = r.tx /\ slot[k].run = r.run)
    BY DEF Inductive, OneRequestPerRun
  <2> QED BY <1>2, <1>r, <2>1 DEF Inductive, SentOncePerRun
<1> QED BY <1>5, <1>6, <1>7, <1>8, <1>9, <1>10, <1>11 DEF Inductive

-----------------------------------------------------------------------------
(* The other steps.                                                        *)

\* Every step preserves it.
LEMMA NextInductive == Inductive /\ [Next]_vars => Inductive'
<1> SUFFICES ASSUME Inductive, [Next]_vars PROVE Inductive'
  OBVIOUS
<1> USE NonceAssumption
<1>t. TypeOK
  BY DEF Inductive
<1>1. CASE \E r \in net : Import(r)
  BY <1>1, ImportInductive
<1>2. CASE \E r \in net : Lose(r)
  <2>1. /\ UNCHANGED <<up, run, nodeNonce, state, nonce, price, reply, slot, mined>>
        /\ net' \subseteq net
    BY <1>2 DEF Lose, futureVars, poolVars
  <2>2. TypeOK'
    BY <1>t, <2>1 DEF TypeOK
  <2>3. RequestsOfThisRun' /\ OneRequestPerRun'
    BY <2>1 DEF Inductive, RequestsOfThisRun, OneRequestPerRun, Filled
  <2>4. EntriesOfThisRun' /\ CountsCovered' /\ NoGap' /\ SentOncePerRun'
    BY <2>1 DEF Inductive, EntriesOfThisRun, CountsCovered, NoGap,
                SentOncePerRun, Filled
  <2> QED BY <2>2, <2>3, <2>4 DEF Inductive
<1>3. CASE MineNext
  <2>1. /\ UNCHANGED <<up, run, nodeNonce, state, nonce, price, reply, slot, net>>
        /\ mined' \in 0..MaxNonce
    BY <1>3, <1>t DEF MineNext, futureVars, TypeOK
  <2>2. TypeOK'
    BY <1>t, <2>1 DEF TypeOK
  <2>3. /\ RequestsOfThisRun' /\ OneRequestPerRun' /\ EntriesOfThisRun'
        /\ CountsCovered' /\ NoGap' /\ SentOncePerRun'
    BY <2>1 DEF Inductive, RequestsOfThisRun, OneRequestPerRun,
                EntriesOfThisRun, CountsCovered, NoGap, SentOncePerRun, Filled
  <2> QED BY <2>2, <2>3 DEF Inductive
<1>4. CASE \E t \in Tx : PollReady(t)
  <2> PICK t \in Tx : PollReady(t)
    BY <1>4
  <2>1. /\ up /\ state[t] = "Ready" /\ Send(t, nodeNonce)
        /\ nodeNonce' = nodeNonce + 1 /\ nodeNonce \in Nonce
        /\ UNCHANGED <<up, run, price, poolVars>>
    BY DEF PollReady, Starts, NextNonce, Send
  <2>2. nodeNonce' \in 0..MaxNonce
    BY <2>1 DEF Nonce
  <2>3. \A k \in 0..(nodeNonce' - 1) :
            \/ k = nodeNonce
            \/ Filled(k)
            \/ \E u \in Tx : /\ state[u] = "TransactionRequest"
                             /\ nonce[u] = k /\ reply[u] = "None"
    BY <1>t, <2>1 DEF Inductive, NoGap, TypeOK
  <2> QED BY <2>1, <2>2, <2>3, SendInductive
<1>5. CASE \E t \in Tx : PollNonceRequest(t)
  <2> PICK t \in Tx : PollNonceRequest(t)
    BY <1>5
  <2>1. /\ up /\ state[t] = "NonceRequest" /\ reply[t] = "Count"
        /\ Send(t, nonce[t]) /\ nodeNonce' = nonce[t]
        /\ UNCHANGED <<up, run, price, poolVars>>
    BY DEF PollNonceRequest
  <2>2. nodeNonce' \in 0..MaxNonce
    BY <1>t, <2>1 DEF TypeOK
  <2>3. \A k \in 0..(nodeNonce' - 1) : Filled(k)
    BY <2>1 DEF Inductive, CountsCovered
  <2> QED BY <2>1, <2>2, <2>3, SendInductive
<1>6. CASE \E t \in Tx : PollAccepted(t)
  <2> PICK t \in Tx : PollAccepted(t)
    BY <1>6
  <2>1. /\ UNCHANGED <<up, run, nodeNonce, nonce, price, reply, net, slot, mined>>
        /\ state[t] = "TransactionRequest" /\ reply[t] \in {"Ok", "Imported"}
        /\ state' = [state EXCEPT ![t] = "Done"]
    BY DEF PollAccepted, Accepted, poolVars
  <2>2. TypeOK'
    BY <1>t, <2>1 DEF TypeOK
  <2>3. RequestsOfThisRun'
    BY <1>t, <2>1, RequestFields DEF Inductive, RequestsOfThisRun, TypeOK
  <2>4. EntriesOfThisRun'
    <3> SUFFICES ASSUME NEW k \in Nonce, Filled(k)
                 PROVE  /\ slot[k].run <= run
                        /\ slot[k].run = run =>
                             /\ up
                             /\ \/ state'[slot[k].tx] = "Done"
                                \/ /\ state'[slot[k].tx] = "TransactionRequest"
                                   /\ reply[slot[k].tx] = "Ok"
      BY <2>1 DEF EntriesOfThisRun, Filled
    <3>1. slot[k].tx \in Tx
      BY <1>t, EntryOrEmpty
    <3>2. \/ state'[slot[k].tx] = "Done"
          \/ state'[slot[k].tx] = state[slot[k].tx]
      BY <1>t, <2>1, <3>1 DEF TypeOK
    <3> QED BY <3>2 DEF Inductive, EntriesOfThisRun
  <2>5. NoGap'
    BY <1>t, <2>1 DEF Inductive, NoGap, TypeOK, Filled
  <2>6. OneRequestPerRun' /\ CountsCovered' /\ SentOncePerRun'
    BY <2>1 DEF Inductive, OneRequestPerRun, CountsCovered, SentOncePerRun,
                Filled
  <2> QED BY <2>2, <2>3, <2>4, <2>5, <2>6 DEF Inductive
<1>7. CASE \E t \in Tx : PollNonceUsed(t)
  <2> PICK t \in Tx : PollNonceUsed(t)
    BY <1>7
  <2>1. /\ UNCHANGED <<up, run, nodeNonce, nonce, price, net, slot, mined>>
        /\ state[t] = "TransactionRequest" /\ reply[t] = "NonceUsed"
        /\ state' = [state EXCEPT ![t] = "NonceRequest"]
        /\ reply' = [reply EXCEPT ![t] = "None"]
    BY DEF PollNonceUsed, poolVars
  <2>2. TypeOK'
    BY <1>t, <2>1 DEF TypeOK
  <2>3. \A u \in Tx : u # t => state'[u] = state[u] /\ reply'[u] = reply[u]
    BY <1>t, <2>1 DEF TypeOK
  <2>4. RequestsOfThisRun'
    BY <1>t, <2>1, <2>3, RequestFields DEF Inductive, RequestsOfThisRun
  <2>5. EntriesOfThisRun'
    BY <1>t, <2>1, <2>3, EntryOrEmpty DEF Inductive, EntriesOfThisRun, Filled
  <2>6. NoGap'
    BY <1>t, <2>1, <2>3 DEF Inductive, NoGap, Filled
  <2>7. CountsCovered'
    BY <1>t, <2>1, <2>3 DEF Inductive, CountsCovered, Filled, TypeOK
  <2>8. OneRequestPerRun' /\ SentOncePerRun'
    BY <2>1 DEF Inductive, OneRequestPerRun, SentOncePerRun, Filled
  <2> QED BY <2>2, <2>4, <2>5, <2>6, <2>7, <2>8 DEF Inductive
<1>8. CASE \E t \in Tx, k \in 0..MaxNonce : AnswerCount(t, k)
  <2> PICK t \in Tx, k \in 0..MaxNonce : AnswerCount(t, k)
    BY <1>8
  <2>1. /\ UNCHANGED <<up, run, nodeNonce, state, price, net, slot, mined>>
        /\ state[t] = "NonceRequest" /\ PendingCount(k)
        /\ nonce' = [nonce EXCEPT ![t] = k]
        /\ reply' = [reply EXCEPT ![t] = "Count"]
    BY DEF AnswerCount, poolVars
  <2>2. TypeOK'
    BY <1>t, <2>1 DEF TypeOK
  <2>3. /\ nonce'[t] = k
        /\ \A u \in Tx : u # t => nonce'[u] = nonce[u] /\ reply'[u] = reply[u]
    BY <1>t, <2>1 DEF TypeOK
  <2>4. RequestsOfThisRun'
    BY <1>t, <2>1, <2>3, RequestFields DEF Inductive, RequestsOfThisRun
  <2>5. EntriesOfThisRun'
    BY <1>t, <2>1, <2>3, EntryOrEmpty DEF Inductive, EntriesOfThisRun, Filled
  <2>6. NoGap'
    BY <1>t, <2>1, <2>3 DEF Inductive, NoGap, Filled
  <2>7. CountsCovered'
    BY <1>t, <2>1, <2>3 DEF Inductive, CountsCovered, Filled, PendingCount
  <2>8. OneRequestPerRun' /\ SentOncePerRun'
    BY <2>1 DEF Inductive, OneRequestPerRun, SentOncePerRun, Filled
  <2> QED BY <2>2, <2>4, <2>5, <2>6, <2>7, <2>8 DEF Inductive
<1>9. CASE Stop
  <2>1. /\ UNCHANGED <<nodeNonce, state, nonce, price, reply, net, slot, mined>>
        /\ up' = FALSE /\ run' = run + 1
    BY <1>9 DEF Stop, futureVars, poolVars
  <2>2. TypeOK'
    <3>1. up' \in BOOLEAN
      BY <2>1
    <3>2. run' \in Nat
      BY <1>t, <2>1 DEF TypeOK
    <3> QED BY <1>t, <2>1, <3>1, <3>2 DEF TypeOK
  <2>3. RequestsOfThisRun'
    <3> SUFFICES ASSUME NEW r \in net PROVE r.run <= run + 1 /\ r.run # run + 1
      BY <2>1 DEF RequestsOfThisRun
    <3>1. r.run \in Nat /\ run \in Nat /\ r.run <= run
      BY <1>t, RequestFields DEF Inductive, RequestsOfThisRun, TypeOK
    <3> QED BY <3>1
  <2>4. EntriesOfThisRun'
    BY <1>t, <2>1, EntryOrEmpty DEF Inductive, EntriesOfThisRun, TypeOK, Filled
  <2>5. NoGap'
    BY <2>1 DEF NoGap
  <2>6. OneRequestPerRun' /\ CountsCovered' /\ SentOncePerRun'
    BY <2>1 DEF Inductive, OneRequestPerRun, CountsCovered, SentOncePerRun,
                Filled
  <2> QED BY <2>2, <2>3, <2>4, <2>5, <2>6 DEF Inductive
<1>10. CASE Restart
  <2>1. /\ UNCHANGED <<run, nonce, net, slot, mined>>
        /\ ~up /\ up' = TRUE
        /\ reply' = [t \in Tx |-> "None"]
        /\ price' \in [Tx -> Price]
    BY <1>10 DEF Restart, poolVars
  <2>2. PICK k \in 0..MaxNonce : PendingCount(k) /\ nodeNonce' = k
    BY <1>10 DEF Restart
  <2>3. state' \in [Tx -> {"Ready", "NonceRequest", "TransactionRequest", "Done"}]
    BY <1>10 DEF Restart
  <2>4. TypeOK'
    <3>1. up' \in BOOLEAN
      BY <2>1
    <3> QED BY <1>t, <2>1, <2>2, <2>3, <3>1 DEF TypeOK
  <2>5. RequestsOfThisRun'
    BY <2>1 DEF Inductive, RequestsOfThisRun
  <2>6. EntriesOfThisRun'
    BY <2>1 DEF Inductive, EntriesOfThisRun, Filled
  <2>7. CountsCovered'
    BY <2>1 DEF CountsCovered
  <2>8. NoGap'
    BY <2>1, <2>2 DEF NoGap, PendingCount, Filled
  <2>9. OneRequestPerRun' /\ SentOncePerRun'
    BY <2>1 DEF Inductive, OneRequestPerRun, SentOncePerRun, Filled
  <2> QED BY <2>4, <2>5, <2>6, <2>7, <2>8, <2>9 DEF Inductive
<1>11. CASE UNCHANGED vars
  BY <1>11 DEF vars, futureVars, poolVars, Inductive, TypeOK,
     RequestsOfThisRun, EntriesOfThisRun, CountsCovered, OneRequestPerRun,
     NoGap, SentOncePerRun, Filled
<1> QED
  BY <1>1, <1>2, <1>3, <1>4, <1>5, <1>6, <1>7, <1>8, <1>9, <1>10, <1>11
     DEF Next, Poll

\* nonce.rs with the pool: requests, pool entries and counts of the current run
\* always belong to futures in the matching state.
THEOREM InductiveInvariant == Spec => []Inductive
<1> QED BY InitInductive, NextInductive, PTL DEF Spec

\* nonce.rs: the variables of the futures, the requests and the pool keep their
\* types.
THEOREM TypeCorrect == Spec => []TypeOK
<1>1. Inductive => TypeOK
  BY DEF Inductive
<1> QED BY <1>1, InductiveInvariant, PTL

\* nonce.rs: the nonces below the shared one are all taken or being sent, so no
\* transaction waits in the pool behind a nonce that nobody will use.
THEOREM NonceHasNoGap == Spec => []NoGap
<1>1. Inductive => NoGap
  BY DEF Inductive
<1> QED BY <1>1, InductiveInvariant, PTL

\* nonce.rs: within one run of the process a transaction is at the node at
\* most once, however often it reacquired a nonce.
THEOREM NeverSentTwicePerRun == Spec => []SentOncePerRun
<1>1. Inductive => SentOncePerRun
  BY DEF Inductive
<1> QED BY <1>1, InductiveInvariant, PTL

-----------------------------------------------------------------------------
(* When all transactions carry the same gas price none is ever replaced.   *)

SentInv ==
  /\ SentStaysSent
  /\ \A t \in Tx : state[t] = "TransactionRequest" /\ reply[t] \in {"Ok", "Imported"}
       => \E k \in Nonce : Filled(k) /\ slot[k].tx = t

\* nonce.rs: at one gas price, a transaction reported as sent stays at the node
\* until it is mined, through any losses and restarts.
THEOREM SentStaysSentAtOnePrice ==
  ASSUME \A p, q \in Price : p = q
  PROVE  Spec => []SentStaysSent
<1> USE NonceAssumption
<1>1. Init => SentInv
  BY DEF Init, SentInv, SentStaysSent
<1>2. Inductive /\ Inductive' /\ SentInv /\ [Next]_vars => SentInv'
  <2> SUFFICES ASSUME Inductive, Inductive', SentInv, [Next]_vars
               PROVE  SentInv'
    OBVIOUS
  <2>t. TypeOK /\ TypeOK'
    BY DEF Inductive
  <2> DEFINE At(t) == \E k \in Nonce : Filled(k) /\ slot[k].tx = t
  <2>1. \A k \in Nonce : Filled(k) => slot'[k] = slot[k]
    <3> SUFFICES ASSUME NEW k \in Nonce, Filled(k), slot' # slot
                 PROVE  slot'[k] = slot[k]
      OBVIOUS
    <3>1. PICK r \in net : Import(r)
      BY DEF Next, Lose, MineNext, Poll, PollReady, Starts, NextNonce, PollNonceRequest,
             PollAccepted, Accepted, PollNonceUsed, AnswerCount, Stop, Restart, vars,
             poolVars
    <3>2. /\ r.nonce \in Nonce /\ r.price \in Price
          /\ slot[k].price \in Price
      BY <2>t, RequestFields, EntryOrEmpty
    <3>3. Verdict(r) = "Ok" => k # r.nonce
      <4> SUFFICES ASSUME k = r.nonce PROVE Verdict(r) # "Ok"
        OBVIOUS
      <4>1. r.price = slot[k].price /\ r.price \in Nat
        BY <3>2
      <4>2. ~Replaceable(r)
        BY <4>1 DEF Replaceable
      <4> QED BY <4>2 DEF Verdict
    <3> QED BY <2>t, <3>1, <3>2, <3>3 DEF Import, TypeOK
  <2>2. \A t \in Tx : At(t) => At(t)'
    BY <2>1 DEF Filled
  <2>3. ASSUME NEW t \in Tx, state'[t] = "TransactionRequest",
               reply'[t] \in {"Ok", "Imported"}
        PROVE  At(t)'
    <3>1. CASE \E r \in net : Import(r) /\ r.tx = t /\ up /\ r.run = run
      <4> PICK r \in net : Import(r) /\ r.tx = t /\ up /\ r.run = run
        BY <3>1
      <4>1. reply'[t] = Verdict(r) /\ r.nonce \in Nonce
        BY <2>t, RequestFields DEF Import, TypeOK
      <4>2. CASE Verdict(r) = "Ok"
        <5>1. slot'[r.nonce] = [tx |-> r.tx, price |-> r.price, run |-> r.run]
          BY <2>t, <4>1, <4>2 DEF Import, TypeOK
        <5>2. slot'[r.nonce] # Empty /\ slot'[r.nonce].tx = t
          BY <2>t, <5>1, RequestFields DEF Entry
        <5> QED BY <4>1, <5>2 DEF Filled
      <4>3. CASE Verdict(r) # "Ok"
        <5>1. SameTransaction(r)
          BY <2>3, <4>1, <4>3 DEF Verdict
        <5> QED BY <2>2, <4>1, <5>1 DEF SameTransaction
      <4> QED BY <4>2, <4>3
    <3>2. CASE ~\E r \in net : Import(r) /\ r.tx = t /\ up /\ r.run = run
      <4>1. state[t] = "TransactionRequest" /\ reply[t] = reply'[t]
        <5>1. CASE \E r \in net : Import(r)
          BY <2>t, <2>3, <3>2, <5>1, RequestFields DEF Import, TypeOK
        <5>2. CASE \E u \in Tx : Poll(u)
          BY <2>t, <2>3, <5>2 DEF Poll, PollReady, Starts, NextNonce, PollNonceRequest, Send,
             PollAccepted, Accepted, PollNonceUsed, TypeOK
        <5>3. CASE \E u \in Tx, k \in 0..MaxNonce : AnswerCount(u, k)
          BY <2>t, <2>3, <5>3 DEF AnswerCount, TypeOK
        <5>4. CASE Restart
          BY <2>t, <2>3, <5>4 DEF Restart
        <5>5. CASE (\E r \in net : Lose(r)) \/ MineNext \/ Stop \/ UNCHANGED vars
          BY <2>3, <5>5 DEF Lose, MineNext, Stop, vars, futureVars
        <5> QED BY <5>1, <5>2, <5>3, <5>4, <5>5 DEF Next
      <4> QED BY <2>2, <2>3, <4>1 DEF SentInv
    <3> QED BY <3>1, <3>2
  <2>4. ASSUME NEW t \in Tx, state'[t] = "Done" PROVE At(t)'
    <3>1. \/ state[t] = "Done"
          \/ state[t] = "TransactionRequest" /\ reply[t] \in {"Ok", "Imported"}
      <4>1. CASE \E u \in Tx : Poll(u)
        BY <2>t, <2>4, <4>1 DEF Poll, PollReady, Starts, NextNonce, PollNonceRequest, Send,
           PollAccepted, Accepted, PollNonceUsed, TypeOK
      <4>2. CASE Restart
        BY <2>4, <4>2 DEF Restart
      <4>3. CASE state' = state
        BY <2>4, <4>3
      <4> QED BY <4>1, <4>2, <4>3 DEF Next, Import, Lose, MineNext,
                 AnswerCount, Stop, vars, futureVars
    <3> QED BY <2>2, <3>1 DEF SentInv, SentStaysSent
  <2> QED BY <2>3, <2>4 DEF SentInv, SentStaysSent
<1>3. SentInv => SentStaysSent
  BY DEF SentInv
<1> QED BY <1>1, <1>2, <1>3, InductiveInvariant, PTL DEF Spec
=============================================================================
