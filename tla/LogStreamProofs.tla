-------------------------- MODULE LogStreamProofs --------------------------
(***************************************************************************)
(* Proofs about LogStream, for every chain, every number of confirmations  *)
(* and every bound on reorganisations that the confirmations cover.        *)
(***************************************************************************)
EXTENDS LogStream, SequenceTheorems, TLAPS

-----------------------------------------------------------------------------
(* Reorganisations and growth leave the final blocks alone.                *)

\* What a reorganisation puts on top is a sequence of blocks.
LEMMA ForksAreSequences ==
  ASSUME NEW fork \in Forks
  PROVE  /\ fork \in Seq(Block)
         /\ Len(fork) \in 0..MaxReorg
<1>1. PICK n \in 0..MaxReorg : fork \in [1..n -> Block]
  BY DEF Forks
<1>2. n \in Nat
  BY StreamAssumption
<1>3. fork \in Seq(Block) /\ Len(fork) = n
  BY <1>1, <1>2
<1> QED BY <1>3

\* A segment of a chain below the point of change is the same segment of the
\* chain after the change.
LEMMA SegmentKept ==
  ASSUME NEW s \in Seq(Block), NEW t \in Seq(Block),
         NEW k \in 0..Len(s), NEW m \in Nat \ {0}, NEW n \in Int,
         n <= k
  PROVE  SubSeq(SubSeq(s, 1, k) \o t, m, n) = SubSeq(s, m, n)
<1> DEFINE u == SubSeq(s, 1, k)
<1>1. /\ u \in Seq(Block)
      /\ Len(u) = k
      /\ \A i \in 1..k : u[i] = s[i]
  OBVIOUS
<1>2. /\ u \o t \in Seq(Block)
      /\ Len(u \o t) = k + Len(t)
      /\ \A i \in 1..k : (u \o t)[i] = s[i]
  BY <1>1
<1> HIDE DEF u
<1>3. CASE m > n
  <2>1. SubSeq(u \o t, m, n) = << >>
    BY <1>2, <1>3, SubSeqEmpty
  <2>2. SubSeq(s, m, n) = << >>
    BY <1>3, SubSeqEmpty
  <2> QED BY <2>1, <2>2 DEF u
<1>4. CASE m <= n
  <2>1. SubSeq(u \o t, m, n) = [i \in 1..(n - m + 1) |-> (u \o t)[i + m - 1]]
    BY <1>2, <1>4
  <2>2. SubSeq(s, m, n) = [i \in 1..(n - m + 1) |-> s[i + m - 1]]
    BY <1>4
  <2>3. \A i \in 1..(n - m + 1) : (u \o t)[i + m - 1] = s[i + m - 1]
    BY <1>2, <1>4
  <2> QED BY <2>1, <2>2, <2>3 DEF u
<1> QED BY <1>3, <1>4

-----------------------------------------------------------------------------
(* Typing and the inductive invariant.                                     *)

\* The invariant holds initially.
LEMMA InitInductive == Init => Inductive
<1> SUFFICES ASSUME Init PROVE Inductive
  OBVIOUS
<1> USE StreamAssumption DEF Init
<1>1. TypeOK
  <2>1. /\ chain \in Seq(Block) /\ peak \in Nat
        /\ logs \in Seq(Block) /\ delivered \in Seq(Block)
    OBVIOUS
  <2>2. answered \in BOOLEAN
    OBVIOUS
  <2> QED BY <2>1, <2>2 DEF TypeOK
<1>2. SubSeq(chain, Start + 1, after) = << >>
  BY SubSeqEmpty
<1> QED BY <1>1, <1>2 DEF Inductive, ExactDelivery

\* Steps of the chain: final blocks, hence delivered and fetched ones, stay.
LEMMA ChainInductive ==
  ASSUME Inductive,
         NEW k \in 0..Len(chain), NEW fork \in Seq(Block),
         k >= peak - MaxReorg,
         chain' = SubSeq(chain, 1, k) \o fork,
         peak' = Larger(peak, k + Len(fork)),
         UNCHANGED <<streamVars, replyVars, delivered>>
  PROVE  Inductive'
<1> USE StreamAssumption DEF Inductive
<1>1. /\ chain' \in Seq(Block)
      /\ Len(chain') = k + Len(fork)
  BY DEF TypeOK
<1>2. /\ peak' \in Nat
      /\ peak <= peak' /\ Len(chain') <= peak'
      /\ peak' - MaxReorg <= Len(chain')
  BY <1>1 DEF TypeOK, Larger
<1>3. TypeOK'
  BY <1>1, <1>2 DEF TypeOK, streamVars, replyVars
<1>4. \A m \in Nat \ {0}, n \in Int :
         n <= peak - MaxReorg => SubSeq(chain', m, n) = SubSeq(chain, m, n)
  BY SegmentKept DEF TypeOK
<1>5. ExactDelivery'
  <2>1. UNCHANGED <<delivered, after>>
    BY DEF streamVars
  <2>2. CASE after = Start
    <3>1. SubSeq(chain, Start + 1, after) = << >>
      BY <2>2, SubSeqEmpty
    <3>2. SubSeq(chain', Start + 1, after) = << >>
      BY <2>2, SubSeqEmpty
    <3> QED BY <2>1, <3>1, <3>2 DEF ExactDelivery
  <2>3. CASE after # Start
    <3>1. after \in Nat /\ after <= peak - MaxReorg
      BY <2>3 DEF TypeOK
    <3>2. Start + 1 \in Nat \ {0} /\ after \in Int
      BY <3>1
    <3>3. SubSeq(chain', Start + 1, after) = SubSeq(chain, Start + 1, after)
      BY <1>4, <3>1, <3>2
    <3> QED BY <2>1, <3>3 DEF ExactDelivery
  <2> QED BY <2>2, <2>3
<1>6. state' = "FetchLogs" =>
         /\ from' = after' + 1
         /\ after' < to'
         /\ to' <= peak' - Confirmations
         /\ answered' => logs' = SubSeq(chain', from', to')
  <2> SUFFICES ASSUME state' = "FetchLogs"
               PROVE  /\ from' = after' + 1
                      /\ after' < to'
                      /\ to' <= peak' - Confirmations
                      /\ answered' => logs' = SubSeq(chain', from', to')
    OBVIOUS
  <2>1. /\ UNCHANGED <<state, after, from, to, answered, logs>>
        /\ after \in Nat /\ from \in Nat /\ to \in Nat /\ peak \in Nat
    BY DEF streamVars, replyVars, TypeOK
  <2>2. /\ from = after + 1
        /\ after < to
        /\ to <= peak - Confirmations
        /\ answered => logs = SubSeq(chain, from, to)
    BY <2>1
  <2>3. SubSeq(chain', from, to) = SubSeq(chain, from, to)
    <3>1. from \in Nat \ {0} /\ to \in Int /\ to <= peak - MaxReorg
      BY <2>1, <2>2
    <3> QED BY <3>1, <1>4
  <2> QED BY <2>1, <2>2, <2>3, <1>2
<1>7. /\ after' >= Start
      /\ after' > Start => after' <= peak' - Confirmations
      /\ number' <= peak'
  BY <1>2 DEF streamVars, replyVars, TypeOK
<1> QED BY <1>2, <1>3, <1>5, <1>6, <1>7

\* Mining is the change that keeps all the blocks and adds one.
LEMMA MineIsChange ==
  ASSUME Inductive, NEW b \in Block, Mine(b)
  PROVE  /\ chain' = SubSeq(chain, 1, Len(chain)) \o <<b>>
         /\ Len(chain) \in 0..Len(chain)
         /\ <<b>> \in Seq(Block) /\ Len(<<b>>) = 1
         /\ peak' = Larger(peak, Len(chain) + Len(<<b>>))
         /\ Len(chain) >= peak - MaxReorg
         /\ UNCHANGED <<streamVars, replyVars, delivered>>
<1>1. chain \in Seq(Block)
  BY DEF Inductive, TypeOK
<1>2. SubSeq(chain, 1, Len(chain)) = chain
  BY <1>1, SubSeqFull
<1>3. Append(chain, b) = chain \o <<b>>
  BY <1>1
<1> QED BY <1>1, <1>2, <1>3 DEF Mine, Inductive

\* Every step preserves it.
LEMMA NextInductive == Inductive /\ [Next]_vars => Inductive'
<1> SUFFICES ASSUME Inductive, [Next]_vars PROVE Inductive'
  OBVIOUS
<1> USE StreamAssumption
<1>t. TypeOK
  BY DEF Inductive
<1>1. CASE \E b \in Block : Mine(b)
  <2> PICK b \in Block : Mine(b)
    BY <1>1
  <2> QED BY MineIsChange, ChainInductive
<1>2. CASE \E k \in 0..Len(chain), fork \in Forks : Reorg(k, fork)
  <2> PICK k \in 0..Len(chain), fork \in Forks : Reorg(k, fork)
    BY <1>2
  <2>1. fork \in Seq(Block)
    BY ForksAreSequences
  <2> QED BY <2>1, ChainInductive DEF Reorg
<1>3. CASE AnswerBlockNumber
  <2>1. Len(chain) \in Nat /\ Len(chain) <= peak
    BY <1>t DEF TypeOK, Inductive
  <2>2. UNCHANGED <<chain, peak, state, after, from, to, logs, delivered>>
    BY <1>3 DEF AnswerBlockNumber, nodeVars, streamVars
  <2>3. TypeOK'
    BY <1>t, <1>3, <2>1, <2>2 DEF AnswerBlockNumber, TypeOK
  <2>4. ExactDelivery'
    BY <2>2 DEF Inductive, ExactDelivery
  <2> QED BY <1>3, <2>1, <2>2, <2>3, <2>4 DEF AnswerBlockNumber, Inductive
<1>4. CASE AnswerLogs
  <2>1. UNCHANGED <<chain, peak, state, after, from, to, number, delivered>>
    BY <1>4 DEF AnswerLogs, nodeVars, streamVars
  <2>2. /\ chain \in Seq(Block) /\ from \in Nat /\ to \in Nat /\ after \in Nat
        /\ peak \in Nat
        /\ from = after + 1 /\ to <= Len(chain)
        /\ peak' - MaxReorg <= Len(chain)
    BY <1>t, <1>4, <2>1 DEF TypeOK, Inductive, AnswerLogs
  <2>3. logs' = SubSeq(chain, from, to)
    BY <1>4, <2>2 DEF AnswerLogs, Smaller
  <2>4. logs' \in Seq(Block)
    BY <2>2, <2>3
  <2>5. TypeOK'
    BY <1>t, <1>4, <2>1, <2>4 DEF AnswerLogs, TypeOK
  <2>6. ExactDelivery'
    BY <2>1 DEF Inductive, ExactDelivery
  <2> QED BY <1>4, <2>1, <2>3, <2>5, <2>6 DEF AnswerLogs, Inductive
<1>5. CASE PollWait
  <2>1. UNCHANGED <<chain, peak, after, from, to, number, logs, delivered>>
    BY <1>5 DEF PollWait, nodeVars
  <2>2. TypeOK'
    BY <1>t, <1>5, <2>1 DEF PollWait, TypeOK
  <2>3. ExactDelivery'
    BY <2>1 DEF Inductive, ExactDelivery
  <2> QED BY <1>5, <2>1, <2>2, <2>3 DEF PollWait, Inductive
<1>6. CASE PollBlockNumber
  <2>1. UNCHANGED <<chain, peak, after, number, logs, delivered>>
    BY <1>6 DEF PollBlockNumber, HasNew, FirstNew, nodeVars
  <2>2. /\ LastConfirmed \in Nat
        /\ LastConfirmed > after => LastConfirmed <= peak - Confirmations
    BY <1>t, <1>6 DEF PollBlockNumber, HasNew, FirstNew, LastConfirmed, TypeOK, Inductive
  <2>3. TypeOK'
    <3>1. from' \in Nat /\ to' \in Nat /\ state' \in {"FetchLogs", "Wait"}
      BY <1>t, <1>6, <2>2 DEF PollBlockNumber, HasNew, FirstNew, TypeOK
    <3>2. answered' \in BOOLEAN
      BY <1>6 DEF PollBlockNumber, HasNew, FirstNew
    <3> QED BY <1>t, <2>1, <3>1, <3>2 DEF TypeOK
  <2>4. ExactDelivery'
    BY <2>1 DEF Inductive, ExactDelivery
  <2>5. state' = "FetchLogs" =>
          /\ from' = after + 1 /\ after < to' /\ to' <= peak - Confirmations
    BY <1>t, <1>6, <2>2 DEF PollBlockNumber, HasNew, FirstNew, TypeOK
  <2> QED BY <1>6, <2>1, <2>3, <2>4, <2>5 DEF PollBlockNumber, HasNew, FirstNew, Inductive
<1>7. CASE PollLogs
  <2>1. UNCHANGED <<chain, peak, from, to, number, logs>>
    BY <1>7 DEF PollLogs, nodeVars
  <2>2. /\ chain \in Seq(Block) /\ to \in Nat /\ after \in Nat /\ peak \in Nat
        /\ Start <= after /\ after < to
        /\ to <= peak - Confirmations /\ peak - MaxReorg <= Len(chain)
        /\ logs = SubSeq(chain, after + 1, to)
    BY <1>t, <1>7 DEF TypeOK, Inductive, PollLogs
  <2>3. delivered' = SubSeq(chain, Start + 1, to)
    <3>1. /\ Start + 1 \in 1..(Len(chain) + 1)
          /\ after \in Start..Len(chain)
          /\ to \in after..Len(chain)
      BY <2>2
    <3>2. SubSeq(chain, Start + 1, after) \o SubSeq(chain, after + 1, to)
            = SubSeq(chain, Start + 1, to)
      BY <2>2, <3>1, ConcatAdjacentSubSeq
    <3> QED BY <1>7, <2>2, <3>2 DEF PollLogs, Inductive, ExactDelivery
  <2>4. ExactDelivery'
    BY <1>7, <2>1, <2>3 DEF PollLogs, ExactDelivery
  <2>5. delivered' \in Seq(Block)
    BY <1>t, <1>7 DEF PollLogs, TypeOK
  <2>6. TypeOK'
    BY <1>t, <1>7, <2>1, <2>5 DEF PollLogs, TypeOK
  <2> QED BY <1>7, <2>1, <2>2, <2>4, <2>6 DEF PollLogs, Inductive
<1>8. CASE PollNextItem
  <2>1. UNCHANGED <<chain, peak, after, from, to, answered, number, logs,
                    delivered>>
    BY <1>8 DEF PollNextItem, nodeVars, replyVars
  <2>2. TypeOK'
    BY <1>t, <1>8, <2>1 DEF PollNextItem, TypeOK
  <2>3. ExactDelivery'
    BY <2>1 DEF Inductive, ExactDelivery
  <2> QED BY <1>8, <2>1, <2>2, <2>3 DEF PollNextItem, Inductive
<1>9. CASE PollError
  <2>1. UNCHANGED <<chain, peak, after, from, to, answered, number, logs,
                    delivered>>
    BY <1>9 DEF PollError, nodeVars, replyVars
  <2>2. TypeOK'
    BY <1>t, <1>9, <2>1 DEF PollError, TypeOK
  <2>3. ExactDelivery'
    BY <2>1 DEF Inductive, ExactDelivery
  <2> QED BY <1>9, <2>1, <2>2, <2>3 DEF PollError, Inductive
<1>10. CASE UNCHANGED vars
  BY <1>10 DEF vars, nodeVars, streamVars, replyVars, Inductive, TypeOK,
               ExactDelivery
<1> QED
  BY <1>1, <1>2, <1>3, <1>4, <1>5, <1>6, <1>7, <1>8, <1>9, <1>10
     DEF Next, NodeStep, Poll

\* LogStream::poll and the node: the range in flight starts where the delivered
\* blocks end and stays below what a reorganisation can reach.
THEOREM InductiveInvariant == Spec => []Inductive
<1> QED BY InitInductive, NextInductive, PTL DEF Spec

\* LogStream's variables always have their types.
THEOREM TypeCorrect == Spec => []TypeOK
<1>1. Inductive => TypeOK
  BY DEF Inductive
<1> QED BY <1>1, InductiveInvariant, PTL

\* LogStream::poll: the items returned so far are exactly the blocks
\* Start+1 .. after of the current chain, whatever was reorganised between two
\* requests, as long as the confirmations cover the reorganisations.
THEOREM DeliveryIsExact == Spec => []ExactDelivery
<1>1. Inductive => ExactDelivery
  BY DEF Inductive
<1> QED BY <1>1, InductiveInvariant, PTL

-----------------------------------------------------------------------------
(* The stream implements ConfirmedLogs.                                    *)

\* A longer segment of a chain extends a shorter one with the same start.
LEMMA SegmentExtends ==
  ASSUME NEW s \in Seq(Block), NEW m \in Nat \ {0},
         NEW n1 \in Int, NEW n2 \in Int, n1 <= n2, n2 <= Len(s)
  PROVE  /\ SubSeq(s, m, n2) \in Seq(Block)
         /\ Confirmed!Extends(SubSeq(s, m, n2), SubSeq(s, m, n1))
<1> DEFINE a == SubSeq(s, m, n1)
           b == SubSeq(s, m, n2)
<1>1. /\ a \in Seq(Block) /\ b \in Seq(Block)
      /\ Len(a) = IF m <= n1 THEN n1 - m + 1 ELSE 0
      /\ Len(b) = IF m <= n2 THEN n2 - m + 1 ELSE 0
      /\ \A i \in 1..(n1 - m + 1) : a[i] = s[m + i - 1]
      /\ \A i \in 1..(n2 - m + 1) : b[i] = s[m + i - 1]
  <2>1. \A i \in m..n2 : s[i] \in Block
    OBVIOUS
  <2>2. \A i \in m..n1 : s[i] \in Block
    BY <2>1
  <2> QED BY <2>1, <2>2, SubSeqProperties
<1> HIDE DEF a, b
<1>2. Len(a) <= Len(b)
  BY <1>1
<1>3. a = SubSeq(b, 1, Len(a))
  <2>1. CASE Len(a) = 0
    BY <1>1, <2>1, SubSeqEmpty
  <2>2. CASE Len(a) # 0
    <3>1. /\ SubSeq(b, 1, Len(a)) \in Seq(Block)
          /\ Len(SubSeq(b, 1, Len(a))) = Len(a)
          /\ \A i \in 1..Len(a) : SubSeq(b, 1, Len(a))[i] = b[i]
      BY <1>1, <1>2, <2>2
    <3>2. \A i \in 1..Len(a) : b[i] = a[i]
      BY <1>1, <2>2
    <3> QED BY <1>1, <3>1, <3>2
  <2> QED BY <2>1, <2>2
<1> QED BY <1>1, <1>2, <1>3 DEF a, b, Confirmed!Extends

\* A step of the chain makes blocks final and retracts none.
LEMMA ChainFinalizes ==
  ASSUME Inductive, Inductive',
         NEW k \in 0..Len(chain), NEW fork \in Seq(Block),
         k >= peak - MaxReorg,
         chain' = SubSeq(chain, 1, k) \o fork,
         peak' = Larger(peak, k + Len(fork)),
         UNCHANGED delivered
  PROVE  Confirmed!Finalize
<1> USE StreamAssumption
<1>1. /\ chain \in Seq(Block) /\ chain' \in Seq(Block)
      /\ peak \in Nat /\ peak' \in Nat
      /\ peak' - MaxReorg <= Len(chain')
  BY DEF Inductive, TypeOK
<1>2. peak <= peak'
  BY <1>1 DEF Larger
<1>3. SubSeq(chain', Start + 1, peak - MaxReorg) = FinalChain
  BY <1>1, SegmentKept DEF FinalChain
<1>4. /\ FinalChain' \in Seq(Block)
      /\ Confirmed!Extends(FinalChain', SubSeq(chain', Start + 1, peak - MaxReorg))
  <2>1. /\ Start + 1 \in Nat \ {0}
        /\ peak - MaxReorg \in Int /\ peak' - MaxReorg \in Int
        /\ peak - MaxReorg <= peak' - MaxReorg
    BY <1>1, <1>2
  <2>2. FinalChain' = SubSeq(chain', Start + 1, peak' - MaxReorg)
    BY DEF FinalChain
  <2> QED BY <1>1, <2>1, <2>2, SegmentExtends
<1> QED BY <1>3, <1>4 DEF Confirmed!Finalize

\* Nothing has been handed over at the start.
LEMMA ImplementsInit == Init => Confirmed!Init
<1> SUFFICES ASSUME Init PROVE Confirmed!Init
  OBVIOUS
<1>1. /\ Genesis \in Seq(Block) /\ Start + 1 \in Nat \ {0}
      /\ peak - MaxReorg \in Int /\ peak - MaxReorg <= Len(chain)
      /\ chain = Genesis
  BY StreamAssumption DEF Init
<1>2. FinalChain \in Seq(Block)
  BY <1>1, SegmentExtends DEF FinalChain
<1> QED BY <1>2 DEF Init, Confirmed!Init

\* Every step makes blocks final, hands some over, or is a stutter.
LEMMA ImplementsNext ==
  Inductive /\ Inductive' /\ [Next]_vars
    => [Confirmed!Next]_<<FinalChain, delivered>>
<1> SUFFICES ASSUME Inductive, Inductive', [Next]_vars
             PROVE  [Confirmed!Next]_<<FinalChain, delivered>>
  OBVIOUS
<1> USE StreamAssumption
<1>1. CASE \E b \in Block : Mine(b)
  <2> PICK b \in Block : Mine(b)
    BY <1>1
  <2> QED BY MineIsChange, ChainFinalizes DEF Confirmed!Next
<1>2. CASE \E k \in 0..Len(chain), fork \in Forks : Reorg(k, fork)
  <2> PICK k \in 0..Len(chain), fork \in Forks : Reorg(k, fork)
    BY <1>2
  <2> QED BY ForksAreSequences, ChainFinalizes DEF Reorg, Confirmed!Next
<1>3. CASE PollLogs
  <2>1. /\ chain \in Seq(Block) /\ to \in Nat /\ after \in Nat /\ peak \in Nat
        /\ after < to /\ to <= peak - MaxReorg /\ peak - MaxReorg <= Len(chain)
        /\ UNCHANGED <<chain, peak>> /\ after' = to
    BY <1>3 DEF TypeOK, Inductive, PollLogs, nodeVars
  <2>2. /\ delivered = SubSeq(chain, Start + 1, after)
        /\ delivered' = SubSeq(chain, Start + 1, to)
    BY <2>1 DEF Inductive, ExactDelivery
  <2>3. /\ delivered' \in Seq(Block)
        /\ Confirmed!Extends(delivered', delivered)
    BY <2>1, <2>2, SegmentExtends
  <2>4. Confirmed!Extends(FinalChain, delivered')
    BY <2>1, <2>2, SegmentExtends DEF FinalChain
  <2> QED BY <2>1, <2>3, <2>4 DEF Confirmed!Deliver, Confirmed!Next, FinalChain
<1>4. CASE \/ AnswerBlockNumber \/ AnswerLogs \/ PollWait \/ PollBlockNumber
           \/ PollNextItem \/ PollError \/ UNCHANGED vars
  <2>1. UNCHANGED <<chain, peak, delivered>>
    BY <1>4 DEF AnswerBlockNumber, AnswerLogs, PollWait, PollBlockNumber, HasNew, FirstNew,
                PollNextItem, PollError, vars, nodeVars
  <2> QED BY <2>1 DEF FinalChain
<1> QED BY <1>1, <1>2, <1>3, <1>4 DEF Next, NodeStep, Poll

\* LogStream implements ConfirmedLogs: final blocks are handed over in order,
\* each once, and nothing handed over is ever retracted.
THEOREM StreamRefinesConfirmedLogs == Spec => ImplementsConfirmedLogs
<1>1. Inductive /\ Inductive' /\ [Next]_vars
        => [Confirmed!Next]_<<FinalChain, delivered>>
  BY ImplementsNext
<1> QED
  BY <1>1, ImplementsInit, InductiveInvariant, PTL
     DEF Spec, ImplementsConfirmedLogs, Confirmed!Spec
=============================================================================
