----------------------------- MODULE LogStream -----------------------------
(***************************************************************************)
(* The log stream of bridge/src/api.rs: it polls a node for its best block *)
(* number, and when blocks beyond `after' have enough confirmations asks   *)
(* for their logs and returns them as one item [from, to].  The chain the  *)
(* node serves grows and reorganises between any two answers, so the       *)
(* number read by one call may be stale when the next one is answered.     *)
(*                                                                         *)
(* A block stands for the list of its logs that match the filter.          *)
(***************************************************************************)
EXTENDS Sequences, Integers

CONSTANTS
  Block,           \* block contents
  Genesis,         \* the chain when the stream is created
  Start,           \* LogStreamInit.after
  Confirmations,   \* LogStreamInit.confirmations
  MaxReorg,        \* no reorganisation replaces more than MaxReorg blocks
  MaxHeight        \* bound on the length of the chain

\* The confirmations an operator configures cover the reorganisations of the
\* chain.  Without this the stream promises nothing.
ASSUME StreamAssumption ==
  /\ Genesis \in Seq(Block)
  /\ Start \in Nat
  /\ Confirmations \in Nat
  /\ MaxReorg \in Nat
  /\ MaxHeight \in Nat
  /\ MaxReorg <= Confirmations

VARIABLES
  chain,       \* the blocks of the node's canonical chain, first block first
  peak,        \* the longest the chain has ever been
  state,       \* LogStreamState, or "Err" once the stream has failed
  after,       \* LogStream.after
  from, to,    \* the range of the logs request
  answered,    \* the node has answered the outstanding request
  number,      \* its answer to eth_blockNumber
  logs,        \* its answer to eth_getLogs
  delivered    \* history: the blocks of all the items returned so far

nodeVars == <<chain, peak>>
streamVars == <<state, after, from, to>>
replyVars == <<answered, number, logs>>
vars == <<nodeVars, streamVars, replyVars, delivered>>

Larger(a, b) == IF a > b THEN a ELSE b
Smaller(a, b) == IF a < b THEN a ELSE b

Init ==
  /\ chain = Genesis
  /\ peak = Len(Genesis)
  /\ state = "Wait"
  /\ after = Start
  /\ from = 0 /\ to = 0
  /\ answered = FALSE
  /\ number = 0
  /\ logs = << >>
  /\ delivered = << >>

-----------------------------------------------------------------------------
(* The node.                                                               *)

Mine(b) ==
  /\ Len(chain) < MaxHeight
  /\ chain' = Append(chain, b)
  /\ peak' = Larger(peak, Len(chain) + 1)
  /\ UNCHANGED <<streamVars, replyVars, delivered>>

Forks == UNION {[1..n -> Block] : n \in 0..MaxReorg}

\* The blocks above height k are replaced.  Blocks MaxReorg or more below the
\* highest block ever seen are final.
Reorg(k, fork) ==
  /\ k >= peak - MaxReorg
  /\ k + Len(fork) <= MaxHeight
  /\ chain' = SubSeq(chain, 1, k) \o fork
  /\ peak' = Larger(peak, k + Len(fork))
  /\ UNCHANGED <<streamVars, replyVars, delivered>>

AnswerBlockNumber ==
  /\ state = "FetchBlockNumber" /\ ~answered
  /\ answered' = TRUE
  /\ number' = Len(chain)
  /\ UNCHANGED <<nodeVars, streamVars, logs, delivered>>

\* A node answers with the logs of those blocks of the range that it has.
AnswerLogs ==
  /\ state = "FetchLogs" /\ ~answered
  /\ answered' = TRUE
  /\ logs' = SubSeq(chain, from, Smaller(to, Len(chain)))
  /\ UNCHANGED <<nodeVars, streamVars, number, delivered>>

-----------------------------------------------------------------------------
(* LogStream::poll, one action per state.                                  *)

\* The interval has fired: ask for the best block.
PollWait ==
  /\ state = "Wait"
  /\ state' = "FetchBlockNumber"
  /\ answered' = FALSE
  /\ UNCHANGED <<nodeVars, after, from, to, number, logs, delivered>>

\* MUTANT: the confirmations are not subtracted.
LastConfirmedUnconfirmed == number

\* last_block.saturating_sub(confirmations)
LastConfirmed == IF number > Confirmations THEN number - Confirmations ELSE 0

\* MUTANT: a block is asked for one confirmation too late.
HasNewLate == LastConfirmed > after + 1

HasNew == LastConfirmed > after

\* MUTANT: the range starts with the last block already delivered.
FirstNewOverlaps == after

FirstNew == after + 1

PollBlockNumber ==
  /\ state = "FetchBlockNumber" /\ answered
  /\ answered' = FALSE
  /\ \/ /\ HasNew
        /\ state' = "FetchLogs"
        /\ from' = FirstNew
        /\ to' = LastConfirmed
     \/ /\ ~HasNew
        /\ state' = "Wait"
        /\ UNCHANGED <<from, to>>
  /\ UNCHANGED <<nodeVars, after, number, logs, delivered>>

\* The item is complete: `after' advances and poll returns the item.
PollLogs ==
  /\ state = "FetchLogs" /\ answered
  /\ after' = to
  /\ delivered' = delivered \o logs
  /\ state' = "NextItem"
  /\ answered' = FALSE
  /\ UNCHANGED <<nodeVars, from, to, number, logs>>

\* The consumer polls again after it has dealt with the item.
PollNextItem ==
  /\ state = "NextItem"
  /\ state' = "Wait"
  /\ UNCHANGED <<nodeVars, after, from, to, replyVars, delivered>>

\* A request times out or is answered by an error: poll returns Err.
PollError ==
  /\ state \in {"FetchBlockNumber", "FetchLogs"}
  /\ state' = "Err"
  /\ UNCHANGED <<nodeVars, after, from, to, replyVars, delivered>>

-----------------------------------------------------------------------------
NodeStep ==
  \/ \E b \in Block : Mine(b)
  \/ \E k \in 0..Len(chain), fork \in Forks : Reorg(k, fork)
  \/ AnswerBlockNumber
  \/ AnswerLogs

Poll == PollWait \/ PollBlockNumber \/ PollLogs \/ PollNextItem

Next == NodeStep \/ Poll \/ PollError

Spec == Init /\ [][Next]_vars

\* The event loop polls the stream again whenever the timer or an answer
\* wakes it, and a request is answered or times out; nothing is assumed about
\* the chain growing.
FairSpec == Spec /\ WF_vars(Poll) /\ WF_vars(AnswerBlockNumber \/ AnswerLogs)

-----------------------------------------------------------------------------
(* Properties.                                                             *)

\* The types of the node's and the stream's state; a range never ends below 0.
TypeOK ==
  /\ chain \in Seq(Block)
  /\ peak \in Nat
  /\ state \in {"Wait", "FetchBlockNumber", "FetchLogs", "NextItem", "Err"}
  /\ after \in Nat
  /\ from \in Nat /\ to \in Nat
  /\ answered \in BOOLEAN
  /\ number \in Nat
  /\ logs \in Seq(Block)
  /\ delivered \in Seq(Block)

\* LogStream::poll: whatever reorganisations happened between the block number
\* request and the logs request, the items returned so far are, put together,
\* exactly the blocks Start+1 .. after of the chain as it is now: none is
\* missing, none came twice, none has been reorganised away since.
ExactDelivery == delivered = SubSeq(chain, Start + 1, after)

\* What keeps ExactDelivery true from one poll to the next: the range being
\* fetched starts right after the delivered one and ends among the blocks no
\* reorganisation reaches, and so does an answer already received.
Inductive ==
  /\ TypeOK
  /\ Len(chain) <= peak /\ peak - MaxReorg <= Len(chain)
  /\ after >= Start
  /\ after > Start => after <= peak - Confirmations
  /\ number <= peak
  /\ state = "FetchLogs" =>
       /\ from = after + 1
       /\ after < to
       /\ to <= peak - Confirmations
       /\ answered => logs = SubSeq(chain, from, to)
  /\ ExactDelivery

\* Blocks MaxReorg deep are final.
FinalChain == SubSeq(chain, Start + 1, peak - MaxReorg)

Confirmed == INSTANCE ConfirmedLogs WITH final <- FinalChain

\* The stream implements ConfirmedLogs: final blocks are delivered in order,
\* each once (api.rs: "Stream of confirmed logs").
ImplementsConfirmedLogs == Confirmed!Spec

\* LogStream::poll: a block that stays confirmed is delivered, unless the
\* stream fails.
ConfirmedIsDelivered ==
  \A h \in (Start + 1)..MaxHeight :
    <>[](Len(chain) - Confirmations >= h) => <>(after >= h \/ state = "Err")
=============================================================================
