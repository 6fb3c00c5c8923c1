------------------------------ MODULE Startup ------------------------------
(***************************************************************************)
(* One process from its start to its end, and its database file:           *)
(* execute (cli/src/main.rs), Config::load, App::new_http, the chain ids   *)
(* and nonces, Deploy::poll with TransactionWithConfirmation, Database     *)
(* load and save, Bridge::poll's save, the exit codes, and the supervisor  *)
(* that starts the next process.                                           *)
(*                                                                         *)
(* execute runs one future at a time; each of its steps is a phase.  What  *)
(* survives a process is the file, the chains, and the requests that are   *)
(* still on their way to a node.  The accounts send nothing else before    *)
(* the bridge runs, and every process deploys the same contracts at the    *)
(* same gas price: two deployments with one nonce are one transaction, and *)
(* the contract's address is known by its nonce.                           *)
(***************************************************************************)
EXTENDS Integers, Sequences, FiniteSets

CONSTANTS
  DeployFeature,   \* whether the program was built with it
  FirstBlock,      \* per chain: its height when the model starts
  Extra,           \* characters by which a file the operator wrote exceeds
                   \* the text the program writes for the same values
  Thresholds,      \* block numbers that take a digit more: 10, 100, ...
  MaxBlock,        \* bound on the height of the chains
  MaxEnds          \* bound: processes that end by some fault

Chain == {"home", "foreign"}

\* The checkpoints of a Database, and the chain each of them is about.
Reads == [checked_deposit_relay |-> "home",
          checked_withdraw_relay |-> "foreign",
          checked_withdraw_confirm |-> "foreign"]
Relay == DOMAIN Reads

ASSUME StartupAssumption ==
  /\ DeployFeature \in BOOLEAN
  /\ FirstBlock \in [Chain -> Nat]
  /\ Extra \subseteq Nat
  /\ Thresholds \subseteq Nat /\ IsFiniteSet(Thresholds)
  /\ MaxBlock \in Nat /\ MaxEnds \in Nat

Given == -1        \* a contract that was there before

\* Values a Database can have.
Databases == [contract : [Chain -> Nat \cup {Given}], checked : [Relay -> Nat]]
NoDatabase == [contract |-> [c \in Chain |-> Given],
               checked |-> [k \in Relay |-> 0]]

VARIABLES
  phase,      \* what execute is doing, or "Ended"
  why,        \* what ended the process, when it has ended
  running,    \* cleared by Ctrl-C
  run,        \* how many processes a fault has ended
  nonce,      \* per chain: Node.info.nonce
  quiet,      \* history, per chain: no request was on its way when the
              \* nonce was read
  result,     \* per chain: how far its deployment is
  db,         \* the Database in memory
  file,       \* the database file
  net,        \* deployment requests that have not reached their node
  slot,       \* per chain and nonce: block of the deployment, 0 if pending
  height      \* per chain: number of its last block

processVars == <<phase, why, running, run, nonce, quiet, result, db>>
nodeVars == <<net, slot, height>>
vars == <<processVars, file, nodeVars>>

-----------------------------------------------------------------------------
(* The database file (database.rs).                                        *)

Digits(n) == 1 + Cardinality({t \in Thresholds : t <= n})

\* Length of to_string, without the part that is always the same.
Length(d) == Digits(d.checked.checked_deposit_relay)
             + Digits(d.checked.checked_withdraw_relay)
             + Digits(d.checked.checked_withdraw_confirm)

\* hand: the file is longer than what the program writes; loads: it parses.
NothingIn(there) == [there |-> there, db |-> NoDatabase, length |-> 0,
                     loads |-> FALSE, hand |-> FALSE]
MissingFile == NothingIn(FALSE)

\* fs::File::create: the file is there, and empty, which does not parse.
CreatedFile == NothingIn(TRUE)

\* save: the text is written over the start of what is there, in one call.
\* What is left of a longer text after it may parse, or not.
Saved(f, d) ==
  {[there |-> TRUE, db |-> d, hand |-> f.hand, loads |-> l,
    length |-> IF Length(d) < f.length THEN f.length ELSE Length(d)] :
      l \in IF Length(d) < f.length THEN BOOLEAN ELSE {TRUE}}

\* A file the operator wrote for contracts that exist.
GivenDatabase == [contract |-> [c \in Chain |-> Given],
                  checked |-> [k \in Relay |-> FirstBlock[Reads[k]]]]
GivenFile(x) == [there |-> TRUE, db |-> GivenDatabase, hand |-> x > 0,
                 loads |-> TRUE, length |-> Length(GivenDatabase) + x]

Init ==
  /\ phase = "Ended" /\ why = "none" /\ running = TRUE /\ run = 0
  /\ nonce = [c \in Chain |-> 0]
  /\ quiet = [c \in Chain |-> TRUE]
  /\ result = [c \in Chain |-> "None"]
  /\ db = NoDatabase
  /\ file \in {MissingFile} \cup {GivenFile(x) : x \in Extra}
  /\ net = {} /\ slot = [c \in Chain |-> << >>] /\ height = FirstBlock

-----------------------------------------------------------------------------
(* Ends.                                                                   *)

Panic == 101       \* what the Rust runtime exits with
Killed == 137      \* what the shell sees of a killed process

\* MUTANT: running out of funds counts as a shutdown.
CodeOfFunds(w) == IF w \in {"InsufficientFunds", "ShutdownRequested"} THEN 3 ELSE 12

\* execute's exit codes.  The contexts an error is wrapped in are taken off
\* first and have no influence.  An RPC error ends with 4 to 7 or 20, as the
\* node's message says, which the supervisor does not tell apart.
Code(w) ==
  CASE w = "none" -> 0
    [] w \in {"config", "database", "deploy", "save"} -> 1
    [] w \in {"create", "Io"} -> 2
    [] w = "ShutdownRequested" -> 3
    [] w = "InsufficientFunds" -> 4
    [] w = "connect" -> 10
    [] w = "BrokenPipe" -> 11
    [] w = "Rpc" -> 20
    [] w \in {"panic", "chain_id", "nonces", "receipt"} -> Panic
    [] w = "killed" -> Killed
    [] OTHER -> 12

\* What may end the bridge while it runs; "Timeout" stands for all others, a
\* failing save included.
BridgeError == {"Rpc", "BrokenPipe", "Io", "InsufficientFunds", "Timeout"}

\* The process ends and its memory is gone.
End(w) ==
  /\ phase' = "Ended" /\ why' = w
  /\ nonce' = [c \in Chain |-> 0]
  /\ quiet' = [c \in Chain |-> TRUE]
  /\ result' = [c \in Chain |-> "None"]
  /\ db' = NoDatabase
  /\ UNCHANGED <<running, nodeVars>>

\* An end that need not have happened.
Fault(w) == run < MaxEnds /\ run' = run + 1 /\ End(w)

-----------------------------------------------------------------------------
(* execute, up to the nonces.                                              *)

Goes(from, to) ==
  /\ phase = from /\ phase' = to
  /\ UNCHANGED <<why, running, run, result, file, nodeVars>>

\* Config::load: the operator may edit the file, and change the flag, between two
\* starts.  A file that cannot be read or parsed, a node without TLS or contract
\* code is an error; a node without host or with an unknown speed is a panic.
LoadConfig == Goes("Config", "Connect") /\ UNCHANGED <<nonce, quiet, db>>

LoadConfigFails ==
  /\ phase = "Config"
  /\ \E e \in {"config", "panic"} : Fault(e)
  /\ UNCHANGED file

\* App::new_http: addresses, keystore, passwords; no request is made.
NewHttp == Goes("Connect", "HomeChainId") /\ UNCHANGED <<nonce, quiet, db>>
NewHttpFails == phase = "Connect" /\ Fault("connect") /\ UNCHANGED file

\* ChainIdRetrieval::poll, for home and then for foreign.
ChainId ==
  /\ \/ Goes("HomeChainId", "ForeignChainId")
     \/ Goes("ForeignChainId", "HomeNonce")
  /\ UNCHANGED <<nonce, quiet, db>>

ChainIdFails ==
  /\ phase \in {"HomeChainId", "ForeignChainId"}
  /\ Fault("chain_id") /\ UNCHANGED file

\* MUTANT: eth_getTransactionCount at the latest block.
LatestCount(c) == Cardinality({i \in 1..Len(slot[c]) : slot[c][i] # 0})

\* MUTANT: one nonce is left out.
CountPlusOne(c) == Len(slot[c]) + 1

\* eth_getTransactionCount at the pending block.
TransactionCount(c) == Len(slot[c])

\* Without a timeout: execute waits for as long as the node takes.
ReadNonce(c, from, to) ==
  /\ Goes(from, to) /\ UNCHANGED db
  /\ nonce' = [nonce EXCEPT ![c] = TransactionCount(c)]
  /\ quiet' = [quiet EXCEPT ![c] = \A r \in net : r.chain # c]

ReadNonces == \/ ReadNonce("home", "HomeNonce", "ForeignNonce")
              \/ ReadNonce("foreign", "ForeignNonce", "Load")

ReadNonceFails ==
  /\ phase \in {"HomeNonce", "ForeignNonce"}
  /\ Fault("nonces") /\ UNCHANGED file

-----------------------------------------------------------------------------
(* Deploy::poll.                                                           *)

\* CheckIfNeeded, Database::load succeeds.
LoadExisting ==
  /\ file.loads
  /\ Goes("Load", "Run") /\ db' = file.db /\ UNCHANGED <<nonce, quiet>>

\* CheckIfNeeded, Database::load reports MissingFile.
needsDeployment == DeployFeature /\ ~file.there

LoadFails ==
  /\ phase = "Load" /\ ~file.loads /\ ~needsDeployment
  /\ End("database") /\ UNCHANGED <<run, file>>

\* Both deployments are signed and sent by the first poll of the join.
StartDeploying ==
  /\ phase = "Load" /\ ~file.loads /\ needsDeployment
  /\ phase' = "Deploying"
  /\ result' = [c \in Chain |-> "Sent"]
  /\ net' = net \cup {[chain |-> c, nonce |-> nonce[c], run |-> run] : c \in Chain}
  /\ UNCHANGED <<why, running, run, nonce, quiet, db, file, slot, height>>

\* A timeout or any error of one deployment drops the other one as well.
DeployFails == phase = "Deploying" /\ Fault("deploy") /\ UNCHANGED file

\* The receipt comes once the transaction is mined; waiting for confirmations
\* only puts it off.
HasReceipt(c) == result[c] = "Accepted" /\ slot[c][nonce[c] + 1] # 0
BothDone == phase = "Deploying"
            /\ \A c \in Chain : HasReceipt(c) \/ result[c] = "Ignored"

\* MUTANT: all checkpoints start at home's block.
FirstChecked(k) == slot["home"][nonce["home"] + 1]

\* Every checkpoint starts where its chain's contract was created.
DeployedAt(k) == slot[Reads[k]][nonce[Reads[k]] + 1]

Deployed ==
  /\ BothDone /\ \A c \in Chain : result[c] # "Ignored"
  /\ phase' = "Create"
  /\ db' = [contract |-> nonce, checked |-> [k \in Relay |-> DeployedAt(k)]]
  /\ UNCHANGED <<why, running, run, nonce, quiet, result, file, nodeVars>>

\* TransactionWithConfirmation::ignore returns a receipt without an address,
\* which is then expected to have one.
ReceiptWithoutAddress ==
  /\ BothDone /\ \E c \in Chain : result[c] = "Ignored"
  /\ run' = run + 1 /\ End("receipt") /\ UNCHANGED file

-----------------------------------------------------------------------------
(* Deployed::New: the file is created and written; then the bridge runs.   *)

CreateFile ==
  /\ phase = "Create" /\ phase' = "Save"
  /\ file' = CreatedFile
  /\ UNCHANGED <<why, running, run, nonce, quiet, result, db, nodeVars>>

CreateFails == phase = "Create" /\ Fault("create") /\ UNCHANGED file

SaveNew ==
  /\ phase = "Save" /\ phase' = "Run"
  /\ file' \in Saved(file, db)
  /\ UNCHANGED <<why, running, run, nonce, quiet, result, db, nodeVars>>

SaveNewFails == phase = "Save" /\ Fault("save") /\ UNCHANGED file

\* MUTANT: a stream may go back to an earlier block.
CheckedAgain(k) == {b \in 1..height[Reads[k]] : b # db.checked[k]}

\* The blocks a stream can report as checked next.
NextChecked(k) == {b \in 1..height[Reads[k]] : b > db.checked[k]}

\* Bridge::poll: the file is opened without truncating it.
Check(k, b) ==
  /\ phase = "Run" /\ b \in NextChecked(k)
  /\ db' = [db EXCEPT !.checked[k] = b]
  /\ file' \in Saved(file, db')
  /\ UNCHANGED <<phase, why, running, run, nonce, quiet, result, nodeVars>>

BridgeFails ==
  /\ phase = "Run"
  /\ \E e \in BridgeError : Fault(e)
  /\ UNCHANGED file

\* MUTANT: the flag is looked at when there is something to save.
seesFlagWithItem ==
  phase = "Run" /\ ~running /\ \E k \in Relay : NextChecked(k) # {}

\* MUTANT: the flag ends a deployment, too.
seesFlagDeploying == phase \in {"Deploying", "Run"} /\ ~running

\* The flag is first looked at when the bridge runs.
seesFlag == phase = "Run" /\ ~running

Shutdown ==
  /\ seesFlag
  /\ End("ShutdownRequested") /\ UNCHANGED <<run, file>>

CtrlC ==
  /\ phase # "Ended" /\ running
  /\ running' = FALSE
  /\ UNCHANGED <<phase, why, run, nonce, quiet, result, db, file, nodeVars>>

Kill == phase # "Ended" /\ Fault("killed") /\ UNCHANGED file

\* The supervisor starts the next process unless the exit code was 3.
Start ==
  /\ phase = "Ended" /\ Code(why) # 3
  /\ phase' = "Config" /\ running' = TRUE /\ why' = "none"
  /\ UNCHANGED <<run, nonce, quiet, result, db, file, nodeVars>>

-----------------------------------------------------------------------------
(* The nodes.                                                              *)

\* A request reaches its node: the transaction is new, or already imported.
\* Its sender learns which, if it is still running.
Arrive(r) ==
  LET new == r.nonce >= Len(slot[r.chain]) IN
  /\ net' = net \ {r}
  /\ slot' = IF new THEN [slot EXCEPT ![r.chain] = Append(@, 0)] ELSE slot
  /\ result' = IF phase = "Deploying" /\ r.run = run
               THEN [result EXCEPT ![r.chain] = IF new THEN "Accepted" ELSE "Ignored"]
               ELSE result
  /\ UNCHANGED <<phase, why, running, run, nonce, quiet, db, file, height>>

Lose(r) ==
  /\ run < MaxEnds
  /\ net' = net \ {r}
  /\ UNCHANGED <<processVars, file, slot, height>>

\* A block with all pending transactions, or an empty one.
Mine(c) ==
  /\ \E i \in 1..Len(slot[c]) : slot[c][i] = 0
  /\ height' = [height EXCEPT ![c] = @ + 1]
  /\ slot' = [slot EXCEPT ![c] = [i \in DOMAIN @ |->
                IF @[i] = 0 THEN height'[c] ELSE @[i]]]
  /\ UNCHANGED <<processVars, file, net>>

MineEmpty(c) ==
  /\ height[c] < MaxBlock
  /\ height' = [height EXCEPT ![c] = @ + 1]
  /\ UNCHANGED <<processVars, file, net, slot>>

-----------------------------------------------------------------------------
\* The steps execute takes by itself, once what it waits for is there.
Proceed ==
  \/ LoadConfig \/ NewHttp \/ ChainId \/ ReadNonces
  \/ LoadExisting \/ LoadFails \/ StartDeploying
  \/ Deployed \/ ReceiptWithoutAddress
  \/ CreateFile \/ SaveNew \/ Shutdown

Fails ==
  \/ LoadConfigFails \/ NewHttpFails \/ ChainIdFails \/ ReadNonceFails
  \/ DeployFails \/ CreateFails \/ SaveNewFails \/ BridgeFails \/ Kill

Next ==
  \/ Proceed \/ Fails \/ Start \/ CtrlC
  \/ \E k \in Relay : \E b \in NextChecked(k) : Check(k, b)
  \/ \E r \in net : Arrive(r) \/ Lose(r)
  \/ \E c \in Chain : Mine(c) \/ MineEmpty(c)

Spec == Init /\ [][Next]_vars

\* A deployment whose request is lost runs into its timeout (the others may,
\* too: the request and all confirmations have to fit into it).
Hangs == phase = "Deploying" /\ \E c \in Chain : result[c] = "Sent"
           /\ \A r \in net : ~(r.chain = c /\ r.run = run)

FairSpec ==
  /\ Spec
  /\ WF_vars(Proceed) /\ WF_vars(Start) /\ WF_vars(Hangs /\ DeployFails)
  /\ WF_vars(\E r \in net : Arrive(r))
  /\ \A c \in Chain : WF_vars(Mine(c))

-----------------------------------------------------------------------------
(* Properties.                                                             *)

\* The types; and no request has a nonce the node has to wait for.
TypeOK ==
  /\ phase \in {"Ended", "Config", "Connect", "HomeChainId", "ForeignChainId",
                "HomeNonce", "ForeignNonce", "Load", "Deploying", "Create",
                "Save", "Run"}
  /\ running \in BOOLEAN
  /\ run \in Nat
  /\ nonce \in [Chain -> Nat]
  /\ quiet \in [Chain -> BOOLEAN]
  /\ result \in [Chain -> {"None", "Sent", "Accepted", "Ignored"}]
  /\ db \in Databases
  /\ file \in [there : BOOLEAN, db : Databases, length : Nat, loads : BOOLEAN,
               hand : BOOLEAN]
  /\ slot \in [Chain -> Seq(Nat)]
  /\ height \in [Chain -> Nat]
  /\ net \subseteq [chain : Chain, nonce : Nat, run : Nat]
  /\ \A r \in net : r.nonce <= Len(slot[r.chain])

\* Bridge::poll (mod.rs:60) writes over the old text without truncating it.
\* The file can be read back all the same, because checkpoints never go back
\* and their text never gets shorter: only a process that ended between
\* creating and writing the file, or a file that the operator made longer
\* than what the program writes, leaves one that does not load.
SavedFileLoads ==
  file.there /\ ~file.hand => file.loads \/ file.length = 0

\* deploy.rs:122-130: the contracts the bridge works with, and those in the
\* file, were created, or given by the operator, and no checkpoint is ahead of
\* the chain whose logs it counts, where it would hide events to come.
Sound(d) ==
  /\ \A c \in Chain :
       \/ d.contract[c] = Given
       \/ d.contract[c] < Len(slot[c]) /\ slot[c][d.contract[c] + 1] # 0
  /\ \A k \in Relay : d.checked[k] <= height[Reads[k]]

DatabaseIsSound ==
  /\ file.loads => Sound(file.db)
  /\ phase = "Run" => Sound(db) /\ db = file.db

\* api.rs:40-43 asks for the pending count because the last transaction may
\* not be mined yet: a deployment is taken for one that was already imported,
\* which ends the process (deploy.rs:123), only if a request of an earlier
\* process was still under way when this one read its nonce.
QuietStartDeploys == \A c \in Chain : quiet[c] => result[c] # "Ignored"

RequestsTo(c) == {r \in net : r.chain = c}

\* The bridge's contracts on a chain that no file names, and those that requests
\* under way may still create.
Unrecorded(c) ==
  Cardinality({i \in 1..Len(slot[c]) : i - 1 # file.db.contract[c]})
    + Cardinality(RequestsTo(c))

\* deploy.rs:111, main.rs:181: a process that ends between sending a deployment
\* and writing the file leaves a contract nobody will use.  Each costs a fault,
\* though: one process leaves at most one per chain, one told to shut down
\* leaves none, and a process that finds a file it cannot load, and is started
\* again and again, adds none.
OrphansNeedFaults ==
  \A c \in Chain :
    Unrecorded(c) <= run + (IF phase \in {"Deploying", "Create", "Save"} THEN 1 ELSE 0)

\* mod.rs:60, main.rs:181: once the file holds contracts, no process, whether it
\* can load that file or not, makes it name others.
ContractsStay ==
  [][file.length # 0 =>
       file'.length # 0 /\ file'.db.contract = file.db.contract]_vars

-----------------------------------------------------------------------------
(* Why these hold.                                                         *)

\* The file is missing, or created and empty, or it holds exactly the text of
\* its value, unless the operator made it longer.  While this process deploys,
\* and until it creates the file, there is none; while it runs, the file has
\* what it has in memory.
FileShape ==
  /\ ~file.hand =>
       \/ file \in {MissingFile, CreatedFile}
       \/ file.there /\ file.loads /\ file.length = Length(file.db)
  /\ file.hand => file.there /\ file.length # 0
  /\ file.loads => file.there
  /\ phase \in {"Deploying", "Create"} => file = MissingFile
  /\ phase = "Save" => file = CreatedFile
  /\ phase = "Run" => file.there /\ file.length # 0 /\ db = file.db

\* Contracts stay, and chains only grow: what was sound once stays so.
KnownIsSound ==
  /\ Sound(file.db) /\ Sound(db)
  /\ \A c \in Chain : \A i \in 1..Len(slot[c]) : slot[c][i] <= height[c]

Deployment == {"Deploying", "Create", "Save", "Run"}

\* A process that has not deployed yet has no request under way; one that
\* deploys has at most one per chain, with the nonce it read.
RequestsOfRun ==
  /\ phase # "Ended" => why = "none"
  /\ \A r \in net :
       /\ r.run <= run
       /\ (phase \notin Deployment /\ why # "ShutdownRequested") => r.run < run
       /\ (phase = "Deploying" /\ r.run = run) => r.nonce = nonce[r.chain]
  /\ \A c \in Chain : nonce[c] <= Len(slot[c])
  /\ phase \notin Deployment => \A c \in Chain : result[c] = "None"
  /\ phase = "Deploying" =>
       \A c \in Chain : result[c] = "Accepted" => nonce[c] < Len(slot[c])

ReadBefore == [home |-> {"ForeignNonce", "Load"}, foreign |-> {"Load"}]

\* If no request to a chain was under way when its nonce was read, none but
\* this process's own can use that nonce.
QuietIsOwn ==
  \A c \in Chain : quiet[c] =>
    /\ phase \in ReadBefore[c] =>
         /\ nonce[c] = Len(slot[c])
         /\ \A r \in net : r.chain # c
    /\ phase = "Deploying" =>
         /\ \A r \in net : r.chain = c => (r.run = run /\ result[c] = "Sent")
         /\ result[c] = "Sent" => nonce[c] = Len(slot[c])
    /\ result[c] # "Ignored"

\* Every deployment that was sent is a contract or a request under way, or was
\* lost or ignored, and a process sends one per chain.  A file with contracts
\* the operator gave goes with no deployment at all.
DeploymentsCounted ==
  /\ IsFiniteSet(net)
  /\ \A c \in Chain :
       /\ Len(slot[c]) + Cardinality(RequestsTo(c)) <=
            run + (IF phase \in Deployment \/ why = "ShutdownRequested" THEN 1 ELSE 0)
       /\ file.length # 0 /\ file.db.contract[c] = Given =>
            Len(slot[c]) = 0 /\ RequestsTo(c) = {}
       /\ phase \in {"Create", "Save"} => db.contract[c] # Given
  /\ why = "ShutdownRequested" => file.length # 0

\* The inductive invariant.
Inductive ==
  TypeOK /\ FileShape /\ KnownIsSound /\ RequestsOfRun /\ QuietIsOwn

-----------------------------------------------------------------------------
\* What LoadFails is about.
Usable == file.loads \/ needsDeployment

\* However a process ended, if it was not told to shut down the next one gets
\* the bridge running, unless there is no database it can use.
RunsAgain ==
  phase = "Ended" /\ why # "ShutdownRequested" ~> phase = "Run" \/ ~Usable

\* main.rs:102-104: Ctrl-C ends the process, if the nodes answer; while
\* execute waits for a nonce nothing else does.
CtrlCEnds == ~running ~> phase = "Ended"
=============================================================================
