--------------------------- MODULE StartupProofs ---------------------------
(***************************************************************************)
(* Proofs about Startup: for any number of processes, any blocks, any file *)
(* the operator wrote, and whether or not the program can deploy.          *)
(***************************************************************************)
EXTENDS Startup, FiniteSetTheorems, TLAPS

-----------------------------------------------------------------------------
(* The database and its text.                                              *)

\* A larger block number is never written with fewer digits.
LEMMA DigitsGrow ==
  ASSUME NEW m \in Nat, NEW n \in Nat
  PROVE  /\ Digits(m) \in Nat \ {0}
         /\ m <= n => Digits(m) <= Digits(n)
<1> DEFINE Below(k) == {t \in Thresholds : t <= k}
<1>1. /\ IsFiniteSet(Below(m)) /\ IsFiniteSet(Below(n))
  BY StartupAssumption, FS_Subset
<1>2. Cardinality(Below(m)) \in Nat /\ Cardinality(Below(n)) \in Nat
  BY <1>1, FS_CardinalityType
<1>3. m <= n => Below(m) \subseteq Below(n)
  <2>1. \A t \in Thresholds : t \in Nat
    BY StartupAssumption
  <2>2. \A t \in Nat : m <= n /\ t <= m => t <= n
    OBVIOUS
  <2> QED BY <2>1, <2>2
<1>4. m <= n => Cardinality(Below(m)) <= Cardinality(Below(n))
  BY <1>1, <1>3, FS_Subset
<1> QED BY <1>2, <1>4 DEF Digits

\* Nor is a database whose checkpoints are larger written with fewer.
LEMMA LengthGrows ==
  ASSUME NEW d \in Databases, NEW e \in Databases
  PROVE  /\ Length(d) \in Nat \ {0}
         /\ (\A k \in Relay : d.checked[k] <= e.checked[k]) =>
               Length(d) <= Length(e)
<1>1. \A k \in Relay : d.checked[k] \in Nat /\ e.checked[k] \in Nat
  BY DEF Databases
<1>2. {"checked_deposit_relay", "checked_withdraw_relay",
       "checked_withdraw_confirm"} \subseteq Relay
  BY DEF Relay, Reads
<1>3. \A k \in Relay : /\ Digits(d.checked[k]) \in Nat \ {0}
                       /\ Digits(e.checked[k]) \in Nat \ {0}
                       /\ d.checked[k] <= e.checked[k] =>
                            Digits(d.checked[k]) <= Digits(e.checked[k])
  BY <1>1, DigitsGrow
<1>4. \A k \in Relay : /\ Digits(d.checked[k]) \in Nat \ {0}
                       /\ Digits(e.checked[k]) \in Nat \ {0}
  BY <1>3
<1> DEFINE D(k) == Digits(d.checked[k])
           E(k) == Digits(e.checked[k])
           a == "checked_deposit_relay"
           b == "checked_withdraw_relay"
           c == "checked_withdraw_confirm"
<1>5. /\ Length(d) = D(a) + D(b) + D(c)
      /\ Length(e) = E(a) + E(b) + E(c)
  BY DEF Length
<1>6. /\ D(a) \in Nat \ {0} /\ D(b) \in Nat \ {0} /\ D(c) \in Nat \ {0}
      /\ E(a) \in Nat \ {0} /\ E(b) \in Nat \ {0} /\ E(c) \in Nat \ {0}
  BY <1>2, <1>4
<1>7. (\A k \in Relay : d.checked[k] <= e.checked[k]) =>
         D(a) <= E(a) /\ D(b) <= E(b) /\ D(c) <= E(c)
  BY <1>2, <1>3
<1> HIDE DEF D, E
<1> QED BY <1>5, <1>6, <1>7

\* The empty database is one, and the operator's is one.
LEMMA DatabasesExist ==
  /\ NoDatabase \in Databases /\ GivenDatabase \in Databases
  /\ \A k \in Relay : Reads[k] \in Chain
<1>1. \A k \in Relay : Reads[k] \in Chain
  BY DEF Relay, Reads, Chain
<1> QED BY <1>1, StartupAssumption DEF NoDatabase, GivenDatabase, Databases

\* Writing a database whose text is not shorter leaves exactly its text.
LEMMA SavedIsExact ==
  ASSUME NEW d \in Databases, NEW f, NEW g \in Saved(f, d),
         f.length \in Nat, f.hand \in BOOLEAN
  PROVE  /\ g.there /\ g.db = d /\ g.hand = f.hand
         /\ g \in [there : BOOLEAN, db : Databases, length : Nat,
                   loads : BOOLEAN, hand : BOOLEAN]
         /\ g.length # 0
         /\ f.length <= Length(d) => g.loads /\ g.length = Length(d)
<1>1. Length(d) \in Nat \ {0}
  BY LengthGrows
<1>2. PICK l \in (IF Length(d) < f.length THEN BOOLEAN ELSE {TRUE}) :
        g = [there |-> TRUE, db |-> d, hand |-> f.hand, loads |-> l,
             length |-> IF Length(d) < f.length THEN f.length ELSE Length(d)]
  BY DEF Saved
<1>3. l \in BOOLEAN /\ (f.length <= Length(d) => l = TRUE)
  <2>1. f.length <= Length(d) => ~(Length(d) < f.length)
    BY <1>1
  <2>2. CASE Length(d) < f.length
    BY <1>2, <2>1, <2>2, Zenon
  <2>3. CASE ~(Length(d) < f.length)
    BY <1>2, <2>3, Zenon
  <2> QED BY <2>2, <2>3, Zenon
<1>4. /\ (IF Length(d) < f.length THEN f.length ELSE Length(d)) \in Nat \ {0}
      /\ f.length <= Length(d) =>
           (IF Length(d) < f.length THEN f.length ELSE Length(d)) = Length(d)
  BY <1>1
<1>5. /\ g.there = TRUE /\ g.db = d /\ g.hand = f.hand /\ g.loads = l
      /\ g.length = (IF Length(d) < f.length THEN f.length ELSE Length(d))
  BY <1>2
<1>6. g \in [there : BOOLEAN, db : Databases, length : Nat,
              loads : BOOLEAN, hand : BOOLEAN]
  BY <1>2, <1>3, <1>4
<1> QED BY <1>3, <1>4, <1>5, <1>6

\* Soundness, of given chains: Sound is about the chains as they are.
SoundIn(d, s, h) ==
  /\ \A c \in Chain :
       \/ d.contract[c] = Given
       \/ d.contract[c] < Len(s[c]) /\ s[c][d.contract[c] + 1] # 0
  /\ \A k \in Relay : d.checked[k] <= h[Reads[k]]

\* From s and h to t and g, the chains only grow.
Grows(s, h, t, g) ==
  /\ s \in [Chain -> Seq(Nat)] /\ t \in [Chain -> Seq(Nat)]
  /\ h \in [Chain -> Nat] /\ g \in [Chain -> Nat]
  /\ \A c \in Chain : /\ Len(s[c]) <= Len(t[c]) /\ h[c] <= g[c]
                     /\ \A i \in 1..Len(s[c]) : s[c][i] # 0 => t[c][i] # 0

\* What was sound stays so while they do.
LEMMA SoundStays ==
  ASSUME NEW d \in Databases, NEW s, NEW h, NEW t, NEW g,
         SoundIn(d, s, h), Grows(s, h, t, g)
  PROVE  SoundIn(d, t, g)
<1> USE DEF Grows
<1>1. ASSUME NEW c \in Chain, d.contract[c] # Given
      PROVE  d.contract[c] < Len(t[c]) /\ t[c][d.contract[c] + 1] # 0
  <2>1. d.contract[c] \in Nat
    BY <1>1 DEF Databases
  <2>2. d.contract[c] < Len(s[c]) /\ s[c][d.contract[c] + 1] # 0
    BY <1>1 DEF SoundIn
  <2>3. Len(s[c]) \in Nat /\ Len(t[c]) \in Nat
    OBVIOUS
  <2>4. d.contract[c] + 1 \in 1..Len(s[c])
    BY <2>1, <2>2, <2>3
  <2> QED BY <2>1, <2>2, <2>3, <2>4
<1>2. ASSUME NEW k \in Relay
      PROVE  d.checked[k] <= g[Reads[k]]
  <2>1. Reads[k] \in Chain /\ d.checked[k] \in Nat
    BY DatabasesExist DEF Databases
  <2>2. h[Reads[k]] \in Nat /\ g[Reads[k]] \in Nat
        /\ h[Reads[k]] <= g[Reads[k]] /\ d.checked[k] <= h[Reads[k]]
    BY <2>1 DEF SoundIn
  <2> QED BY <2>1, <2>2
<1> QED BY <1>1, <1>2 DEF SoundIn

\* The empty database says nothing, so it is sound.
LEMMA NothingIsSound ==
  ASSUME NEW s, NEW h \in [Chain -> Nat]
  PROVE  SoundIn(NoDatabase, s, h)
BY DatabasesExist DEF SoundIn, NoDatabase

-----------------------------------------------------------------------------
(* The invariant.                                                          *)

\* It holds initially.
LEMMA InitInductive == Init => Inductive
<1> SUFFICES ASSUME Init PROVE Inductive
  OBVIOUS
<1> USE StartupAssumption DEF Init
<1> DEFINE Shaped ==
      /\ file \in [there : BOOLEAN, db : Databases, length : Nat,
                   loads : BOOLEAN, hand : BOOLEAN]
      /\ ~file.hand => \/ file \in {MissingFile, CreatedFile}
                       \/ file.there /\ file.loads /\ file.length = Length(file.db)
      /\ file.hand => file.there /\ file.length # 0
      /\ file.loads => file.there
      /\ file.db \in {NoDatabase, GivenDatabase}
<1>1. Shaped
  <2>1. CASE file = MissingFile
    BY <2>1, DatabasesExist DEF MissingFile, NothingIn
  <2>2. ASSUME NEW x \in Extra, file = GivenFile(x)
        PROVE  Shaped
    <3>1. Length(GivenDatabase) \in Nat \ {0} /\ x \in Nat
      BY DatabasesExist, LengthGrows
    <3>2. (x > 0) \in BOOLEAN /\ Length(GivenDatabase) + x \in Nat \ {0}
          /\ (~(x > 0) => Length(GivenDatabase) + x = Length(GivenDatabase))
      BY <3>1
    <3>3. /\ file.there = TRUE /\ file.db = GivenDatabase
          /\ file.hand = (x > 0) /\ file.loads = TRUE
          /\ file.length = Length(GivenDatabase) + x
      BY <2>2 DEF GivenFile
    <3>4. file \in [there : BOOLEAN, db : Databases, length : Nat,
                   loads : BOOLEAN, hand : BOOLEAN]
      BY <2>2, <3>2, DatabasesExist DEF GivenFile
    <3> QED BY <3>2, <3>3, <3>4
  <2> QED BY <2>1, <2>2
<1>2. TypeOK
  <2>1. \A c \in Chain : << >> \in Seq(Nat)
    OBVIOUS
  <2> QED BY <1>1, <2>1, DatabasesExist DEF TypeOK
<1>3. FileShape
  BY <1>1 DEF FileShape
<1>4. KnownIsSound
  <2>1. SoundIn(NoDatabase, slot, height)
    BY NothingIsSound
  <2>2. SoundIn(GivenDatabase, slot, height)
    BY DatabasesExist DEF SoundIn, GivenDatabase
  <2>3. Sound(file.db) /\ Sound(db)
    BY <1>1, <2>1, <2>2 DEF Sound, SoundIn
  <2>4. \A c \in Chain : Len(slot[c]) = 0
    OBVIOUS
  <2> QED BY <2>3, <2>4 DEF KnownIsSound
<1>5. RequestsOfRun
  BY DEF RequestsOfRun, Deployment
<1>6. QuietIsOwn
  BY DEF QuietIsOwn, ReadBefore, Chain
<1> QED BY <1>2, <1>3, <1>4, <1>5, <1>6 DEF Inductive

\* A step of execute before it knows whether it deploys.
LEMMA EarlyStep ==
  ASSUME Inductive, UNCHANGED <<why, running, run, nonce, quiet, result, db, file, nodeVars>>,
         phase \in {"Config", "Connect", "HomeChainId", "ForeignChainId"},
         phase' \in {"Connect", "HomeChainId", "ForeignChainId", "HomeNonce"}
  PROVE  Inductive'
<1> USE DEF nodeVars
<1>1. TypeOK'
  BY DEF Inductive, TypeOK
<1>2. FileShape'
  BY DEF Inductive, FileShape
<1>3. KnownIsSound'
  BY DEF Inductive, KnownIsSound, Sound
<1>4. RequestsOfRun'
  BY DEF Inductive, RequestsOfRun, Deployment
<1>5. QuietIsOwn'
  BY DEF Inductive, QuietIsOwn, ReadBefore, Chain
<1> QED BY <1>1, <1>2, <1>3, <1>4, <1>5 DEF Inductive

\* Reading a chain's nonce.
LEMMA ReadNonceInductive ==
  ASSUME Inductive, ReadNonces
  PROVE  Inductive'
<1> USE DEF nodeVars
<1>1. PICK c \in Chain :
        /\ UNCHANGED <<why, running, run, result, file, nodeVars, db>>
        /\ nonce' = [nonce EXCEPT ![c] = Len(slot[c])]
        /\ quiet' = [quiet EXCEPT ![c] = \A r \in net : r.chain # c]
        /\ \/ c = "home" /\ phase = "HomeNonce" /\ phase' = "ForeignNonce"
           \/ c = "foreign" /\ phase = "ForeignNonce" /\ phase' = "Load"
  BY DEF ReadNonces, ReadNonce, Goes, TransactionCount, Chain
<1>t. TypeOK
  BY DEF Inductive
<1>2. /\ nonce' \in [Chain -> Nat] /\ quiet' \in [Chain -> BOOLEAN]
      /\ nonce'[c] = Len(slot[c])
      /\ quiet'[c] => \A r \in net : r.chain # c
      /\ \A e \in Chain \ {c} : nonce'[e] = nonce[e] /\ quiet'[e] = quiet[e]
  <2>1. Len(slot[c]) \in Nat
    BY <1>t DEF TypeOK
  <2>2. (\A r \in net : r.chain # c) \in BOOLEAN
    OBVIOUS
  <2> QED BY <1>1, <1>t, <2>1, <2>2 DEF TypeOK
<1>3. TypeOK'
  BY <1>1, <1>2, <1>t DEF TypeOK
<1>4. FileShape'
  BY <1>1 DEF Inductive, FileShape
<1>5. KnownIsSound'
  BY <1>1 DEF Inductive, KnownIsSound, Sound
<1>6. RequestsOfRun'
  <2>1. ASSUME NEW e \in Chain PROVE nonce'[e] <= Len(slot[e])
    <3>1. Len(slot[e]) \in Nat /\ nonce[e] <= Len(slot[e])
      BY <1>t DEF TypeOK, Inductive, RequestsOfRun
    <3> QED BY <1>2, <3>1
  <2> QED BY <1>1, <2>1 DEF Inductive, RequestsOfRun, Deployment
<1>7. QuietIsOwn'
  BY <1>1, <1>2 DEF Inductive, QuietIsOwn, ReadBefore, Chain, RequestsOfRun, Deployment
<1> QED BY <1>3, <1>4, <1>5, <1>6, <1>7 DEF Inductive

\* The end of a process, however it comes.
LEMMA EndInductive ==
  ASSUME Inductive, NEW w, End(w), UNCHANGED file,
         \/ run' = run + 1
         \/ run' = run /\ w = "ShutdownRequested"
         \/ run' = run /\ phase \notin Deployment /\ phase # "Ended"
  PROVE  Inductive'
<1> USE DEF nodeVars
<1>t. TypeOK
  BY DEF Inductive
<1>0. /\ phase' = "Ended" /\ why' = w /\ db' = NoDatabase
      /\ nonce' = [c \in Chain |-> 0] /\ quiet' = [c \in Chain |-> TRUE]
      /\ result' = [c \in Chain |-> "None"]
      /\ UNCHANGED <<running, file, net, slot, height>>
  BY DEF End
<1>1. TypeOK'
  BY <1>0, <1>t, DatabasesExist DEF TypeOK
<1>2. FileShape'
  BY <1>0 DEF Inductive, FileShape
<1>3. KnownIsSound'
  <2>1. SoundIn(NoDatabase, slot, height)
    BY <1>t, NothingIsSound DEF TypeOK
  <2> QED BY <1>0, <2>1 DEF Inductive, KnownIsSound, Sound, SoundIn
<1>4. RequestsOfRun'
  <2>1. \A r \in net : r.run \in Nat /\ r.run <= run /\ run \in Nat
    BY <1>t DEF TypeOK, Inductive, RequestsOfRun
  <2>2. \A r \in net : r.run <= run' /\ (w # "ShutdownRequested" => r.run < run')
    BY <2>1 DEF Inductive, RequestsOfRun
  <2>3. \A c \in Chain : 0 <= Len(slot[c])
    BY <1>t DEF TypeOK
  <2> QED BY <1>0, <2>2, <2>3 DEF RequestsOfRun, Deployment
<1>5. QuietIsOwn'
  BY <1>0 DEF QuietIsOwn, ReadBefore, Chain
<1> QED BY <1>1, <1>2, <1>3, <1>4, <1>5 DEF Inductive

\* A file that loads is taken over as it is.
LEMMA LoadExistingInductive ==
  ASSUME Inductive, LoadExisting
  PROVE  Inductive'
<1> USE DEF nodeVars
<1>t. TypeOK
  BY DEF Inductive
<1>0. /\ phase = "Load" /\ phase' = "Run" /\ db' = file.db /\ file.loads
      /\ UNCHANGED <<why, running, run, nonce, quiet, result, file, net, slot, height>>
  BY DEF LoadExisting, Goes
<1>1. TypeOK'
  BY <1>0, <1>t DEF TypeOK
<1>2. FileShape'
  <2>1. file.length # 0
    <3>1. CASE ~file.hand
      <4>1. file \notin {MissingFile, CreatedFile}
        BY <1>0 DEF MissingFile, CreatedFile, NothingIn
      <4>2. file.length = Length(file.db) /\ file.db \in Databases
        BY <1>t, <3>1, <4>1 DEF Inductive, FileShape, TypeOK
      <4> QED BY <4>2, LengthGrows
    <3>2. CASE file.hand
      BY <1>0, <3>2 DEF Inductive, FileShape
    <3> QED BY <3>1, <3>2
  <2> QED BY <1>0, <2>1 DEF Inductive, FileShape
<1>3. KnownIsSound'
  BY <1>0 DEF Inductive, KnownIsSound, Sound
<1>4. RequestsOfRun'
  BY <1>0 DEF Inductive, RequestsOfRun, Deployment
<1>5. QuietIsOwn'
  BY <1>0 DEF Inductive, QuietIsOwn, ReadBefore, Chain
<1> QED BY <1>1, <1>2, <1>3, <1>4, <1>5 DEF Inductive

\* Sending the two deployments: the first requests of this process.
LEMMA StartDeployingInductive ==
  ASSUME Inductive, StartDeploying
  PROVE  Inductive'
<1> DEFINE own(c) == [chain |-> c, nonce |-> nonce[c], run |-> run]
<1>t. TypeOK
  BY DEF Inductive
<1>0. /\ phase = "Load" /\ phase' = "Deploying" /\ ~file.there
      /\ result' = [c \in Chain |-> "Sent"]
      /\ net' = net \cup {own(c) : c \in Chain}
      /\ UNCHANGED <<why, running, run, nonce, quiet, db, file, slot, height>>
  BY DEF StartDeploying, needsDeployment
<1>1. \A c \in Chain : nonce[c] <= Len(slot[c]) /\ result[c] = "None"
  BY <1>0 DEF Inductive, RequestsOfRun, Deployment
<1>2. \A r \in net : r.run \in Nat /\ r.run < run /\ run \in Nat
  BY <1>0, <1>t DEF Inductive, RequestsOfRun, Deployment, TypeOK
<1>3. \A r \in net' : r \in net \/ \E c \in Chain : r = own(c)
  BY <1>0
<1>4. TypeOK'
  <2>1. \A c \in Chain : own(c) \in [chain : Chain, nonce : Nat, run : Nat]
    BY <1>t DEF TypeOK
  <2>2. \A r \in net' : /\ r \in [chain : Chain, nonce : Nat, run : Nat]
                        /\ r.nonce <= Len(slot[r.chain])
    BY <1>1, <1>3, <1>t, <2>1 DEF TypeOK
  <2>3. result' \in [Chain -> {"None", "Sent", "Accepted", "Ignored"}]
    BY <1>0
  <2> QED BY <1>0, <1>t, <2>2, <2>3 DEF TypeOK
<1>5. FileShape'
  <2>1. file = MissingFile
    <3>1. ~file.loads
      BY <1>0 DEF Inductive, FileShape
    <3>2. ~file.hand
      BY <1>0 DEF Inductive, FileShape
    <3>3. file # CreatedFile
      BY <1>0 DEF CreatedFile, MissingFile, NothingIn
    <3> QED BY <1>0, <3>1, <3>2, <3>3 DEF Inductive, FileShape
  <2> QED BY <1>0, <2>1 DEF Inductive, FileShape
<1>6. KnownIsSound'
  BY <1>0 DEF Inductive, KnownIsSound, Sound
<1>7. RequestsOfRun'
  <2>1. \A r \in net' : /\ r.run <= run
                        /\ r.run = run => r.nonce = nonce[r.chain]
    BY <1>2, <1>3, <1>t DEF TypeOK
  <2>2. \A c \in Chain : result'[c] = "Sent"
    BY <1>0
  <2> QED BY <1>0, <1>1, <2>1, <2>2 DEF Inductive, RequestsOfRun, Deployment
<1>8. QuietIsOwn'
  <2> SUFFICES ASSUME NEW c \in Chain, quiet[c]
               PROVE  /\ \A r \in net' : r.chain = c => r.run = run
                      /\ nonce[c] = Len(slot[c]) /\ result'[c] = "Sent"
    BY <1>0 DEF QuietIsOwn, ReadBefore, Chain
  <2>1. nonce[c] = Len(slot[c]) /\ \A r \in net : r.chain # c
    BY <1>0 DEF Inductive, QuietIsOwn, ReadBefore, Chain
  <2> QED BY <1>0, <1>3, <2>1
<1> QED BY <1>4, <1>5, <1>6, <1>7, <1>8 DEF Inductive

\* Both contracts are there, and their blocks are known.
LEMMA DeployedInductive ==
  ASSUME Inductive, Deployed
  PROVE  Inductive'
<1> USE DEF nodeVars
<1>t. TypeOK
  BY DEF Inductive
<1>0. /\ phase = "Deploying" /\ phase' = "Create"
      /\ db' = [contract |-> nonce, checked |-> [k \in Relay |-> DeployedAt(k)]]
      /\ UNCHANGED <<why, running, run, nonce, quiet, result, file, net, slot, height>>
  BY DEF Deployed, BothDone
<1>1. \A c \in Chain : /\ nonce[c] \in Nat /\ nonce[c] < Len(slot[c])
                       /\ Len(slot[c]) \in Nat
                       /\ slot[c][nonce[c] + 1] # 0
  BY <1>0, <1>t DEF Deployed, BothDone, HasReceipt, Inductive, RequestsOfRun, TypeOK
<1>2. \A c \in Chain : /\ nonce[c] + 1 \in 1..Len(slot[c])
                       /\ slot[c][nonce[c] + 1] \in Nat
                       /\ slot[c][nonce[c] + 1] <= height[c]
  <2> TAKE c \in Chain
  <2>1. nonce[c] + 1 \in 1..Len(slot[c])
    BY <1>1
  <2>2. slot[c] \in Seq(Nat)
    BY <1>t DEF TypeOK
  <2> QED BY <2>1, <2>2 DEF Inductive, KnownIsSound
<1>3. \A k \in Relay : DeployedAt(k) \in Nat /\ DeployedAt(k) <= height[Reads[k]]
  BY <1>2, DatabasesExist DEF DeployedAt
<1>4. TypeOK'
  <2>1. db' \in Databases
    BY <1>0, <1>3, <1>t DEF Databases, TypeOK
  <2> QED BY <1>0, <1>t, <2>1 DEF TypeOK
<1>5. FileShape'
  BY <1>0 DEF Inductive, FileShape
<1>6. KnownIsSound'
  <2>1. /\ \A c \in Chain : db'.contract[c] = nonce[c]
        /\ \A k \in Relay : db'.checked[k] = DeployedAt(k)
    BY <1>0
  <2> QED BY <1>0, <1>1, <1>3, <2>1 DEF Inductive, KnownIsSound, Sound
<1>7. RequestsOfRun'
  BY <1>0 DEF Inductive, RequestsOfRun, Deployment
<1>8. QuietIsOwn'
  BY <1>0 DEF Inductive, QuietIsOwn, ReadBefore, Chain
<1> QED BY <1>4, <1>5, <1>6, <1>7, <1>8 DEF Inductive

\* Creating the file.
LEMMA CreateFileInductive ==
  ASSUME Inductive, CreateFile
  PROVE  Inductive'
<1> USE DEF nodeVars
<1>t. TypeOK
  BY DEF Inductive
<1>0. /\ phase = "Create" /\ phase' = "Save" /\ file' = CreatedFile
      /\ UNCHANGED <<why, running, run, nonce, quiet, result, db, net, slot, height>>
  BY DEF CreateFile
<1>c. CreatedFile = [there |-> TRUE, db |-> NoDatabase, length |-> 0,
                     loads |-> FALSE, hand |-> FALSE]
  BY DEF CreatedFile, MissingFile, NothingIn
<1>1. TypeOK'
  <2>1. file' \in [there : BOOLEAN, db : Databases, length : Nat,
                   loads : BOOLEAN, hand : BOOLEAN]
    BY <1>0, <1>c, DatabasesExist
  <2> QED BY <1>0, <1>t, <2>1 DEF TypeOK
<1>2. FileShape'
  BY <1>0, <1>c DEF FileShape
<1>3. KnownIsSound'
  <2>1. SoundIn(NoDatabase, slot, height)
    BY <1>t, NothingIsSound DEF TypeOK
  <2>2. file'.db = NoDatabase
    BY <1>0, <1>c
  <2> QED BY <1>0, <2>1, <2>2 DEF Inductive, KnownIsSound, Sound, SoundIn
<1>4. RequestsOfRun'
  BY <1>0 DEF Inductive, RequestsOfRun, Deployment
<1>5. QuietIsOwn'
  BY <1>0 DEF Inductive, QuietIsOwn, ReadBefore, Chain
<1> QED BY <1>1, <1>2, <1>3, <1>4, <1>5 DEF Inductive

\* Writing the file for the first time: it was empty.
LEMMA SaveNewInductive ==
  ASSUME Inductive, SaveNew
  PROVE  Inductive'
<1> USE DEF nodeVars
<1>t. TypeOK
  BY DEF Inductive
<1>0. /\ phase = "Save" /\ phase' = "Run" /\ file' \in Saved(file, db)
      /\ UNCHANGED <<why, running, run, nonce, quiet, result, db, net, slot, height>>
  BY DEF SaveNew
<1>1. file.length = 0 /\ ~file.hand /\ file.hand \in BOOLEAN
  BY <1>0, <1>t DEF Inductive, FileShape, CreatedFile, NothingIn, TypeOK
<1>2. db \in Databases /\ Length(db) \in Nat /\ 0 <= Length(db)
  BY <1>t, LengthGrows DEF TypeOK
<1>3. /\ file'.there /\ file'.db = db /\ ~file'.hand /\ file'.loads
      /\ file'.length = Length(db) /\ file'.length # 0
      /\ file' \in [there : BOOLEAN, db : Databases, length : Nat,
                    loads : BOOLEAN, hand : BOOLEAN]
  BY <1>0, <1>1, <1>2, SavedIsExact
<1>4. TypeOK'
  BY <1>0, <1>3, <1>t DEF TypeOK
<1>5. FileShape'
  BY <1>0, <1>3 DEF FileShape
<1>6. KnownIsSound'
  BY <1>0, <1>3 DEF Inductive, KnownIsSound, Sound
<1>7. RequestsOfRun'
  BY <1>0 DEF Inductive, RequestsOfRun, Deployment
<1>8. QuietIsOwn'
  BY <1>0 DEF Inductive, QuietIsOwn, ReadBefore, Chain
<1> QED BY <1>4, <1>5, <1>6, <1>7, <1>8 DEF Inductive

\* Writing it again: a checkpoint moves on, and the text is not shorter.
LEMMA CheckInductive ==
  ASSUME Inductive, NEW k \in Relay, NEW b, Check(k, b)
  PROVE  Inductive'
<1> USE DEF nodeVars
<1>t. TypeOK
  BY DEF Inductive
<1>0. /\ phase = "Run" /\ db' = [db EXCEPT !.checked[k] = b]
      /\ file' \in Saved(file, db')
      /\ UNCHANGED <<phase, why, running, run, nonce, quiet, result, net, slot, height>>
  BY DEF Check
<1>1. b \in Nat /\ b <= height[Reads[k]] /\ b > db.checked[k]
  BY <1>t, DatabasesExist DEF Check, NextChecked, TypeOK
<1>2. /\ db' \in Databases /\ db'.contract = db.contract
      /\ db'.checked = [db.checked EXCEPT ![k] = b]
  BY <1>0, <1>1, <1>t DEF TypeOK, Databases
<1>3. \A j \in Relay : /\ db.checked[j] \in Nat /\ db'.checked[j] \in Nat
                       /\ db.checked[j] <= db'.checked[j]
                       /\ j # k => db'.checked[j] = db.checked[j]
                       /\ db'.checked[k] = b
  BY <1>1, <1>2, <1>t DEF TypeOK, Databases
<1>4. /\ Length(db) \in Nat /\ Length(db') \in Nat /\ Length(db) <= Length(db')
  BY <1>2, <1>3, <1>t, LengthGrows DEF TypeOK
<1>5. /\ file.there /\ file.length # 0 /\ db = file.db /\ file.length \in Nat
      /\ file.hand \in BOOLEAN
  BY <1>0, <1>t DEF Inductive, FileShape, TypeOK
<1>6. ~file.hand => file.length = Length(db)
  BY <1>5 DEF Inductive, FileShape, MissingFile, CreatedFile, NothingIn
<1>7. /\ file'.there /\ file'.db = db' /\ file'.hand = file.hand
      /\ file'.length # 0
      /\ ~file.hand => file'.loads /\ file'.length = Length(db')
      /\ file' \in [there : BOOLEAN, db : Databases, length : Nat,
                    loads : BOOLEAN, hand : BOOLEAN]
  <2>1. ~file.hand => file.length <= Length(db')
    BY <1>4, <1>5, <1>6
  <2> QED BY <1>0, <1>2, <1>5, <2>1, SavedIsExact
<1>8. TypeOK'
  BY <1>0, <1>2, <1>7, <1>t DEF TypeOK
<1>9. FileShape'
  BY <1>0, <1>7 DEF FileShape
<1>10. KnownIsSound'
  <2>1. \A j \in Relay : db'.checked[j] <= height[Reads[j]]
    BY <1>1, <1>3 DEF Inductive, KnownIsSound, Sound
  <2>2. Sound(db)'
    BY <1>0, <1>2, <2>1 DEF Inductive, KnownIsSound, Sound
  <2> QED BY <1>0, <1>7, <2>2 DEF Inductive, KnownIsSound, Sound
<1>11. RequestsOfRun'
  BY <1>0 DEF Inductive, RequestsOfRun, Deployment
<1>12. QuietIsOwn'
  BY <1>0 DEF Inductive, QuietIsOwn, ReadBefore, Chain
<1> QED BY <1>8, <1>9, <1>10, <1>11, <1>12 DEF Inductive

\* Ctrl-C only sets the flag.
LEMMA CtrlCInductive ==
  ASSUME Inductive, CtrlC
  PROVE  Inductive'
<1> USE DEF nodeVars, CtrlC
<1>1. TypeOK'
  BY DEF Inductive, TypeOK
<1>2. FileShape' /\ KnownIsSound'
  BY DEF Inductive, FileShape, KnownIsSound, Sound
<1>3. RequestsOfRun' /\ QuietIsOwn'
  BY DEF Inductive, RequestsOfRun, QuietIsOwn, ReadBefore, Chain
<1> QED BY <1>1, <1>2, <1>3 DEF Inductive

\* The supervisor does not start a process that was told to shut down, so
\* every request under way is of an earlier run.
LEMMA StartInductive ==
  ASSUME Inductive, Start
  PROVE  Inductive'
<1> USE DEF nodeVars
<1>0. /\ phase = "Ended" /\ why # "ShutdownRequested"
      /\ phase' = "Config" /\ running' = TRUE /\ why' = "none"
      /\ UNCHANGED <<run, nonce, quiet, result, db, file, net, slot, height>>
  <2>1. Code("ShutdownRequested") = 3
    BY DEF Code
  <2> QED BY <2>1 DEF Start
<1>1. TypeOK'
  BY <1>0 DEF Inductive, TypeOK
<1>2. FileShape' /\ KnownIsSound'
  BY <1>0 DEF Inductive, FileShape, KnownIsSound, Sound
<1>3. RequestsOfRun'
  BY <1>0 DEF Inductive, RequestsOfRun, Deployment
<1>4. QuietIsOwn'
  BY <1>0 DEF Inductive, QuietIsOwn, ReadBefore, Chain
<1> QED BY <1>1, <1>2, <1>3, <1>4 DEF Inductive

-----------------------------------------------------------------------------
(* The nodes' steps.                                                       *)

\* A request that is lost leaves less to worry about.
LEMMA LoseInductive ==
  ASSUME Inductive, NEW r \in net, Lose(r)
  PROVE  Inductive'
<1>0. net' \subseteq net /\ UNCHANGED <<processVars, file, slot, height>>
  BY DEF Lose
<1> USE <1>0 DEF processVars
<1>1. TypeOK'
  BY DEF Inductive, TypeOK
<1>2. FileShape' /\ KnownIsSound'
  BY DEF Inductive, FileShape, KnownIsSound, Sound
<1>3. RequestsOfRun'
  BY DEF Inductive, RequestsOfRun
<1>4. QuietIsOwn'
  BY DEF Inductive, QuietIsOwn, ReadBefore, Chain
<1> QED BY <1>1, <1>2, <1>3, <1>4 DEF Inductive

\* New blocks: transactions are mined, or not; contracts stay.
LEMMA MineInductive ==
  ASSUME Inductive, NEW c \in Chain, Mine(c) \/ MineEmpty(c)
  PROVE  Inductive'
<1>t. TypeOK
  BY DEF Inductive
<1>0. /\ height' = [height EXCEPT ![c] = @ + 1]
      /\ UNCHANGED <<processVars, file, net>>
  BY DEF Mine, MineEmpty
<1>1. /\ height' \in [Chain -> Nat]
      /\ \A e \in Chain : height[e] \in Nat /\ height[e] <= height'[e]
  BY <1>0, <1>t DEF TypeOK
<1>2. /\ slot' \in [Chain -> Seq(Nat)]
      /\ \A e \in Chain :
           /\ Len(slot'[e]) = Len(slot[e])
           /\ \A i \in 1..Len(slot[e]) : /\ slot[e][i] # 0 => slot'[e][i] # 0
                                         /\ slot'[e][i] <= height'[e]
  <2>s. slot \in [Chain -> Seq(Nat)]
    BY <1>t DEF TypeOK
  <2>h. \A e \in Chain : \A i \in 1..Len(slot[e]) :
           slot[e][i] \in Nat /\ slot[e][i] <= height[e]
    BY <2>s DEF Inductive, KnownIsSound
  <2>1. CASE slot' = slot
    BY <1>1, <2>1, <2>s, <2>h
  <2>2. CASE Mine(c)
    <3> DEFINE s == slot[c]
               t == [i \in 1..Len(s) |-> IF s[i] = 0 THEN height'[c] ELSE s[i]]
    <3>1. s \in Seq(Nat) /\ DOMAIN s = 1..Len(s) /\ Len(s) \in Nat
      BY <2>s
    <3>2. slot' = [slot EXCEPT ![c] = t]
      BY <2>2, <3>1 DEF Mine
    <3>3. t \in Seq(Nat) /\ Len(t) = Len(s)
      <4>1. \A i \in 1..Len(s) : (IF s[i] = 0 THEN height'[c] ELSE s[i]) \in Nat
        BY <1>1, <2>h
      <4> QED BY <3>1, <4>1
    <3>4. height'[c] # 0
      BY <1>0, <1>t DEF TypeOK
    <3>5. \A i \in 1..Len(s) : /\ s[i] # 0 => t[i] # 0
                               /\ t[i] <= height'[c]
      BY <1>1, <2>h, <3>4
    <3> HIDE DEF t
    <3>6. slot'[c] = t /\ \A e \in Chain \ {c} : slot'[e] = slot[e]
      BY <2>s, <3>2
    <3>7. slot' \in [Chain -> Seq(Nat)]
      BY <2>s, <3>2, <3>3
    <3>8. ASSUME NEW e \in Chain \ {c}, NEW i \in 1..Len(slot[e])
          PROVE  slot'[e][i] <= height'[e]
      BY <1>1, <2>h, <3>6
    <3> QED BY <3>3, <3>5, <3>6, <3>7, <3>8
  <2> QED BY <2>1, <2>2 DEF MineEmpty
<1>3. TypeOK'
  BY <1>0, <1>1, <1>2, <1>t DEF TypeOK, processVars
<1>4. FileShape'
  BY <1>0 DEF Inductive, FileShape, processVars
<1>5. KnownIsSound'
  <2>1. Grows(slot, height, slot', height')
    <3>1. slot \in [Chain -> Seq(Nat)] /\ height \in [Chain -> Nat]
      BY <1>t DEF TypeOK
    <3>2. \A e \in Chain :
            /\ Len(slot[e]) <= Len(slot'[e]) /\ height[e] <= height'[e]
            /\ \A i \in 1..Len(slot[e]) : slot[e][i] # 0 => slot'[e][i] # 0
      BY <1>1, <1>2, <3>1
    <3> QED BY <1>1, <1>2, <3>1, <3>2 DEF Grows
  <2>2. SoundIn(file.db, slot, height) /\ SoundIn(db, slot, height)
    BY DEF Inductive, KnownIsSound, Sound, SoundIn
  <2>3. file.db \in Databases /\ db \in Databases
    BY <1>t DEF TypeOK
  <2>4. SoundIn(file.db, slot', height') /\ SoundIn(db, slot', height')
    BY <2>1, <2>2, <2>3, SoundStays
  <2> QED BY <1>0, <1>2, <2>4 DEF KnownIsSound, Sound, SoundIn, processVars
<1>6. RequestsOfRun'
  BY <1>0, <1>2 DEF Inductive, RequestsOfRun, processVars
<1>7. QuietIsOwn'
  BY <1>0, <1>2 DEF Inductive, QuietIsOwn, ReadBefore, Chain, processVars
<1> QED BY <1>3, <1>4, <1>5, <1>6, <1>7 DEF Inductive

\* A request reaches its node.  If its sender found the chain quiet, the
\* nonce is the node's next, and the transaction is new.
LEMMA ArriveInductive ==
  ASSUME Inductive, NEW r \in net, Arrive(r)
  PROVE  Inductive'
<1> DEFINE new == r.nonce >= Len(slot[r.chain])
<1>t. TypeOK
  BY DEF Inductive
<1>r. r.chain \in Chain /\ r.nonce \in Nat /\ r.run \in Nat /\ r.nonce <= Len(slot[r.chain])
  BY <1>t DEF TypeOK
<1>0. /\ net' = net \ {r}
      /\ slot' = IF new THEN [slot EXCEPT ![r.chain] = Append(@, 0)] ELSE slot
      /\ result' = IF phase = "Deploying" /\ r.run = run
                   THEN [result EXCEPT ![r.chain] = IF new THEN "Accepted" ELSE "Ignored"]
                   ELSE result
      /\ UNCHANGED <<phase, why, running, run, nonce, quiet, db, file, height>>
  BY DEF Arrive
<1>1. /\ slot' \in [Chain -> Seq(Nat)]
      /\ \A c \in Chain \ {r.chain} : slot'[c] = slot[c]
      /\ \A c \in Chain :
           /\ Len(slot[c]) \in Nat /\ Len(slot'[c]) \in Nat
           /\ Len(slot[c]) <= Len(slot'[c])
           /\ \A i \in 1..Len(slot[c]) : slot'[c][i] = slot[c][i]
           /\ \A i \in 1..Len(slot'[c]) : i \in 1..Len(slot[c]) \/ slot'[c][i] = 0
      /\ new => Len(slot'[r.chain]) = Len(slot[r.chain]) + 1
  <2>s. slot \in [Chain -> Seq(Nat)]
    BY <1>t DEF TypeOK
  <2>1. CASE ~new
    <3>1. slot' = slot
      BY <1>0, <2>1
    <3> QED BY <2>1, <2>s, <3>1
  <2>2. CASE new
    <3> DEFINE s == slot[r.chain]
               a == Append(s, 0)
    <3>1. s \in Seq(Nat) /\ slot' = [slot EXCEPT ![r.chain] = a]
      BY <1>0, <1>r, <2>2, <2>s
    <3>2. /\ a \in Seq(Nat) /\ Len(s) \in Nat /\ Len(a) = Len(s) + 1
          /\ \A i \in 1..Len(s) : a[i] = s[i]
          /\ a[Len(s) + 1] = 0
      BY <3>1
    <3> HIDE DEF a
    <3>3. \A i \in 1..Len(a) : i \in 1..Len(s) \/ a[i] = 0
      <4> TAKE i \in 1..Len(a)
      <4>1. i \in 1..Len(s) \/ i = Len(s) + 1
        BY <3>2
      <4> QED BY <3>2, <4>1
    <3>4. slot'[r.chain] = a /\ \A c \in Chain \ {r.chain} : slot'[c] = slot[c]
      BY <1>r, <2>s, <3>1
    <3>5. slot' \in [Chain -> Seq(Nat)]
      BY <2>s, <3>1, <3>2
    <3>6. ASSUME NEW c \in Chain
          PROVE  /\ Len(slot[c]) \in Nat /\ Len(slot'[c]) \in Nat
                 /\ Len(slot[c]) <= Len(slot'[c])
                 /\ \A i \in 1..Len(slot[c]) : slot'[c][i] = slot[c][i]
                 /\ \A i \in 1..Len(slot'[c]) :
                      i \in 1..Len(slot[c]) \/ slot'[c][i] = 0
      <4>1. CASE c = r.chain
        BY <3>2, <3>3, <3>4, <4>1
      <4>2. CASE c # r.chain
        <5>1. slot'[c] = slot[c] /\ Len(slot[c]) \in Nat
          BY <2>s, <3>4, <4>2
        <5> QED BY <5>1
      <4> QED BY <4>1, <4>2
    <3> QED BY <3>2, <3>4, <3>5, <3>6
  <2> QED BY <2>1, <2>2
<1>2. /\ result' \in [Chain -> {"None", "Sent", "Accepted", "Ignored"}]
      /\ \A c \in Chain \ {r.chain} : result'[c] = result[c]
      /\ (phase = "Deploying" /\ r.run = run) =>
            result'[r.chain] = IF new THEN "Accepted" ELSE "Ignored"
      /\ ~(phase = "Deploying" /\ r.run = run) => result' = result
  <2> HIDE DEF new
  <2> QED BY <1>0, <1>r, <1>t DEF TypeOK
<1>3. TypeOK'
  <2>1. ASSUME NEW q \in net PROVE q.nonce <= Len(slot'[q.chain])
    <3>1. /\ q.chain \in Chain /\ q.nonce \in Nat
          /\ q.nonce <= Len(slot[q.chain])
      BY <1>t DEF TypeOK
    <3> QED BY <1>1, <3>1
  <2> QED BY <1>0, <1>1, <1>2, <1>t, <2>1 DEF TypeOK
<1>4. FileShape'
  BY <1>0 DEF Inductive, FileShape
<1>5. KnownIsSound'
  <2>1. Grows(slot, height, slot', height')
    BY <1>0, <1>1, <1>t DEF Grows, TypeOK
  <2>2. SoundIn(file.db, slot, height) /\ SoundIn(db, slot, height)
    BY DEF Inductive, KnownIsSound, Sound, SoundIn
  <2>3. file.db \in Databases /\ db \in Databases
    BY <1>t DEF TypeOK
  <2>4. SoundIn(file.db, slot', height') /\ SoundIn(db, slot', height')
    BY <2>1, <2>2, <2>3, SoundStays
  <2>5. ASSUME NEW c \in Chain, NEW i \in 1..Len(slot'[c])
        PROVE  slot'[c][i] <= height[c]
    <3>1. CASE i \in 1..Len(slot[c])
      BY <1>1, <3>1 DEF Inductive, KnownIsSound
    <3>2. CASE slot'[c][i] = 0
      BY <1>t, <3>2 DEF TypeOK
    <3> QED BY <1>1, <3>1, <3>2
  <2> QED BY <1>0, <2>4, <2>5 DEF KnownIsSound, Sound, SoundIn
<1>6. RequestsOfRun'
  <2>1. \A c \in Chain : nonce[c] <= Len(slot'[c])
    <3> TAKE c \in Chain
    <3>1. nonce[c] \in Nat /\ nonce[c] <= Len(slot[c])
      BY <1>t DEF TypeOK, Inductive, RequestsOfRun
    <3> QED BY <1>1, <3>1
  <2>2. ASSUME NEW c \in Chain, phase = "Deploying", result'[c] = "Accepted"
        PROVE  nonce[c] < Len(slot'[c])
    <3>1. nonce[c] \in Nat
      BY <1>t DEF TypeOK
    <3>2. CASE c = r.chain /\ r.run = run
      <4>1. new
        BY <1>2, <2>2, <3>2
      <4>2. r.nonce = nonce[c]
        BY <2>2, <3>2 DEF Inductive, RequestsOfRun
      <4> QED BY <1>1, <1>r, <3>1, <3>2, <4>1, <4>2
    <3>3. CASE c # r.chain \/ r.run # run
      <4>1. result[c] = "Accepted"
        BY <1>2, <2>2, <3>3
      <4>2. nonce[c] < Len(slot[c])
        BY <2>2, <4>1 DEF Inductive, RequestsOfRun
      <4> QED BY <1>1, <3>1, <4>2
    <3> QED BY <3>2, <3>3
  <2>3. phase \notin Deployment => \A c \in Chain : result'[c] = "None"
    BY <1>2 DEF Inductive, RequestsOfRun, Deployment
  <2> QED BY <1>0, <2>1, <2>2, <2>3 DEF Inductive, RequestsOfRun
<1>7. QuietIsOwn'
  <2> SUFFICES ASSUME NEW c \in Chain, quiet[c]
               PROVE  /\ phase \in ReadBefore[c] =>
                           /\ nonce[c] = Len(slot'[c])
                           /\ \A q \in net' : q.chain # c
                      /\ phase = "Deploying" =>
                           /\ \A q \in net' : q.chain = c =>
                                (q.run = run /\ result'[c] = "Sent")
                           /\ result'[c] = "Sent" => nonce[c] = Len(slot'[c])
                      /\ result'[c] # "Ignored"
    BY <1>0 DEF QuietIsOwn
  <2>q. /\ phase \in ReadBefore[c] =>
             /\ nonce[c] = Len(slot[c])
             /\ \A q \in net : q.chain # c
        /\ phase = "Deploying" =>
             /\ \A q \in net : q.chain = c => (q.run = run /\ result[c] = "Sent")
             /\ result[c] = "Sent" => nonce[c] = Len(slot[c])
        /\ result[c] # "Ignored"
    BY DEF Inductive, QuietIsOwn
  <2>1. CASE c # r.chain
    BY <1>0, <1>1, <1>2, <2>1, <2>q
  <2>2. CASE c = r.chain /\ phase # "Deploying"
    <3>1. phase \notin ReadBefore[c]
      BY <2>2, <2>q
    <3> QED BY <1>2, <2>2, <2>q, <3>1
  <2>3. CASE c = r.chain /\ phase = "Deploying"
    <3>1. r.run = run /\ nonce[c] = Len(slot[c])
      BY <2>3, <2>q
    <3>2. \A q \in net : q.chain = c => q.run = run /\ q.nonce = nonce[c]
      BY <2>3, <2>q DEF Inductive, RequestsOfRun
    <3>3. new
      BY <1>r, <2>3, <3>1, <3>2
    <3>4. result'[c] = "Accepted"
      BY <1>2, <2>3, <3>1, <3>3
    <3>5. ASSUME NEW q \in net, q.chain = c PROVE q = r
      <4>1. /\ q = [chain |-> q.chain, nonce |-> q.nonce, run |-> q.run]
            /\ r = [chain |-> r.chain, nonce |-> r.nonce, run |-> r.run]
        BY <1>t DEF TypeOK
      <4>2. q.nonce = r.nonce /\ q.run = r.run
        BY <2>3, <3>2, <3>5
      <4> QED BY <2>3, <3>5, <4>1, <4>2
    <3>6. phase \notin ReadBefore[c]
      BY <2>3 DEF ReadBefore, Chain
    <3> QED BY <1>0, <3>4, <3>5, <3>6
  <2> QED BY <2>1, <2>2, <2>3
<1> QED BY <1>3, <1>4, <1>5, <1>6, <1>7 DEF Inductive

-----------------------------------------------------------------------------
(* The theorems.                                                           *)

\* Every step preserves the invariant.
LEMMA NextInductive == Inductive /\ [Next]_vars => Inductive'
<1> SUFFICES ASSUME Inductive, [Next]_vars PROVE Inductive'
  OBVIOUS
<1>1. CASE LoadConfig \/ NewHttp \/ ChainId
  BY <1>1, EarlyStep DEF LoadConfig, NewHttp, ChainId, Goes
<1>2. CASE ReadNonces
  BY <1>2, ReadNonceInductive
<1>3. CASE LoadExisting
  BY <1>3, LoadExistingInductive
<1>4. CASE LoadFails
  <2>1. phase \notin Deployment /\ phase # "Ended"
    BY <1>4 DEF LoadFails, Deployment
  <2> QED BY <1>4, <2>1, EndInductive DEF LoadFails
<1>5. CASE StartDeploying
  BY <1>5, StartDeployingInductive
<1>6. CASE Deployed
  BY <1>6, DeployedInductive
<1>7. CASE ReceiptWithoutAddress
  BY <1>7, EndInductive DEF ReceiptWithoutAddress
<1>8. CASE CreateFile
  BY <1>8, CreateFileInductive
<1>9. CASE SaveNew
  BY <1>9, SaveNewInductive
<1>10. CASE Shutdown
  BY <1>10, EndInductive DEF Shutdown
<1>11. CASE Fails
  BY <1>11, EndInductive
     DEF Fails, Fault, LoadConfigFails, NewHttpFails, ChainIdFails,
         ReadNonceFails, DeployFails, CreateFails, SaveNewFails, BridgeFails, Kill
<1>12. CASE Start
  BY <1>12, StartInductive
<1>13. CASE CtrlC
  BY <1>13, CtrlCInductive
<1>14. ASSUME NEW k \in Relay, NEW b, Check(k, b) PROVE Inductive'
  BY <1>14, CheckInductive
<1>15. ASSUME NEW r \in net, Arrive(r) \/ Lose(r) PROVE Inductive'
  BY <1>15, ArriveInductive, LoseInductive
<1>16. ASSUME NEW c \in Chain, Mine(c) \/ MineEmpty(c) PROVE Inductive'
  BY <1>16, MineInductive
<1>17. CASE UNCHANGED vars
  <2> USE <1>17 DEF vars, processVars, nodeVars
  <2>1. TypeOK'
    BY DEF Inductive, TypeOK
  <2>2. FileShape' /\ KnownIsSound'
    BY DEF Inductive, FileShape, KnownIsSound, Sound
  <2>3. RequestsOfRun' /\ QuietIsOwn'
    BY DEF Inductive, RequestsOfRun, QuietIsOwn, ReadBefore, Chain
  <2> QED BY <2>1, <2>2, <2>3 DEF Inductive
<1> QED BY <1>1, <1>2, <1>3, <1>4, <1>5, <1>6, <1>7, <1>8, <1>9, <1>10,
           <1>11, <1>12, <1>13, <1>14, <1>15, <1>16, <1>17 DEF Next, Proceed

\* Through all processes, their ends and restarts: the types hold, the file
\* has the shape FileShape says, and each request belongs to the run and the
\* nonce its sender read.
THEOREM StartupInvariant == Spec => []Inductive
<1> QED BY InitInductive, NextInductive, PTL DEF Spec

\* What the program wrote it can read back, though save does not truncate.
THEOREM FileLoads == Spec => []SavedFileLoads
<1>1. Inductive => SavedFileLoads
  <2> SUFFICES ASSUME Inductive, file.there, ~file.hand
               PROVE  file.loads \/ file.length = 0
    BY DEF SavedFileLoads
  <2>1. file \in {MissingFile, CreatedFile} => file.length = 0
    BY DEF MissingFile, CreatedFile, NothingIn
  <2> QED BY <2>1 DEF Inductive, FileShape
<1> QED BY <1>1, StartupInvariant, PTL

\* Whatever ended the processes before, the contracts in the file are there,
\* and no checkpoint is ahead of its chain.
THEOREM DatabaseAlwaysSound == Spec => []DatabaseIsSound
<1>1. Inductive => DatabaseIsSound
  BY DEF Inductive, KnownIsSound, FileShape, DatabaseIsSound
<1> QED BY <1>1, StartupInvariant, PTL

\* A deployment is only ignored if an older request was still under way when
\* the nonce was read.
THEOREM QuietAlwaysDeploys == Spec => []QuietStartDeploys
<1>1. Inductive => QuietStartDeploys
  BY DEF Inductive, QuietIsOwn, QuietStartDeploys
<1> QED BY <1>1, StartupInvariant, PTL

-----------------------------------------------------------------------------
(* Counting deployments.                                                   *)

\* The largest number of deployments per chain that processes have sent so far.
Allowed == run + (IF phase \in Deployment \/ why = "ShutdownRequested" THEN 1 ELSE 0)

\* It is a number, before a step and after it.
LEMMA AllowedIsNat ==
  (run \in Nat => Allowed \in Nat) /\ (run' \in Nat => Allowed' \in Nat)
BY DEF Allowed

\* Requests to a chain, counted.
LEMMA RequestsAreFinite ==
  ASSUME IsFiniteSet(net), NEW c
  PROVE  IsFiniteSet(RequestsTo(c)) /\ Cardinality(RequestsTo(c)) \in Nat
BY FS_Subset, FS_CardinalityType DEF RequestsTo

\* A step that sends nothing, creates nothing and ends no process without
\* counting it, and that leaves the operator's contracts in the file.
LEMMA CountKept ==
  ASSUME TypeOK, DeploymentsCounted, net' = net, run' \in Nat,
         \A c \in Chain : Len(slot'[c]) = Len(slot[c]),
         Allowed <= Allowed',
         \A c \in Chain : file'.length # 0 /\ file'.db.contract[c] = Given =>
                            file.length # 0 /\ file.db.contract[c] = Given,
         phase' \in {"Create", "Save"} => \A c \in Chain : db'.contract[c] # Given,
         why' = "ShutdownRequested" => file'.length # 0
  PROVE  DeploymentsCounted'
<1>1. \A c \in Chain : RequestsTo(c)' = RequestsTo(c)
  BY DEF RequestsTo
<1>2. ASSUME NEW c \in Chain
      PROVE  Len(slot'[c]) + Cardinality(RequestsTo(c)') <= Allowed'
  <2>1. Len(slot[c]) + Cardinality(RequestsTo(c)) <= Allowed
    BY DEF DeploymentsCounted, Allowed
  <2>2. Len(slot[c]) \in Nat /\ Cardinality(RequestsTo(c)) \in Nat
    BY RequestsAreFinite DEF TypeOK, DeploymentsCounted
  <2>3. Allowed \in Nat /\ Allowed' \in Nat
    BY AllowedIsNat DEF TypeOK
  <2> QED BY <1>1, <2>1, <2>2, <2>3
<1> QED BY <1>1, <1>2 DEF DeploymentsCounted, Allowed

\* Initially nothing was sent.
LEMMA InitCounted == Init => DeploymentsCounted
<1> SUFFICES ASSUME Init PROVE DeploymentsCounted
  OBVIOUS
<1>1. IsFiniteSet(net) /\ \A c \in Chain : RequestsTo(c) = {}
  BY FS_EmptySet DEF Init, RequestsTo
<1>2. Cardinality({}) = 0
  BY FS_EmptySet
<1>3. \A c \in Chain : Len(slot[c]) = 0
  BY DEF Init
<1>4. phase = "Ended" /\ why = "none" /\ run = 0
  BY DEF Init
<1> QED BY <1>1, <1>2, <1>3, <1>4 DEF DeploymentsCounted, Deployment

\* A process sends one deployment per chain, and only while there is no file.
LEMMA StartDeployingCounted ==
  ASSUME Inductive, Inductive', DeploymentsCounted, StartDeploying
  PROVE  DeploymentsCounted'
<1> DEFINE own(c) == [chain |-> c, nonce |-> nonce[c], run |-> run]
<1>0. /\ phase = "Load" /\ phase' = "Deploying" /\ ~file.there /\ why = "none"
      /\ net' = net \cup {own(c) : c \in Chain}
      /\ UNCHANGED <<why, run, file, slot>>
  BY DEF StartDeploying, needsDeployment, Inductive, RequestsOfRun
<1>1. file'.length = 0
  <2>1. file' = MissingFile
    BY <1>0 DEF Inductive, FileShape
  <2> QED BY <2>1 DEF MissingFile, NothingIn
<1>2. IsFiniteSet(net')
  <2>1. net' = (net \cup {own("home")}) \cup {own("foreign")}
    BY <1>0 DEF Chain
  <2>2. IsFiniteSet(net \cup {own("home")})
    BY FS_AddElement DEF DeploymentsCounted
  <2> QED BY <2>1, <2>2, FS_AddElement
<1>3. ASSUME NEW c \in Chain
      PROVE  Len(slot[c]) + Cardinality(RequestsTo(c)') <= run + 1
  <2>1. RequestsTo(c)' = RequestsTo(c) \cup {own(c)}
    BY <1>0 DEF RequestsTo
  <2>2. IsFiniteSet(RequestsTo(c)) /\ Cardinality(RequestsTo(c)) \in Nat
    BY RequestsAreFinite DEF DeploymentsCounted
  <2>3. /\ Cardinality(RequestsTo(c)') \in Nat
        /\ Cardinality(RequestsTo(c)') <= Cardinality(RequestsTo(c)) + 1
    <3>1. Cardinality(RequestsTo(c)') =
            IF own(c) \in RequestsTo(c) THEN Cardinality(RequestsTo(c))
                                       ELSE Cardinality(RequestsTo(c)) + 1
      BY <2>1, <2>2, FS_AddElement
    <3> QED BY <2>2, <3>1
  <2>4. Len(slot[c]) + Cardinality(RequestsTo(c)) <= run
    <3>1. phase \notin Deployment /\ why # "ShutdownRequested"
      BY <1>0 DEF Deployment
    <3>2. run \in Nat
      BY DEF Inductive, TypeOK
    <3> QED BY <3>1, <3>2 DEF DeploymentsCounted
  <2>5. Len(slot[c]) \in Nat /\ run \in Nat
    BY DEF Inductive, TypeOK
  <2> QED BY <2>2, <2>3, <2>4, <2>5
<1> QED BY <1>0, <1>1, <1>2, <1>3 DEF DeploymentsCounted, Deployment

\* A request that arrives becomes at most one contract; a lost one, none.
LEMMA RequestGoneCounted ==
  ASSUME Inductive, DeploymentsCounted, NEW r \in net, Arrive(r) \/ Lose(r)
  PROVE  DeploymentsCounted'
<1>t. r.chain \in Chain /\ slot \in [Chain -> Seq(Nat)] /\ run \in Nat
  BY DEF Inductive, TypeOK
<1>0. /\ net' = net \ {r} /\ UNCHANGED <<phase, why, run, db, file>>
      /\ \/ slot' = slot
         \/ slot' = [slot EXCEPT ![r.chain] = Append(@, 0)]
  BY DEF Arrive, Lose, processVars
<1>1. IsFiniteSet(net')
  BY <1>0, FS_Subset DEF DeploymentsCounted
<1>2. ASSUME NEW c \in Chain
      PROVE  /\ Len(slot'[c]) + Cardinality(RequestsTo(c)') <= Allowed
             /\ file.length # 0 /\ file.db.contract[c] = Given =>
                  Len(slot'[c]) = 0 /\ RequestsTo(c)' = {}
  <2>0. /\ Len(slot[c]) \in Nat /\ Allowed \in Nat
        /\ IsFiniteSet(RequestsTo(c)) /\ Cardinality(RequestsTo(c)) \in Nat
        /\ Len(slot[c]) + Cardinality(RequestsTo(c)) <= Allowed
    BY <1>t, RequestsAreFinite DEF DeploymentsCounted, Allowed
  <2>1. CASE c # r.chain
    <3>1. slot'[c] = slot[c] /\ RequestsTo(c)' = RequestsTo(c)
      BY <1>0, <1>t, <2>1 DEF RequestsTo
    <3> QED BY <2>0, <3>1 DEF DeploymentsCounted
  <2>2. CASE c = r.chain
    <3>1. r \in RequestsTo(c) /\ RequestsTo(c)' = RequestsTo(c) \ {r}
      BY <1>0, <2>2 DEF RequestsTo
    <3>2. Cardinality(RequestsTo(c)') = Cardinality(RequestsTo(c)) - 1
      BY <2>0, <3>1, FS_RemoveElement
    <3>3. Len(slot'[c]) \in Nat /\ Len(slot'[c]) <= Len(slot[c]) + 1
      BY <1>0, <1>t, <2>2
    <3>4. ~(file.length # 0 /\ file.db.contract[c] = Given)
      BY <3>1 DEF DeploymentsCounted
    <3> QED BY <2>0, <3>2, <3>3, <3>4
  <2> QED BY <2>1, <2>2
<1> QED BY <1>0, <1>1, <1>2 DEF DeploymentsCounted, Allowed

\* The end of a process: by a fault, which is counted; told to, when the file
\* is written; or before it has deployed.
LEMMA EndCounted ==
  ASSUME Inductive, Inductive', DeploymentsCounted, NEW w, End(w), UNCHANGED file,
         \/ run' = run + 1 /\ w # "ShutdownRequested"
         \/ run' = run /\ w = "ShutdownRequested" /\ phase = "Run"
         \/ run' = run /\ w # "ShutdownRequested"
              /\ phase \notin Deployment /\ phase # "Ended"
  PROVE  DeploymentsCounted'
<1>1. /\ phase' = "Ended" /\ why' = w /\ UNCHANGED <<net, slot>>
  BY DEF End, nodeVars
<1>2. run \in Nat /\ run' \in Nat /\ TypeOK
  BY DEF Inductive, TypeOK
<1>3. Allowed <= Allowed'
  BY <1>1, <1>2 DEF Allowed, Deployment, Inductive, RequestsOfRun
<1>4. w = "ShutdownRequested" => file.length # 0
  BY DEF Inductive, FileShape
<1> QED BY <1>1, <1>2, <1>3, <1>4, CountKept

\* No step sends more than is allowed.
LEMMA NextCounted ==
  Inductive /\ Inductive' /\ DeploymentsCounted /\ [Next]_vars => DeploymentsCounted'
<1> SUFFICES ASSUME Inductive, Inductive', DeploymentsCounted, [Next]_vars
             PROVE  DeploymentsCounted'
  OBVIOUS
<1> USE DEF nodeVars
<1>t. TypeOK /\ run \in Nat /\ run' \in Nat
  BY DEF Inductive, TypeOK
<1>w. phase # "Ended" => why = "none"
  BY DEF Inductive, RequestsOfRun
<1>1. CASE LoadConfig \/ NewHttp \/ ChainId \/ ReadNonces \/ LoadExisting
  <2>1. /\ UNCHANGED <<why, run, file, net, slot>>
        /\ phase \notin Deployment \cup {"Ended"} /\ phase' \notin {"Create", "Save"}
    BY <1>1 DEF LoadConfig, NewHttp, ChainId, ReadNonces, ReadNonce, LoadExisting,
         Goes, Deployment
  <2>2. Allowed <= Allowed'
    BY <1>t, <1>w, <2>1 DEF Allowed
  <2> QED BY <1>t, <1>w, <2>1, <2>2, CountKept
<1>2. CASE LoadFails
  BY <1>2, EndCounted DEF LoadFails, Deployment
<1>3. CASE StartDeploying
  BY <1>3, StartDeployingCounted
<1>4. CASE Deployed
  <2>1. /\ UNCHANGED <<why, run, file, net, slot>> /\ db'.contract = nonce
        /\ phase = "Deploying" /\ phase' = "Create"
    BY <1>4 DEF Deployed, BothDone
  <2>2. \A c \in Chain : db'.contract[c] # Given
    BY <1>t, <2>1 DEF TypeOK, Given
  <2>3. Allowed <= Allowed'
    BY <1>t, <2>1 DEF Allowed, Deployment
  <2> QED BY <1>t, <1>w, <2>1, <2>2, <2>3, CountKept
<1>5. CASE ReceiptWithoutAddress
  BY <1>5, EndCounted DEF ReceiptWithoutAddress
<1>6. CASE CreateFile
  <2>1. /\ UNCHANGED <<why, run, db, net, slot>> /\ file' = CreatedFile
        /\ phase = "Create" /\ phase' = "Save"
    BY <1>6 DEF CreateFile
  <2>2. file'.length = 0
    BY <2>1 DEF CreatedFile, NothingIn
  <2>3. Allowed <= Allowed'
    BY <1>t, <2>1 DEF Allowed, Deployment
  <2> QED BY <1>t, <1>w, <2>1, <2>2, <2>3, CountKept DEF DeploymentsCounted
<1>7. CASE SaveNew
  <2>1. /\ UNCHANGED <<why, run, db, net, slot>> /\ file' \in Saved(file, db)
        /\ phase = "Save" /\ phase' = "Run"
    BY <1>7 DEF SaveNew
  <2>2. file'.db = db
    BY <2>1 DEF Inductive, FileShape
  <2>3. Allowed <= Allowed'
    BY <1>t, <2>1 DEF Allowed, Deployment
  <2> QED BY <1>t, <1>w, <2>1, <2>2, <2>3, CountKept DEF DeploymentsCounted
<1>8. CASE Shutdown
  BY <1>8, EndCounted DEF Shutdown, seesFlag
<1>9. CASE Fails
  <2>1. PICK w : End(w) /\ run' = run + 1 /\ UNCHANGED file /\ w # "ShutdownRequested"
    BY <1>9 DEF Fails, Fault, LoadConfigFails, NewHttpFails, ChainIdFails, BridgeError,
         ReadNonceFails, DeployFails, CreateFails, SaveNewFails, BridgeFails, Kill
  <2> QED BY <2>1, EndCounted
<1>10. CASE Start
  <2>1. /\ UNCHANGED <<run, db, file, net, slot>> /\ why' = "none"
        /\ phase = "Ended" /\ phase' = "Config" /\ why # "ShutdownRequested"
    <3>1. Code("ShutdownRequested") = 3
      BY DEF Code
    <3> QED BY <1>10, <3>1 DEF Start
  <2>2. Allowed <= Allowed'
    BY <1>t, <2>1 DEF Allowed, Deployment
  <2> QED BY <1>t, <2>1, <2>2, CountKept
<1>11. CASE CtrlC
  <2>1. UNCHANGED <<phase, why, run, db, file, net, slot>>
    BY <1>11 DEF CtrlC
  <2>2. Allowed <= Allowed'
    BY <1>t, <2>1 DEF Allowed
  <2> QED BY <1>t, <2>1, <2>2, CountKept DEF DeploymentsCounted
<1>12. ASSUME NEW k \in Relay, NEW b, Check(k, b) PROVE DeploymentsCounted'
  <2>1. /\ UNCHANGED <<phase, why, run, net, slot>> /\ file' \in Saved(file, db')
        /\ phase = "Run" /\ db' = [db EXCEPT !.checked[k] = b]
    BY <1>12 DEF Check
  <2>2. /\ file'.db = db' /\ db'.contract = db.contract
        /\ file.length # 0 /\ file.db = db
    BY <1>t, <2>1 DEF Saved, TypeOK, Databases, Inductive, FileShape
  <2>3. Allowed <= Allowed'
    BY <1>t, <2>1 DEF Allowed
  <2> QED BY <1>t, <1>w, <2>1, <2>2, <2>3, CountKept
<1>13. ASSUME NEW r \in net, Arrive(r) \/ Lose(r) PROVE DeploymentsCounted'
  BY <1>13, RequestGoneCounted
<1>14. ASSUME NEW c \in Chain, Mine(c) \/ MineEmpty(c) PROVE DeploymentsCounted'
  <2>1. UNCHANGED <<phase, why, run, db, file, net>>
    BY <1>14 DEF Mine, MineEmpty, processVars
  <2>2. \A e \in Chain : Len(slot'[e]) = Len(slot[e])
    <3>1. CASE MineEmpty(c)
      BY <3>1 DEF MineEmpty
    <3>2. CASE Mine(c)
      <4> DEFINE s == slot[c]
                 t == [i \in 1..Len(s) |-> IF s[i] = 0 THEN height'[c] ELSE s[i]]
      <4>1. /\ slot \in [Chain -> Seq(Nat)] /\ s \in Seq(Nat)
            /\ DOMAIN s = 1..Len(s) /\ Len(s) \in Nat
        BY <1>t DEF TypeOK
      <4>2. slot' = [slot EXCEPT ![c] = t]
        BY <3>2, <4>1 DEF Mine
      <4>3. slot'[c] = t /\ \A e \in Chain \ {c} : slot'[e] = slot[e]
        BY <4>1, <4>2
      <4>4. slot' \in [Chain -> Seq(Nat)]
        BY DEF Inductive, TypeOK
      <4>5. DOMAIN slot'[c] = 1..Len(s)
        BY <4>3
      <4>6. Len(slot'[c]) = Len(s)
        BY <4>1, <4>4, <4>5
      <4> QED BY <4>3, <4>6
    <3> QED BY <1>14, <3>1, <3>2
  <2>3. Allowed <= Allowed'
    BY <1>t, <2>1 DEF Allowed
  <2> QED BY <1>t, <2>1, <2>2, <2>3, CountKept DEF DeploymentsCounted
<1>15. CASE UNCHANGED vars
  BY <1>15 DEF vars, processVars, DeploymentsCounted, RequestsTo
<1> QED BY <1>1, <1>2, <1>3, <1>4, <1>5, <1>6, <1>7, <1>8, <1>9, <1>10,
           <1>11, <1>12, <1>13, <1>14, <1>15 DEF Next, Proceed

\* What is counted bounds what no file names: a process that runs has its
\* contract in the file, one that has not deployed yet has sent nothing.
LEMMA CountedOrphans == Inductive /\ DeploymentsCounted => OrphansNeedFaults
<1> SUFFICES ASSUME Inductive, DeploymentsCounted, NEW c \in Chain
             PROVE  Unrecorded(c) <=
                      run + (IF phase \in {"Deploying", "Create", "Save"} THEN 1 ELSE 0)
  BY DEF OrphansNeedFaults
<1> DEFINE All == 1..Len(slot[c])
           Others == {i \in All : i - 1 # file.db.contract[c]}
           R == Cardinality(RequestsTo(c))
<1>0. /\ Len(slot[c]) \in Nat /\ run \in Nat /\ R \in Nat /\ Allowed \in Nat
      /\ Len(slot[c]) + R <= Allowed
  BY RequestsAreFinite DEF DeploymentsCounted, Inductive, TypeOK, Allowed
<1>1. IsFiniteSet(All) /\ Cardinality(All) = Len(slot[c])
  <2>1. 1 \in Int /\ Len(slot[c]) \in Int
    BY <1>0
  <2>2. /\ IsFiniteSet(1..Len(slot[c]))
        /\ Cardinality(1..Len(slot[c])) =
             IF 1 > Len(slot[c]) THEN 0 ELSE Len(slot[c]) - 1 + 1
    BY <2>1, FS_Interval
  <2> QED BY <1>0, <2>2
<1>2. Cardinality(Others) \in Nat /\ Cardinality(Others) <= Len(slot[c])
  BY <1>1, FS_Subset, FS_CardinalityType
<1>3. CASE Allowed <= run + (IF phase \in {"Deploying", "Create", "Save"} THEN 1 ELSE 0)
  <2> HIDE DEF All, Others, R
  <2>1. Unrecorded(c) = Cardinality(Others) + R
    BY DEF Unrecorded, All, Others, R
  <2> QED BY <1>0, <1>2, <1>3, <2>1
<1>4. CASE phase = "Run" \/ why = "ShutdownRequested"
  <2>0. file.length # 0 /\ Allowed = run + 1
    BY <1>4 DEF DeploymentsCounted, Inductive, FileShape, Allowed, Deployment
  <2>1. CASE file.db.contract[c] = Given
    <3>1. Len(slot[c]) = 0 /\ R = 0
      BY <2>0, <2>1, FS_EmptySet DEF DeploymentsCounted
    <3>2. Cardinality(Others) = 0
      BY <1>0, <1>2, <3>1
    <3>3. Unrecorded(c) = 0
      BY <3>1, <3>2 DEF Unrecorded
    <3> QED BY <1>0, <3>3
  <2>2. CASE file.db.contract[c] # Given
    <3> DEFINE n == file.db.contract[c]
    <3>1. n \in Nat /\ n < Len(slot[c])
      BY <2>2 DEF Inductive, TypeOK, Databases, KnownIsSound, Sound
    <3>2. n + 1 \in All /\ Others = All \ {n + 1}
      BY <1>0, <3>1
    <3> HIDE DEF All, Others, R
    <3>3. Cardinality(Others) = Len(slot[c]) - 1
      BY <1>1, <3>2, FS_RemoveElement
    <3>4. Unrecorded(c) = Cardinality(Others) + R
      BY DEF Unrecorded, All, Others, R
    <3> QED BY <1>0, <2>0, <3>3, <3>4
  <2> QED BY <2>1, <2>2
<1>5. CASE phase # "Run" /\ why # "ShutdownRequested"
  <2>1. Allowed <= run + (IF phase \in {"Deploying", "Create", "Save"} THEN 1 ELSE 0)
    BY <1>0, <1>5 DEF Allowed, Deployment
  <2> QED BY <1>3, <2>1
<1> QED BY <1>4, <1>5

\* However many processes deploy and end, at whatever step, with requests lost
\* or late: on each chain no more contracts are left unused than faults ended
\* processes.
THEOREM OrphansAlwaysNeedFaults == Spec => []OrphansNeedFaults
<1>1. Spec => [](Inductive /\ DeploymentsCounted)
  BY StartupInvariant, InitCounted, NextCounted, PTL DEF Spec
<1> QED BY <1>1, CountedOrphans, PTL

\* No step changes the contracts a file names, though save writes all of the
\* database each time and a process whose file is missing deploys new ones.
LEMMA NextContractsStay ==
  ASSUME Inductive, Inductive', [Next]_vars, file.length # 0
  PROVE  file'.length # 0 /\ file'.db.contract = file.db.contract
<1> USE DEF nodeVars
<1>1. CASE UNCHANGED file
  BY <1>1
<1>2. CASE CreateFile \/ SaveNew
  <2>1. file = MissingFile \/ file = CreatedFile
    BY <1>2 DEF CreateFile, SaveNew, Inductive, FileShape
  <2> QED BY <2>1 DEF MissingFile, CreatedFile, NothingIn
<1>3. ASSUME NEW k \in Relay, NEW b, Check(k, b)
      PROVE  file'.length # 0 /\ file'.db.contract = file.db.contract
  <2>1. /\ phase = "Run" /\ phase' = "Run" /\ db' = [db EXCEPT !.checked[k] = b]
    BY <1>3 DEF Check
  <2>2. file'.length # 0 /\ file'.db = db' /\ file.db = db
    BY <2>1 DEF Inductive, FileShape
  <2>3. db'.contract = db.contract
    BY <2>1 DEF Inductive, TypeOK, Databases
  <2> QED BY <2>2, <2>3
<1>4. CASE Proceed /\ ~CreateFile /\ ~SaveNew
  BY <1>1, <1>4 DEF Proceed, LoadConfig, NewHttp, ChainId, ReadNonces, ReadNonce, Goes,
       LoadExisting, LoadFails, StartDeploying, Deployed, ReceiptWithoutAddress, Shutdown
<1>5. CASE Fails
  BY <1>1, <1>5 DEF Fails, LoadConfigFails, NewHttpFails, ChainIdFails,
       ReadNonceFails, DeployFails, CreateFails, SaveNewFails, BridgeFails, Kill
<1>6. CASE Start \/ CtrlC
  BY <1>1, <1>6 DEF Start, CtrlC
<1>7. ASSUME NEW r \in net, Arrive(r) \/ Lose(r) PROVE UNCHANGED file
  BY <1>7 DEF Arrive, Lose
<1>8. ASSUME NEW c \in Chain, Mine(c) \/ MineEmpty(c) PROVE UNCHANGED file
  BY <1>8 DEF Mine, MineEmpty
<1>9. CASE UNCHANGED vars
  BY <1>1, <1>9 DEF vars
<1> QED BY <1>1, <1>2, <1>3, <1>4, <1>5, <1>6, <1>7, <1>8, <1>9 DEF Next

\* Once a file holds contracts they stay the ones it names, through every save,
\* end and restart, and even if it can no longer be loaded.
THEOREM RecordedContractsStay == Spec => ContractsStay
<1>1. Inductive /\ Inductive' /\ [Next]_vars =>
        [file.length # 0 =>
           file'.length # 0 /\ file'.db.contract = file.db.contract]_vars
  BY NextContractsStay
<1> QED BY <1>1, StartupInvariant, PTL DEF Spec, ContractsStay
=============================================================================
