---------------------------- MODULE PrimitiveProofs ----------------------------
(***************************************************************************)
(* Proofs about the primitives in Agent.  Each family of primitives moves  *)
(* its own bindings; what the process, the clock and the other families do *)
(* to a binding is to leave it, to begin its call, or to end it (Rests).   *)
(* So an invariant about the calls under way is disturbed by the steps of  *)
(* one family only, and there it is proved step by step.                   *)
(***************************************************************************)
EXTENDS Agent, FiniteSetTheorems, TLAPS

\* The places of a call.
Stages ==
  {"idle", "called", "check", "waf", "nginx", "bans", "drops", "active", "store", "read",
   "listing", "waiting", "done"}

\* Where the calls of a beat are, and its clock.
BeatTypes ==
  /\ host \in Hosts
  /\ stage \in [Bindings -> Stages]
  /\ beat \in Nat /\ began \in Nat /\ offset \in Nat

\* What a step of another family does to a binding: it stays; the beat may also end or begin
\* its call.
Stays(b) == stage'[b] = stage[b]
Rests(b) == stage'[b] \in {stage[b], "idle", "called"}

\* A step to another stage leaves the stages of all other bindings.
LEMMA StepMoves ==
  ASSUME BeatTypes, NEW b \in Bindings, NEW s \in Stages, Step(b, s)
  PROVE  /\ stage' \in [Bindings -> Stages] /\ stage'[b] = s
         /\ \A c \in Bindings \ {b} : stage'[c] = stage[c]
         /\ UNCHANGED <<beat, began, offset>>
BY DEF BeatTypes, Step

\* The bindings of a family are bindings, and of no other family.
LEMMA Families ==
  /\ SnapshotBindings \subseteq Bindings /\ CpuBindings \subseteq Bindings
  /\ DockerBindings \subseteq Bindings /\ ProbeBindings \subseteq Bindings
  /\ SnapshotBindings \cap (CpuBindings \cup DockerBindings \cup ProbeBindings) = {}
  /\ CpuBindings \cap (DockerBindings \cup ProbeBindings) = {}
  /\ DockerBindings \cap ProbeBindings = {}
BY GroupsAssumption, SnapshotAssumption, CpuAssumption, DockerAssumption, ProbeAssumption

\* The process and the beat as a whole begin and end calls, and move none.
BeatNext ==
  \/ LaunchProcess \/ (\E p \in Processes : BootProcess(p))
  \/ KillProcess \/ StopProcess \/ EditProcessConfig \/ Collect
  \/ BeginsBeat \/ PassesTime \/ EndsBeat

\* A death of the unit's process resets what lives in it.
LEMMA BeatRests ==
  ASSUME BeatTypes, BeatNext
  PROVE  /\ BeatTypes' /\ UNCHANGED host
         /\ \A b \in Bindings : Rests(b)
         /\ UNCHANGED primitiveVars \/ Forget
<1>1. CASE \/ LaunchProcess \/ (\E p \in Processes : BootProcess(p))
           \/ StopProcess \/ EditProcessConfig \/ Collect
  BY <1>1 DEF LaunchProcess, BootProcess, StopProcess, EditProcessConfig, Collect, Living,
    BeatTypes, beatVars, Rests
<1>2. CASE KillProcess
  <2>1. CASE Forget
    BY <1>2, <2>1 DEF KillProcess, Forget, NewBeats, Now, BeatTypes, Rests, Stages
  <2>2. CASE Living
    BY <1>2, <2>2 DEF KillProcess, Living, BeatTypes, beatVars, Rests
  <2> QED
    BY <1>2, <2>1, <2>2 DEF KillProcess
<1>3. CASE BeginsBeat
  BY <1>3 DEF BeginsBeat, BeginBeat, BeatTypes, Rests, Stages
<1>4. CASE PassesTime
  BY <1>4 DEF PassesTime, PassTime, BeatTypes, Rests
<1>5. CASE EndsBeat
  <2>1. EndBeat /\ UNCHANGED host
    BY <1>5 DEF EndsBeat
  <2>2. began' \in Nat
    BY <2>1, BeatAssumption DEF EndBeat, Now, BeatTypes
  <2>3. beat' = beat + 1 /\ offset' = 0 /\ stage' = [b \in Bindings |-> "idle"]
    BY <2>1 DEF EndBeat
  <2>4. UNCHANGED primitiveVars
    BY <1>5 DEF EndsBeat
  <2> QED
    BY <2>1, <2>2, <2>3, <2>4 DEF BeatTypes, Rests, Stages
<1> QED
  BY <1>1, <1>2, <1>3, <1>4, <1>5 DEF BeatNext

\* The clock and the calls move in four ways, and in no other.
LEMMA BeatMoves ==
  ASSUME BeatNext
  PROVE  \/ UNCHANGED primitiveVars /\ (UNCHANGED beatVars \/ PassTime \/ BeginBeat \/ EndBeat)
         \/ Forget
BY DEF BeatNext, LaunchProcess, BootProcess, KillProcess, StopProcess, EditProcessConfig, Collect,
  Living, BeginsBeat, PassesTime, EndsBeat

\* A step of each family, as the others see it.
LEMMA SnapshotRests ==
  ASSUME BeatTypes, SnapshotNext
  PROVE  /\ BeatTypes' /\ UNCHANGED <<host, beat, began, offset>>
         /\ \A c \in Bindings \ SnapshotBindings : Stays(c) /\ Rests(c)
<1>1. PICK b \in SnapshotBindings : SnapshotStep(b)
  BY DEF SnapshotNext
<1>2. PICK s \in Stages : Step(b, s)
  <2>1. \A t \in Sections : Following[t] \in Stages
    BY DEF Sections, Following, Stages
  <2>2. {"check", "done", "waf"} \subseteq Stages
    BY DEF Stages
  <2> QED
    BY <1>1, <2>1, <2>2 DEF SnapshotStep, CallSnapshot, CheckCache, ScanSection, Store
<1>3. b \in Bindings
  BY Families
<1> QED
  BY <1>2, <1>3, StepMoves DEF SnapshotNext, BeatTypes, Stays, Rests

LEMMA CpuRests ==
  ASSUME BeatTypes, CpuNext
  PROVE  /\ BeatTypes' /\ UNCHANGED <<host, beat, began, offset>>
         /\ \A c \in Bindings \ CpuBindings : Stays(c) /\ Rests(c)
<1>1. PICK b \in CpuBindings : ReadCpu(b) \/ CommitCpu(b)
  BY DEF CpuNext
<1>2. PICK s \in Stages : Step(b, s)
  <2>1. {"read", "done"} \subseteq Stages
    BY DEF Stages
  <2> QED
    BY <1>1, <2>1 DEF ReadCpu, CommitCpu
<1>3. b \in Bindings
  BY Families
<1> QED
  BY <1>2, <1>3, StepMoves DEF CpuNext, BeatTypes, Stays, Rests

LEMMA ProbeRests ==
  ASSUME BeatTypes, ProbeNext \/ ProbeCut \/ ProbeEnded
  PROVE  /\ BeatTypes' /\ UNCHANGED <<host, beat, began, offset>>
         /\ \A c \in Bindings \ ProbeBindings : Stays(c) /\ Rests(c)
<1>1. \E b \in ProbeBindings, s \in Stages : Step(b, s)
  <2>1. {"waiting", "done"} \subseteq Stages
    BY DEF Stages
  <2> QED
    BY <2>1 DEF ProbeNext, ProbeCut, ProbeEnded, CallProbe, SecondSample, Cut, Ended, AnswerWith
<1>2. PICK b \in ProbeBindings, s \in Stages : Step(b, s)
  BY <1>1
<1>3. b \in Bindings
  BY Families
<1> QED
  BY <1>2, <1>3, StepMoves DEF ProbeNext, ProbeCut, ProbeEnded, BeatTypes, Stays, Rests

LEMMA DockerRests ==
  ASSUME BeatTypes, DockerNext \/ DockerCutOff \/ DockerAnswer
  PROVE  /\ BeatTypes' /\ UNCHANGED <<host, beat, began, offset>>
         /\ \A c \in Bindings \ DockerBindings : Stays(c) /\ Rests(c)
<1>1. (\E b \in DockerBindings, s \in Stages : Step(b, s)) \/ UNCHANGED beatVars
  <2>1. {"listing", "waiting", "done"} \subseteq Stages
    BY DEF Stages
  <2> QED
    BY <2>1 DEF DockerNext, DockerCutOff, DockerAnswer, DockerStep, CutOff, Answer, CallDocker,
      NextContainer, Return, FindClient, MakeClient, ListContainers, TakeReply
<1>2. CASE UNCHANGED beatVars
  BY <1>2 DEF DockerNext, DockerCutOff, DockerAnswer, BeatTypes, beatVars, Stays, Rests
<1>3. ASSUME NEW b \in DockerBindings, NEW s \in Stages, Step(b, s)
      PROVE  /\ BeatTypes' /\ UNCHANGED <<host, beat, began, offset>>
         /\ \A c \in Bindings \ DockerBindings : Stays(c) /\ Rests(c)
  <2>1. b \in Bindings
    BY Families
  <2> QED
    BY <1>3, <2>1, StepMoves DEF DockerNext, DockerCutOff, DockerAnswer, BeatTypes, Stays, Rests
<1> QED
  BY <1>1, <1>2, <1>3

LEMMA HardwareRests ==
  ASSUME BeatTypes, LiveNext \/ HostNext \/ UNCHANGED vars
  PROVE  /\ BeatTypes' /\ UNCHANGED <<host, beat, began, offset>>
         /\ \A c \in Bindings : Stays(c) /\ Rests(c)
BY DEF LiveNext, HostNext, StartLive, SampleLive, vars, BeatTypes, beatVars, Stays, Rests

-----------------------------------------------------------------------------
(* security.snapshot *)

\* The sections scanned before a place of the scan.
Before ==
  [waf |-> {}, nginx |-> {"waf"}, bans |-> {"waf", "nginx"}, drops |-> {"waf", "nginx", "bans"},
   active |-> {"waf", "nginx", "bans", "drops"}, store |-> Sections]

\* The readable files among the sections of a binding.
Files(b) == {s \in Sections : Direct(b, s) /\ host.sources[s] # "down"}

Snapshots == [at : Int, sections : SUBSET Sections]

SnapshotInv ==
  /\ BeatTypes
  /\ cacheAt \in Int
  /\ cache \in Snapshots /\ (cache = Nothing \/ cache.at = cacheAt)
  /\ scan \in [SnapshotBindings -> [now : Int, has : SUBSET Sections, shown : Snapshots]]
  /\ NeverOutOfDate
  /\ \A b \in SnapshotBindings :
       stage[b] \in Sections \cup {"store"} => Files(b) \cap Before[stage[b]] \subseteq scan[b].has

LEMMA InitSnapshot == Init => SnapshotInv
<1> SUFFICES ASSUME Init PROVE SnapshotInv
  OBVIOUS
<1>1. BeatTypes
  BY DEF Init, BeatInit, BeatTypes, Stages
<1>2. Nothing \in Snapshots
  BY DEF Nothing, Never, Snapshots
<1>3. SnapshotBindings \subseteq Bindings
  BY Families
<1>4. \A b \in SnapshotBindings : stage[b] = "idle"
  BY <1>3 DEF Init, BeatInit
<1> QED
  BY <1>1, <1>2, <1>4 DEF Init, SnapshotInit, SnapshotInv, NeverOutOfDate, Never, Sections

\* A step that is no snapshot's: the calls stay, begin or end, and the cache stays or goes.
LEMMA OthersKeepSnapshot ==
  ASSUME SnapshotInv, BeatTypes', UNCHANGED <<host, scan>>,
         \A b \in SnapshotBindings : Rests(b),
         UNCHANGED <<cacheAt, cache>> \/ (cacheAt' = Never /\ cache' = Nothing)
  PROVE  SnapshotInv'
<1>1. cacheAt' \in Int /\ cache' \in Snapshots /\ (cache' = Nothing \/ cache'.at = cacheAt')
  BY DEF SnapshotInv, Snapshots, Nothing, Never
<1>2. NeverOutOfDate'
  BY DEF SnapshotInv, NeverOutOfDate, Rests
<1>3. \A b \in SnapshotBindings :
        stage'[b] \in Sections \cup {"store"} => stage'[b] = stage[b]
  BY DEF Rests, Sections
<1>4. \A b \in SnapshotBindings : Files(b)' = Files(b)
  BY DEF Files, Direct
<1> QED
  BY <1>1, <1>2, <1>3, <1>4 DEF SnapshotInv

LEMMA SnapshotKeeps == ASSUME SnapshotInv, SnapshotNext PROVE SnapshotInv'
<1>1. PICK b \in SnapshotBindings : SnapshotStep(b)
  BY DEF SnapshotNext
<1>2. BeatTypes' /\ UNCHANGED host
  BY SnapshotRests DEF SnapshotInv
<1>3. b \in Bindings /\ SnapshotBindings \subseteq Bindings
  BY <1>1, Families
<1>4. Now \in Int
  BY BeatAssumption DEF SnapshotInv, BeatTypes, Now
<1>5. Files(b)' = Files(b) /\ \A c \in SnapshotBindings : Files(c)' = Files(c)
  BY <1>2 DEF Files, Direct
<1>6. Window[b] \in Nat \ {0}
  BY SnapshotAssumption
<1>7. Nothing \in Snapshots
  BY DEF Nothing, Never, Snapshots
<1>8. \A c \in SnapshotBindings \ {b} : stage'[c] = stage[c] /\ scan'[c] = scan[c]
  BY <1>1, <1>3 DEF SnapshotInv, BeatTypes, SnapshotStep, CallSnapshot, CheckCache, ScanSection, Store, Step
<1>9. CASE CallSnapshot(b)
  <2>1. stage'[b] = "check"
    BY <1>3, <1>9 DEF CallSnapshot, Step, SnapshotInv, BeatTypes
  <2>2. scan' \in [SnapshotBindings -> [now : Int, has : SUBSET Sections, shown : Snapshots]]
    BY <1>4, <1>7, <1>9 DEF CallSnapshot, SnapshotInv
  <2>3. NeverOutOfDate'
    BY <1>8, <2>1 DEF SnapshotInv, NeverOutOfDate
  <2> QED
    BY <1>2, <1>5, <1>8, <1>9, <2>1, <2>2, <2>3 DEF CallSnapshot, SnapshotInv, Sections
<1>10. CASE CheckCache(b)
  <2>1. CASE Fresh(b)
    <3>1. stage'[b] = "done" /\ scan'[b].shown = cache /\ scan'[b].now = scan[b].now
      BY <1>3, <1>10, <2>1 DEF CheckCache, Step, SnapshotInv, BeatTypes
    <3>2. scan' \in [SnapshotBindings -> [now : Int, has : SUBSET Sections, shown : Snapshots]]
      BY <1>10, <2>1 DEF CheckCache, SnapshotInv
    <3>3. cache # Nothing => scan[b].now - cache.at < Window[b]
      BY <2>1 DEF Fresh, SnapshotInv
    <3>4. NeverOutOfDate'
      BY <1>8, <3>1, <3>3 DEF SnapshotInv, NeverOutOfDate
    <3> QED
      BY <1>2, <1>5, <1>8, <1>10, <3>1, <3>2, <3>4 DEF CheckCache, SnapshotInv, Sections
  <2>2. CASE ~Fresh(b)
    <3>1. stage'[b] = "waf" /\ scan' = scan
      BY <1>3, <1>10, <2>2 DEF CheckCache, Step, SnapshotInv, BeatTypes
    <3>2. NeverOutOfDate'
      BY <1>8, <3>1 DEF SnapshotInv, NeverOutOfDate
    <3>3. Before["waf"] = {}
      BY DEF Before
    <3> QED
      BY <1>2, <1>5, <1>8, <1>10, <3>1, <3>2, <3>3 DEF CheckCache, SnapshotInv
  <2> QED
    BY <2>1, <2>2
<1>11. CASE ScanSection(b)
  <2> DEFINE s == stage[b]
  <2>1. PICK fails \in {FALSE, ~Direct(b, s)} :
          scan' = [scan EXCEPT ![b].has = @ \cup {t \in {s} : Yields(b, t) /\ ~fails}]
    BY <1>11 DEF ScanSection
  <2>2. s \in Sections /\ stage'[b] = Following[s]
    BY <1>3, <1>11 DEF ScanSection, Step, SnapshotInv, BeatTypes
  <2>3. scan' \in [SnapshotBindings -> [now : Int, has : SUBSET Sections, shown : Snapshots]]
    BY <2>1, <2>2 DEF SnapshotInv
  <2>4. scan'[b].has = scan[b].has \cup {t \in {s} : Yields(b, t) /\ ~fails}
    BY <2>1 DEF SnapshotInv
  <2>5. s \in Files(b) => s \in scan'[b].has
    BY <2>1, <2>2, <2>4, SnapshotAssumption DEF Files, Direct, Yields, LogFile, BanFile
  <2>6. Before[Following[s]] = Before[s] \cup {s}
    BY <2>2 DEF Before, Following, Sections
  <2>7. Files(b) \cap Before[s] \subseteq scan[b].has
    BY <2>2 DEF SnapshotInv
  <2>8. stage'[b] # "done"
    BY <2>2 DEF Following, Sections
  <2>9. NeverOutOfDate'
    BY <1>8, <2>8 DEF SnapshotInv, NeverOutOfDate
  <2>10. Files(b) \cap Before[stage'[b]] \subseteq scan'[b].has
    BY <2>2, <2>4, <2>5, <2>6, <2>7
  <2> QED
    BY <1>2, <1>5, <1>8, <1>11, <2>3, <2>9, <2>10 DEF ScanSection, SnapshotInv
<1>12. CASE Store(b)
  <2>1. stage'[b] = "done" /\ scan'[b].now = scan[b].now /\ scan'[b].shown = Found(b)
    BY <1>3, <1>12 DEF Store, Step, SnapshotInv, BeatTypes
  <2>2. Found(b) \in Snapshots /\ (Found(b) = Nothing \/ Found(b).at = scan[b].now)
    BY <1>7 DEF Found, Snapshots, SnapshotInv
  <2>3. scan' \in [SnapshotBindings -> [now : Int, has : SUBSET Sections, shown : Snapshots]]
    BY <1>12, <2>2 DEF Store, SnapshotInv
  <2>4. cacheAt' = scan[b].now /\ cache' = Found(b) /\ scan[b].now \in Int
    BY <1>12 DEF Store, SnapshotInv
  <2>5. NeverOutOfDate'
    BY <1>6, <1>8, <2>1, <2>2, <2>4 DEF SnapshotInv, NeverOutOfDate
  <2> QED
    BY <1>2, <1>5, <1>8, <2>1, <2>2, <2>3, <2>4, <2>5 DEF SnapshotInv, Sections
<1> QED
  BY <1>1, <1>9, <1>10, <1>11, <1>12 DEF SnapshotStep

\* Every step of the agent, by whose it is.
LEMMA NextSnapshot == SnapshotInv /\ [Next]_vars => SnapshotInv'
<1> SUFFICES ASSUME SnapshotInv, [Next]_vars PROVE SnapshotInv'
  OBVIOUS
<1> BeatTypes
  BY DEF SnapshotInv
<1>1. CASE BeatNext
  BY <1>1, BeatRests, Families, OthersKeepSnapshot DEF primitiveVars, snapshotVars, Forget
<1>2. CASE SnapshotNext
  BY <1>2, SnapshotKeeps
<1>3. CASE CpuNext
  BY <1>3, CpuRests, Families, OthersKeepSnapshot DEF CpuNext, snapshotVars
<1>4. CASE DockerNext \/ DockerCutOff \/ DockerAnswer
  BY <1>4, DockerRests, Families, OthersKeepSnapshot DEF DockerNext, DockerCutOff, DockerAnswer, snapshotVars
<1>5. CASE ProbeNext \/ ProbeCut \/ ProbeEnded
  BY <1>5, ProbeRests, Families, OthersKeepSnapshot DEF ProbeNext, ProbeCut, ProbeEnded, snapshotVars
<1>6. CASE LiveNext \/ HostNext \/ UNCHANGED vars
  BY <1>6, HardwareRests, Families, OthersKeepSnapshot DEF LiveNext, HostNext, vars, primitiveVars, snapshotVars
<1> QED
  BY <1>1, <1>2, <1>3, <1>4, <1>5, <1>6 DEF Next, BeatNext

THEOREM SnapshotAlways == Spec => []SnapshotInv
<1> QED
  BY InitSnapshot, NextSnapshot, PTL DEF Spec

\* NeverOutOfDate: whichever binding scanned and however their scans overlapped, a snapshot
\* is shown only within the window of the binding that shows it (securitySnapshot).
THEOREM SnapshotsAreFresh == Spec => []NeverOutOfDate
<1>1. SnapshotInv => NeverOutOfDate
  BY DEF SnapshotInv
<1> QED
  BY <1>1, SnapshotAlways, PTL

\* FilesAreNeverSkipped: when a scan is stored, the sections read from files that can be
\* read are in it, whatever became of the others (securitySnapshot).
THEOREM FilesAreAlwaysScanned == Spec => []FilesAreNeverSkipped
<1>1. SnapshotInv => FilesAreNeverSkipped
  BY DEF SnapshotInv, FilesAreNeverSkipped, Files, Before
<1> QED
  BY <1>1, SnapshotAlways, PTL

-----------------------------------------------------------------------------
(* The windows of successive scans *)

\* Where the call of a binding that scans alone is.
Resting == {"idle", "called"}
Scanning == Sections \cup {"store"}
Alone(b) == host.bound \cap SnapshotBindings = {b}

\* Until a binding that is alone makes its call, the last one was in the beat before, and it
\* left a cache that was younger than a window.
Tiled(b) ==
  LET since == scan[b].now - cacheAt
  IN /\ stage[b] \in Resting => scan[b].now >= began - Period
     /\ stage[b] \in Resting \cup {"done"} => since < Window[b]
     /\ stage[b] \in Scanning \cup {"check"} => since < Window[b] + Period + Cap
     /\ stage[b] \in Scanning => Window[b] <= since

\* A binding that is not the host's is not called; what a call takes for now is in its beat.
TileInv ==
  /\ offset <= Cap
  /\ \A b \in SnapshotBindings \ host.bound : stage[b] = "idle"
  /\ \A b \in SnapshotBindings : stage[b] \notin Resting => scan[b].now >= began
  /\ \A b \in SnapshotBindings : Alone(b) /\ cacheAt # Never => Tiled(b)

LEMMA InitTile == Init => TileInv
BY Families, BeatAssumption DEF Init, BeatInit, SnapshotInit, TileInv, Resting

\* The beat as a whole: only its end moves the start of the beat, when every call is over.
LEMMA BeatKeepsTiles == ASSUME SnapshotInv, TileInv, BeatNext PROVE TileInv'
<1> BeatTypes /\ BeatTypes' /\ UNCHANGED host
  BY BeatRests DEF SnapshotInv
<1> SnapshotBindings \subseteq Bindings
  BY Families
<1> Cap \in Nat /\ Period \in Nat
  BY BeatAssumption
<1>1. CASE Forget
  BY <1>1 DEF Forget, NewBeats, TileInv, Resting
<1>2. CASE UNCHANGED <<primitiveVars, beatVars>>
  BY <1>2 DEF primitiveVars, snapshotVars, beatVars, TileInv, Alone, Tiled
<1>3. CASE UNCHANGED primitiveVars /\ PassTime
  BY <1>3 DEF primitiveVars, snapshotVars, PassTime, BeatTypes, TileInv, Alone, Tiled
<1>4. CASE UNCHANGED primitiveVars /\ BeginBeat
  <2>1. \A b \in SnapshotBindings : stage[b] = "idle" /\ stage'[b] \in Resting
    BY <1>4 DEF BeginBeat, Beating, Resting
  <2>2. \A b \in SnapshotBindings \ host.bound : stage'[b] = "idle"
    BY <1>4 DEF BeginBeat
  <2> QED
    BY <1>4, <2>1, <2>2 DEF primitiveVars, snapshotVars, BeginBeat, TileInv, Alone, Tiled, Resting,
      Scanning, Sections
<1>5. CASE UNCHANGED primitiveVars /\ EndBeat
  <2>1. /\ offset' = 0 /\ began' - Period <= began
        /\ \A b \in SnapshotBindings : stage'[b] = "idle"
    BY <1>5 DEF EndBeat, Now, BeatTypes
  <2>2. UNCHANGED <<scan, cacheAt>>
    BY <1>5 DEF primitiveVars, snapshotVars
  <2>3. ASSUME NEW b \in SnapshotBindings, Alone(b), cacheAt # Never
        PROVE  Tiled(b)'
    <3>1. stage[b] = "done"
      BY <1>5, <2>3 DEF EndBeat, Alone
    <3>2. scan[b].now >= began /\ scan[b].now - cacheAt < Window[b]
      BY <2>3, <3>1 DEF TileInv, Tiled, Resting, Scanning, Sections
    <3>3. scan[b].now >= began' - Period
      <4>1. scan[b].now \in Int /\ began \in Nat /\ began' \in Nat
        BY DEF SnapshotInv, BeatTypes
      <4> QED
        BY <2>1, <3>2, <4>1
    <3> QED
      BY <2>1, <2>2, <3>2, <3>3 DEF Tiled, Resting, Scanning, Sections
  <2> QED
    BY <2>1, <2>2, <2>3 DEF TileInv, Alone, Resting
<1> QED
  BY <1>1, <1>2, <1>3, <1>4, <1>5, BeatMoves

\* A step of the binding's own call.
LEMMA SnapshotKeepsTiles == ASSUME SnapshotInv, TileInv, SnapshotNext PROVE TileInv'
<1> BeatTypes /\ BeatTypes' /\ UNCHANGED <<host, beat, began, offset>>
  BY SnapshotRests DEF SnapshotInv
<1> Cap \in Nat /\ Period \in Nat /\ Window \in [SnapshotBindings -> Nat \ {0}]
  BY BeatAssumption, SnapshotAssumption
<1>1. PICK b \in SnapshotBindings : SnapshotStep(b)
  BY DEF SnapshotNext
<1>2. b \in Bindings /\ SnapshotBindings \subseteq Bindings
  BY <1>1, Families
<1>3. stage[b] # "idle"
  BY <1>1 DEF SnapshotStep, CallSnapshot, CheckCache, ScanSection, Store, Sections
<1>4. \A c \in SnapshotBindings \ {b} : stage'[c] = stage[c] /\ scan'[c] = scan[c]
  BY <1>1, <1>2 DEF SnapshotInv, BeatTypes, SnapshotStep, CallSnapshot, CheckCache, ScanSection, Store, Step
<1>5. b \in host.bound
  BY <1>3 DEF TileInv
<1>6. \A c \in SnapshotBindings : Alone(c) => c = b
  BY <1>5 DEF Alone
<1>7. scan[b].now \in Int /\ cacheAt \in Int
  BY DEF SnapshotInv
<1>8. scan'[b].now >= began
  <2>1. CASE CallSnapshot(b)
    <3>1. scan'[b].now = began + offset
      BY <2>1 DEF CallSnapshot, SnapshotInv, Now
    <3> QED
      BY <3>1 DEF BeatTypes
  <2>2. CASE CheckCache(b) \/ ScanSection(b) \/ Store(b)
    <3>1. stage[b] \notin Resting
      BY <2>2 DEF CheckCache, ScanSection, Store, Resting, Sections
    <3>2. scan'[b].now = scan[b].now
      BY <2>2 DEF CheckCache, ScanSection, Store, SnapshotInv
    <3> QED
      BY <3>1, <3>2 DEF TileInv
  <2> QED
    BY <1>1, <2>1, <2>2 DEF SnapshotStep
<1>9. ASSUME Alone(b), cacheAt' # Never
      PROVE  Tiled(b)'
  <2>1. cacheAt # Never => Tiled(b)
    BY <1>9 DEF TileInv
  <2>2. CASE CallSnapshot(b)
    <3>1. stage'[b] = "check" /\ scan'[b].now = began + offset /\ cacheAt' = cacheAt
      BY <1>2, <2>2 DEF CallSnapshot, Step, SnapshotInv, BeatTypes, Now
    <3>2. scan[b].now >= began - Period /\ scan[b].now - cacheAt < Window[b]
      BY <1>9, <2>1, <2>2, <3>1 DEF CallSnapshot, Tiled, Resting
    <3>3. scan'[b].now - cacheAt < Window[b] + Period + Cap
      BY <1>7, <3>1, <3>2 DEF TileInv, BeatTypes
    <3> QED
      BY <3>1, <3>3 DEF Tiled, Resting, Scanning, Sections
  <2>3. CASE CheckCache(b)
    <3>1. stage'[b] \in {"done", "waf"} /\ scan'[b].now = scan[b].now /\ cacheAt' = cacheAt
      BY <1>2, <2>3 DEF CheckCache, Step, SnapshotInv, BeatTypes
    <3>2. IF stage'[b] = "done" THEN scan[b].now - cacheAt < Window[b]
                                ELSE Window[b] <= scan[b].now - cacheAt
      BY <1>2, <1>7, <1>9, <2>3, <3>1 DEF CheckCache, Step, Fresh, BeatTypes
    <3>3. scan[b].now - cacheAt < Window[b] + Period + Cap
      BY <1>9, <2>1, <2>3, <3>1 DEF CheckCache, Tiled
    <3> QED
      BY <3>1, <3>2, <3>3 DEF Tiled, Resting, Scanning, Sections
  <2>4. CASE ScanSection(b)
    <3>1. stage[b] \in Scanning /\ stage'[b] \in Scanning /\ cacheAt' = cacheAt
      BY <1>2, <2>4 DEF ScanSection, Step, BeatTypes, Scanning, Sections, Following
    <3>2. scan'[b].now = scan[b].now
      BY <2>4 DEF ScanSection, SnapshotInv
    <3> QED
      BY <1>9, <2>1, <3>1, <3>2 DEF Tiled, Resting, Scanning, Sections
  <2>5. CASE Store(b)
    <3>1. stage'[b] = "done" /\ scan'[b].now = scan[b].now /\ cacheAt' = scan[b].now
      BY <1>2, <2>5 DEF Store, Step, SnapshotInv, BeatTypes
    <3> QED
      BY <1>7, <3>1 DEF Tiled, Resting, Scanning, Sections
  <2> QED
    BY <1>1, <2>2, <2>3, <2>4, <2>5 DEF SnapshotStep
<1>10. \A c \in SnapshotBindings : stage'[c] \notin Resting => scan'[c].now >= began
  BY <1>4, <1>8 DEF TileInv
<1>11. \A c \in SnapshotBindings \ host.bound : stage'[c] = "idle"
  BY <1>4, <1>5 DEF TileInv
<1> QED
  BY <1>6, <1>9, <1>10, <1>11 DEF TileInv, Alone

\* A step of another family: the calls stay where they are.
LEMMA OthersKeepTiles ==
  ASSUME TileInv, UNCHANGED <<host, beat, began, offset, cacheAt, scan>>,
         \A b \in SnapshotBindings : Stays(b)
  PROVE  TileInv'
BY DEF TileInv, Alone, Tiled, Stays

LEMMA NextTile == SnapshotInv /\ TileInv /\ [Next]_vars => TileInv'
<1> SUFFICES ASSUME SnapshotInv, TileInv, [Next]_vars PROVE TileInv'
  OBVIOUS
<1> BeatTypes
  BY DEF SnapshotInv
<1>1. CASE BeatNext
  BY <1>1, BeatKeepsTiles
<1>2. CASE SnapshotNext
  BY <1>2, SnapshotKeepsTiles
<1>3. CASE CpuNext
  BY <1>3, CpuRests, Families, OthersKeepTiles DEF CpuNext, snapshotVars
<1>4. CASE DockerNext \/ DockerCutOff \/ DockerAnswer
  BY <1>4, DockerRests, Families, OthersKeepTiles DEF DockerNext, DockerCutOff, DockerAnswer, snapshotVars
<1>5. CASE ProbeNext \/ ProbeCut \/ ProbeEnded
  BY <1>5, ProbeRests, Families, OthersKeepTiles DEF ProbeNext, ProbeCut, ProbeEnded, snapshotVars
<1>6. CASE LiveNext \/ HostNext \/ UNCHANGED vars
  BY <1>6, HardwareRests, Families, OthersKeepTiles DEF LiveNext, HostNext, vars, primitiveVars, snapshotVars
<1> QED
  BY <1>1, <1>2, <1>3, <1>4, <1>5, <1>6 DEF Next, BeatNext

\* Only the store of a call ends a scan, and it does so in the place that TileInv describes.
LEMMA OnlyStoresEndScans ==
  ASSUME SnapshotInv, [Next]_vars, NEW b \in SnapshotBindings,
         stage[b] = "store", stage'[b] = "done"
  PROVE  cacheAt' = scan[b].now
<1> BeatTypes
  BY DEF SnapshotInv
<1>1. CASE SnapshotNext
  <2>1. PICK c \in SnapshotBindings : SnapshotStep(c)
    BY <1>1 DEF SnapshotNext
  <2>2. c = b
    BY <2>1, Families DEF SnapshotStep, CallSnapshot, CheckCache, ScanSection, Store, Step, BeatTypes
  <2> QED
    BY <2>1, <2>2 DEF SnapshotStep, CallSnapshot, CheckCache, ScanSection, Store, Sections
<1>2. CASE BeatNext
  BY <1>2, BeatRests, Families DEF Rests
<1>3. CASE CpuNext \/ DockerNext \/ DockerCutOff \/ DockerAnswer \/ ProbeNext \/ ProbeCut
           \/ ProbeEnded \/ LiveNext \/ HostNext \/ UNCHANGED vars
  BY <1>3, CpuRests, DockerRests, ProbeRests, HardwareRests, Families DEF Stays
<1> QED
  BY <1>1, <1>2, <1>3 DEF Next, BeatNext

\* WindowsTile: the windows of successive scans of a binding that is alone do not overlap,
\* and less than a beat and a deadline falls between them (securitySnapshot).
THEOREM ScansFollowOneAnother == Spec => WindowsTile
<1>1. Init => SnapshotInv /\ TileInv
  BY InitSnapshot, InitTile
<1>2. SnapshotInv /\ TileInv /\ [Next]_vars => (SnapshotInv /\ TileInv)'
  BY NextSnapshot, NextTile
<1>3. SnapshotInv /\ TileInv /\ [Next]_vars =>
        [\A b \in SnapshotBindings :
           LET alone == host.bound \cap SnapshotBindings = {b}
               stores == stage[b] = "store" /\ stage'[b] = "done"
               between == (cacheAt' - Window[b]) - cacheAt
           IN alone /\ stores /\ cacheAt # Never =>
                0 <= between /\ between < Period + Cap]_<<cacheAt, cache, scan, stage>>
  <2> SUFFICES ASSUME SnapshotInv, TileInv, [Next]_vars, NEW b \in SnapshotBindings,
                      Alone(b), stage[b] = "store", stage'[b] = "done", cacheAt # Never
               PROVE  LET between == (cacheAt' - Window[b]) - cacheAt
                      IN 0 <= between /\ between < Period + Cap
    BY DEF Alone
  <2>1. cacheAt' = scan[b].now
    BY OnlyStoresEndScans
  <2>2. Window[b] <= scan[b].now - cacheAt /\ scan[b].now - cacheAt < Window[b] + Period + Cap
    BY DEF TileInv, Tiled, Scanning
  <2>3. scan[b].now \in Int /\ cacheAt \in Int /\ Window[b] \in Int
    BY SnapshotAssumption DEF SnapshotInv
  <2> QED
    BY <2>1, <2>2, <2>3, BeatAssumption
<1> QED
  BY <1>1, <1>2, <1>3, PTL DEF Spec, WindowsTile

-----------------------------------------------------------------------------
(* Counting in a log file *)

\* The end of a log that does not fit: what is left of a line, and whole lines.
LEMMA TailIsEnd ==
  ASSUME NEW log \in Seq(Line), NEW cap \in Nat, 2 * Len(log) > cap
  PROVE  LET n == cap \div 2
             half == cap % 2
             tail == ReadTail(log, cap)
         IN /\ n \in 0 .. Len(log) /\ half \in {0, 1} /\ cap = 2 * n + half
            /\ DOMAIN tail = 1 .. half + n
            /\ half = 1 => tail[1] = Broken
            /\ \A i \in 1 .. n : tail[half + i] = log[Len(log) - n + i]
<1> DEFINE n == cap \div 2
           half == cap % 2
<1>1. n \in 0 .. Len(log) /\ half \in {0, 1} /\ cap = 2 * n + half
  OBVIOUS
<1> HIDE DEF n, half
<1>2. /\ Lines(n, log) \in Seq(Line) /\ Len(Lines(n, log)) = n
      /\ \A i \in 1 .. n : Lines(n, log)[i] = log[Len(log) - n + i]
  BY <1>1 DEF Lines
<1>3. ReadTail(log, cap) = (IF half = 1 THEN <<Broken>> ELSE <<>>) \o Lines(n, log)
  BY DEF ReadTail, n, half
<1>4. CASE half = 1
  <2>1. ReadTail(log, cap) = <<Broken>> \o Lines(n, log)
    BY <1>3, <1>4
  <2> DEFINE Some == Line \cup {Broken}
  <2>2. Lines(n, log) \in Seq(Some) /\ <<Broken>> \in Seq(Some) /\ Len(<<Broken>>) = 1
    BY <1>2
  <2> HIDE DEF Some
  <2>3. DOMAIN ReadTail(log, cap) = 1 .. half + n /\ ReadTail(log, cap)[1] = Broken
    BY <1>1, <1>2, <1>4, <2>1, <2>2
  <2>4. ASSUME NEW i \in 1 .. n PROVE ReadTail(log, cap)[half + i] = log[Len(log) - n + i]
    <3>1. half + i \in 2 .. 1 + n /\ (half + i) - 1 = i
      BY <1>1, <1>4
    <3>2. (<<Broken>> \o Lines(n, log))[half + i] = Lines(n, log)[(half + i) - 1]
      BY <1>1, <1>2, <2>2, <3>1
    <3> QED
      BY <1>2, <2>1, <3>1, <3>2
  <2> QED
    BY <1>1, <2>3, <2>4 DEF n, half
<1>5. CASE half = 0
  <2>1. ReadTail(log, cap) = Lines(n, log)
    BY <1>2, <1>3, <1>5
  <2> QED
    BY <1>1, <1>2, <1>5, <2>1 DEF n, half
<1> QED
  BY <1>1, <1>4, <1>5

\* What a log holds of a window: the places of the lines.
Inside(lines, since) ==
  {i \in DOMAIN lines : lines[i].at # NoTime /\ lines[i].at >= since /\ lines[i].counts}

LEMMA PlacesAreFinite ==
  ASSUME NEW log \in Seq(Line), NEW since PROVE IsFiniteSet(Inside(log, since))
BY FS_Interval, FS_Subset DEF Inside

\* The events of a window that lie within the cap are the same in the log and in its end.
LEMMA TailHoldsWindow ==
  ASSUME NEW log \in Seq(Line), NEW cap \in Nat, NEW since \in Int,
         \A i \in DOMAIN log :
           log[i].at # NoTime /\ log[i].at >= since => 2 * (Len(log) - i + 1) <= cap
  PROVE  Cardinality(Inside(ReadTail(log, cap), since)) = Cardinality(Inside(log, since))
<1>1. CASE 2 * Len(log) <= cap
  BY <1>1 DEF ReadTail
<1>2. CASE 2 * Len(log) > cap
  <2> DEFINE n == cap \div 2
             half == cap % 2
             tail == ReadTail(log, cap)
             before == Len(log) - n
             In == Inside(log, since)
             Out == Inside(tail, since)
             move == [i \in In |-> half + (i - before)]
  <2>1. /\ n \in 0 .. Len(log) /\ half \in {0, 1} /\ cap = 2 * n + half
        /\ DOMAIN tail = 1 .. half + n
        /\ half = 1 => tail[1] = Broken
        /\ \A i \in 1 .. n : tail[half + i] = log[before + i]
    BY <1>2, TailIsEnd
  <2> HIDE DEF n, half, tail
  <2>2. \A i \in In : i \in before + 1 .. Len(log)
    <3> TAKE i \in In
    <3>1. i \in 1 .. Len(log) /\ 2 * (Len(log) - i + 1) <= cap
      BY DEF Inside
    <3> QED
      BY <2>1, <3>1
  <2>3. \A j \in Out : j \in half + 1 .. half + n
    <3> TAKE j \in Out
    <3>1. j \in 1 .. half + n /\ tail[j].at # NoTime
      BY <2>1 DEF Inside
    <3>2. Broken.at = NoTime
      BY DEF Broken
    <3> QED
      BY <2>1, <3>1, <3>2
  <2>4. \A i \in In : move[i] \in Out
    <3> TAKE i \in In
    <3>1. i - before \in 1 .. n /\ before + (i - before) = i /\ half + (i - before) \in 1 .. half + n
      BY <2>1, <2>2
    <3>2. tail[half + (i - before)] = log[i]
      BY <2>1, <3>1
    <3> QED
      BY <2>1, <3>1, <3>2 DEF Inside
  <2>5. \A j \in Out : \E i \in In : move[i] = j
    <3> TAKE j \in Out
    <3>1. j - half \in 1 .. n /\ half + (j - half) = j /\ before + (j - half) \in DOMAIN log
      BY <2>1, <2>3
    <3>2. tail[j] = log[before + (j - half)]
      BY <2>1, <3>1
    <3>3. before + (j - half) \in In
      BY <3>1, <3>2 DEF Inside
    <3> QED
      BY <2>1, <2>3, <3>3
  <2>6. \A i, k \in In : move[i] = move[k] => i = k
    BY <2>1, <2>2
  <2> HIDE DEF move, In, Out
  <2>7. move \in Bijection(In, Out)
    <3>1. move \in [In -> Out]
      BY <2>4 DEF move
    <3> QED
      BY <2>5, <2>6, <3>1 DEF Bijection, Injection, Surjection, IsInjective
  <2>8. IsFiniteSet(In)
    BY PlacesAreFinite DEF In
  <2> QED
    BY <2>7, <2>8, FS_Bijection DEF ExistsBijection, In, Out, tail
<1> QED
  BY <1>1, <1>2

\* WindowIsCounted: whatever a log file holds, the events of a window are counted once each as
\* long as they fit (readFileTailCapped, filterLinesSince, countWAFBlocks, countNginx4xx,
\* collectFail2ban).
THEOREM WindowsAreCounted == Spec => []WindowIsCounted
<1>1. SnapshotInv => WindowIsCounted
  <2> SUFFICES ASSUME host \in Hosts PROVE WindowIsCounted
    BY DEF SnapshotInv, BeatTypes
  <2> DEFINE log == host.log.lines
             cap == host.log.cap
             since == host.log.since
             bans == Bans(log, since, cap, 1)
  <2>1. log \in Seq(Line) /\ cap \in Nat /\ since \in Int
    BY HostsAssumption
  <2> HIDE DEF log, cap, since
  <2>2. ASSUME \A i \in DOMAIN log :
                 log[i].at # NoTime /\ log[i].at >= since => 2 * (Len(log) - i + 1) <= cap
        PROVE  CountFile(log, since, cap) = Cardinality(Inside(log, since))
    <3>1. CountFile(log, since, cap) = Cardinality(Inside(ReadTail(log, cap), since))
      BY DEF CountFile, CountLines, FilterLinesSince, Inside
    <3> QED
      BY <2>1, <2>2, <3>1, TailHoldsWindow
  <2>3. ASSUME 2 * Len(log) <= cap
        PROVE  /\ (\A i \in DOMAIN log : log[i].at # since) =>
                    bans.window = Cardinality(Inside(log, since))
               /\ {l.ip : l \in bans.recent} \subseteq bans.total
    <3>1. ReadHead(log, cap) = log
      BY <2>3 DEF ReadHead
    <3>2. ASSUME \A i \in DOMAIN log : log[i].at # since
          PROVE  {i \in {k \in DOMAIN log : log[k].counts} : log[i].at # NoTime /\ log[i].at > since}
                 = Inside(log, since)
      <4>1. ASSUME NEW i \in DOMAIN log PROVE log[i].at > since <=> log[i].at >= since
        <5>1. log[i] \in Line
          BY <2>1
        <5>2. log[i].at \in Int
          BY <5>1 DEF Line
        <5> QED
          BY <2>1, <3>2, <5>2
      <4> QED
        BY <4>1 DEF Inside
    <3> QED
      BY <3>1, <3>2 DEF Bans
  <2>4. {i \in DOMAIN log : (log[i].at # NoTime /\ log[i].at >= since) /\ log[i].counts}
        = Inside(log, since)
    BY DEF Inside
  <2> QED
    BY <2>2, <2>3, <2>4 DEF WindowIsCounted, log, cap, since
<1> QED
  BY <1>1, SnapshotAlways, PTL

-----------------------------------------------------------------------------
(* The Docker primitives *)

\* Where a call is, what it has to answer about and the rows it has.
Accounted(b) ==
  /\ stage[b] \in {"listing", "waiting"} => rows[b] = {}
  /\ stage[b] = "listing" => Kind[b] # "services"
  /\ stage[b] \in {"waiting", "done"} /\ Kind[b] = "services" => items[b] = RuntimeServiceConfigs
  /\ stage[b] = "done" => {r[1] : r \in rows[b]} = items[b]

DockerInv ==
  /\ BeatTypes
  /\ client \in [Sockets -> Goroutines \cup {NoClient}]
  /\ made \subseteq Sockets \X Goroutines
  /\ OneClientPerSocket
  /\ items = [b \in DockerBindings |-> items[b]]
  /\ rows = [b \in DockerBindings |-> rows[b]]
  /\ \A b \in DockerBindings : Accounted(b)

LEMMA InitDocker == Init => DockerInv
<1> SUFFICES ASSUME Init PROVE DockerInv
  OBVIOUS
<1>1. BeatTypes
  BY DEF Init, BeatInit, BeatTypes, Stages
<1>2. \A b \in DockerBindings : stage[b] = "idle"
  BY Families DEF Init, BeatInit
<1> QED
  BY <1>1, <1>2 DEF Init, DockerInit, DockerInv, OneClientPerSocket, Accounted

\* A step that is not theirs: the calls stay, begin or end, and the clients stay or go.
LEMMA OthersKeepDocker ==
  ASSUME DockerInv, BeatTypes', UNCHANGED <<host, items, rows>>,
         \A b \in DockerBindings : Rests(b),
         UNCHANGED <<client, made>> \/ (client' = [s \in Sockets |-> NoClient] /\ made' = {})
  PROVE  DockerInv'
<1>1. client' \in [Sockets -> Goroutines \cup {NoClient}] /\ made' \subseteq Sockets \X Goroutines
  BY DEF DockerInv
<1>2. OneClientPerSocket'
  BY DEF DockerInv, OneClientPerSocket
<1>3. ASSUME NEW b \in DockerBindings PROVE Accounted(b)'
  BY DEF DockerInv, Accounted, RuntimeServiceConfigs, Rests
<1> QED
  BY <1>1, <1>2, <1>3 DEF DockerInv

\* The steps of one goroutine: of what the invariant names, they move the clients at most.
LEMMA GoroutinesKeepDocker ==
  ASSUME DockerInv, UNCHANGED host, NEW g \in Goroutines,
         FindClient(g) \/ MakeClient(g) \/ (\E r : TakeReply(g, r))
  PROVE  DockerInv'
<1>1. BeatTypes' /\ UNCHANGED <<host, items, rows, stage>>
  BY DEF FindClient, MakeClient, TakeReply, DockerInv, BeatTypes, beatVars
<1>2. \A b \in DockerBindings : Rests(b)
  BY <1>1 DEF Rests
<1>3. CASE UNCHANGED <<client, made>>
  BY <1>1, <1>2, <1>3, OthersKeepDocker
<1>4. CASE MakeClient(g) /\ client[Socket[g[1]]] = NoClient
  <2> DEFINE s == Socket[g[1]]
  <2>1. s \in Sockets
    BY DEF Goroutines, Sockets
  <2>2. client' = [client EXCEPT ![s] = g] /\ made' = made \cup {<<s, g>>}
    BY <1>4 DEF MakeClient
  <2>3. \A c \in made : c[1] # s
    <3>1. SUFFICES ASSUME NEW c \in made, c[1] = s PROVE FALSE
      OBVIOUS
    <3>2. c[2] = NoClient
      BY <1>4, <2>1, <3>1 DEF DockerInv, OneClientPerSocket
    <3>3. c[2] \in Goroutines
      BY <3>1 DEF DockerInv
    <3> QED
      BY <3>2, <3>3, DockerAssumption
  <2>4. client' \in [Sockets -> Goroutines \cup {NoClient}] /\ made' \subseteq Sockets \X Goroutines
    BY <2>1, <2>2 DEF DockerInv
  <2>5. OneClientPerSocket'
    <3> SUFFICES ASSUME NEW t \in Sockets, NEW c \in made', c[1] = t PROVE c[2] = client'[t]
      BY DEF OneClientPerSocket
    <3>1. CASE c \in made
      BY <2>2, <2>3, <3>1 DEF DockerInv, OneClientPerSocket
    <3>2. CASE c = <<s, g>>
      BY <2>1, <2>2, <3>2 DEF DockerInv
    <3> QED
      BY <2>2, <3>1, <3>2
  <2>6. \A b \in DockerBindings : Accounted(b)'
    BY <1>1 DEF DockerInv, Accounted, RuntimeServiceConfigs
  <2> QED
    BY <1>1, <2>4, <2>5, <2>6 DEF DockerInv
<1> QED
  BY <1>3, <1>4 DEF FindClient, MakeClient, TakeReply

\* The steps of a call.
LEMMA CallsKeepDocker ==
  ASSUME DockerInv, BeatTypes', UNCHANGED host, NEW b \in DockerBindings,
         CallDocker(b) \/ (\E r : ListContainers(b, r)) \/ NextContainer(b) \/ Return(b)
  PROVE  DockerInv'
<1>1. b \in Bindings /\ DockerBindings \subseteq Bindings
  BY Families
<1>2. UNCHANGED <<client, made>>
  BY DEF CallDocker, ListContainers, NextContainer, Return
<1>3. OneClientPerSocket'
  BY <1>2 DEF DockerInv, OneClientPerSocket
<1>4. CASE NextContainer(b)
  BY <1>2, <1>4, OthersKeepDocker DEF NextContainer, beatVars, Rests
<1>5. ASSUME \/ CallDocker(b) \/ (\E r : ListContainers(b, r)) \/ Return(b)
      PROVE  /\ items' = [c \in DockerBindings |-> items'[c]]
             /\ rows' = [c \in DockerBindings |-> rows'[c]]
             /\ \A c \in DockerBindings \ {b} :
                  stage'[c] = stage[c] /\ items'[c] = items[c] /\ rows'[c] = rows[c]
  BY <1>1, <1>5 DEF CallDocker, ListContainers, Return, Step, DockerInv, BeatTypes
<1>6. ASSUME \A c \in DockerBindings \ {b} :
               stage'[c] = stage[c] /\ items'[c] = items[c] /\ rows'[c] = rows[c],
             Accounted(b)'
      PROVE  \A c \in DockerBindings : Accounted(c)'
  BY <1>6 DEF DockerInv, Accounted, RuntimeServiceConfigs
<1>7. CASE CallDocker(b)
  <2>1. rows'[b] = {}
    BY <1>7 DEF CallDocker, DockerInv
  <2>2. CASE Kind[b] = "services"
    <3>1. stage'[b] = "waiting" /\ items'[b] = RuntimeServiceConfigs
      BY <1>1, <1>7, <2>2 DEF CallDocker, Step, DockerInv, BeatTypes
    <3> QED
      BY <2>1, <2>2, <3>1, <1>2, <1>3, <1>5, <1>6, <1>7 DEF DockerInv, Accounted, RuntimeServiceConfigs
  <2>3. CASE Kind[b] # "services"
    <3>1. stage'[b] = "listing"
      BY <1>1, <1>7, <2>3 DEF CallDocker, Step, DockerInv, BeatTypes
    <3> QED
      BY <2>1, <2>3, <3>1, <1>2, <1>3, <1>5, <1>6, <1>7 DEF DockerInv, Accounted, RuntimeServiceConfigs
  <2> QED
    BY <2>2, <2>3
<1>8. CASE \E r : ListContainers(b, r)
  <2>1. PICK r : ListContainers(b, r)
    BY <1>8
  <2>2. stage[b] = "listing" /\ rows' = rows
    BY <2>1 DEF ListContainers
  <2>3. rows[b] = {} /\ Kind[b] # "services"
    BY <2>2 DEF DockerInv, Accounted, RuntimeServiceConfigs
  <2>4. PICK found \in SUBSET Items :
          (r = "error" => found = {}) /\ items' = [items EXCEPT ![b] = found]
    BY <2>1 DEF ListContainers
  <2>5. items'[b] = found
    BY <2>4 DEF DockerInv
  <2>6. stage'[b] = IF r = "error" THEN "done" ELSE "waiting"
    BY <1>1, <2>1 DEF ListContainers, Step, DockerInv, BeatTypes
  <2>7. Accounted(b)'
    BY <2>2, <2>3, <2>4, <2>5, <2>6 DEF Accounted
  <2> QED
    BY <2>7, <1>2, <1>3, <1>5, <1>6, <1>8 DEF DockerInv
<1>9. CASE Return(b)
  <2>1. stage[b] = "waiting" /\ stage'[b] = "done" /\ items' = items
    BY <1>1, <1>9 DEF Return, Filled, Step, DockerInv, BeatTypes
  <2>2. rows'[b] = {<<i, RowOf(b, i)>> : i \in {j \in items[b] : pc[<<b, j>>] = "end"}}
    BY <1>9 DEF Return, Filled, DockerInv
  <2>3. {j \in items[b] : pc[<<b, j>>] = "end"} = items[b]
    BY <1>9 DEF Return, Filled
  <2>4. {r[1] : r \in rows'[b]} = items[b]
    <3>1. \A r \in rows'[b] : r[1] \in items[b]
      <4> SUFFICES ASSUME NEW r \in rows'[b] PROVE r[1] \in items[b]
        OBVIOUS
      <4>1. PICK i \in items[b] : r = <<i, RowOf(b, i)>>
        BY <2>2
      <4> QED
        BY <4>1
    <3>2. \A i \in items[b] : \E r \in rows'[b] : r[1] = i
      <4>1. \A i \in items[b] : <<i, RowOf(b, i)>> \in rows'[b] /\ <<i, RowOf(b, i)>>[1] = i
        BY <2>2, <2>3
      <4> QED
        BY <4>1
    <3> QED
      BY <3>1, <3>2
  <2>5. Accounted(b)'
    BY <2>1, <2>4 DEF DockerInv, Accounted, RuntimeServiceConfigs
  <2> QED
    BY <2>5, <1>2, <1>3, <1>5, <1>6, <1>9 DEF DockerInv
<1> QED
  BY <1>4, <1>7, <1>8, <1>9

LEMMA DockerKeeps ==
  ASSUME DockerInv, DockerNext \/ DockerCutOff \/ DockerAnswer
  PROVE  DockerInv'
<1>1. BeatTypes' /\ UNCHANGED host
  BY DockerRests DEF DockerInv
<1>2. CASE \E g \in Goroutines : \/ FindClient(g) \/ MakeClient(g)
                                 \/ \E r : TakeReply(g, r)
  BY <1>1, <1>2, GoroutinesKeepDocker
<1>3. CASE \E b \in DockerBindings : \/ CallDocker(b) \/ NextContainer(b) \/ Return(b)
                                     \/ \E r : ListContainers(b, r)
  BY <1>1, <1>3, CallsKeepDocker
<1> QED
  BY <1>2, <1>3 DEF DockerNext, DockerCutOff, DockerAnswer, DockerStep, CutOff, Answer

LEMMA NextDocker == DockerInv /\ [Next]_vars => DockerInv'
<1> SUFFICES ASSUME DockerInv, [Next]_vars PROVE DockerInv'
  OBVIOUS
<1> BeatTypes
  BY DEF DockerInv
<1>1. CASE BeatNext
  BY <1>1, BeatRests, Families, OthersKeepDocker DEF primitiveVars, dockerVars, Forget
<1>2. CASE SnapshotNext
  BY <1>2, SnapshotRests, Families, OthersKeepDocker DEF SnapshotNext, dockerVars
<1>3. CASE CpuNext
  BY <1>3, CpuRests, Families, OthersKeepDocker DEF CpuNext, dockerVars
<1>4. CASE DockerNext \/ DockerCutOff \/ DockerAnswer
  BY <1>4, DockerKeeps
<1>5. CASE ProbeNext \/ ProbeCut \/ ProbeEnded
  BY <1>5, ProbeRests, Families, OthersKeepDocker DEF ProbeNext, ProbeCut, ProbeEnded, dockerVars
<1>6. CASE LiveNext \/ HostNext \/ UNCHANGED vars
  BY <1>6, HardwareRests, Families, OthersKeepDocker DEF LiveNext, HostNext, vars, primitiveVars, dockerVars
<1> QED
  BY <1>1, <1>2, <1>3, <1>4, <1>5, <1>6 DEF Next, BeatNext

THEOREM DockerAlways == Spec => []DockerInv
<1> QED
  BY InitDocker, NextDocker, PTL DEF Spec

\* OneClientPerSocket: the second look under the write lock keeps a socket at one client,
\* for any number of goroutines that miss it at once (dockerClientFor).
THEOREM ClientsAreShared == Spec => []OneClientPerSocket
<1>1. DockerInv => OneClientPerSocket
  BY DEF DockerInv
<1> QED
  BY <1>1, DockerAlways, PTL

\* NothingDropped: a call answers about each of its services or containers, whatever was
\* refused or cut off (runtimeServices, dockerStats, dockerContainers).
THEOREM EveryServiceHasARow == Spec => []NothingDropped
<1>1. DockerInv => NothingDropped
  BY DEF DockerInv, NothingDropped, Accounted, RuntimeServiceConfigs
<1> QED
  BY <1>1, DockerAlways, PTL

\* A goroutine that has a request to send.
Open(g) == pc[g] \in {"find", "make", "ask"}

\* What the inspection allows to be called healthy: a container that runs, or no container.
MayBeHealthy(g) ==
  /\ host.services[g[2]].container => got[g]["inspect"] \in {"running", "labelled"}
  /\ got[g]["inspect"] \notin {"error", "stopped"}

\* The order of a goroutine's requests: it inspects before it asks for the health, and asks
\* for the health only of what may be healthy.
Earned(g) ==
  /\ Open(g) /\ asks[g] = "inspect" => got[g]["health"] # "expected"
  /\ Open(g) /\ asks[g] = "health" => MayBeHealthy(g)
  /\ got[g]["health"] = "expected" => MayBeHealthy(g)

\* A call of runtime.services: its goroutines keep the order, those of no configured service
\* do not run, and once it has returned nobody answers for it any more.
Probed(b) ==
  Kind[b] = "services" =>
    /\ stage[b] \in {"waiting", "done"} => \A i \in Items : Earned(<<b, i>>)
    /\ stage[b] = "waiting" =>
         items[b] \subseteq Items /\ \A i \in Items \ items[b] : pc[<<b, i>>] = "off"
    /\ stage[b] = "done" =>
         /\ \A i \in Items : ~Open(<<b, i>>)
         /\ \A r \in rows[b] : r[1] \in Items /\ r[2] = SignalOf(<<b, r[1]>>)

AnyReply ==
  {"none", "error", "stopped", "running", "labelled", "other", "expected", "answer"}

RequestTypes ==
  /\ pc \in [Goroutines -> {"off", "find", "make", "ask", "end"}]
  /\ asks \in [Goroutines -> Requests]
  /\ got \in [Goroutines -> [Requests -> AnyReply]]

HealthInv == RequestTypes /\ \A b \in DockerBindings : Probed(b)

LEMMA InitHealth == Init => HealthInv
<1> SUFFICES ASSUME Init PROVE HealthInv
  OBVIOUS
<1>1. \A b \in DockerBindings : stage[b] = "idle"
  BY Families DEF Init, BeatInit
<1>2. RequestTypes
  BY DEF Init, DockerInit, RequestTypes, NoReplies, AnyReply, Requests
<1> QED
  BY <1>1, <1>2 DEF HealthInv, Probed

\* A step that is not theirs, and the death of the process.
LEMMA OthersKeepHealth ==
  ASSUME HealthInv, UNCHANGED <<host, items, asks, got, rows>>,
         \A b \in DockerBindings : Rests(b),
         pc' = pc \/ pc' = [g \in Goroutines |-> "off"]
  PROVE  HealthInv'
<1>1. RequestTypes'
  BY DEF HealthInv, RequestTypes
<1>2. \A g \in Goroutines : Open(g)' => Open(g)
  BY DEF Open
<1>3. \A g : MayBeHealthy(g)' = MayBeHealthy(g) /\ SignalOf(g)' = SignalOf(g)
  BY DEF MayBeHealthy, SignalOf
<1>4. ASSUME NEW b \in DockerBindings PROVE Probed(b)'
  <2> SUFFICES ASSUME Kind[b] = "services", stage'[b] \in {"waiting", "done"} PROVE Probed(b)'
    BY DEF Probed
  <2>1. stage'[b] = stage[b]
    BY DEF Rests
  <2>2. \A i \in Items : <<b, i>> \in Goroutines
    BY DEF Goroutines
  <2>3. Probed(b)
    BY DEF HealthInv
  <2>4. \A i \in Items : Earned(<<b, i>>)'
    BY <1>2, <1>3, <2>1, <2>2, <2>3 DEF Probed, Earned
  <2>5. \A i \in Items : pc[<<b, i>>] = "off" => pc'[<<b, i>>] = "off"
    BY <2>2
  <2> QED
    BY <1>2, <1>3, <2>1, <2>2, <2>3, <2>4, <2>5 DEF Probed
<1> QED
  BY <1>1, <1>4 DEF HealthInv

\* A step of one goroutine concerns its own call only, and that is still waiting for it.
LEMMA OneGoroutine ==
  ASSUME HealthInv, NEW g \in Goroutines, UNCHANGED <<host, stage, items, rows>>,
         Open(g),
         RequestTypes',
         \A h \in Goroutines \ {g} : pc'[h] = pc[h] /\ asks'[h] = asks[h] /\ got'[h] = got[h],
         g[2] \in Items /\ Earned(g) => Earned(g)',
         g[2] \notin Items => got'[g] = got[g]
  PROVE  HealthInv'
<1>1. ASSUME NEW b \in DockerBindings PROVE Probed(b)'
  <2> SUFFICES ASSUME Kind[b] = "services", stage[b] \in {"waiting", "done"} PROVE Probed(b)'
    BY DEF Probed
  <2>1. \A i \in Items : <<b, i>> \in Goroutines /\ <<b, i>>[2] = i
    BY DEF Goroutines
  <2>2. Probed(b)
    BY DEF HealthInv
  <2>3. ASSUME NEW i \in Items PROVE Earned(<<b, i>>)'
    <3>1. CASE <<b, i>> = g
      BY <2>1, <2>2, <3>1 DEF Probed
    <3>2. CASE <<b, i>> # g
      BY <2>1, <2>2, <3>2 DEF Probed, Earned, Open, MayBeHealthy
    <3> QED
      BY <3>1, <3>2
  <2>4. CASE stage[b] = "waiting"
    <3>1. \A i \in Items \ items[b] : <<b, i>> # g
      BY <2>2, <2>4 DEF Probed, Open
    <3>2. \A i \in Items \ items[b] : pc'[<<b, i>>] = "off"
      BY <2>1, <2>2, <2>4, <3>1 DEF Probed
    <3> QED
      BY <2>2, <2>3, <2>4, <3>2 DEF Probed
  <2>5. CASE stage[b] = "done"
    <3>1. \A i \in Items : <<b, i>> # g
      BY <2>2, <2>5 DEF Probed
    <3>2. \A i \in Items : pc'[<<b, i>>] = pc[<<b, i>>] /\ got'[<<b, i>>] = got[<<b, i>>]
      BY <2>1, <3>1
    <3>3. \A i \in Items : ~Open(<<b, i>>)'
      BY <2>2, <2>5, <3>2 DEF Probed, Open
    <3>4. \A r \in rows[b] : r[1] \in Items /\ r[2] = SignalOf(<<b, r[1]>>)'
      BY <2>2, <2>5, <3>2 DEF Probed, SignalOf
    <3> QED
      BY <2>3, <2>5, <3>3, <3>4 DEF Probed
  <2> QED
    BY <2>4, <2>5
<1> QED
  BY <1>1 DEF HealthInv

LEMMA GoroutinesKeepHealth ==
  ASSUME HealthInv, UNCHANGED host, NEW g \in Goroutines,
         FindClient(g) \/ MakeClient(g) \/ (\E r \in AnyReply : TakeReply(g, r))
  PROVE  HealthInv'
<1> USE DEF HealthInv
<1>1. UNCHANGED <<stage, items, rows>>
  BY DEF FindClient, MakeClient, TakeReply, beatVars
<1>2. CASE FindClient(g) \/ MakeClient(g)
  <2>1. /\ UNCHANGED <<asks, got>> /\ Open(g)
        /\ \E to \in {"make", "ask"} : pc' = [pc EXCEPT ![g] = to]
    BY <1>2 DEF FindClient, MakeClient, Open
  <2>2. RequestTypes'
    BY <2>1 DEF RequestTypes
  <2>3. Earned(g) => Earned(g)'
    BY <2>1 DEF Earned, MayBeHealthy
  <2>4. \A h \in Goroutines \ {g} : pc'[h] = pc[h] /\ asks'[h] = asks[h] /\ got'[h] = got[h]
    BY <2>1 DEF RequestTypes
  <2> QED
    BY <1>1, <2>1, <2>2, <2>3, <2>4, OneGoroutine
<1>3. CASE \E r \in AnyReply : TakeReply(g, r)
  <2>1. PICK r \in AnyReply : TakeReply(g, r)
    BY <1>3
  <2> DEFINE asked == asks[g]
             next == NextRequest(g[1], g[2], asked, r)
  <2>2. /\ g[2] # Listing /\ Open(g) /\ asked \in Requests /\ r \in Replies(asked)
        /\ got' = [got EXCEPT ![g][asked] = r]
    BY <2>1 DEF TakeReply, Open, RequestTypes
  <2>3. next \subseteq Requests /\ "inspect" \notin next
    BY DEF NextRequest, Requests
  <2>4. \/ pc' = [pc EXCEPT ![g] = "end"] /\ asks' = asks
        \/ \E q \in next : pc' = [pc EXCEPT ![g] = Going(q)] /\ asks' = [asks EXCEPT ![g] = q]
    BY <2>1 DEF TakeReply
  <2>5. RequestTypes'
    <3>1. got' \in [Goroutines -> [Requests -> AnyReply]]
      BY <2>2 DEF RequestTypes
    <3>2. \A q : Going(q) \in {"off", "find", "make", "ask", "end"}
      BY DEF Going
    <3> HIDE DEF next, asked
    <3>3. /\ pc' \in [Goroutines -> {"off", "find", "make", "ask", "end"}]
          /\ asks' \in [Goroutines -> Requests]
      BY <2>3, <2>4, <3>2 DEF RequestTypes
    <3> QED
      BY <3>1, <3>3 DEF RequestTypes
  <2>6. \A h \in Goroutines \ {g} : pc'[h] = pc[h] /\ asks'[h] = asks[h] /\ got'[h] = got[h]
    BY <2>2, <2>4 DEF RequestTypes
  <2>7. /\ got'[g][asked] = r
        /\ \A q \in Requests \ {asked} : got'[g][q] = got[g][q]
    BY <2>2 DEF RequestTypes
  <2>8. Open(g)' => asks'[g] \in next
    BY <2>4 DEF RequestTypes, Open
  <2>9. ASSUME Earned(g) PROVE Earned(g)'
    <3>1. {"inspect", "health"} \subseteq Requests
      BY DEF Requests
    <3>2. CASE asked = "inspect"
      <4>1. got'[g]["health"] # "expected" /\ got'[g]["inspect"] = r
        BY <2>2, <2>7, <2>9, <3>1, <3>2 DEF Earned
      <4>2. "health" \in next => r \in {"running", "labelled"}
        BY <3>2 DEF NextRequest
      <4> QED
        BY <2>3, <2>8, <4>1, <4>2 DEF Earned, MayBeHealthy
    <3>3. CASE asked # "inspect"
      <4>1. got'[g]["inspect"] = got[g]["inspect"]
        BY <2>7, <3>1, <3>3
      <4>2. "health" \notin next
        BY <3>3 DEF NextRequest
      <4>3. got'[g]["health"] = "expected" => MayBeHealthy(g)
        <5>1. CASE asked = "health"
          BY <2>2, <2>9, <5>1 DEF Earned
        <5>2. CASE asked # "health"
          BY <2>7, <2>9, <3>1, <5>2 DEF Earned
        <5> QED
          BY <5>1, <5>2
      <4>4. MayBeHealthy(g)' = MayBeHealthy(g)
        BY <4>1 DEF MayBeHealthy
      <4> QED
        BY <2>3, <2>8, <4>2, <4>3, <4>4 DEF Earned
    <3> QED
      BY <3>2, <3>3
  <2>10. g[2] \in Items \cup {Listing}
    BY DEF Goroutines
  <2> QED
    BY <1>1, <2>2, <2>5, <2>6, <2>9, <2>10, OneGoroutine
<1> QED
  BY <1>2, <1>3

\* A step of a call leaves the other calls and their goroutines alone.
LEMMA OneCall ==
  ASSUME HealthInv, RequestTypes', NEW b \in DockerBindings, UNCHANGED host,
         \A c \in DockerBindings \ {b} :
           stage'[c] = stage[c] /\ items'[c] = items[c] /\ rows'[c] = rows[c],
         \A g \in Goroutines \ Of(b) : pc'[g] = pc[g] /\ asks'[g] = asks[g] /\ got'[g] = got[g],
         Probed(b)'
  PROVE  HealthInv'
<1>1. ASSUME NEW c \in DockerBindings, c # b PROVE Probed(c)'
  <2>1. \A i \in Items : <<c, i>> \in Goroutines \ Of(b) /\ <<c, i>>[2] = i
    BY <1>1 DEF Goroutines, Of
  <2>2. \A i \in Items : /\ pc'[<<c, i>>] = pc[<<c, i>>]
                         /\ asks'[<<c, i>>] = asks[<<c, i>>]
                         /\ got'[<<c, i>>] = got[<<c, i>>]
    BY <2>1
  <2>3. \A i \in Items : /\ Open(<<c, i>>)' <=> Open(<<c, i>>)
                         /\ Earned(<<c, i>>)' <=> Earned(<<c, i>>)
                         /\ SignalOf(<<c, i>>)' = SignalOf(<<c, i>>)
    BY <2>2 DEF Open, Earned, MayBeHealthy, SignalOf
  <2>4. Probed(c)
    BY DEF HealthInv
  <2>5. stage'[c] = stage[c] /\ items'[c] = items[c] /\ rows'[c] = rows[c]
    BY <1>1
  <2> QED
    BY <2>2, <2>3, <2>4, <2>5 DEF Probed
<1> QED
  BY <1>1 DEF HealthInv

LEMMA CallsKeepHealth ==
  ASSUME DockerInv, HealthInv, UNCHANGED host, NEW b \in DockerBindings,
         \/ CallDocker(b) \/ (\E r \in AnyReply : ListContainers(b, r))
         \/ NextContainer(b) \/ Return(b)
  PROVE  HealthInv'
<1>1. b \in Bindings /\ DockerBindings \subseteq Bindings
  BY Families
<1>2. \A i \in Items : <<b, i>> \in Of(b) /\ <<b, i>> \in Goroutines /\ <<b, i>>[2] = i
  BY DEF Goroutines, Of
<1>3. \A c \in DockerBindings \ {b} :
        stage'[c] = stage[c] /\ items'[c] = items[c] /\ rows'[c] = rows[c]
  BY <1>1 DEF CallDocker, ListContainers, NextContainer, Return, Step, DockerInv, BeatTypes,
    beatVars
<1>4. RequestTypes
  BY DEF HealthInv
<1>5. CASE CallDocker(b)
  <2>1. got' = [g \in Goroutines |-> IF g \in Of(b) THEN NoReplies ELSE got[g]]
    BY <1>5 DEF CallDocker
  <2>2. NoReplies \in [Requests -> AnyReply]
    BY DEF NoReplies, AnyReply
  <2>3. CASE Kind[b] = "services"
    <3> DEFINE all == RuntimeServiceConfigs
    <3>1. all \subseteq Items
      BY HostsAssumption DEF DockerInv, BeatTypes, RuntimeServiceConfigs
    <3>2. /\ Start(b, {b} \X all, [i \in all |-> FirstRequest(b, i)])
          /\ items' = [items EXCEPT ![b] = all] /\ Step(b, "waiting")
      BY <1>5, <2>3 DEF CallDocker
    <3>3. all' = all
      BY DEF RuntimeServiceConfigs
    <3> HIDE DEF all
    <3>4. \A i \in all : FirstRequest(b, i) =
                           IF host.services[i].container THEN "inspect" ELSE "health"
      BY <2>3 DEF FirstRequest
    <3>5. \A g \in {b} \X all : g[2] \in all
      OBVIOUS
    <3>6. RequestTypes'
      BY <1>4, <2>1, <2>2, <3>2, <3>4, <3>5 DEF RequestTypes, Start, Going, Requests
    <3>7. \A g \in Goroutines \ Of(b) : g \notin {b} \X all
      BY DEF Of
    <3>8. \A g \in Goroutines \ Of(b) : pc'[g] = pc[g] /\ asks'[g] = asks[g] /\ got'[g] = got[g]
      BY <2>1, <3>2, <3>7, <1>4 DEF Start, RequestTypes
    <3>9. items'[b] = all /\ stage'[b] = "waiting"
      BY <1>1, <3>2 DEF Step, DockerInv, BeatTypes
    <3>10. \A i \in Items \ all : pc'[<<b, i>>] = "off"
      BY <1>2, <3>2 DEF Start
    <3>11. ASSUME NEW i \in Items PROVE Earned(<<b, i>>)'
      <4>1. got'[<<b, i>>] = NoReplies
        BY <1>2, <2>1
      <4>2. got'[<<b, i>>]["inspect"] = "none" /\ got'[<<b, i>>]["health"] = "none"
        BY <4>1 DEF NoReplies, Requests
      <4>3. i \in all => asks'[<<b, i>>] = FirstRequest(b, i)
        BY <1>2, <3>2 DEF Start
      <4>4. Open(<<b, i>>)' => i \in all
        BY <3>10 DEF Open
      <4>5. Open(<<b, i>>)' /\ asks'[<<b, i>>] = "health" => ~host.services[i].container
        BY <3>4, <4>3, <4>4
      <4> QED
        BY <1>2, <4>2, <4>5 DEF Earned, MayBeHealthy
    <3>12. Probed(b)'
      BY <3>1, <3>9, <3>10, <3>11 DEF Probed
    <3> QED
      BY <1>3, <3>6, <3>8, <3>12, OneCall
  <2>4. CASE Kind[b] # "services"
    <3>1. Start(b, {<<b, Listing>>}, [i \in {Listing} |-> "list"])
      BY <1>5, <2>4 DEF CallDocker
    <3>2. RequestTypes'
      BY <1>4, <2>1, <2>2, <3>1 DEF RequestTypes, Start, Going, Requests
    <3>3. \A g \in Goroutines \ Of(b) : g # <<b, Listing>>
      BY DEF Of
    <3>4. \A g \in Goroutines \ Of(b) : pc'[g] = pc[g] /\ asks'[g] = asks[g] /\ got'[g] = got[g]
      BY <2>1, <3>1, <3>3, <1>4 DEF Start, RequestTypes
    <3> QED
      BY <1>3, <2>4, <3>2, <3>4, OneCall DEF Probed
  <2> QED
    BY <2>3, <2>4
<1>6. CASE \E r \in AnyReply : ListContainers(b, r)
  <2>1. PICK r \in AnyReply : ListContainers(b, r)
    BY <1>6
  <2>2. Kind[b] # "services"
    BY <2>1 DEF ListContainers, DockerInv, Accounted
  <2>3. PICK found \in SUBSET Items :
          Start(b, IF Kind[b] = "stats" THEN {b} \X found ELSE {}, [i \in found |-> "restarts"])
    BY <2>1 DEF ListContainers
  <2>4. got' = [got EXCEPT ![<<b, Listing>>]["list"] = r]
    BY <2>1 DEF ListContainers
  <2>5. \A g \in {b} \X found : g[2] \in found /\ g \in Of(b)
    BY DEF Goroutines, Of
  <2>6. RequestTypes'
    BY <1>4, <2>3, <2>4, <2>5 DEF RequestTypes, Start, Going, Requests
  <2>7. <<b, Listing>> \in Of(b)
    BY DEF Goroutines, Of
  <2>8. \A g \in Goroutines \ Of(b) : pc'[g] = pc[g] /\ asks'[g] = asks[g] /\ got'[g] = got[g]
    BY <2>3, <2>4, <2>5, <2>7, <1>4 DEF Start, RequestTypes
  <2> QED
    BY <1>3, <2>2, <2>6, <2>8, OneCall DEF Probed
<1>7. CASE NextContainer(b)
  <2>1. PICK i \in items[b], to \in {"find", "end"} :
          /\ pc' = [pc EXCEPT ![<<b, i>>] = to]
          /\ asks' = [asks EXCEPT ![<<b, i>>] = "restarts"] /\ got' = got
    BY <1>7 DEF NextContainer
  <2>2. RequestTypes'
    BY <1>4, <2>1 DEF RequestTypes, Requests
  <2>3. \A g \in Goroutines \ Of(b) : g # <<b, i>>
    BY DEF Of
  <2>4. \A g \in Goroutines \ Of(b) : pc'[g] = pc[g] /\ asks'[g] = asks[g] /\ got'[g] = got[g]
    BY <1>4, <2>1, <2>3 DEF RequestTypes
  <2>5. Kind[b] # "services"
    BY <1>7 DEF NextContainer
  <2> QED
    BY <1>3, <2>2, <2>4, <2>5, OneCall DEF Probed
<1>8. CASE Return(b)
  <2>1. /\ stage[b] = "waiting" /\ stage'[b] = "done" /\ UNCHANGED <<items, pc, asks, got>>
        /\ \A i \in items[b] : pc[<<b, i>>] = "end"
        /\ rows'[b] = {<<i, RowOf(b, i)>> : i \in Filled(b)}
    BY <1>1, <1>8 DEF Return, Step, DockerInv, BeatTypes
  <2>2. RequestTypes'
    BY <1>4, <2>1 DEF RequestTypes
  <2>3. CASE Kind[b] = "services"
    <3>1. /\ items[b] \subseteq Items
          /\ \A i \in Items \ items[b] : pc[<<b, i>>] = "off"
          /\ \A i \in Items : Earned(<<b, i>>)
      BY <2>1, <2>3 DEF HealthInv, Probed
    <3>2. \A i \in Items : ~Open(<<b, i>>)'
      BY <2>1, <3>1 DEF Open
    <3>3. \A i \in Items : Earned(<<b, i>>)'
      BY <2>1, <3>1 DEF Earned, MayBeHealthy, Open
    <3>4. ASSUME NEW r \in rows'[b] PROVE r[1] \in Items /\ r[2] = SignalOf(<<b, r[1]>>)'
      <4>1. PICK i \in Filled(b) : r = <<i, RowOf(b, i)>>
        BY <2>1
      <4>2. i \in Items /\ RowOf(b, i) = SignalOf(<<b, i>>)
        BY <2>3, <3>1 DEF Filled, RowOf
      <4>3. SignalOf(<<b, i>>)' = SignalOf(<<b, i>>)
        BY <2>1 DEF SignalOf
      <4> QED
        BY <4>1, <4>2, <4>3
    <3>5. Probed(b)'
      BY <2>1, <3>2, <3>3, <3>4 DEF Probed
    <3> QED
      BY <1>3, <2>1, <2>2, <3>5, OneCall
  <2>4. CASE Kind[b] # "services"
    BY <1>3, <2>1, <2>2, <2>4, OneCall DEF Probed
  <2> QED
    BY <2>3, <2>4
<1> QED
  BY <1>5, <1>6, <1>7, <1>8

LEMMA HealthKeeps ==
  ASSUME DockerInv, HealthInv, DockerNext \/ DockerCutOff \/ DockerAnswer
  PROVE  HealthInv'
<1>1. UNCHANGED host
  BY DockerRests DEF DockerInv
<1>2. Replies("list") \subseteq AnyReply /\ "error" \in AnyReply
      /\ {"error", "stopped", "running", "labelled", "other", "expected", "answer"} \subseteq AnyReply
  BY DEF Replies, AnyReply
<1>3. CASE \E g \in Goroutines : \/ FindClient(g) \/ MakeClient(g)
                                 \/ \E r \in AnyReply : TakeReply(g, r)
  BY <1>1, <1>3, GoroutinesKeepHealth
<1>4. CASE \E b \in DockerBindings : \/ CallDocker(b) \/ NextContainer(b) \/ Return(b)
                                     \/ \E r \in AnyReply : ListContainers(b, r)
  BY <1>1, <1>4, CallsKeepHealth
<1> QED
  BY <1>2, <1>3, <1>4 DEF DockerNext, DockerCutOff, DockerAnswer, DockerStep, CutOff, Answer

LEMMA NextHealth == DockerInv /\ HealthInv /\ [Next]_vars => HealthInv'
<1> SUFFICES ASSUME DockerInv, HealthInv, [Next]_vars PROVE HealthInv'
  OBVIOUS
<1> BeatTypes
  BY DEF DockerInv
<1>1. CASE BeatNext
  BY <1>1, BeatRests, Families, OthersKeepHealth DEF primitiveVars, dockerVars, Forget
<1>2. CASE SnapshotNext
  BY <1>2, SnapshotRests, Families, OthersKeepHealth DEF SnapshotNext, dockerVars
<1>3. CASE CpuNext
  BY <1>3, CpuRests, Families, OthersKeepHealth DEF CpuNext, dockerVars
<1>4. CASE DockerNext \/ DockerCutOff \/ DockerAnswer
  BY <1>4, HealthKeeps
<1>5. CASE ProbeNext \/ ProbeCut \/ ProbeEnded
  BY <1>5, ProbeRests, Families, OthersKeepHealth DEF ProbeNext, ProbeCut, ProbeEnded, dockerVars
<1>6. CASE LiveNext \/ HostNext \/ UNCHANGED vars
  BY <1>6, HardwareRests, Families, OthersKeepHealth DEF LiveNext, HostNext, vars, primitiveVars, dockerVars
<1> QED
  BY <1>1, <1>2, <1>3, <1>4, <1>5, <1>6 DEF Next, BeatNext

\* HealthyIsEarned: whatever order the goroutines run in, whatever fails and whenever the
\* deadline cuts in, a service is healthy only by its own container's inspection and its own
\* document, and the row that is returned says what they said (probeRuntimeService).
THEOREM HealthIsEarned == Spec => []HealthyIsEarned
<1>1. HealthInv => HealthyIsEarned
  <2> SUFFICES ASSUME HealthInv, NEW b \in DockerBindings, NEW r \in rows[b],
                      Kind[b] = "services", stage[b] = "done"
               PROVE  LET g == <<b, r[1]>>
                      IN /\ r[2].status = "HEALTHY" =>
                              /\ got[g]["health"] = "expected"
                              /\ host.services[r[1]].container =>
                                   got[g]["inspect"] \in {"running", "labelled"}
                         /\ got[g]["inspect"] = "labelled" => r[2].version = "label"
                         /\ got[g]["inspect"] \in {"error", "stopped"} => r[2].status = "STALE"
    BY DEF HealthyIsEarned
  <2> DEFINE g == <<b, r[1]>>
  <2>1. r[1] \in Items /\ r[2] = SignalOf(g) /\ Earned(g)
    BY DEF HealthInv, Probed
  <2>2. g[2] = r[1]
    OBVIOUS
  <2> QED
    BY <2>1, <2>2 DEF SignalOf, Earned, MayBeHealthy
<1> QED
  BY <1>1, DockerAlways, InitHealth, NextHealth, PTL DEF Spec

-----------------------------------------------------------------------------
(* The timed probes *)

ProbeInv ==
  /\ BeatTypes
  /\ waitsFor = [b \in ProbeBindings |-> waitsFor[b]]
  /\ says = [b \in ProbeBindings |-> says[b]]
  /\ NoPartialFacts

\* No primitive calls a value what was refused, did not come, or broke off: of the ones that
\* look at the output alone, is_active wants all of it.
LEMMA ValuesAreWhole ==
  ASSUME NEW p \in Asking, NEW o, AnswerOf(p, o) = "value",
         o.cut => o.is \in {"none", "part", "whole"},
         ~o.cut => o.is \in {"refused", "garbled", "missing", "whole"},
         o.cut \in BOOLEAN
  PROVE  o.is \notin {"refused", "none", "part"}
BY DEF Asking, AnswerOf, Complete, InFull, Exec, IsActive, DiskUsage, SystemdResources,
  AptSecurityCount, HttpGet, HttpGetJSON, HttpProbe, TcpConnect, SslCertExpiry

LEMMA InitProbe == Init => ProbeInv
<1> SUFFICES ASSUME Init PROVE ProbeInv
  OBVIOUS
<1>1. BeatTypes
  BY DEF Init, BeatInit, BeatTypes, Stages
<1>2. \A b \in ProbeBindings : stage[b] = "idle"
  BY Families DEF Init, BeatInit
<1> QED
  BY <1>1, <1>2 DEF Init, ProbeInit, ProbeInv, NoPartialFacts

LEMMA OthersKeepProbe ==
  ASSUME ProbeInv, BeatTypes', UNCHANGED <<waitsFor, says>>, \A b \in ProbeBindings : Rests(b)
  PROVE  ProbeInv'
BY DEF ProbeInv, NoPartialFacts, Rests

LEMMA ProbeKeeps == ASSUME ProbeInv, ProbeNext \/ ProbeCut \/ ProbeEnded PROVE ProbeInv'
<1>1. BeatTypes' /\ ProbeBindings \subseteq Bindings
  BY ProbeRests, Families DEF ProbeInv
<1>2. ASSUME NEW b \in ProbeBindings, NEW s \in Stages, Step(b, s),
             waitsFor' = [c \in ProbeBindings |-> waitsFor'[c]],
             says' = [c \in ProbeBindings |-> says'[c]],
             \A c \in ProbeBindings \ {b} : waitsFor'[c] = waitsFor[c] /\ says'[c] = says[c],
             s = "done" /\ Probe[b] \notin Rates /\ says'[b] = "value" =>
               waitsFor'[b].is \notin {"refused", "none", "part"}
      PROVE  ProbeInv'
  BY <1>1, <1>2, StepMoves DEF ProbeInv, NoPartialFacts
<1>3. {"waiting", "done"} \subseteq Stages
  BY DEF Stages
<1>4. ASSUME NEW b \in ProbeBindings, CallProbe(b) PROVE ProbeInv'
  BY <1>2, <1>3, <1>4 DEF CallProbe, ProbeInv
<1>5. ASSUME NEW b \in ProbeBindings, Probe[b] \in Rates,
             Step(b, "done"), UNCHANGED waitsFor, NEW v, says' = [says EXCEPT ![b] = v]
      PROVE  ProbeInv'
  BY <1>2, <1>3, <1>5 DEF ProbeInv
<1>6. ASSUME NEW b \in ProbeBindings, NEW is, NEW cut \in BOOLEAN,
             AnswerWith(b, [is |-> is, cut |-> cut]),
             cut => is \in {"none", "part", "whole"},
             ~cut => is \in {"refused", "garbled", "missing", "whole"}
      PROVE  ProbeInv'
  <2> DEFINE o == [is |-> is, cut |-> cut]
  <2>1. waitsFor'[b] = o /\ says'[b] = AnswerOf(Probe[b], o) /\ Probe[b] \notin Rates
    BY <1>6 DEF AnswerWith, ProbeInv
  <2>2. Probe[b] \in Asking
    BY <2>1, ProbeAssumption
  <2>3. AnswerOf(Probe[b], o) = "value" => is \notin {"refused", "none", "part"}
    BY <1>6, <2>2, ValuesAreWhole
  <2> HIDE DEF o
  <2>4. o.is = is
    BY DEF o
  <2>5. /\ waitsFor' = [c \in ProbeBindings |-> waitsFor'[c]]
        /\ says' = [c \in ProbeBindings |-> says'[c]]
        /\ \A c \in ProbeBindings \ {b} : waitsFor'[c] = waitsFor[c] /\ says'[c] = says[c]
    BY <1>6 DEF AnswerWith, ProbeInv
  <2> QED
    BY <1>2, <1>3, <1>6, <2>1, <2>3, <2>4, <2>5 DEF AnswerWith
<1>7. ASSUME NEW b \in ProbeBindings, Cut(b) PROVE ProbeInv'
  BY <1>5, <1>6, <1>7 DEF Cut
<1>8. ASSUME NEW b \in ProbeBindings, Ended(b) PROVE ProbeInv'
  BY <1>6, <1>8 DEF Ended
<1>9. ASSUME NEW b \in ProbeBindings, SecondSample(b) PROVE ProbeInv'
  BY <1>5, <1>9 DEF SecondSample
<1> QED
  BY <1>4, <1>7, <1>8, <1>9 DEF ProbeNext, ProbeCut, ProbeEnded

LEMMA NextProbe == ProbeInv /\ [Next]_vars => ProbeInv'
<1> SUFFICES ASSUME ProbeInv, [Next]_vars PROVE ProbeInv'
  OBVIOUS
<1> BeatTypes
  BY DEF ProbeInv
<1>1. CASE BeatNext
  BY <1>1, BeatRests, Families, OthersKeepProbe DEF primitiveVars, probeVars, Forget
<1>2. CASE SnapshotNext
  BY <1>2, SnapshotRests, Families, OthersKeepProbe DEF SnapshotNext, probeVars
<1>3. CASE CpuNext
  BY <1>3, CpuRests, Families, OthersKeepProbe DEF CpuNext, probeVars
<1>4. CASE DockerNext \/ DockerCutOff \/ DockerAnswer
  BY <1>4, DockerRests, Families, OthersKeepProbe DEF DockerNext, DockerCutOff, DockerAnswer, probeVars
<1>5. CASE ProbeNext \/ ProbeCut \/ ProbeEnded
  BY <1>5, ProbeKeeps
<1>6. CASE LiveNext \/ HostNext \/ UNCHANGED vars
  BY <1>6, HardwareRests, Families, OthersKeepProbe DEF LiveNext, HostNext, DoIO, Plug, vars,
    primitiveVars, probeVars
<1> QED
  BY <1>1, <1>2, <1>3, <1>4, <1>5, <1>6 DEF Next, BeatNext

THEOREM ProbesAlways == Spec => []ProbeInv
<1> QED
  BY InitProbe, NextProbe, PTL DEF Spec

\* NoPartialFacts: no timed probe reports a value made of what was refused, killed or cut
\* off (execPrimitive, dfRows, systemctlIsActive, httpGetJSON and the others).
THEOREM ValuesAreFacts == Spec => []NoPartialFacts
<1>1. ProbeInv => NoPartialFacts
  BY DEF ProbeInv
<1> QED
  BY <1>1, ProbesAlways, PTL

-----------------------------------------------------------------------------
(* The rates of disks and interfaces *)

\* No device beside the one that it is a part of.
Separate(C) == \A d \in C : Whole[d] \in C => Whole[d] = d

Sample(c) ==
  /\ c = [d \in DOMAIN c |-> c[d]]
  /\ DOMAIN c \subseteq Devices /\ \A d \in DOMAIN c : c[d] \in Nat

\* Whichever devices will be there and be counted when the second sample is made: their I/O
\* since the first is I/O that was done since.
Bounded(b) ==
  \A C \in SUBSET (DOMAIN counters \ Virtual) :
    Separate(C) =>
      /\ IsFiniteSet(Units(C, first[b].counters, counters))
      /\ Cardinality(Units(C, first[b].counters, counters)) <= moved - first[b].moved

RateInv ==
  /\ ProbeInv
  /\ moved \in Nat /\ Sample(counters)
  /\ first = [b \in ProbeBindings |-> first[b]] /\ rate = [b \in ProbeBindings |-> rate[b]]
  /\ \A b \in ProbeBindings : Sample(first[b].counters) /\ first[b].moved \in Nat
  /\ \A b \in ProbeBindings : stage[b] = "waiting" /\ Probe[b] \in Rates => Bounded(b)
  /\ RatesAreReal

\* At most one unit more, and what is within.
LEMMA OneUnitMore ==
  ASSUME NEW u, IsFiniteSet(u), NEW n \in Int, Cardinality(u) <= n, NEW e, NEW v \in SUBSET (u \cup {e})
  PROVE  IsFiniteSet(v) /\ Cardinality(v) <= n + 1
<1>1. /\ IsFiniteSet(u \cup {e}) /\ Cardinality(u) \in Nat
      /\ Cardinality(u \cup {e}) \in {Cardinality(u), Cardinality(u) + 1}
  BY FS_AddElement, FS_CardinalityType
<1>2. IsFiniteSet(v) /\ Cardinality(v) <= Cardinality(u \cup {e}) /\ Cardinality(v) \in Nat
  BY <1>1, FS_Subset, FS_CardinalityType
<1> QED
  BY <1>1, <1>2

LEMMA FewerUnits ==
  ASSUME NEW u, IsFiniteSet(u), NEW n \in Int, Cardinality(u) <= n, NEW v \in SUBSET u
  PROVE  IsFiniteSet(v) /\ Cardinality(v) <= n
BY FS_Subset, FS_CardinalityType

\* I/O to a device counts for one of the devices that are counted, or none.
LEMMA IOKeepsBound ==
  ASSUME RateInv, DoIO, NEW b \in ProbeBindings, Bounded(b)
  PROVE  Bounded(b)'
<1> DEFINE old == first[b].counters
<1>1. PICK d \in DOMAIN counters :
        /\ counters' = [e \in DOMAIN counters |->
                          IF e \in {d, Whole[d]} THEN counters[e] + 1 ELSE counters[e]]
        /\ moved' = IF d \in Virtual THEN moved ELSE moved + 1
  BY DEF DoIO
<1>2. first' = first /\ DOMAIN counters' = DOMAIN counters
  BY <1>1 DEF DoIO
<1>3. Sample(counters) /\ Sample(old) /\ moved \in Nat /\ first[b].moved \in Nat
  BY DEF RateInv
<1> SUFFICES ASSUME NEW C \in SUBSET (DOMAIN counters \ Virtual), Separate(C)
             PROVE  /\ IsFiniteSet(Units(C, old, counters'))
                    /\ Cardinality(Units(C, old, counters')) <= moved' - first[b].moved
  BY <1>2 DEF Bounded, Separate
<1> HIDE DEF old
<1>4. /\ IsFiniteSet(Units(C, old, counters))
      /\ Cardinality(Units(C, old, counters)) <= moved - first[b].moved
  BY DEF Bounded, old
<1>5. CASE C \cap {d, Whole[d]} = {}
  <2>1. \A e \in C : counters'[e] = counters[e]
    BY <1>1, <1>5
  <2>2. Units(C, old, counters') = Units(C, old, counters)
    BY <2>1 DEF Units
  <2> QED
    BY <1>1, <1>3, <1>4, <2>2, FewerUnits, FS_CardinalityType
<1>6. CASE C \cap {d, Whole[d]} # {}
  <2>1. PICK x \in C : x \in {d, Whole[d]}
    BY <1>6
  <2>2. \A e \in C : e \in {d, Whole[d]} => e = x
    BY <2>1, <1>3, ProbeAssumption DEF Separate, Sample
  <2>3. d \notin Virtual
    BY <2>1, ProbeAssumption
  <2>4. Units(C, old, counters') \subseteq Units(C, old, counters) \cup {<<x, counters[x] + 1>>}
    <3>1. SUFFICES ASSUME NEW e \in C \cap DOMAIN old, NEW k \in old[e] + 1 .. counters'[e]
                   PROVE  k \in old[e] + 1 .. counters[e] \/ <<e, k>> = <<x, counters[x] + 1>>
      BY DEF Units
    <3>2. counters'[e] = IF e = x THEN counters[e] + 1 ELSE counters[e]
      BY <1>1, <2>1, <2>2
    <3>3. counters[e] \in Nat /\ old[e] \in Nat
      BY <1>3 DEF Sample
    <3> QED
      BY <3>2, <3>3
  <2>5. moved - first[b].moved \in Int /\ moved' - first[b].moved = (moved - first[b].moved) + 1
    BY <1>1, <1>3, <2>3
  <2> QED
    BY <1>4, <2>4, <2>5, OneUnitMore
<1> QED
  BY <1>5, <1>6

\* What is plugged in begins at zero, and what is taken out is not counted.
LEMMA PlugKeepsBound ==
  ASSUME RateInv, Plug, NEW b \in ProbeBindings, Bounded(b)
  PROVE  Bounded(b)'
<1> DEFINE old == first[b].counters
<1>1. UNCHANGED <<first, moved>>
  BY DEF Plug
<1>2. \A e \in DOMAIN counters' : counters'[e] = 0 \/ (e \in DOMAIN counters /\ counters'[e] = counters[e])
  BY DEF Plug
<1>3. Sample(counters) /\ Sample(old) /\ moved \in Nat /\ first[b].moved \in Nat
  BY DEF RateInv
<1> SUFFICES ASSUME NEW C \in SUBSET (DOMAIN counters' \ Virtual), Separate(C)
             PROVE  /\ IsFiniteSet(Units(C, old, counters'))
                    /\ Cardinality(Units(C, old, counters')) <= moved - first[b].moved
  BY <1>1 DEF Bounded, Separate
<1> DEFINE D == C \cap DOMAIN counters
<1> HIDE DEF old
<1>4. D \in SUBSET (DOMAIN counters \ Virtual) /\ Separate(D)
  BY DEF Separate
<1>5. /\ IsFiniteSet(Units(D, old, counters))
      /\ Cardinality(Units(D, old, counters)) <= moved - first[b].moved
  BY <1>4 DEF Bounded, old
<1>6. Units(C, old, counters') \subseteq Units(D, old, counters)
  <2>1. SUFFICES ASSUME NEW e \in C \cap DOMAIN old, NEW k \in old[e] + 1 .. counters'[e]
                 PROVE  e \in D /\ k \in old[e] + 1 .. counters[e]
    BY DEF Units
  <2>2. old[e] \in Nat
    BY <1>3 DEF Sample
  <2>3. counters'[e] # 0
    BY <2>1, <2>2
  <2> QED
    BY <1>2, <2>1, <2>3
<1>7. moved - first[b].moved \in Int
  BY <1>3
<1> HIDE DEF D
<1> QED
  BY <1>5, <1>6, <1>7, FewerUnits

\* The other families and the beat: no call begins to wait, and none ends, but by its own step.
LEMMA OthersKeepRates ==
  ASSUME RateInv, ProbeInv', UNCHANGED probeVars, \A b \in ProbeBindings : Rests(b)
  PROVE  RateInv'
<1>1. \A b \in ProbeBindings :
        /\ stage'[b] = "waiting" => stage[b] = "waiting"
        /\ stage'[b] = "done" => stage[b] = "done"
  BY DEF Rests
<1>2. \A b : Bounded(b)' = Bounded(b)
  BY DEF Bounded, probeVars
<1>3. RatesAreReal'
  BY <1>1 DEF RateInv, RatesAreReal, probeVars
<1> QED
  BY <1>1, <1>2, <1>3 DEF RateInv, probeVars

\* The hardware does its I/O while a call waits, and more of it after a call that is done.
LEMMA HardwareKeepsRates ==
  ASSUME RateInv, ProbeInv', DoIO \/ Plug, UNCHANGED stage
  PROVE  RateInv'
<1>1. \A b \in ProbeBindings : stage[b] = "waiting" /\ Probe[b] \in Rates => Bounded(b)'
  BY IOKeepsBound, PlugKeepsBound DEF RateInv
<1>2. moved' \in Nat /\ moved <= moved' /\ UNCHANGED <<first, rate, says>>
  BY DEF DoIO, Plug, RateInv
<1>3. Sample(counters')
  <2>1. CASE DoIO
    BY <2>1 DEF DoIO, RateInv, Sample
  <2>2. CASE Plug
    <3>1. PICK d \in Devices :
            LET parts == {e \in Devices : Whole[e] = Whole[d]}
            IN counters' = IF d \in DOMAIN counters
                           THEN [e \in DOMAIN counters \ parts |-> counters[e]]
                           ELSE [e \in DOMAIN counters \cup parts |->
                                   IF e \in parts THEN 0 ELSE counters[e]]
      BY <2>2 DEF Plug
    <3>2. Sample(counters)
      BY DEF RateInv
    <3>3. CASE d \in DOMAIN counters
      BY <3>1, <3>2, <3>3 DEF Sample
    <3>4. CASE d \notin DOMAIN counters
      BY <3>1, <3>2, <3>4 DEF Sample
    <3> QED
      BY <3>3, <3>4
  <2> QED
    BY <2>1, <2>2
<1>4. RatesAreReal'
  <2>1. \A b \in ProbeBindings :
          \A x \in 0 .. moved - first[b].moved : x \in 0 .. moved' - first[b].moved
    BY <1>2 DEF RateInv
  <2> QED
    BY <1>2, <2>1 DEF RateInv, RatesAreReal
<1> QED
  BY <1>1, <1>2, <1>3, <1>4 DEF RateInv

\* What is counted at the second sample is counted once: of the disks, because a partition's
\* name begins with its disk's.
LEMMA GrowthIsBounded ==
  ASSUME RateInv, NEW b \in ProbeBindings, Bounded(b),
         \/ Probe[b] = "procfs.diskstats" /\ rate'[b] = DiskRates(first[b].counters, counters)
         \/ /\ \A d \in DOMAIN first[b].counters : Whole[d] = d
            /\ rate'[b] = NetRates(first[b].counters, counters)
  PROVE  rate'[b] \in 0 .. moved - first[b].moved
<1> DEFINE old == first[b].counters
<1>1. ASSUME NEW C \in SUBSET (DOMAIN counters \ Virtual), Separate(C \cap DOMAIN old),
             rate'[b] = Growth(C, old, counters)
      PROVE  rate'[b] \in 0 .. moved - first[b].moved
  <2> DEFINE D == C \cap DOMAIN old
  <2>1. Units(C, old, counters) = Units(D, old, counters)
    BY DEF Units
  <2>2. D \in SUBSET (DOMAIN counters \ Virtual)
    OBVIOUS
  <2>3. /\ IsFiniteSet(Units(D, old, counters))
        /\ Cardinality(Units(D, old, counters)) <= moved - first[b].moved
    BY <1>1, <2>2 DEF Bounded
  <2> QED
    BY <1>1, <2>1, <2>3, FS_CardinalityType DEF Growth, RateInv
<1>2. CASE Probe[b] = "procfs.diskstats" /\ rate'[b] = DiskRates(old, counters)
  <2> DEFINE C == {d \in DOMAIN counters \ Virtual : ~IsPartitionOf(d, DOMAIN counters)}
  <2>1. \A d \in DOMAIN counters : <<Whole[d], d>> \in PrefixOf
    BY ProbeAssumption DEF RateInv, Sample
  <2>2. Separate(C \cap DOMAIN old)
    BY <2>1 DEF Separate, IsPartitionOf
  <2> QED
    BY <1>1, <1>2, <2>2 DEF DiskRates
<1>3. CASE /\ \A d \in DOMAIN old : Whole[d] = d
           /\ rate'[b] = NetRates(old, counters)
  <2>1. Separate((DOMAIN counters \ Virtual) \cap DOMAIN old)
    BY <1>3 DEF Separate
  <2> QED
    BY <1>1, <1>3, <2>1 DEF NetRates
<1> QED
  BY <1>2, <1>3

\* A call: the first sample, under which nothing has been done yet, and its end.
LEMMA CallsKeepRates ==
  ASSUME RateInv, ProbeNext \/ ProbeCut \/ ProbeEnded
  PROVE  RateInv'
<1>1. BeatTypes /\ BeatTypes' /\ ProbeInv' /\ ProbeBindings \subseteq Bindings
  BY NextProbe, ProbeRests, Families DEF RateInv, ProbeInv, Next
<1>2. {"waiting", "done"} \subseteq Stages
  BY DEF Stages
<1>3. UNCHANGED <<counters, moved>>
  BY DEF ProbeNext, ProbeCut, ProbeEnded, CallProbe, SecondSample, Cut, Ended, AnswerWith
<1>4. ASSUME NEW b \in ProbeBindings, NEW s \in Stages, Step(b, s),
             first' = [c \in ProbeBindings |-> first'[c]],
             rate' = [c \in ProbeBindings |-> rate'[c]],
             \A c \in ProbeBindings \ {b} :
               first'[c] = first[c] /\ rate'[c] = rate[c] /\ says'[c] = says[c],
             Sample(first'[b].counters) /\ first'[b].moved \in Nat,
             s = "waiting" /\ Probe[b] \in Rates => Bounded(b)',
             /\ s = "done" /\ Probe[b] \in Rates /\ says'[b] = "value"
             /\ (Probe[b] = "procfs.diskstats" \/ \A d \in DOMAIN first'[b].counters : Whole[d] = d)
             => rate'[b] \in 0 .. moved - first'[b].moved
      PROVE  RateInv'
  <2>1. stage'[b] = s /\ \A c \in ProbeBindings \ {b} : stage'[c] = stage[c]
    BY <1>1, <1>4, StepMoves
  <2>2. \A c \in ProbeBindings \ {b} : Bounded(c) => Bounded(c)'
    BY <1>3, <1>4 DEF Bounded
  <2>3. \A c \in ProbeBindings : stage'[c] = "waiting" /\ Probe[c] \in Rates => Bounded(c)'
    BY <1>4, <2>1, <2>2 DEF RateInv
  <2>4. RatesAreReal'
    BY <1>3, <1>4, <2>1 DEF RateInv, RatesAreReal
  <2> QED
    BY <1>1, <1>3, <1>4, <2>3, <2>4 DEF RateInv
<1>5. ASSUME NEW b \in ProbeBindings, CallProbe(b) PROVE RateInv'
  <2>1. first'[b].counters = counters /\ first'[b].moved = moved
    BY <1>5 DEF CallProbe, RateInv
  <2>2. \A C : Units(C, counters, counters) = {}
    BY DEF Units, RateInv, Sample
  <2>3. Bounded(b)'
    <3>1. \A C : Units(C, first'[b].counters, counters') = {}
      BY <1>3, <2>1, <2>2
    <3>2. moved' - first'[b].moved = 0
      BY <1>3, <2>1 DEF RateInv
    <3> QED
      BY <3>1, <3>2, FS_EmptySet DEF Bounded
  <2> QED
    BY <1>2, <1>4, <1>5, <2>1, <2>3 DEF CallProbe, RateInv, ProbeInv
<1>6. ASSUME NEW b \in ProbeBindings, Step(b, "done"), UNCHANGED <<first, rate>>,
             Probe[b] \in Rates => says'[b] # "value", NEW v, says' = [says EXCEPT ![b] = v]
      PROVE  RateInv'
  BY <1>2, <1>4, <1>6 DEF RateInv, ProbeInv
<1>7. ASSUME NEW b \in ProbeBindings, Cut(b) \/ Ended(b) PROVE RateInv'
  BY <1>6, <1>7 DEF Cut, Ended, AnswerWith, RateInv, ProbeInv
<1>8. ASSUME NEW b \in ProbeBindings, SecondSample(b) PROVE RateInv'
  <2>1. Bounded(b) /\ first' = first
    BY <1>8 DEF SecondSample, RateInv
  <2>2. rate'[b] = IF Probe[b] = "procfs.diskstats"
                   THEN DiskRates(first[b].counters, counters)
                   ELSE NetRates(first[b].counters, counters)
    BY <1>8 DEF SecondSample, RateInv
  <2>3. Probe[b] = "procfs.diskstats" \/ (\A d \in DOMAIN first[b].counters : Whole[d] = d)
        => rate'[b] \in 0 .. moved - first[b].moved
    BY <2>1, <2>2, GrowthIsBounded
  <2> QED
    BY <1>2, <1>4, <1>8, <2>1, <2>3 DEF SecondSample, RateInv, ProbeInv
<1> QED
  BY <1>5, <1>7, <1>8 DEF ProbeNext, ProbeCut, ProbeEnded

LEMMA InitRates == Init => RateInv
<1> SUFFICES ASSUME Init PROVE RateInv
  OBVIOUS
<1>1. ProbeInv
  BY InitProbe
<1>2. Sample(counters)
  BY HostsAssumption DEF Init, ProbeInit, Sample
<1>3. \A b \in ProbeBindings : stage[b] = "idle"
  BY Families DEF Init, BeatInit
<1> QED
  BY <1>1, <1>2, <1>3 DEF Init, ProbeInit, RateInv, RatesAreReal

LEMMA NextRates == RateInv /\ [Next]_vars => RateInv'
<1> SUFFICES ASSUME RateInv, [Next]_vars PROVE RateInv'
  OBVIOUS
<1> BeatTypes /\ ProbeInv'
  BY NextProbe DEF RateInv, ProbeInv
<1>1. CASE BeatNext
  BY <1>1, BeatRests, Families, OthersKeepRates DEF primitiveVars, Forget
<1>2. CASE SnapshotNext
  BY <1>2, SnapshotRests, Families, OthersKeepRates DEF SnapshotNext
<1>3. CASE CpuNext
  BY <1>3, CpuRests, Families, OthersKeepRates DEF CpuNext
<1>4. CASE DockerNext \/ DockerCutOff \/ DockerAnswer
  BY <1>4, DockerRests, Families, OthersKeepRates DEF DockerNext, DockerCutOff, DockerAnswer
<1>5. CASE ProbeNext \/ ProbeCut \/ ProbeEnded
  BY <1>5, CallsKeepRates
<1>6. CASE LiveNext \/ UNCHANGED vars
  BY <1>6, HardwareRests, Families, OthersKeepRates DEF LiveNext, vars, primitiveVars
<1>7. CASE HostNext
  <2>1. UNCHANGED stage /\ (UNCHANGED probeVars \/ DoIO \/ Plug)
    BY <1>7 DEF HostNext, beatVars
  <2> QED
    BY <1>7, <2>1, HardwareRests, Families, OthersKeepRates, HardwareKeepsRates
<1> QED
  BY <1>1, <1>2, <1>3, <1>4, <1>5, <1>6, <1>7 DEF Next, BeatNext

\* RatesAreReal: the I/O reported for an interval was done in it, whatever was plugged in or
\* out meanwhile and whatever the devices are called (procfsDiskstats, procfsNetdev).
THEOREM RatesAreOfTheInterval == Spec => []RatesAreReal
<1>1. RateInv => RatesAreReal
  BY DEF RateInv
<1> QED
  BY <1>1, InitRates, NextRates, PTL DEF Spec

-----------------------------------------------------------------------------
(* CPU sampling *)

Readings == [total : Int, idle : Int]

CpuInv ==
  /\ ticks \in Readings
  /\ prev \in [Streams \cup {Shared} -> Readings]
  /\ taken \in [CpuBindings -> Readings]
  /\ shown \in [Samplers -> [pct : 0 .. 100, to : Readings]]

\* Whatever wrapped or went backwards between two readings, the share is one.
LEMMA BusyPctIsShare ==
  ASSUME NEW old \in Readings, NEW new \in Readings
  PROVE  BusyPct(old, new) \in 0 .. 100
<1> DEFINE dt == Minus(new.total, old.total)
           di == Minus(new.idle, old.idle)
<1>1. dt \in Nat /\ di \in Nat
  BY CpuAssumption DEF Readings, Minus
<1> HIDE DEF dt, di
<1>2. dt # 0 => ((dt - di) * 100) \div dt \in Int
  BY <1>1
<1> DEFINE pct == IF dt = 0 THEN 0 ELSE ((dt - di) * 100) \div dt
<1>3. pct \in Int
  BY <1>2
<1>4. BusyPct(old, new) = IF pct < 0 THEN 0 ELSE IF pct > 100 THEN 100 ELSE pct
  BY DEF BusyPct, dt, di
<1> HIDE DEF pct
<1> QED
  BY <1>3, <1>4

LEMMA InitCpu == Init => CpuInv
<1>1. FirstIdle \in Int /\ FirstTotal \in Int
  BY CpuAssumption DEF FirstIdle
<1> QED
  BY <1>1 DEF Init, CpuInit, CpuInv, Readings, NoReading, NoAnswer

LEMMA NextCpu == CpuInv /\ [Next]_vars => CpuInv'
<1> SUFFICES ASSUME CpuInv, [Next]_vars PROVE CpuInv'
  OBVIOUS
<1>1. CASE UNCHANGED cpuVars
  BY <1>1 DEF cpuVars, CpuInv
<1>2. CASE Forget
  BY <1>2 DEF Forget, CpuInv, Readings, NoReading
<1>3. CASE CpuNext
  <2>1. PICK b \in CpuBindings : ReadCpu(b) \/ CommitCpu(b)
    BY <1>3 DEF CpuNext
  <2>2. CASE ReadCpu(b)
    BY <2>2 DEF ReadCpu, CpuInv
  <2>3. CASE CommitCpu(b)
    <3>1. b \in Samplers /\ taken[b] \in Readings /\ prev[Shared] \in Readings
      BY DEF Samplers, CpuInv
    <3>2. NoReading \in Readings
      BY DEF Readings, NoReading
    <3>3. (IF prev[Shared] = NoReading THEN 0 ELSE BusyPct(prev[Shared], taken[b])) \in 0 .. 100
      BY <3>1, BusyPctIsShare
    <3> QED
      BY <2>3, <3>1, <3>2, <3>3 DEF CommitCpu, CpuInv
  <2> QED
    BY <2>1, <2>2, <2>3
<1>4. CASE LiveNext
  <2>1. PICK s \in Streams : StartLive(s) \/ SampleLive(s)
    BY <1>4 DEF LiveNext
  <2>2. s \in Samplers
    BY DEF Samplers
  <2>3. CASE StartLive(s)
    <3>1. [pct |-> 0, to |-> ticks] \in [pct : 0 .. 100, to : Readings]
      BY DEF CpuInv
    <3> QED
      BY <2>2, <2>3, <3>1 DEF StartLive, CpuInv
  <2>4. CASE SampleLive(s)
    <3>1. CpuPct(prev[s], ticks) \in 0 .. 100
      BY BusyPctIsShare DEF CpuInv, CpuPct
    <3> QED
      BY <2>2, <2>4, <3>1 DEF SampleLive, CpuInv
  <2> QED
    BY <2>1, <2>3, <2>4
<1>5. CASE HostNext
  <2>1. CASE Work
    BY <2>1 DEF Work, CpuInv, Readings
  <2>2. CASE TakeBack
    BY <2>2 DEF TakeBack, CpuInv, Readings
  <2> QED
    BY <1>1, <1>5, <2>1, <2>2 DEF HostNext
<1>6. CASE BeatNext
  BY <1>1, <1>2, <1>6 DEF BeatNext, LaunchProcess, BootProcess, KillProcess, StopProcess,
    EditProcessConfig, Collect, Living, BeginsBeat, PassesTime, EndsBeat, primitiveVars, cpuVars
<1> QED
  BY <1>1, <1>3, <1>4, <1>5, <1>6 DEF Next, BeatNext, SnapshotNext, DockerNext, DockerCutOff,
    DockerAnswer, ProbeNext, ProbeCut, ProbeEnded, vars, primitiveVars, cpuVars

\* SharesAreShares: whoever shares the previous sample, and whatever the kernel takes back,
\* the percentage shown is one (procfsCPUUsedPct, cpuPct).
THEOREM CpuIsAShare == Spec => []SharesAreShares
<1>1. CpuInv => SharesAreShares
  BY DEF CpuInv, SharesAreShares
<1> QED
  BY <1>1, InitCpu, NextCpu, PTL DEF Spec

\* Readings of the kernel's counters: the busy time never goes back, the idle time not below
\* what it was at the start, so that no counter goes round a second time.
Busy(r) == r.total - r.idle
Counted ==
  {r \in Readings : /\ r.total \in FirstTotal .. MaxTotal
                    /\ FirstIdle <= r.idle /\ FirstTotal - FirstIdle <= Busy(r)}

\* A sampler that is alone on its previous sample.
OnItsOwn(s) == s \in Streams \/ host.bound \cap CpuBindings = {s}

IntervalInv ==
  /\ BeatTypes /\ CpuInv
  /\ ticks \in Counted
  /\ \A o \in Streams \cup {Shared} :
       prev[o] # NoReading => prev[o] \in Counted /\ Busy(prev[o]) <= Busy(ticks)
  /\ \A b \in CpuBindings \ host.bound : stage[b] = "idle"
  /\ \A b \in CpuBindings :
       stage[b] = "read" => taken[b] \in Counted /\ Busy(taken[b]) <= Busy(ticks)
  /\ \A b \in CpuBindings :
       stage[b] = "read" /\ OnItsOwn(b) /\ prev[Shared] # NoReading =>
         Busy(prev[Shared]) <= Busy(taken[b])
  /\ \A s \in Samplers : OnItsOwn(s) /\ prev[Owner(s)] # NoReading => shown[s].to = prev[Owner(s)]

\* Between two readings of which the later has more of all three, nothing wraps that the
\* unsigned subtraction does not set right, and no percentage is cut off.
LEMMA WholeShare ==
  ASSUME NEW d \in Nat, NEW n \in 0 .. d, d # 0
  PROVE  (n * 100) \div d \in 0 .. 100
<1>1. (n * 100) \div d \in Int
  OBVIOUS
<1> DEFINE q == (n * 100) \div d
<1>2. d * q <= n * 100 /\ n * 100 < d * q + d
  OBVIOUS
<1>3. q \in Int
  BY <1>1
<1> HIDE DEF q
<1>4. 0 <= q
  BY <1>2, <1>3
<1>5. q <= 100
  BY <1>2, <1>3
<1> QED
  BY <1>3, <1>4, <1>5 DEF q

LEMMA BusyPctIsExact ==
  ASSUME NEW old \in Counted, NEW new \in Counted, Busy(old) <= Busy(new),
         old.idle <= new.idle, old.total < new.total
  PROVE  BusyPct(old, new) =
           (((new.total - old.total) - (new.idle - old.idle)) * 100) \div (new.total - old.total)
<1> DEFINE dt == new.total - old.total
           di == new.idle - old.idle
<1>1. dt \in 1 .. Word - 1 /\ di \in 0 .. Word - 1 /\ dt - di \in 0 .. dt
  BY CpuAssumption DEF Counted, Readings, Busy, FirstIdle
<1>2. Minus(new.total, old.total) = dt /\ Minus(new.idle, old.idle) = di
  <2>1. ASSUME NEW x \in 0 .. Word - 1 PROVE x % Word = x
    BY CpuAssumption
  <2> QED
    BY <1>1, <2>1 DEF Minus
<1> HIDE DEF dt, di
<1>3. ((dt - di) * 100) \div dt \in 0 .. 100
  BY <1>1, WholeShare
<1>4. BusyPct(old, new) = ((dt - di) * 100) \div dt
  BY <1>1, <1>2, <1>3 DEF BusyPct
<1> QED
  BY <1>4 DEF dt, di

LEMMA InitInterval == Init => IntervalInv
<1> SUFFICES ASSUME Init PROVE IntervalInv
  OBVIOUS
<1>1. BeatTypes /\ CpuInv
  BY InitSnapshot, InitCpu DEF SnapshotInv
<1>2. ticks \in Counted
  BY CpuAssumption DEF Init, CpuInit, Counted, Readings, Busy, FirstIdle
<1>3. \A o \in Streams \cup {Shared} : prev[o] = NoReading
  BY DEF Init, CpuInit
<1>4. \A b \in CpuBindings : stage[b] = "idle"
  BY Families DEF Init, BeatInit
<1> QED
  BY <1>1, <1>2, <1>3, <1>4 DEF IntervalInv, Owner

\* The beat as a whole and the other families: no call is in its reading that was not, and a
\* death forgets the samples.
LEMMA OthersKeepInterval ==
  ASSUME IntervalInv, BeatTypes', CpuInv', UNCHANGED host,
         \A b \in CpuBindings : Rests(b) /\ (b \notin host.bound => stage'[b] = "idle"),
         \/ UNCHANGED cpuVars
         \/ prev' = [o \in DOMAIN prev |-> NoReading] /\ UNCHANGED <<ticks, taken, shown>>
  PROVE  IntervalInv'
<1>1. \A b \in CpuBindings : stage'[b] = "read" => stage[b] = "read"
  BY DEF Rests
<1>2. CASE UNCHANGED cpuVars
  BY <1>1, <1>2 DEF IntervalInv, OnItsOwn, cpuVars, Owner
<1>3. CASE prev' = [o \in DOMAIN prev |-> NoReading] /\ UNCHANGED <<ticks, taken, shown>>
  <2>1. \A o \in Streams \cup {Shared} : prev'[o] = NoReading
    BY <1>3 DEF IntervalInv, CpuInv
  <2> QED
    BY <1>1, <1>3, <2>1 DEF IntervalInv, Owner
<1> QED
  BY <1>2, <1>3

\* The calls of a binding that the host does not have do not begin.
LEMMA BeatCallsItsOwn ==
  ASSUME BeatTypes, BeatNext, NEW b \in Bindings, b \notin host.bound, stage[b] = "idle"
  PROVE  stage'[b] = "idle"
<1>1. CASE Forget
  BY <1>1 DEF Forget, NewBeats
<1>2. CASE UNCHANGED beatVars \/ PassTime \/ BeginBeat \/ EndBeat
  BY <1>2 DEF beatVars, PassTime, BeginBeat, EndBeat
<1> QED
  BY <1>1, <1>2, BeatMoves

\* The kernel: its busy time does not go back.
LEMMA TicksKeepInterval == ASSUME IntervalInv, HostNext PROVE IntervalInv'
<1>1. BeatTypes' /\ CpuInv' /\ UNCHANGED <<host, stage>>
  BY NextCpu, HardwareRests DEF IntervalInv, HostNext, beatVars, Next
<1>2. CASE UNCHANGED cpuVars
  BY <1>1, <1>2 DEF IntervalInv, OnItsOwn, cpuVars, Owner
<1>3. CASE Work \/ TakeBack
  <2>1. ticks' \in Counted /\ Busy(ticks) <= Busy(ticks')
    BY <1>3, CpuAssumption DEF Work, TakeBack, IntervalInv, Counted, Readings, Busy, FirstIdle
  <2>2. UNCHANGED <<prev, taken, shown>>
    BY <1>3 DEF Work, TakeBack
  <2>3. ASSUME NEW r \in Counted, Busy(r) <= Busy(ticks)
        PROVE  Busy(r) <= Busy(ticks')
    BY <2>1, <2>3 DEF Counted, Readings, Busy, IntervalInv
  <2> QED
    BY <1>1, <2>1, <2>2, <2>3 DEF IntervalInv, OnItsOwn, Owner
<1> QED
  BY <1>2, <1>3 DEF HostNext

\* A call: it reads the counters as they are, and its sample replaces the one before.
LEMMA CallsKeepInterval == ASSUME IntervalInv, CpuNext PROVE IntervalInv'
<1>1. BeatTypes' /\ CpuInv' /\ UNCHANGED host
  BY NextCpu, CpuRests DEF IntervalInv, Next
<1>2. PICK b \in CpuBindings : ReadCpu(b) \/ CommitCpu(b)
  BY DEF CpuNext
<1>3. b \in Bindings /\ CpuBindings \subseteq Bindings
  BY <1>2, Families
<1>4. \A c \in CpuBindings \ {b} : stage'[c] = stage[c] /\ taken'[c] = taken[c]
  BY <1>2, <1>3 DEF ReadCpu, CommitCpu, Step, IntervalInv, BeatTypes, CpuInv
<1>5. b \in host.bound
  BY <1>2 DEF ReadCpu, CommitCpu, IntervalInv
<1>6. \A c \in CpuBindings \ host.bound : stage'[c] = "idle"
  BY <1>4, <1>5 DEF IntervalInv
<1>7. \A c \in CpuBindings : OnItsOwn(c) => c = b
  BY <1>5, CpuAssumption DEF OnItsOwn
<1>8. CASE ReadCpu(b)
  <2>1. stage'[b] = "read" /\ taken'[b] = ticks /\ UNCHANGED <<ticks, prev, shown>>
    BY <1>3, <1>8 DEF ReadCpu, Step, IntervalInv, BeatTypes, CpuInv
  <2>2. Busy(ticks) <= Busy(ticks)
    BY DEF IntervalInv, Counted, Readings, Busy
  <2>3. prev[Shared] # NoReading => Busy(prev[Shared]) <= Busy(taken'[b])
    BY <2>1 DEF IntervalInv
  <2> QED
    BY <1>1, <1>4, <1>6, <1>7, <2>1, <2>2, <2>3 DEF IntervalInv, OnItsOwn, Owner
<1>9. CASE CommitCpu(b)
  <2>1. /\ stage'[b] = "done" /\ ticks' = ticks
        /\ prev' = [prev EXCEPT ![Shared] = taken[b]] /\ prev'[Shared] = taken[b]
        /\ shown'[b].to = taken[b]
    BY <1>3, <1>9 DEF CommitCpu, Step, IntervalInv, BeatTypes, CpuInv, Samplers
  <2>2. \A s \in Samplers \ {b} : shown'[s] = shown[s]
    BY <1>9 DEF CommitCpu, IntervalInv, CpuInv
  <2>3. taken[b] \in Counted /\ Busy(taken[b]) <= Busy(ticks)
    BY <1>9 DEF CommitCpu, IntervalInv
  <2>4. \A o \in Streams : prev'[o] = prev[o]
    BY <2>1, CpuAssumption DEF IntervalInv, CpuInv
  <2>5. \A o \in Streams \cup {Shared} :
          prev'[o] # NoReading => prev'[o] \in Counted /\ Busy(prev'[o]) <= Busy(ticks')
    BY <2>1, <2>3, <2>4 DEF IntervalInv
  <2>6. ASSUME NEW s \in Samplers, OnItsOwn(s), prev'[Owner(s)] # NoReading
        PROVE  shown'[s].to = prev'[Owner(s)]
    <3>1. CASE s \in Streams
      BY <2>2, <2>4, <2>6, <3>1, CpuAssumption DEF IntervalInv, Owner, OnItsOwn
    <3>2. CASE s \in CpuBindings
      BY <1>7, <2>1, <2>6, <3>2, CpuAssumption DEF Owner
    <3> QED
      BY <3>1, <3>2 DEF Samplers
  <2>7. \A c \in CpuBindings : stage'[c] = "read" => c # b /\ stage[c] = "read"
    BY <1>4, <2>1
  <2>8. \A c \in CpuBindings :
          stage'[c] = "read" => taken'[c] \in Counted /\ Busy(taken'[c]) <= Busy(ticks')
    BY <1>4, <2>1, <2>7 DEF IntervalInv
  <2>9. \A c \in CpuBindings : ~(stage'[c] = "read" /\ OnItsOwn(c))
    BY <1>7, <2>7
  <2>10. \A s \in Samplers : OnItsOwn(s)' = OnItsOwn(s)
    BY <1>1 DEF OnItsOwn
  <2> QED
    BY <1>1, <1>6, <2>1, <2>3, <2>5, <2>6, <2>8, <2>9, <2>10 DEF IntervalInv, OnItsOwn, Owner
<1> QED
  BY <1>2, <1>8, <1>9

\* A stream: its sample is its own.
LEMMA StreamsKeepInterval == ASSUME IntervalInv, LiveNext PROVE IntervalInv'
<1>1. BeatTypes' /\ CpuInv' /\ UNCHANGED <<host, stage>>
  BY NextCpu, HardwareRests DEF IntervalInv, LiveNext, StartLive, SampleLive, beatVars, Next
<1>2. PICK t \in Streams : StartLive(t) \/ SampleLive(t)
  BY DEF LiveNext
<1>3. t \in Samplers /\ t # Shared /\ Owner(t) = t
  BY CpuAssumption DEF Samplers, Owner
<1>4. /\ prev' = [prev EXCEPT ![t] = ticks] /\ prev'[t] = ticks
      /\ shown'[t].to = ticks /\ UNCHANGED <<ticks, taken>>
  BY <1>2, <1>3 DEF StartLive, SampleLive, IntervalInv, CpuInv
<1>5. \A s \in Samplers \ {t} : shown'[s] = shown[s]
  BY <1>2 DEF StartLive, SampleLive, IntervalInv, CpuInv
<1>6. \A o \in (Streams \cup {Shared}) \ {t} : prev'[o] = prev[o]
  BY <1>4 DEF IntervalInv, CpuInv
<1>7. Busy(ticks) <= Busy(ticks)
  BY DEF IntervalInv, Counted, Readings, Busy
<1>8. \A o \in Streams \cup {Shared} :
        prev'[o] # NoReading => prev'[o] \in Counted /\ Busy(prev'[o]) <= Busy(ticks')
  BY <1>4, <1>6, <1>7 DEF IntervalInv
<1>9. ASSUME NEW s \in Samplers, OnItsOwn(s), prev'[Owner(s)] # NoReading
      PROVE  shown'[s].to = prev'[Owner(s)]
  <2>1. CASE s = t
    BY <1>3, <1>4, <2>1
  <2>2. CASE s # t
    <3>1. Owner(s) \in (Streams \cup {Shared}) \ {t}
      BY <1>3, <2>2 DEF Owner
    <3> QED
      BY <1>5, <1>6, <1>9, <2>2, <3>1 DEF IntervalInv
  <2> QED
    BY <2>1, <2>2
<1>10. prev'[Shared] = prev[Shared]
  BY <1>3, <1>6
<1>11. \A s : OnItsOwn(s)' = OnItsOwn(s)
  BY <1>1 DEF OnItsOwn
<1> QED
  BY <1>1, <1>4, <1>8, <1>9, <1>10, <1>11 DEF IntervalInv, OnItsOwn, Owner

LEMMA NextInterval == IntervalInv /\ [Next]_vars => IntervalInv'
<1> SUFFICES ASSUME IntervalInv, [Next]_vars PROVE IntervalInv'
  OBVIOUS
<1> BeatTypes /\ CpuInv' /\ CpuBindings \subseteq Bindings
  BY NextCpu, Families DEF IntervalInv
<1>1. CASE BeatNext
  <2>1. \A b \in CpuBindings : b \notin host.bound => stage'[b] = "idle"
    BY <1>1, BeatCallsItsOwn DEF IntervalInv
  <2>2. \A b \in CpuBindings : Rests(b)
    BY <1>1, BeatRests
  <2> QED
    BY <1>1, <2>1, <2>2, BeatRests, OthersKeepInterval DEF primitiveVars, cpuVars, Forget
<1>2. CASE SnapshotNext \/ DockerNext \/ DockerCutOff \/ DockerAnswer \/ ProbeNext \/ ProbeCut
           \/ ProbeEnded \/ UNCHANGED vars
  <2>1. UNCHANGED <<host, cpuVars>> /\ BeatTypes' /\ \A b \in CpuBindings : Stays(b) /\ Rests(b)
    BY <1>2, SnapshotRests, DockerRests, ProbeRests, HardwareRests, Families DEF SnapshotNext,
      DockerNext, DockerCutOff, DockerAnswer, ProbeNext, ProbeCut, ProbeEnded, vars, primitiveVars
  <2>2. \A b \in CpuBindings : b \notin host.bound => stage'[b] = "idle"
    BY <2>1 DEF IntervalInv, Stays
  <2> QED
    BY <2>1, <2>2, OthersKeepInterval
<1>3. CASE CpuNext
  BY <1>3, CallsKeepInterval
<1>4. CASE LiveNext
  BY <1>4, StreamsKeepInterval
<1>5. CASE HostNext
  BY <1>5, TicksKeepInterval
<1> QED
  BY <1>1, <1>2, <1>3, <1>4, <1>5 DEF Next, BeatNext

\* What a sampler on its own shows anew, it has computed from its own two readings.
LEMMA OwnReadingsCompared ==
  ASSUME IntervalInv, [Next]_vars, NEW s \in Samplers, shown'[s] # shown[s], OnItsOwn(s),
         prev[Owner(s)] # NoReading
  PROVE  /\ shown[s].to \in Counted /\ shown'[s].to \in Counted
         /\ Busy(shown[s].to) <= Busy(shown'[s].to)
         /\ shown'[s].pct = BusyPct(shown[s].to, shown'[s].to)
<1>1. Owner(s) \in Streams \cup {Shared}
  BY DEF Owner
<1>2. shown[s].to = prev[Owner(s)] /\ prev[Owner(s)] \in Counted
      /\ Busy(prev[Owner(s)]) <= Busy(ticks)
  BY <1>1 DEF IntervalInv
<1>3. CASE CpuNext
  <2>1. PICK b \in CpuBindings : ReadCpu(b) \/ CommitCpu(b)
    BY <1>3 DEF CpuNext
  <2>2. CommitCpu(b) /\ b = s /\ b \in host.bound
    BY <2>1, CpuAssumption DEF ReadCpu, CommitCpu, IntervalInv, CpuInv
  <2>3. Owner(s) = Shared
    BY <2>2, CpuAssumption DEF Owner
  <2>4. /\ shown'[s].to = taken[s] /\ shown'[s].pct = BusyPct(prev[Shared], taken[s])
        /\ stage[s] = "read"
    BY <2>2, <2>3 DEF CommitCpu, IntervalInv, CpuInv
  <2>5. taken[s] \in Counted /\ Busy(prev[Shared]) <= Busy(taken[s])
    BY <2>2, <2>3, <2>4 DEF IntervalInv
  <2> QED
    BY <1>2, <2>3, <2>4, <2>5
<1>4. CASE LiveNext
  <2>1. PICK t \in Streams : StartLive(t) \/ SampleLive(t)
    BY <1>4 DEF LiveNext
  <2>2. t = s /\ Owner(s) = s
    BY <2>1 DEF StartLive, SampleLive, IntervalInv, CpuInv, Owner
  <2>3. shown'[s].to = ticks /\ shown'[s].pct = BusyPct(prev[s], ticks)
    BY <2>1, <2>2 DEF StartLive, SampleLive, IntervalInv, CpuInv, CpuPct
  <2> QED
    BY <1>2, <2>2, <2>3 DEF IntervalInv
<1>5. CASE HostNext
  BY <1>5 DEF HostNext, Work, TakeBack, cpuVars
<1>6. CASE BeatNext
  BY <1>6, BeatMoves DEF primitiveVars, cpuVars, Forget
<1>7. CASE SnapshotNext \/ DockerNext \/ DockerCutOff \/ DockerAnswer \/ ProbeNext \/ ProbeCut
           \/ ProbeEnded \/ UNCHANGED vars
  BY <1>7 DEF SnapshotNext, DockerNext, DockerCutOff, DockerAnswer, ProbeNext, ProbeCut, ProbeEnded,
    vars, primitiveVars, cpuVars
<1> QED
  BY <1>3, <1>4, <1>5, <1>6, <1>7 DEF Next, BeatNext

\* ShowsItsOwnInterval: a sampler that shares its previous sample with no other shows the busy
\* share of the time since its own last reading, wrapped counters or not (procfsCPUUsedPct,
\* metricsLiveJob).
THEOREM SharesAreOfOwnIntervals == Spec => ShowsItsOwnInterval
<1>1. IntervalInv /\ [Next]_vars =>
        [\A s \in Samplers :
           LET old == shown[s].to
               new == shown'[s].to
               alone == s \in Streams \/ host.bound \cap CpuBindings = {s}
               forward == old.idle <= new.idle /\ old.total < new.total
           IN shown'[s] # shown[s] /\ alone /\ prev[Owner(s)] # NoReading /\ forward =>
                shown'[s].pct =
                  (((new.total - old.total) - (new.idle - old.idle)) * 100)
                    \div (new.total - old.total)]_<<prev, shown>>
  <2> SUFFICES ASSUME IntervalInv, [Next]_vars, NEW s \in Samplers, shown'[s] # shown[s],
                      OnItsOwn(s), prev[Owner(s)] # NoReading,
                      shown[s].to.idle <= shown'[s].to.idle, shown[s].to.total < shown'[s].to.total
               PROVE  LET old == shown[s].to
                          new == shown'[s].to
                      IN shown'[s].pct =
                           (((new.total - old.total) - (new.idle - old.idle)) * 100)
                             \div (new.total - old.total)
    BY DEF OnItsOwn
  <2> QED
    BY OwnReadingsCompared, BusyPctIsExact
<1> QED
  BY <1>1, InitInterval, NextInterval, PTL DEF Spec, ShowsItsOwnInterval

=============================================================================
