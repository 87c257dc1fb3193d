-------------------------- MODULE ControlConfigProofs --------------------------
(***************************************************************************)
(* Theorems about ControlConfigLoad: for every control.yaml, every         *)
(* services.d beside it and every request, whatever the numbers, names and *)
(* lengths are.                                                            *)
(***************************************************************************)
EXTENDS ControlConfigLoad, Induction

\* A session has the configuration of what it has read, and none before that.
LoadInv ==
  /\ step \in {"connect", "file", "loaded"}
  /\ step = "connect" => file = NoFile
  /\ step # "connect" => file \in Files
  /\ IF step = "loaded"
     THEN services \in ServiceDirs /\ cfg = LoadControlConfig(file, services)
     ELSE cfg = NoConfig

LEMMA InitLoad == Init => LoadInv
BY DEF Init, LoadInv

LEMMA NextLoad == LoadInv /\ [Next]_vars => LoadInv'
BY DEF LoadInv, Next, ReadFile, MergeServices, Reconnect, vars

THEOREM LoadAlways == Spec => []LoadInv
<1> QED
  BY InitLoad, NextLoad, PTL DEF Spec

-----------------------------------------------------------------------------
(* The verbs *)

\* ControlConfig.verbs and the jobs' own guards, written apart, come to the same.
LEMMA VerbsAgree ==
  ASSUME NEW c, NEW v \in StreamVerbs
  PROVE  v \in Advertised(c) <=> JobAllowed(c, v)
<1> USE DEF Advertised, JobAllowed
<1>1. CASE v = "logs.tail"
  BY <1>1
<1>2. CASE v \in {"proc.top", "proc.top.live"}
  BY <1>2
<1>3. CASE v \in {"disk.df", "net.listen", "cron.list"}
  BY <1>3
<1>4. CASE v \in {"svc.status", "svc.list"}
  BY <1>4
<1>5. CASE v \in {"pkg.list", "docker.ps", "metrics.live"}
  BY <1>5
<1> QED
  BY <1>1, <1>2, <1>3, <1>4, <1>5 DEF StreamVerbs

\* AdvertisedIsServed: whatever the allow-list holds, a verb is in the hello frame exactly
\* when its job would pass its own check (ControlConfig.verbs, the guards of the jobs).
THEOREM HelloIsHonest == Spec => []AdvertisedIsServed
<1>1. AdvertisedIsServed
  BY VerbsAgree DEF AdvertisedIsServed
<1> QED
  BY <1>1, PTL

-----------------------------------------------------------------------------
(* The ceilings *)

\* A value of any sign and size comes to a positive one below its ceiling.
LEMMA CeilingBounds ==
  ASSUME NEW v \in Int, NEW default \in Nat \ {0}, NEW hard \in Nat \ {0}
  PROVE  Ceiling(v, default, hard) \in 1 .. hard
BY DEF Ceiling

LEMMA ClampBounds ==
  ASSUME NEW v \in Int, NEW hi \in Nat \ {0}
  PROVE  Clamp(v, 1, hi) \in 1 .. hi
BY DEF Clamp

LEMMA LoadedCeilings ==
  ASSUME NEW f \in Files, f.kind = "ok", NEW s
  PROVE  LET c == LoadControlConfig(f, s)
         IN /\ c.maxLines \in 1 .. HardMaxLines
            /\ c.maxFollow \in 1 .. HardMaxFollow
            /\ c.defaultLines \in Int
<1>1. f.maxLines \in Int /\ f.maxFollow \in Int /\ f.defaultLines \in Int
  BY ParsedAssumption
<1>2. Ceiling(f.maxLines, DefaultMaxLines, HardMaxLines) \in 1 .. HardMaxLines
  BY <1>1, CeilingAssumption, CeilingBounds
<1>3. Ceiling(f.maxFollow, DefaultFollow, HardMaxFollow) \in 1 .. HardMaxFollow
  BY <1>1, CeilingAssumption, CeilingBounds
<1> QED
  BY <1>1, <1>2, <1>3, CeilingAssumption DEF LoadControlConfig

\* CeilingsHold: neither what the operator wrote nor what ICLIC asks for passes the hard
\* ceilings, and a tail always asks for a line (loadControlConfig, clampInt in logsJob).
THEOREM NumbersAreBounded == Spec => []CeilingsHold
<1>1. LoadInv => CeilingsHold
  <2> SUFFICES ASSUME LoadInv, step = "loaded", file.kind = "ok"
               PROVE  /\ cfg.maxLines \in 1 .. HardMaxLines
                      /\ cfg.maxFollow \in 1 .. HardMaxFollow
                      /\ \A args \in ArgSets : TailLines(cfg, args) \in 1 .. cfg.maxLines
    BY DEF CeilingsHold
  <2>1. /\ cfg.maxLines \in 1 .. HardMaxLines
        /\ cfg.maxFollow \in 1 .. HardMaxFollow
        /\ cfg.defaultLines \in Int
    BY LoadedCeilings DEF LoadInv
  <2>2. \A args \in ArgSets : RequestedLines(cfg, args) \in Int
    BY <2>1, ParsedAssumption DEF RequestedLines
  <2>3. cfg.maxLines \in Nat \ {0}
    BY <2>1, CeilingAssumption
  <2>4. \A args \in ArgSets : TailLines(cfg, args) \in 1 .. cfg.maxLines
    BY <2>2, <2>3, ClampBounds DEF TailLines
  <2> QED
    BY <2>1, <2>4
<1> QED
  BY <1>1, LoadAlways, PTL

-----------------------------------------------------------------------------
(* The merge of the services *)

\* The loop is well defined: there are sources after each of its rounds.
LEMMA MergeExists ==
  ASSUME NEW sources, NEW defs, Len(defs) \in Nat
  PROVE  \E after : after = [i \in 0 .. Len(defs) |->
                               IF i = 0 THEN sources ELSE MergeSource(after[i - 1], defs[i])]
<1> DEFINE Rounds(f, k) ==
             f = [i \in 0 .. k |-> IF i = 0 THEN sources ELSE MergeSource(f[i - 1], defs[i])]
           S == {k \in Nat : \E f : Rounds(f, k)}
<1>1. 0 \in S
  <2>1. Rounds([i \in 0 .. 0 |-> sources], 0)
    OBVIOUS
  <2> QED
    BY <2>1
<1>2. ASSUME NEW k \in 0 .. Len(defs) - 1, k \in S PROVE k + 1 \in S
  <2>1. PICK f : Rounds(f, k)
    BY <1>2
  <2> DEFINE g == [i \in 0 .. k + 1 |-> IF i = k + 1 THEN MergeSource(f[k], defs[k + 1]) ELSE f[i]]
  <2>2. \A i \in 0 .. k : g[i] = f[i]
    OBVIOUS
  <2>3. \A i \in 0 .. k + 1 : g[i] = IF i = 0 THEN sources ELSE MergeSource(g[i - 1], defs[i])
    <3> SUFFICES ASSUME NEW i \in 0 .. k + 1
                 PROVE  g[i] = IF i = 0 THEN sources ELSE MergeSource(g[i - 1], defs[i])
      OBVIOUS
    <3>1. CASE i = k + 1
      BY <2>2, <3>1
    <3>2. CASE i \in 0 .. k
      <4>1. f[i] = IF i = 0 THEN sources ELSE MergeSource(f[i - 1], defs[i])
        BY <2>1, <3>2
      <4>2. i # 0 => g[i - 1] = f[i - 1]
        BY <2>2, <3>2
      <4> QED
        BY <2>2, <3>2, <4>1, <4>2
    <3> QED
      BY <3>1, <3>2
  <2>4. Rounds(g, k + 1)
    BY <2>3
  <2> HIDE DEF g
  <2>5. \E h : Rounds(h, k + 1)
    BY <2>4
  <2> QED
    BY <2>5
<1>3. 0 .. Len(defs) \subseteq S
  BY <1>1, <1>2, UpTo
<1> QED
  BY <1>3

\* What each round of the loop does.
LEMMA MergeRounds ==
  ASSUME NEW sources, NEW defs, Len(defs) \in Nat
  PROVE  /\ Merge(sources, defs)[0] = sources
         /\ \A i \in 1 .. Len(defs) :
              Merge(sources, defs)[i] = MergeSource(Merge(sources, defs)[i - 1], defs[i])
<1> DEFINE m == Merge(sources, defs)
<1>1. m = [i \in 0 .. Len(defs) |-> IF i = 0 THEN sources ELSE MergeSource(m[i - 1], defs[i])]
  BY MergeExists DEF Merge
<1> HIDE DEF m
<1>2. m[0] = sources
  BY <1>1
<1>3. \A i \in 1 .. Len(defs) : m[i] = MergeSource(m[i - 1], defs[i])
  BY <1>1
<1> QED
  BY <1>2, <1>3 DEF m

\* The i-th service offers a source under the name n.
Offers(defs, i, n) == Contributes(defs[i]) /\ defs[i].name = n

SourceOf(s) == [type |-> s.type, located |-> s.located, from |-> "service"]

\* The loop's invariant: after k services, the operator's sources are as they were, any other
\* is that of the first service to offer it, and none that is offered is missing.
MergedSoFar(sources, defs, k, now) ==
  /\ \A n \in DOMAIN sources : n \in DOMAIN now /\ now[n] = sources[n]
  /\ \A n \in DOMAIN now \ DOMAIN sources :
       \E i \in 1 .. k :
         /\ Offers(defs, i, n)
         /\ \A l \in 1 .. k : Offers(defs, l, n) => i <= l
         /\ now[n] = SourceOf(defs[i])
  /\ \A i \in 1 .. k : Contributes(defs[i]) => defs[i].name \in DOMAIN now

\* One round keeps it.
LEMMA MergeSourceKeeps ==
  ASSUME NEW sources, NEW defs, NEW k \in Nat, NEW now, MergedSoFar(sources, defs, k, now)
  PROVE  MergedSoFar(sources, defs, k + 1, MergeSource(now, defs[k + 1]))
<1> DEFINE s == defs[k + 1]
           next == MergeSource(now, s)
<1>1. CASE ~Contributes(s) \/ s.name \in DOMAIN now
  <2>1. next = now
    BY <1>1 DEF MergeSource
  <2>2. Contributes(s) => s.name \in DOMAIN now
    BY <1>1
  <2> HIDE DEF next
  <2>3. ASSUME NEW n \in DOMAIN now \ DOMAIN sources
        PROVE  \E i \in 1 .. k + 1 :
                 /\ Offers(defs, i, n)
                 /\ \A l \in 1 .. k + 1 : Offers(defs, l, n) => i <= l
                 /\ now[n] = SourceOf(defs[i])
    <3>1. PICK i \in 1 .. k : /\ Offers(defs, i, n)
                              /\ \A l \in 1 .. k : Offers(defs, l, n) => i <= l
                              /\ now[n] = SourceOf(defs[i])
      BY <2>3 DEF MergedSoFar
    <3>2. \A l \in 1 .. k + 1 : Offers(defs, l, n) => i <= l
      BY <3>1
    <3> QED
      BY <3>1, <3>2
  <2>4. \A i \in 1 .. k + 1 : Contributes(defs[i]) => defs[i].name \in DOMAIN now
    BY <2>2 DEF MergedSoFar
  <2> QED
    BY <2>1, <2>3, <2>4 DEF MergedSoFar, next
<1>2. CASE Contributes(s) /\ s.name \notin DOMAIN now
  <2>1. /\ DOMAIN next = DOMAIN now \cup {s.name}
        /\ \A n \in DOMAIN now : next[n] = now[n]
        /\ next[s.name] = SourceOf(s)
    BY <1>2 DEF MergeSource, SourceOf
  <2> HIDE DEF next
  <2>2. \A n \in DOMAIN sources : n \in DOMAIN next /\ next[n] = sources[n]
    BY <2>1 DEF MergedSoFar
  <2>3. ASSUME NEW n \in DOMAIN next \ DOMAIN sources
        PROVE  \E i \in 1 .. k + 1 :
                 /\ Offers(defs, i, n)
                 /\ \A l \in 1 .. k + 1 : Offers(defs, l, n) => i <= l
                 /\ next[n] = SourceOf(defs[i])
    <3>1. CASE n = s.name
      <4>1. \A l \in 1 .. k : ~Offers(defs, l, n)
        BY <1>2, <3>1 DEF MergedSoFar, Offers
      <4>2. Offers(defs, k + 1, n)
        BY <1>2, <3>1 DEF Offers
      <4>3. \A l \in 1 .. k + 1 : Offers(defs, l, n) => k + 1 <= l
        BY <4>1
      <4> QED
        BY <2>1, <3>1, <4>2, <4>3
    <3>2. CASE n # s.name
      <4>1. n \in DOMAIN now \ DOMAIN sources
        BY <2>1, <2>3, <3>2
      <4>2. PICK i \in 1 .. k : /\ Offers(defs, i, n)
                                /\ \A l \in 1 .. k : Offers(defs, l, n) => i <= l
                                /\ now[n] = SourceOf(defs[i])
        BY <4>1 DEF MergedSoFar
      <4>3. \A l \in 1 .. k + 1 : Offers(defs, l, n) => i <= l
        BY <4>2
      <4>4. next[n] = now[n]
        BY <2>1, <4>1
      <4> QED
        BY <4>2, <4>3, <4>4
    <3> QED
      BY <3>1, <3>2
  <2>4. \A i \in 1 .. k + 1 : Contributes(defs[i]) => defs[i].name \in DOMAIN next
    BY <2>1 DEF MergedSoFar
  <2> QED
    BY <2>2, <2>3, <2>4 DEF MergedSoFar, next
<1> QED
  BY <1>1, <1>2

\* What the loop leaves behind.
LEMMA MergeResult ==
  ASSUME NEW sources, NEW defs, Len(defs) \in Nat
  PROVE  MergedSoFar(sources, defs, Len(defs), Merge(sources, defs)[Len(defs)])
<1> DEFINE m == Merge(sources, defs)
           S == {k \in 0 .. Len(defs) : MergedSoFar(sources, defs, k, m[k])}
<1>1. m[0] = sources /\ \A i \in 1 .. Len(defs) : m[i] = MergeSource(m[i - 1], defs[i])
  BY MergeRounds
<1> HIDE DEF m
<1>2. 0 \in S
  BY <1>1 DEF MergedSoFar
<1>3. ASSUME NEW k \in 0 .. Len(defs) - 1, k \in S PROVE k + 1 \in S
  <2>1. MergedSoFar(sources, defs, k + 1, MergeSource(m[k], defs[k + 1]))
    BY <1>3, MergeSourceKeeps
  <2>2. m[k + 1] = MergeSource(m[k], defs[k + 1])
    BY <1>1
  <2> QED
    BY <2>1, <2>2
<1>4. 0 .. Len(defs) \subseteq S
  BY <1>2, <1>3, UpTo
<1>5. Len(defs) \in S
  BY <1>4
<1> QED
  BY <1>5 DEF m

-----------------------------------------------------------------------------
(* Operator and services *)

\* OperatorSourcesWin: after any number of services, clashing with control.yaml and with one
\* another in any way, the operator's sources are untouched, every other is its first
\* service's, and no usable one was lost (the merge loop of loadControlConfig).
THEOREM OperatorHasTheLastWord == Spec => []OperatorSourcesWin
<1>1. LoadInv => OperatorSourcesWin
  <2> SUFFICES ASSUME LoadInv, step = "loaded", file.kind = "ok" PROVE OperatorSourcesWin
    BY DEF OperatorSourcesWin
  <2> DEFINE defs == services.defs
  <2>1. defs \in Seq(ServiceDefs)
    BY ParsedAssumption DEF LoadInv
  <2>2. Len(defs) \in Nat /\ DOMAIN defs = 1 .. Len(defs)
    BY <2>1
  <2> HIDE DEF defs
  <2>3. \A n, i : i \in Usable(n) <=> i \in 1 .. Len(defs) /\ Offers(defs, i, n)
    BY <2>2 DEF Usable, Offers, Contributes, defs
  <2>4. cfg.sources = MergedSources(file, services) /\ cfg.enabled = file.enabled
        /\ cfg.toggles = file.toggles
    BY DEF LoadInv, LoadControlConfig
  <2>5. CASE file.enabled /\ "logs" \in file.toggles /\ services.ok
    <3>1. MergedSoFar(file.sources, defs, Len(defs), cfg.sources)
      BY <2>2, <2>4, <2>5, MergeResult DEF MergedSources, defs
    <3>2. ASSUME NEW n \in DOMAIN cfg.sources \ DOMAIN file.sources
          PROVE  \E i \in Usable(n) :
                   /\ \A k \in Usable(n) : i <= k
                   /\ cfg.sources[n].type = services.defs[i].type
                   /\ cfg.sources[n].located = services.defs[i].located
      <4>1. PICK i \in 1 .. Len(defs) :
              /\ Offers(defs, i, n)
              /\ \A l \in 1 .. Len(defs) : Offers(defs, l, n) => i <= l
              /\ cfg.sources[n] = SourceOf(defs[i])
        BY <3>1, <3>2 DEF MergedSoFar
      <4>2. i \in Usable(n) /\ \A k \in Usable(n) : i <= k
        BY <2>3, <4>1
      <4>3. cfg.sources[n].type = defs[i].type /\ cfg.sources[n].located = defs[i].located
        BY <4>1 DEF SourceOf
      <4> QED
        BY <4>2, <4>3 DEF defs
    <3>3. ASSUME NEW i \in DOMAIN services.defs, i \in Usable(services.defs[i].name)
          PROVE  services.defs[i].name \in DOMAIN cfg.sources
      BY <2>3, <3>1, <3>3 DEF MergedSoFar, Offers, defs
    <3> QED
      BY <3>1, <3>2, <3>3 DEF OperatorSourcesWin, MergedSoFar
  <2>6. CASE ~(file.enabled /\ "logs" \in file.toggles /\ services.ok)
    <3>1. cfg.sources = file.sources
      BY <2>4, <2>6 DEF MergedSources
    <3>2. ~(LogsEnabled(cfg) /\ services.ok)
      BY <2>4, <2>6 DEF LogsEnabled, On
    <3> QED
      BY <3>1, <3>2 DEF OperatorSourcesWin
  <2> QED
    BY <2>5, <2>6
<1> QED
  BY <1>1, LoadAlways, PTL

\* OptInGoverns: no directory of services adds a source to a channel whose control.yaml has
\* not enabled it and its logs, and without a control.yaml that can be read nothing is
\* advertised (loadControlConfig, verbs).
THEOREM OptInIsNeeded == Spec => []OptInGoverns
<1>1. \A c : c.enabled = FALSE => Advertised(c) = {}
  BY DEF Advertised, LogsEnabled, On
<1>2. LoadInv => OptInGoverns
  <2> SUFFICES ASSUME LoadInv PROVE OptInGoverns
    OBVIOUS
  <2>1. CASE cfg = NoConfig
    <3>1. Advertised(cfg) = {} /\ cfg.sources = <<>> /\ DOMAIN cfg.sources = {}
      BY <1>1, <2>1 DEF NoConfig
    <3> QED
      BY <3>1 DEF OptInGoverns
  <2>2. CASE cfg # NoConfig
    <3>1. step = "loaded" /\ file.kind = "ok" /\ file \in Files
      BY <2>2 DEF LoadInv, LoadControlConfig
    <3>2. cfg.sources = MergedSources(file, services) /\ cfg.enabled = file.enabled
      BY <3>1 DEF LoadInv, LoadControlConfig
    <3>3. ~file.enabled => Advertised(cfg) = {}
      BY <1>1, <3>2
    <3>4. ASSUME NEW n \in DOMAIN cfg.sources, cfg.sources[n].from = "service",
                 ~(file.enabled /\ "logs" \in file.toggles)
          PROVE  FALSE
      <4>1. cfg.sources = file.sources
        BY <3>2, <3>4 DEF MergedSources
      <4>2. file.sources[n].from = "control.yaml"
        BY <3>1, <3>4, <4>1, ParsedAssumption
      <4> QED
        BY <3>4, <4>1, <4>2
    <3> QED
      BY <3>1, <3>3, <3>4 DEF OptInGoverns
  <2> QED
    BY <2>1, <2>2
<1> QED
  BY <1>2, LoadAlways, PTL

=============================================================================
