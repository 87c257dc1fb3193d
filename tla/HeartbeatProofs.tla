----------------------------- MODULE HeartbeatProofs -----------------------------
(***************************************************************************)
(* Machine-checked theorems about Heartbeat, for any directories, services *)
(* and intervals: the types, that a payload is settled and complete when   *)
(* it is posted, and that its cards refer to probed metrics.               *)
(*                                                                         *)
(* Fresh says what a beat starts from, OutInv how the map of metrics       *)
(* relates to the answers that have been merged so far, CardsInv where the *)
(* bindings and the cards of a beat come from.                             *)
(***************************************************************************)
EXTENDS Heartbeat, TLAPS

\* A beat starts with nothing, and a binding gives at most one answer.
Fresh ==
  /\ loop \in {"collectors", "services"} =>
       running = {} /\ found = {} /\ answered = {} /\ out = {}
  /\ \A f \in answered : f[1] \notin running

Merged == answered \ found

MergedFor(key) == {f \in Merged : f[1].key = key}

\* Every key of the map belongs to a merged answer and the other way round, a key has
\* one value, and typed signals have been concatenated so far.
OutInv ==
  /\ \A v \in out : \E f \in Merged : f[1].key = v.key
  /\ \A f \in Merged : \E v \in out : v.key = f[1].key
  /\ \A v, w \in out : v.key = w.key => v = w
  /\ \A v \in out :
       (\A f \in MergedFor(v.key) : f[2] = "signals") =>
         v.kind = "signals" /\ v.from = {f[1].id : f \in MergedFor(v.key)}

CardsInv ==
  /\ loop \in {"collect", "post"} /\ AllExpand(expanded) =>
       ServiceBindings(expanded) \subseteq bindings
  /\ loop = "post" => cards = IF sentCards.ok THEN Summaries(sentCards) ELSE {}

HeartInv == TypeOK /\ Fresh /\ PayloadIsSettled /\ OutInv /\ CardsInv

-----------------------------------------------------------------------------
(* Types *)

\* What is loaded from a directory is among the bindings of the model.
LEMMA LoadedAreBindings ==
  /\ \A d \in CollectorDirs : d.bindings \subseteq Bindings
  /\ \A d \in ServiceDirs : ServiceBindings(d) \subseteq Bindings
BY DEF Bindings

\* The bindings yield values of the kinds that the model knows.
LEMMA YieldsAreKinds == \A b \in Bindings : b.yields \subseteq Kinds
  <1> SUFFICES ASSUME NEW b \in Bindings PROVE b.yields \subseteq Kinds
    OBVIOUS
  <1>1. CASE \E d \in CollectorDirs : b \in d.bindings
    BY <1>1, KindsAssumption
  <1>2. CASE \E d \in ServiceDirs : b \in ServiceBindings(d)
    <2>1. PICK d \in ServiceDirs : b \in ServiceBindings(d)
      BY <1>2
    <2>2. PICK s \in d.services :
            b \in {Probe(s, a) : a \in s.axes} \cup {Probe(s, m.key) : m \in s.metrics}
      BY <2>1 DEF ServiceBindings
    <2>3. b.yields = s.yields
      BY <2>2 DEF Probe
    <2>4. QED
      BY <2>1, <2>2, <2>3, KindsAssumption
  <1>3. QED
    BY <1>1, <1>2 DEF Bindings

\* The first state has the types and starts a beat from nothing.
LEMMA InitIsTyped == Init => TypeOK /\ Fresh
  <1> SUFFICES ASSUME Init PROVE TypeOK /\ Fresh
    OBVIOUS
  <1>1. TypeOK
    BY DEF Init, TypeOK, NoServices
  <1>2. Fresh
    BY DEF Init, Fresh
  <1>3. QED
    BY <1>1, <1>2


\* Every step keeps the types.
LEMMA TypeStep == TypeOK /\ Fresh /\ [Next]_vars => TypeOK'
  <1> SUFFICES ASSUME TypeOK, Fresh, [Next]_vars PROVE TypeOK'
    OBVIOUS
  <1>1. CASE EditCollectors
    BY <1>1 DEF EditCollectors, TypeOK, Bindings, Results, world, beat
  <1>2. CASE EditServices
    BY <1>2 DEF EditServices, TypeOK, Bindings, Results, world, beat
  <1>3. CASE AskInterval
    BY <1>3 DEF AskInterval, TypeOK, Bindings, Results, world, beat
  <1>4. CASE Signal
    BY <1>4 DEF Signal, TypeOK, Bindings, Results, world, beat
  <1>5. ASSUME NEW b \in running, ProbeAnswers(b) PROVE TypeOK'
    <2>1. PICK kind \in b.yields : answered' = answered \cup {<<b, kind>>}
                                   /\ found' = found \cup {<<b, kind>>}
      BY <1>5 DEF ProbeAnswers
    <2>2. b \in Bindings
      BY DEF TypeOK
    <2>3. <<b, kind>> \in Results
      BY <2>2, YieldsAreKinds DEF Results
    <2>4. answered' \subseteq Results /\ found' \subseteq answered'
      BY <2>1, <2>3 DEF TypeOK
    <2>5. running' \subseteq bindings'
      BY <1>5 DEF ProbeAnswers, BindingStep, TypeOK
    <2>6. QED
      BY <1>5, <2>4, <2>5 DEF ProbeAnswers, BindingStep, TypeOK, Bindings, Results, world
  <1>6. ASSUME NEW b \in running, ProbeFails(b) PROVE TypeOK'
    BY <1>6 DEF ProbeFails, TypeOK, Bindings, Results, BindingStep, world, beat
  <1>7. CASE Tick
    BY <1>7 DEF Tick, TypeOK, Bindings, Results, world, beat
  <1>8. CASE Stop
    BY <1>8 DEF Stop, TypeOK, Bindings, Results, world, beat
  <1>9. CASE LoadCollectors
    <2>1. bindings' \subseteq Bindings
      BY <1>9, LoadedAreBindings DEF LoadCollectors, TypeOK
    <2>2. running' \subseteq bindings'
      BY <1>9 DEF LoadCollectors, Fresh
    <2>3. QED
      BY <1>9, <2>1, <2>2 DEF LoadCollectors, TypeOK, Bindings, world
  <1>10. CASE LoadServices
    <2>1. bindings' \subseteq Bindings
      BY <1>10, LoadedAreBindings DEF LoadServices, TypeOK
    <2>2. running' \subseteq bindings'
      BY <1>10 DEF LoadServices
    <2>3. {expanded', sentCards'} \subseteq ServiceDirs \cup {NoServices}
      BY <1>10 DEF LoadServices, TypeOK
    <2>4. QED
      BY <1>10, <2>1, <2>2, <2>3 DEF LoadServices, TypeOK, Bindings, world
  <1>11. ASSUME NEW f \in found, Store(f) PROVE TypeOK'
    <2> DEFINE old == {v \in out : v.key = f[1].key}
               kept == {v \in old : v.kind = "signals" /\ f[2] = "signals"}
               new == [key |-> f[1].key, kind |-> f[2],
                       from |-> {f[1].id} \cup UNION {v.from : v \in kept}]
    <2>1. f \in Results
      BY DEF TypeOK
    <2>2. out' = (out \ old) \cup {new}
      BY <1>11 DEF Store, Merge
    <2>3. f[1] \in Bindings
      BY <2>1 DEF Results
    <2>4. \A v \in kept : v.from \subseteq {b.id : b \in Bindings}
      BY DEF TypeOK
    <2>5. new.from \subseteq {b.id : b \in Bindings}
      BY <2>3, <2>4
    <2>6. \A v \in out' : v.from \subseteq {b.id : b \in Bindings}
      BY <2>2, <2>5 DEF TypeOK
    <2>7. found' \subseteq answered' /\ answered' \subseteq Results
      BY <1>11 DEF Store, TypeOK
    <2>8. QED
      BY <1>11, <2>6, <2>7 DEF Store, BindingStep, TypeOK, Bindings, Results, world
  <1>12. CASE Collected
    BY <1>12 DEF Collected, TypeOK, Bindings, Results, world, beat
  <1>13. CASE MarshalFails
    BY <1>13 DEF MarshalFails, TypeOK, Bindings, Results, world, beat
  <1>14. CASE PostFails
    BY <1>14 DEF PostFails, TypeOK, Bindings, Results, world, beat
  <1>15. CASE Accepted
    BY <1>15 DEF Accepted, TypeOK, Bindings, Results, world, beat
  <1>16. CASE PostSignal
    BY <1>16 DEF PostSignal, TypeOK, Bindings, Results, world, beat
  <1>17. CASE SignalsDone
    <2>1. interval' \in {Configured} \cup (Wishes \ {0})
      BY <1>17 DEF SignalsDone, Adopt, TypeOK
    <2>2. QED
      BY <1>17, <2>1 DEF SignalsDone, TypeOK, Bindings, Results, world, beat
  <1>18. CASE UNCHANGED vars
    BY <1>18 DEF TypeOK, Bindings, Results, vars, world, beat
  <1>19. QED
    BY <1>1, <1>2, <1>3, <1>4, <1>5, <1>6, <1>7, <1>8, <1>9, <1>10, <1>11, <1>12, <1>13, <1>14,
       <1>15, <1>16, <1>17, <1>18 DEF Next, Environment, Primitive, Loop

-----------------------------------------------------------------------------
(* The course of a beat *)

\* A beat starts from nothing, and no binding answers twice.
LEMMA FreshStep == Fresh /\ [Next]_vars => Fresh'
  <1> SUFFICES ASSUME Fresh, [Next]_vars PROVE Fresh'
    OBVIOUS
  <1>1. CASE EditCollectors
    BY <1>1 DEF EditCollectors, Fresh, world, beat
  <1>2. CASE EditServices
    BY <1>2 DEF EditServices, Fresh, world, beat
  <1>3. CASE AskInterval
    BY <1>3 DEF AskInterval, Fresh, world, beat
  <1>4. CASE Signal
    BY <1>4 DEF Signal, Fresh, world, beat
  <1>5. ASSUME NEW b \in running, ProbeAnswers(b) PROVE Fresh'
    BY <1>5 DEF ProbeAnswers, Fresh, BindingStep, world, beat
  <1>6. ASSUME NEW b \in running, ProbeFails(b) PROVE Fresh'
    BY <1>6 DEF ProbeFails, Fresh, BindingStep, world, beat
  <1>7. CASE Tick
    BY <1>7 DEF Tick, Fresh, world, beat
  <1>8. CASE Stop
    BY <1>8 DEF Stop, Fresh, world, beat
  <1>9. CASE LoadCollectors
    BY <1>9 DEF LoadCollectors, Fresh, world, beat
  <1>10. CASE LoadServices
    <2>1. answered' = {} /\ loop' = "collect"
      BY <1>10 DEF LoadServices, Fresh
    <2>2. QED
      BY <2>1 DEF Fresh
  <1>11. ASSUME NEW f \in found, Store(f) PROVE Fresh'
    BY <1>11 DEF Store, Fresh, BindingStep, world, beat
  <1>12. CASE Collected
    BY <1>12 DEF Collected, Fresh, world, beat
  <1>13. CASE MarshalFails
    BY <1>13 DEF MarshalFails, Fresh, world, beat
  <1>14. CASE PostFails
    BY <1>14 DEF PostFails, Fresh, world, beat
  <1>15. CASE Accepted
    BY <1>15 DEF Accepted, Fresh, world, beat
  <1>16. CASE PostSignal
    BY <1>16 DEF PostSignal, Fresh, world, beat
  <1>17. CASE SignalsDone
    BY <1>17 DEF SignalsDone, Fresh, world, beat
  <1>18. CASE UNCHANGED vars
    BY <1>18 DEF Fresh, vars, world, beat
  <1>19. QED
    BY <1>1, <1>2, <1>3, <1>4, <1>5, <1>6, <1>7, <1>8, <1>9, <1>10, <1>11, <1>12, <1>13, <1>14,
       <1>15, <1>16, <1>17, <1>18 DEF Next, Environment, Primitive, Loop

\* Nothing is started or merged once the payload is there.
LEMMA SettledStep == PayloadIsSettled /\ [Next]_vars => PayloadIsSettled'
  <1> SUFFICES ASSUME PayloadIsSettled, [Next]_vars PROVE PayloadIsSettled'
    OBVIOUS
  <1>1. CASE EditCollectors
    BY <1>1 DEF EditCollectors, PayloadIsSettled, world, beat
  <1>2. CASE EditServices
    BY <1>2 DEF EditServices, PayloadIsSettled, world, beat
  <1>3. CASE AskInterval
    BY <1>3 DEF AskInterval, PayloadIsSettled, world, beat
  <1>4. CASE Signal
    BY <1>4 DEF Signal, PayloadIsSettled, world, beat
  <1>5. ASSUME NEW b \in running, ProbeAnswers(b) PROVE PayloadIsSettled'
    BY <1>5 DEF ProbeAnswers, PayloadIsSettled, BindingStep, world, beat
  <1>6. ASSUME NEW b \in running, ProbeFails(b) PROVE PayloadIsSettled'
    BY <1>6 DEF ProbeFails, PayloadIsSettled, BindingStep, world, beat
  <1>7. CASE Tick
    BY <1>7 DEF Tick, PayloadIsSettled, world, beat
  <1>8. CASE Stop
    BY <1>8 DEF Stop, PayloadIsSettled, world, beat
  <1>9. CASE LoadCollectors
    BY <1>9 DEF LoadCollectors, PayloadIsSettled, world, beat
  <1>10. CASE LoadServices
    BY <1>10 DEF LoadServices, PayloadIsSettled, world, beat
  <1>11. ASSUME NEW f \in found, Store(f) PROVE PayloadIsSettled'
    BY <1>11 DEF Store, PayloadIsSettled, BindingStep, world, beat
  <1>12. CASE Collected
    BY <1>12 DEF Collected, AllDone, PayloadIsSettled
  <1>13. CASE MarshalFails
    BY <1>13 DEF MarshalFails, PayloadIsSettled, world, beat
  <1>14. CASE PostFails
    BY <1>14 DEF PostFails, PayloadIsSettled, world, beat
  <1>15. CASE Accepted
    BY <1>15 DEF Accepted, PayloadIsSettled, world, beat
  <1>16. CASE PostSignal
    BY <1>16 DEF PostSignal, PayloadIsSettled, world, beat
  <1>17. CASE SignalsDone
    BY <1>17 DEF SignalsDone, PayloadIsSettled, world, beat
  <1>18. CASE UNCHANGED vars
    BY <1>18 DEF PayloadIsSettled, vars, world, beat
  <1>19. QED
    BY <1>1, <1>2, <1>3, <1>4, <1>5, <1>6, <1>7, <1>8, <1>9, <1>10, <1>11, <1>12, <1>13, <1>14,
       <1>15, <1>16, <1>17, <1>18 DEF Next, Environment, Primitive, Loop

-----------------------------------------------------------------------------
(* The map of metrics *)

\* OutInv speaks of three variables only.
LEMMA OutKept == OutInv /\ UNCHANGED <<found, answered, out>> => OutInv'
BY DEF OutInv, Merged, MergedFor

\* A result that is merged joins what is there for its key.
LEMMA StoreKeepsOut ==
  ASSUME TypeOK, OutInv, NEW f \in found, Store(f)
  PROVE  OutInv'
  <1> DEFINE old == {v \in out : v.key = f[1].key}
             kept == {v \in old : v.kind = "signals" /\ f[2] = "signals"}
             new == [key |-> f[1].key, kind |-> f[2],
                     from |-> {f[1].id} \cup UNION {v.from : v \in kept}]
  <1>1. out' = (out \ old) \cup {new}
    BY DEF Store, Merge
  <1>2. Merged' = Merged \cup {f} /\ f \notin Merged
    BY DEF Store, Merged, TypeOK
  <1>3. /\ new.key = f[1].key /\ new.kind = f[2]
        /\ new.from = {f[1].id} \cup UNION {v.from : v \in kept}
    OBVIOUS
  <1>4. \A key : key # f[1].key => MergedFor(key)' = MergedFor(key)
    BY <1>2 DEF MergedFor
  <1>5. MergedFor(f[1].key)' = MergedFor(f[1].key) \cup {f}
    BY <1>2 DEF MergedFor
  <1> HIDE DEF new
  <1>6. \A v \in out' : \E g \in Merged' : g[1].key = v.key
    BY <1>1, <1>2, <1>3 DEF OutInv
  <1>7. \A g \in Merged' : \E v \in out' : v.key = g[1].key
    BY <1>1, <1>2, <1>3 DEF OutInv
  <1>8. \A v, w \in out' : v.key = w.key => v = w
    BY <1>1, <1>3 DEF OutInv
  <1>9. ASSUME NEW v \in out', \A g \in MergedFor(v.key)' : g[2] = "signals"
        PROVE  v.kind = "signals" /\ v.from = {g[1].id : g \in MergedFor(v.key)'}
    <2>1. CASE v \in out \ old
      <3>1. MergedFor(v.key)' = MergedFor(v.key)
        BY <2>1, <1>4
      <3>2. QED
        BY <2>1, <3>1, <1>9 DEF OutInv
    <2>2. CASE v = new
      <3>1. MergedFor(v.key)' = MergedFor(f[1].key) \cup {f}
        BY <2>2, <1>3, <1>5
      <3>2. f[2] = "signals" /\ \A g \in MergedFor(f[1].key) : g[2] = "signals"
        BY <3>1, <1>9
      <3>3. kept = old
        <4>1. \A u \in old : u.kind = "signals"
          BY <3>2 DEF OutInv
        <4>2. QED
          BY <4>1, <3>2
      <3>4. UNION {u.from : u \in old} = {g[1].id : g \in MergedFor(f[1].key)}
        <4>1. CASE old = {}
          <5>1. MergedFor(f[1].key) = {}
            BY <4>1 DEF OutInv, MergedFor
          <5>2. QED
            BY <4>1, <5>1
        <4>2. CASE old # {}
          <5>1. PICK u \in out : u.key = f[1].key
            BY <4>2
          <5>2. old = {u}
            BY <5>1 DEF OutInv
          <5>3. u.from = {g[1].id : g \in MergedFor(f[1].key)}
            BY <5>1, <3>2 DEF OutInv
          <5>4. QED
            BY <5>2, <5>3
        <4>3. QED
          BY <4>1, <4>2
      <3>5. v.from = {f[1].id} \cup {g[1].id : g \in MergedFor(f[1].key)}
        BY <2>2, <1>3, <3>3, <3>4
      <3>6. v.from = {g[1].id : g \in MergedFor(v.key)'}
        BY <3>1, <3>5
      <3>7. QED
        BY <2>2, <1>3, <3>2, <3>6
    <2>3. QED
      BY <1>1, <2>1, <2>2
  <1>10. QED
    BY <1>6, <1>7, <1>8, <1>9 DEF OutInv

\* Every step keeps the relation between the map and the merged answers.
LEMMA OutStep == TypeOK /\ Fresh /\ OutInv /\ [Next]_vars => OutInv'
  <1> SUFFICES ASSUME TypeOK, Fresh, OutInv, [Next]_vars PROVE OutInv'
    OBVIOUS
  <1>1. CASE EditCollectors
    BY <1>1, OutKept DEF EditCollectors, beat
  <1>2. CASE EditServices
    BY <1>2, OutKept DEF EditServices, beat
  <1>3. CASE AskInterval
    BY <1>3, OutKept DEF AskInterval, beat
  <1>4. CASE Signal
    BY <1>4, OutKept DEF Signal, beat
  <1>5. ASSUME NEW b \in running, ProbeAnswers(b) PROVE OutInv'
    <2>1. PICK kind \in b.yields : answered' = answered \cup {<<b, kind>>}
                                   /\ found' = found \cup {<<b, kind>>}
      BY <1>5 DEF ProbeAnswers
    <2>2. <<b, kind>> \notin answered
      BY DEF Fresh
    <2>3. Merged' = Merged
      BY <2>1, <2>2 DEF Merged
    <2>4. out' = out
      BY <1>5 DEF ProbeAnswers
    <2>5. QED
      BY <2>3, <2>4 DEF OutInv, MergedFor
  <1>6. ASSUME NEW b \in running, ProbeFails(b) PROVE OutInv'
    BY <1>6, OutKept DEF ProbeFails, beat
  <1>7. CASE Tick
    <2>1. out' = {} /\ Merged' = {}
      BY <1>7 DEF Tick, Merged
    <2>2. QED
      BY <2>1 DEF OutInv
  <1>8. CASE Stop
    BY <1>8, OutKept DEF Stop, beat
  <1>9. CASE LoadCollectors
    BY <1>9, OutKept DEF LoadCollectors, beat
  <1>10. CASE LoadServices
    BY <1>10, OutKept DEF LoadServices, beat
  <1>11. ASSUME NEW f \in found, Store(f) PROVE OutInv'
    BY <1>11, StoreKeepsOut
  <1>12. CASE Collected
    BY <1>12, OutKept DEF Collected, beat
  <1>13. CASE MarshalFails
    BY <1>13, OutKept DEF MarshalFails, beat
  <1>14. CASE PostFails
    BY <1>14, OutKept DEF PostFails, beat
  <1>15. CASE Accepted
    BY <1>15, OutKept DEF Accepted, beat
  <1>16. CASE PostSignal
    BY <1>16, OutKept DEF PostSignal, beat
  <1>17. CASE SignalsDone
    BY <1>17, OutKept DEF SignalsDone, beat
  <1>18. CASE UNCHANGED vars
    BY <1>18, OutKept DEF vars, beat
  <1>19. QED
    BY <1>1, <1>2, <1>3, <1>4, <1>5, <1>6, <1>7, <1>8, <1>9, <1>10, <1>11, <1>12, <1>13, <1>14,
       <1>15, <1>16, <1>17, <1>18 DEF Next, Environment, Primitive, Loop

-----------------------------------------------------------------------------
(* Cards *)

\* The summaries of a directory use the keys of its bindings.
LEMMA RefsAreKeys ==
  \A dir : UNION {c.refs : c \in Summaries(dir)} \subseteq {b.key : b \in ServiceBindings(dir)}
  <1> SUFFICES ASSUME NEW dir, NEW s \in dir.services,
                      NEW ref \in {<<s.name, a>> : a \in s.axes}
                                  \cup {<<s.name, m.key>> : m \in s.metrics}
               PROVE  \E b \in ServiceBindings(dir) : ref = b.key
    BY DEF Summaries
  <1>1. CASE \E a \in s.axes : ref = <<s.name, a>>
    <2>1. PICK a \in s.axes : ref = <<s.name, a>>
      BY <1>1
    <2>2. Probe(s, a).key = ref
      BY <2>1 DEF Probe
    <2>3. Probe(s, a) \in {Probe(s, x) : x \in s.axes}
                          \cup {Probe(s, y.key) : y \in s.metrics}
      BY <2>1
    <2>4. Probe(s, a) \in ServiceBindings(dir)
      BY <2>3, Zenon DEF ServiceBindings
    <2>5. QED
      BY <2>2, <2>4
  <1>2. CASE \E m \in s.metrics : ref = <<s.name, m.key>>
    <2>1. PICK m \in s.metrics : ref = <<s.name, m.key>>
      BY <1>2
    <2>2. Probe(s, m.key).key = ref
      BY <2>1 DEF Probe
    <2>3. Probe(s, m.key) \in {Probe(s, x) : x \in s.axes}
                              \cup {Probe(s, y.key) : y \in s.metrics}
      BY <2>1
    <2>4. Probe(s, m.key) \in ServiceBindings(dir)
      BY <2>3, Zenon DEF ServiceBindings
    <2>5. QED
      BY <2>2, <2>4
  <1>3. QED
    BY <1>1, <1>2

\* Every step keeps track of where bindings and cards come from.
LEMMA CardsStep == CardsInv /\ [Next]_vars => CardsInv'
  <1> SUFFICES ASSUME CardsInv, [Next]_vars PROVE CardsInv'
    OBVIOUS
  <1>1. CASE EditCollectors
    BY <1>1 DEF EditCollectors, CardsInv, world, beat
  <1>2. CASE EditServices
    BY <1>2 DEF EditServices, CardsInv, world, beat
  <1>3. CASE AskInterval
    BY <1>3 DEF AskInterval, CardsInv, world, beat
  <1>4. CASE Signal
    BY <1>4 DEF Signal, CardsInv, world, beat
  <1>5. ASSUME NEW b \in running, ProbeAnswers(b) PROVE CardsInv'
    BY <1>5 DEF ProbeAnswers, CardsInv, BindingStep, world, beat
  <1>6. ASSUME NEW b \in running, ProbeFails(b) PROVE CardsInv'
    BY <1>6 DEF ProbeFails, CardsInv, BindingStep, world, beat
  <1>7. CASE Tick
    BY <1>7 DEF Tick, CardsInv, world, beat
  <1>8. CASE Stop
    BY <1>8 DEF Stop, CardsInv, world, beat
  <1>9. CASE LoadCollectors
    BY <1>9 DEF LoadCollectors, CardsInv, world, beat
  <1>10. CASE LoadServices
    BY <1>10 DEF LoadServices, CardsInv, world, beat
  <1>11. ASSUME NEW f \in found, Store(f) PROVE CardsInv'
    BY <1>11 DEF Store, CardsInv, BindingStep, world, beat
  <1>12. CASE Collected
    BY <1>12 DEF Collected, CardsInv, world, beat
  <1>13. CASE MarshalFails
    BY <1>13 DEF MarshalFails, CardsInv, world, beat
  <1>14. CASE PostFails
    BY <1>14 DEF PostFails, CardsInv, world, beat
  <1>15. CASE Accepted
    BY <1>15 DEF Accepted, CardsInv, world, beat
  <1>16. CASE PostSignal
    BY <1>16 DEF PostSignal, CardsInv, world, beat
  <1>17. CASE SignalsDone
    BY <1>17 DEF SignalsDone, CardsInv, world, beat
  <1>18. CASE UNCHANGED vars
    BY <1>18 DEF CardsInv, vars, world, beat
  <1>19. QED
    BY <1>1, <1>2, <1>3, <1>4, <1>5, <1>6, <1>7, <1>8, <1>9, <1>10, <1>11, <1>12, <1>13, <1>14,
       <1>15, <1>16, <1>17, <1>18 DEF Next, Environment, Primitive, Loop

-----------------------------------------------------------------------------
(* Theorems *)

\* The invariant holds in every state.
LEMMA HeartInvariant == Spec => []HeartInv
  <1>1. Init => HeartInv
    <2> SUFFICES ASSUME Init PROVE HeartInv
      OBVIOUS
    <2>1. PayloadIsSettled /\ CardsInv
      BY DEF Init, PayloadIsSettled, CardsInv
    <2>2. OutInv
      BY DEF Init, OutInv, Merged
    <2>3. QED
      BY <2>1, <2>2, InitIsTyped DEF HeartInv
  <1>2. HeartInv /\ [Next]_vars => HeartInv'
    BY TypeStep, FreshStep, SettledStep, OutStep, CardsStep DEF HeartInv
  <1>3. QED
    BY <1>1, <1>2, PTL DEF Spec

\* Main loop, runner and sender keep their types, whatever the directories hold.
THEOREM HeartbeatTypeCorrect == Spec => []TypeOK
  <1>1. HeartInv => TypeOK
    BY DEF HeartInv
  <1>2. QED
    BY <1>1, HeartInvariant, PTL

\* No goroutine of a beat can write to its metrics once they are being sent.
THEOREM PayloadsAreSettled == Spec => []PayloadIsSettled
  <1>1. HeartInv => PayloadIsSettled
    BY DEF HeartInv
  <1>2. QED
    BY <1>1, HeartInvariant, PTL

\* The payload has a value for exactly the keys that were answered, and every typed
\* signal, for any bindings and any order of their goroutines (mergeBindingValue).
THEOREM PayloadsAreComplete == Spec => []NothingLost
  <1>1. HeartInv => NothingLost
    <2> SUFFICES ASSUME HeartInv, loop = "post"
                 PROVE  /\ {v.key : v \in out} = {f[1].key : f \in answered}
                        /\ \A v, w \in out : v.key = w.key => v = w
                        /\ \A v \in out :
                             (\A f \in Answers(v.key) : f[2] = "signals") =>
                               v.from = {f[1].id : f \in Answers(v.key)}
      BY DEF NothingLost
    <2>1. Merged = answered
      BY DEF HeartInv, PayloadIsSettled, Merged
    <2>2. \A key : MergedFor(key) = Answers(key)
      BY <2>1 DEF MergedFor, Answers
    <2>3. {v.key : v \in out} = {f[1].key : f \in answered}
      BY <2>1 DEF HeartInv, OutInv
    <2>4. QED
      BY <2>2, <2>3 DEF HeartInv, OutInv
  <1>2. QED
    BY <1>1, HeartInvariant, PTL

\* Every metric that a card refers to was probed in the same beat, if services.d was
\* expandable and the same at both readings (LoadServiceSummaries, expandService).
THEOREM CardsReferToProbes == Spec => []CardsHaveProbes
  <1>1. HeartInv => CardsHaveProbes
    <2> SUFFICES ASSUME HeartInv, loop = "post", sentCards = expanded, AllExpand(expanded)
                 PROVE  UNION {c.refs : c \in cards} \subseteq {b.key : b \in bindings}
      BY DEF CardsHaveProbes
    <2>1. cards = Summaries(expanded) /\ ServiceBindings(expanded) \subseteq bindings
      BY DEF HeartInv, CardsInv, AllExpand
    <2>2. QED
      BY <2>1, RefsAreKeys
  <1>2. QED
    BY <1>1, HeartInvariant, PTL
=============================================================================
