------------------------------- MODULE CpuSample -------------------------------
(***************************************************************************)
(* Busy CPU as the difference of two readings of /proc/stat: the           *)
(* procfs.cpu_used_pct primitive, whose bindings share one previous sample *)
(* (read outside the mutex, compared and replaced under it), and the       *)
(* metrics.live streams of the control channel, each with a sample of its  *)
(* own.                                                                    *)
(*                                                                         *)
(* The kernel's counters are taken as they grow, without a bound; the code *)
(* holds them modulo Word (2^64).  Rounding to a tenth is left out: a      *)
(* percentage is a whole number.                                           *)
(*                                                                         *)
(* Operators called a mutant are plausible slips in the definition after   *)
(* them; no action uses them.                                              *)
(***************************************************************************)
EXTENDS Beat

CONSTANTS
  CpuBindings,   \* the bindings of procfs.cpu_used_pct
  Streams,       \* the metrics.live streams
  Word,          \* the width of a counter: Word values
  FirstTotal,    \* the total at the start
  MaxTotal       \* bound: the total stays between the two

\* The previous sample of the primitive is one for all its bindings; a stream has its own.
Shared == "cpuPrev"

ASSUME CpuAssumption ==
  /\ CpuBindings \subseteq Bindings /\ Streams \cap (CpuBindings \cup {Shared}) = {}
  /\ FirstTotal \in Nat /\ MaxTotal \in Nat /\ FirstTotal <= MaxTotal
  /\ Word \in Nat \ {0} /\ MaxTotal - FirstTotal < Word

VARIABLES
  ticks,      \* /proc/stat: [total, idle], idle with iowait
  prev,       \* the previous sample: one for the primitive, one per stream
  taken,      \* the reading a binding has made and not yet compared
  shown       \* the last answer of each, and the reading it was made from: [pct, to]

cpuVars == <<ticks, prev, taken, shown>>

Samplers == CpuBindings \cup Streams
Owner(s) == IF s \in Streams THEN s ELSE Shared
FirstIdle == FirstTotal \div 2
NoReading == [total |-> -1, idle |-> -1]
NoAnswer == [pct |-> 0, to |-> NoReading]

\* Unsigned subtraction.
Minus(m, n) == (m - n) % Word

\* Mutant of BusyPct: the counters are taken for numbers that do not wrap.
BusyPctWide(old, new) ==
  LET dt == (new.total % Word) - (old.total % Word)
      di == (new.idle % Word) - (old.idle % Word)
      pct == IF dt <= 0 THEN 0 ELSE ((dt - di) * 100) \div dt
  IN IF pct < 0 THEN 0 ELSE IF pct > 100 THEN 100 ELSE pct

BusyPct(old, new) ==
  LET dt == Minus(new.total, old.total)
      di == Minus(new.idle, old.idle)
      pct == IF dt = 0 THEN 0 ELSE ((dt - di) * 100) \div dt
  IN IF pct < 0 THEN 0 ELSE IF pct > 100 THEN 100 ELSE pct

\* cpuPct of control/metrics.go: the same formula, written a second time.
CpuPct(old, new) == BusyPct(old, new)

-----------------------------------------------------------------------------
(* The kernel *)

\* Time passes on the processors, busy or idle.
Work ==
  /\ \E busy, idle \in 0 .. 1 :
       /\ busy + idle > 0 /\ ticks.total + busy + idle <= MaxTotal
       /\ ticks' = [total |-> ticks.total + busy + idle, idle |-> ticks.idle + idle]
  /\ UNCHANGED <<prev, taken, shown>>

\* iowait is an estimate that may be taken back; the idle time at the start is not iowait.
TakeBack ==
  /\ host.takesBack
  /\ ticks.idle > FirstIdle /\ ticks.total > FirstTotal
  /\ ticks' = [total |-> ticks.total - 1, idle |-> ticks.idle - 1]
  /\ UNCHANGED <<prev, taken, shown>>

-----------------------------------------------------------------------------
(* The samplers *)

\* readProcStatCPU, before the mutex.
ReadCpu(b) ==
  /\ stage[b] = "called"
  /\ taken' = [taken EXCEPT ![b] = ticks]
  /\ Step(b, "read")
  /\ UNCHANGED <<ticks, prev, shown>>

\* The rest of procfsCPUUsedPct, under the mutex: the comparison with the previous sample,
\* which the first does not have, and its replacement.
CommitCpu(b) ==
  /\ stage[b] = "read"
  /\ shown' = [shown EXCEPT
       ![b] = [pct |-> IF prev[Shared] = NoReading THEN 0 ELSE BusyPct(prev[Shared], taken[b]),
               to |-> taken[b]]]
  /\ prev' = [prev EXCEPT ![Shared] = taken[b]]
  /\ taken' = [taken EXCEPT ![b] = NoReading]
  /\ Step(b, "done")
  /\ UNCHANGED ticks

\* metricsLiveJob: a sample when it starts, then one per tick compared with the last.
StartLive(s) ==
  /\ prev[s] = NoReading
  /\ prev' = [prev EXCEPT ![s] = ticks]
  /\ shown' = [shown EXCEPT ![s] = [pct |-> 0, to |-> ticks]]
  /\ UNCHANGED <<ticks, taken, beatVars>>

SampleLive(s) ==
  /\ prev[s] # NoReading
  /\ shown' = [shown EXCEPT ![s] = [pct |-> CpuPct(prev[s], ticks), to |-> ticks]]
  /\ prev' = [prev EXCEPT ![s] = ticks]
  /\ UNCHANGED <<ticks, taken, beatVars>>

CpuInit ==
  /\ ticks = [total |-> FirstTotal, idle |-> FirstIdle]
  /\ prev = [o \in Streams \cup {Shared} |-> NoReading]
  /\ taken = [b \in CpuBindings |-> NoReading]
  /\ shown = [s \in Samplers |-> NoAnswer]

-----------------------------------------------------------------------------
(* Properties *)

\* What a sampler shows is the busy share of the time since its own previous reading, also
\* where a counter wraps in between, if it is alone on its previous sample and the idle
\* time was not taken back: the heartbeat and the live charts do not disturb each other.
ShowsItsOwnInterval ==
  [][\A s \in Samplers :
       LET old == shown[s].to
           new == shown'[s].to
           alone == s \in Streams \/ host.bound \cap CpuBindings = {s}
           forward == old.idle <= new.idle /\ old.total < new.total
       IN shown'[s] # shown[s] /\ alone /\ prev[Owner(s)] # NoReading /\ forward =>
            shown'[s].pct =
              (((new.total - old.total) - (new.idle - old.idle)) * 100)
                \div (new.total - old.total)]_<<prev, shown>>

\* No answer is a share that does not exist, whoever shares the sample and whatever the
\* kernel takes back.
SharesAreShares == \A s \in Samplers : shown[s].pct \in 0 .. 100

=============================================================================
