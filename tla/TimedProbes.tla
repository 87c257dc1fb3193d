------------------------------ MODULE TimedProbes ------------------------------
(***************************************************************************)
(* The primitives that wait for one thing under the context of their call: *)
(* a command (exec, df, systemctl, apt-get), a connection or a document    *)
(* (http.*, tcp.connect, ssl.cert_expiry), or a second reading of /proc    *)
(* for the rates of procfs.diskstats and procfs.netdev.                    *)
(*                                                                         *)
(* What is waited for ends as "refused" (an exit status, a refusal),       *)
(* "garbled" (complete, but not what the parser wants), "missing" (without *)
(* the part asked for) or "whole", or the context cuts it off, with "none" *)
(* or a "part" of its output there, or all of it.  An answer is "omitted"  *)
(* (an error: no metric), "null", "value", or "negative", the value that   *)
(* says down, inactive, not found or unknown.                              *)
(*                                                                         *)
(* The counters of /proc are one number per device or interface (a VLAN is *)
(* a part of its interface); dividing their growth by the sampling time is *)
(* left out.                                                               *)
(*                                                                         *)
(* Operators called a mutant are plausible slips in the definition after   *)
(* them; no action uses them.                                              *)
(***************************************************************************)
EXTENDS Beat

CONSTANTS
  ProbeBindings,   \* the bindings of these primitives
  Probe,           \* the primitive of each
  SampleFor,       \* the sample_sec of each, if it is one of Rates
  Devices,         \* block devices or interfaces: disks, their partitions, virtual ones
  Virtual,         \* those whose name says that they are virtual
  Whole,           \* the disk or interface that each device is or is a part of
  PrefixOf,        \* <<d, e>>: the name of e begins with the name of d
  MaxIO            \* bound: the I/O that is done

\* The primitives that wait for an answer, and those that read twice.
Asking == {"exec", "systemctl.is_active", "disk.usage", "systemd.resources",
           "apt.security_count", "http.get", "http.get_json", "http.probe", "tcp.connect",
           "ssl.cert_expiry"}
Rates == {"procfs.diskstats", "procfs.netdev"}

\* Of the first, those that run a command and read its output to the end.
Commands == {"exec", "systemctl.is_active", "disk.usage", "systemd.resources",
             "apt.security_count"}

ASSUME ProbeAssumption ==
  /\ ProbeBindings \subseteq Bindings
  /\ Probe \in [ProbeBindings -> Asking \cup Rates]
  /\ Virtual \subseteq Devices
  /\ Whole \in [Devices -> Devices]
  /\ PrefixOf \subseteq Devices \X Devices
  /\ \A d \in Devices : Whole[Whole[d]] = Whole[d] /\ <<Whole[d], d>> \in PrefixOf
  /\ \A d \in Virtual : Whole[d] \in Virtual
  /\ MaxIO \in Nat

VARIABLES
  waitsFor,   \* per binding: how what it waited for ended, [is, cut]
  says,       \* per binding: its answer
  counters,   \* /proc/diskstats or /proc/net/dev: a number per device that is there
  moved,      \* the I/O that the hardware has done
  first,      \* per binding, its first sample: [counters, at, moved]
  rate        \* per binding, the growth it reported

probeVars == <<waitsFor, says, counters, moved, first, rate>>

\* It ended by itself and well; and with all that was asked for.
Complete(o) == ~o.cut /\ o.is # "refused"
InFull(o) == ~o.cut /\ o.is = "whole"

\* Mutant of Exec: what was printed before the end is the answer, however it ended.
ExecPrinted(o) == IF o.is \in {"whole", "part"} THEN "value" ELSE "omitted"

\* exec: what parses is the answer, a path that is not in it gives nil.
Exec(o) ==
  CASE InFull(o) -> "value"
    [] ~o.cut /\ o.is = "missing" -> "null"
    [] OTHER -> "omitted"

\* systemctl.is_active looks at the output alone.
IsActive(o) == IF o.is = "whole" THEN "value" ELSE "negative"

\* disk.usage and disk.max_used_pct pass over the lines they do not know.
DiskUsage(o) == IF Complete(o) /\ o.is # "missing" THEN "value" ELSE "omitted"

\* systemd.resources: a unit that could not be asked about has a row that says not found.
SystemdResources(o) == IF Complete(o) THEN "value" ELSE "negative"

\* apt.security_count: -1 for what cannot be counted.
AptSecurityCount(o) == IF Complete(o) THEN "value" ELSE "negative"

\* http.get: any status is an answer, no response is none.
HttpGet(o) == IF Complete(o) /\ o.is # "garbled" THEN "value" ELSE "omitted"

\* http.json: the document, or what is found at a path in it.
HttpGetJSON(o) ==
  CASE InFull(o) -> "value"
    [] ~o.cut /\ o.is = "missing" -> "null"
    [] OTHER -> "omitted"

\* http.probe: whatever is not the status expected is down.
HttpProbe(o) == IF InFull(o) THEN "value" ELSE "negative"

\* tcp.connect: nothing is read from the connection.
TcpConnect(o) == IF Complete(o) THEN "value" ELSE "negative"

\* ssl.cert_expiry: a handshake that ends and presents a certificate.
SslCertExpiry(o) == IF InFull(o) THEN "value" ELSE "omitted"

AnswerOf(p, o) ==
  CASE p = "exec" -> Exec(o)
    [] p = "systemctl.is_active" -> IsActive(o)
    [] p = "disk.usage" -> DiskUsage(o)
    [] p = "systemd.resources" -> SystemdResources(o)
    [] p = "apt.security_count" -> AptSecurityCount(o)
    [] p = "http.get" -> HttpGet(o)
    [] p = "http.get_json" -> HttpGetJSON(o)
    [] p = "http.probe" -> HttpProbe(o)
    [] p = "tcp.connect" -> TcpConnect(o)
    [] p = "ssl.cert_expiry" -> SslCertExpiry(o)

\* Mutant of IsPartitionOf: a partition is counted beside its disk.
IsPartitionOfNone(d, all) == FALSE

\* Another device is there whose name begins this one's.
IsPartitionOf(d, all) == \E e \in all : e # d /\ <<e, d>> \in PrefixOf

\* The I/O of a device between two samples, numbered as its counter does; none if it went back.
Units(counted, old, new) ==
  UNION {{d} \X (old[d] + 1 .. new[d]) : d \in counted \cap DOMAIN old}

\* The growth of what is in both samples, summed.
Growth(counted, old, new) == Cardinality(Units(counted, old, new))

\* The real disks, and no partitions beside them; the real interfaces.
DiskRates(old, new) ==
  Growth({d \in DOMAIN new \ Virtual : ~IsPartitionOf(d, DOMAIN new)}, old, new)
NetRates(old, new) == Growth(DOMAIN new \ Virtual, old, new)

-----------------------------------------------------------------------------
(* The hardware *)

\* What happens between two samples is what matters.
Sampling == \E b \in ProbeBindings : stage[b] = "waiting" /\ Probe[b] \in Rates

\* I/O to a device counts for it and for its disk; to a virtual one, for it alone.
DoIO ==
  /\ Sampling /\ moved < MaxIO
  /\ \E d \in DOMAIN counters :
       /\ counters[d] <= MaxIO
       /\ counters' = [e \in DOMAIN counters |->
                         IF e \in {d, Whole[d]} THEN counters[e] + 1 ELSE counters[e]]
       /\ moved' = IF d \in Virtual THEN moved ELSE moved + 1
  /\ UNCHANGED <<waitsFor, says, first, rate>>

\* A disk comes or goes with its partitions; its counters begin at zero.
Plug ==
  /\ Sampling
  /\ \E d \in Devices :
       LET parts == {e \in Devices : Whole[e] = Whole[d]}
       IN counters' = IF d \in DOMAIN counters
                      THEN [e \in DOMAIN counters \ parts |-> counters[e]]
                      ELSE [e \in DOMAIN counters \cup parts |->
                              IF e \in parts THEN 0 ELSE counters[e]]
  /\ UNCHANGED <<waitsFor, says, moved, first, rate>>

-----------------------------------------------------------------------------
(* The primitives *)

\* Everything they start, and for the rates the first sample.
CallProbe(b) ==
  /\ stage[b] = "called"
  /\ first' = [first EXCEPT ![b] = [counters |-> counters, at |-> Now, moved |-> moved]]
  /\ Step(b, "waiting")
  /\ UNCHANGED <<waitsFor, says, counters, moved, rate>>

AnswerWith(b, o) ==
  /\ stage[b] = "waiting" /\ Probe[b] \notin Rates
  /\ waitsFor' = [waitsFor EXCEPT ![b] = o]
  /\ says' = [says EXCEPT ![b] = AnswerOf(Probe[b], o)]
  /\ Step(b, "done")
  /\ UNCHANGED <<counters, moved, first, rate>>

Ended(b) ==
  /\ ~Late
  /\ \E is \in {"refused", "garbled", "missing", "whole"} :
       AnswerWith(b, [is |-> is, cut |-> FALSE])

\* The primitives without a timeout of their own that is shorter than the deadline.
Patient == {"disk.usage", "apt.security_count"} \cup Rates

\* The context closes the connection, or ends the sleep.  It kills a command as well, but the
\* call only returns when nobody holds the command's output any more, and nothing says when
\* that is: Output is called without a WaitDelay.
Cut(b) ==
  /\ Late \/ Probe[b] \notin Patient
  /\ \/ \E is \in {"none", "part", "whole"} : AnswerWith(b, [is |-> is, cut |-> TRUE])
     \/ /\ stage[b] = "waiting" /\ Probe[b] \in Rates
        /\ says' = [says EXCEPT ![b] = "omitted"]
        /\ Step(b, "done")
        /\ UNCHANGED <<waitsFor, counters, moved, first, rate>>

\* sampleProc slept for sample_sec; when the context is done too, either may be chosen.
SecondSample(b) ==
  /\ stage[b] = "waiting" /\ Probe[b] \in Rates
  /\ Now >= first[b].at + SampleFor[b]
  /\ says' = [says EXCEPT ![b] = "value"]
  /\ rate' = [rate EXCEPT ![b] = IF Probe[b] = "procfs.diskstats"
                                       THEN DiskRates(first[b].counters, counters)
                                       ELSE NetRates(first[b].counters, counters)]
  /\ Step(b, "done")
  /\ UNCHANGED <<waitsFor, counters, moved, first>>

ProbeInit ==
  /\ waitsFor = [b \in ProbeBindings |-> [is |-> "none", cut |-> FALSE]]
  /\ says = [b \in ProbeBindings |-> "omitted"]
  /\ counters = [d \in host.devices |-> 1]
  /\ moved = 0
  /\ first = [b \in ProbeBindings |-> [counters |-> counters, at |-> 0, moved |-> 0]]
  /\ rate = [b \in ProbeBindings |-> 0]

-----------------------------------------------------------------------------
(* Properties *)

\* What a probe reports as a value was there in full: no command that was killed half way
\* and no document that broke off is taken for an answer.
NoPartialFacts ==
  \A b \in ProbeBindings :
    stage[b] = "done" /\ Probe[b] \notin Rates /\ says[b] = "value" =>
      waitsFor[b].is \notin {"refused", "none", "part"}

\* The I/O reported for an interval was done in that interval: partitions and virtual
\* devices do not count a second time, nor does a disk that was changed meanwhile.  Of
\* interfaces that is only so if none of them is carried by another.
RatesAreReal ==
  \A b \in ProbeBindings :
    LET apart == Probe[b] = "procfs.diskstats"
                 \/ \A d \in DOMAIN first[b].counters : Whole[d] = d
    IN stage[b] = "done" /\ Probe[b] \in Rates /\ says[b] = "value" /\ apart =>
         rate[b] \in 0 .. moved - first[b].moved

=============================================================================
