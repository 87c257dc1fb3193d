--------------------------- MODULE SecuritySnapshot ---------------------------
(***************************************************************************)
(* The security.snapshot primitive: five sources scanned one after the     *)
(* other, at most once per window, into a cache that all the bindings of   *)
(* the process share and that is locked for the look and for the store,    *)
(* but not for the scan between them.                                      *)
(*                                                                         *)
(* Of a scan, a section is there or it is not; how a log file is counted   *)
(* for one is in SecurityLog.                                              *)
(* A source is "down" (no container, no file, no privilege), "quiet" (it   *)
(* is there and has written nothing in the window) or "busy".              *)
(*                                                                         *)
(* Operators called a mutant are plausible slips in the definition after   *)
(* them; no action uses them.                                              *)
(***************************************************************************)
EXTENDS Beat, SecurityLog

CONSTANTS
  SnapshotBindings,  \* the bindings of security.snapshot
  Window,            \* the window_seconds of each
  FromFile           \* the sections each reads from a host file: waf_log, nginx_log

ASSUME SnapshotAssumption ==
  /\ SnapshotBindings \subseteq Bindings
  /\ Window \in [SnapshotBindings -> Nat \ {0}]
  /\ FromFile \in [SnapshotBindings -> SUBSET {"waf", "nginx"}]

VARIABLES
  cacheAt,    \* secCacheAt: the time of the last scan, or Never
  cache,      \* secCache: the snapshot, or Nothing
  scan        \* per binding, its locals: [now, has, shown]

snapshotVars == <<cacheAt, cache, scan>>

Sections == {"waf", "nginx", "bans", "drops", "active"}
Never == -1
Nothing == [at |-> Never, sections |-> {}]

\* The order of the scan.
Following == [waf |-> "nginx", nginx |-> "bans", bans |-> "drops", drops |-> "active",
              active |-> "store"]

\* The sources read from a file, without a look at the context.
Direct(b, s) == s = "bans" \/ s \in FromFile[b]

\* dockerLogLines: nothing on any error, and nothing of a log that is empty.
DockerLog(s) == ~Late /\ host.sources[s] = "busy"

\* A log file that can be opened gives a count, even of nothing.
LogFile(s) == host.sources[s] # "down"
BanFile(s) == host.sources[s] # "down"

\* iptables, run under the context.
FirewallDrops(s) == ~Late /\ host.sources[s] # "down"
FirewallActive(s) == ~Late /\ host.sources[s] # "down"

\* The sections for which iptables is run.
ByCommand == {"drops", "active"}

\* What the scan finds at a source.
Yields(b, s) ==
  CASE s \in FromFile[b] -> LogFile(s)
    [] s = "bans"        -> BanFile(s)
    [] s = "drops"       -> FirewallDrops(s)
    [] s = "active"      -> FirewallActive(s)
    [] OTHER             -> DockerLog(s)

\* time.Now(), before the mutex.
CallSnapshot(b) ==
  /\ stage[b] = "called"
  /\ scan' = [scan EXCEPT ![b] = [now |-> Now, has |-> {}, shown |-> Nothing]]
  /\ Step(b, "check")
  /\ UNCHANGED <<cacheAt, cache>>

Fresh(b) == cacheAt # Never /\ scan[b].now - cacheAt < Window[b]

CheckCache(b) ==
  /\ stage[b] = "check"
  /\ IF Fresh(b) THEN scan' = [scan EXCEPT ![b].shown = cache] /\ Step(b, "done")
                 ELSE Step(b, "waf") /\ UNCHANGED scan
  /\ UNCHANGED <<cacheAt, cache>>

\* What is not read from a file may fail at any time, its own timeout included.
ScanSection(b) ==
  /\ stage[b] \in Sections
  /\ \E fails \in {FALSE, ~Direct(b, stage[b])} :
       scan' = [scan EXCEPT ![b].has = @ \cup {s \in {stage[b]} : Yields(b, s) /\ ~fails}]
  /\ Step(b, Following[stage[b]])
  /\ UNCHANGED <<cacheAt, cache>>

Found(b) ==
  IF scan[b].has = {} THEN Nothing ELSE [at |-> scan[b].now, sections |-> scan[b].has]

\* Mutants of Store: an empty scan is not remembered; the time of the store for the scan's.
StoreFound(b) ==
  /\ stage[b] = "store"
  /\ cacheAt' = IF scan[b].has = {} THEN cacheAt ELSE scan[b].now
  /\ cache' = Found(b)
  /\ scan' = [scan EXCEPT ![b].shown = Found(b)]
  /\ Step(b, "done")
StoreNow(b) ==
  /\ stage[b] = "store"
  /\ cacheAt' = Now
  /\ cache' = Found(b)
  /\ scan' = [scan EXCEPT ![b].shown = Found(b)]
  /\ Step(b, "done")

\* The attempt is cached either way, under the mutex, and what was cached is returned.
Store(b) ==
  /\ stage[b] = "store"
  /\ cacheAt' = scan[b].now
  /\ cache' = Found(b)
  /\ scan' = [scan EXCEPT ![b].shown = Found(b)]
  /\ Step(b, "done")

SnapshotStep(b) == CallSnapshot(b) \/ CheckCache(b) \/ ScanSection(b) \/ Store(b)

SnapshotInit ==
  /\ cacheAt = Never /\ cache = Nothing
  /\ scan = [b \in SnapshotBindings |-> [now |-> 0, has |-> {}, shown |-> Nothing]]

-----------------------------------------------------------------------------
(* Properties *)

\* A snapshot that a beat carries was collected less than a window before that beat asked
\* for it, whichever binding collected it and however their scans overlapped.
NeverOutOfDate ==
  \A b \in SnapshotBindings :
    stage[b] = "done" /\ scan[b].shown # Nothing =>
      scan[b].now - scan[b].shown.at < Window[b]

\* With one binding, the windows of successive scans follow one another: they never
\* overlap ("at most once per window_seconds"), whether or not the last one found
\* anything, and what falls between two of them is shorter than a beat and a deadline.
WindowsTile ==
  [][\A b \in SnapshotBindings :
       LET alone == host.bound \cap SnapshotBindings = {b}
           stores == stage[b] = "store" /\ stage'[b] = "done"
           between == (cacheAt' - Window[b]) - cacheAt
       IN alone /\ stores /\ cacheAt # Never =>
            0 <= between /\ between < Period + Cap]_<<cacheAt, cache, scan, stage>>

\* A source that is a readable file is in the snapshot however much of the deadline the
\* containers and iptables took: only those may go missing, and for the whole window.
FilesAreNeverSkipped ==
  \A b \in SnapshotBindings :
    stage[b] = "store" =>
      {s \in Sections : Direct(b, s) /\ host.sources[s] # "down"} \subseteq scan[b].has

\* The events of a window that a log file holds are all counted, and no older ones, however
\* long the file has grown, as long as what was written since the window began fits under
\* the cap on what is read.
\* Of the ban log that is only so while the whole file does, and a ban in the very second in
\* which the window begins is not counted there.
WindowIsCounted ==
  LET log == host.log.lines
      since == host.log.since
      cap == host.log.cap
      inside(l) == l.at # NoTime /\ l.at >= since
      events == {i \in DOMAIN log : inside(log[i]) /\ log[i].counts}
      bans == Bans(log, since, cap, 1)
  IN /\ (\A i \in DOMAIN log : inside(log[i]) => 2 * (Len(log) - i + 1) <= cap) =>
           CountFile(log, since, cap) = Cardinality(events)
     /\ 2 * Len(log) <= cap =>
           /\ (\A i \in DOMAIN log : log[i].at # since) => bans.window = Cardinality(events)
           /\ {l.ip : l \in bans.recent} \subseteq bans.total

=============================================================================
