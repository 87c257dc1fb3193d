--------------------------------- MODULE MCAgent ---------------------------------
(* The hosts on which TLC looks at Agent: each has what one question needs. *)
EXTENDS Agent, SequencesExt

MCSnapshot == {"snap", "snap_long"}
MCCpu == {"cpu", "cpu_again"}
MCDocker == {"services", "stats", "containers"}
MCSampling == {"procfs.diskstats", "diskstats_long", "procfs.netdev"}
MCProbes == Asking \cup MCSampling
MCBindings == MCSnapshot \cup MCCpu \cup MCDocker \cup MCProbes

MCWindow == [snap |-> 3, snap_long |-> 5]
MCFromFile == [snap |-> {"nginx"}, snap_long |-> {}]
MCKind == [b \in MCDocker |-> b]
MCSocket == [b \in MCDocker |-> "docker.sock"]
MCProbe == [b \in MCProbes |-> IF b = "diskstats_long" THEN "procfs.diskstats" ELSE b]
MCSampleFor == [b \in MCProbes |-> IF b = "diskstats_long" THEN 1 ELSE 0]

\* A disk with a partition, a disk whose name the first one's begins, and a mapping.
MCDevices == {"sda", "sda1", "sdaa", "dm-0"}
MCWhole == [d \in MCDevices |-> IF d = "sda1" THEN "sda" ELSE d]
MCPrefixOf == {<<d, d>> : d \in MCDevices} \cup {<<"sda", "sda1">>, <<"sda", "sdaa">>}

Plain ==
  [bound |-> {}, argv |-> {}, release |-> [sums |-> "signed", sig |-> "whole"], env |-> "none",
   files |-> {"whole"}, beats |-> 1, lock |-> "service", events |-> {}, live |-> {},
   takesBack |-> FALSE,
   sources |-> [s \in Sections |-> "busy"], services |-> [i \in {} |-> {}],
   devices |-> {}, log |-> [lines |-> <<>>, since |-> 0, cap |-> 0]]

Bound(bs) == [Plain EXCEPT !.bound = bs]

\* Starts by hand beside the unit's, on every lock file.
StartHosts ==
  {[Plain EXCEPT !.argv = {"none", "version", "unknown"}, !.lock = l,
                 !.events = {"kill", "stop"}] : l \in LockFiles}
  \cup {[Plain EXCEPT !.argv = {"none"}, !.env = e, !.files = ConfigFiles, !.events = {"kill"}] :
          e \in {"rest", "all", "bad"}}
  \cup {[Plain EXCEPT !.argv = {"verify-release"}, !.release = r] : r \in Releases}

SnapshotHosts ==
  {[Bound({"snap"}) EXCEPT !.sources = s, !.beats = 4, !.events = {"kill", "stop"}] :
     s \in {[x \in Sections |-> "busy"], [x \in Sections |-> IF x = "waf" THEN "busy" ELSE "down"],
            [x \in Sections |-> IF x \in {"waf", "nginx"} THEN "quiet" ELSE "busy"]}}
  \cup {[Bound({"snap_long"}) EXCEPT !.beats = 4],
        [Bound({"snap", "snap_long"}) EXCEPT !.beats = 3]}

CpuHosts ==
  {[Bound({"cpu"}) EXCEPT !.beats = 2, !.takesBack = TRUE],
   [Bound({"cpu"}) EXCEPT !.beats = 2, !.live = {"live"}],
   [Bound({"cpu", "cpu_again"}) EXCEPT !.beats = 2, !.takesBack = TRUE]}

Service(container, info, named) ==
  [container |-> container, info |-> info, named |-> named, exec |-> container /\ ~info]

DockerHosts ==
  {[Bound({"services"}) EXCEPT !.services = defs] :
     defs \in {[i \in {"a", "b"} |-> Service(TRUE, TRUE, TRUE)],
               [i \in {"a", "b"} |-> Service(TRUE, FALSE, TRUE)],
               [i \in {"a", "b"} |-> Service(FALSE, FALSE, i = "a")],
               [i \in {"a"} |-> Service(FALSE, TRUE, TRUE)]}}
  \cup {[Bound({"stats"}) EXCEPT !.beats = 2, !.events = {"kill"}],
        Bound({"containers"}), Bound({"stats", "containers"})}

ProbeHosts ==
  {[Bound({p}) EXCEPT !.devices = d] :
     p \in MCSampling, d \in {MCDevices, MCDevices \ {"sda", "sda1"}}}
  \cup {Bound({p}) : p \in Asking}

\* Log files of up to three lines, the newest last.
MCLogs ==
  {log \in BoundedSeq([at : {NoTime, 1, 2, 3}, ip : {"a"}, counts : BOOLEAN], 3) :
     \A i, j \in DOMAIN log : i < j /\ log[j].at # NoTime => log[i].at <= log[j].at}

LogHosts ==
  {[Plain EXCEPT !.files = {"garbled"}, !.log = [lines |-> l, since |-> 2, cap |-> c]] :
     l \in MCLogs, c \in {2, 3, 4, 6}}

MCHosts ==
  LogHosts \cup StartHosts \cup SnapshotHosts \cup CpuHosts \cup DockerHosts \cup ProbeHosts

=============================================================================
