--------------------------- MODULE ControlChannel ---------------------------
(***************************************************************************)
(* The agent's outbound control channel (package control): the goroutine   *)
(* that dials, advertises and reads request frames, one goroutine per      *)
(* request, the write mutex and the registry of cancel functions they      *)
(* share, and the command each job runs.                                   *)
(*                                                                         *)
(* A session is numbered by the connection it belongs to; the goroutines   *)
(* of an old session may outlive it.  `got` is what ICLIC has received of  *)
(* each request's stream.  A data frame keeps its seq, its payload is left *)
(* out.  The WebSocket library is external: a Write is delivered, refused  *)
(* because its context is done, or takes the connection down with it, and  *)
(* a Write under way blocks for as long as ICLIC does not read.            *)
(*                                                                         *)
(* Operators called a mutant are plausible slips in the definition after   *)
(* them; no action uses them.                                              *)
(***************************************************************************)
EXTENDS ControlConfig

CONSTANTS
  Jobs,            \* goroutines that spawn may start, each used once
  ReqIds,          \* request ids ICLIC chooses from
  Requests,        \* job -> the requests (verb, target, follow argument) it may be spawned for
  InlineVerbs,     \* verbs answered on the read loop: "ping", "unknown"
  ControlFiles,    \* contents the allow-list may have on disk
  LineLimit,       \* maxLines of a line-limited verb
  NoJob, Reader, NoId,
  MaxSessions,     \* bound: connections the agent ever makes
  LineCap          \* bound: lines a command prints, ticks of a metrics job

ASSUME ChannelAssumption ==
  /\ NoJob \notin Jobs /\ Reader \notin Jobs /\ Reader # NoJob
  /\ NoId \notin ReqIds
  /\ \A j \in Jobs : Requests[j] \subseteq [verb : StreamVerbs, target : STRING, follow : BOOLEAN]
  /\ InlineVerbs \subseteq {"ping", "unknown"}
  /\ MaxSessions \in Nat /\ LineCap \in Nat /\ LineLimit \in Nat

VARIABLES
  shutdown,        \* the process context is cancelled
  reader,          \* where RunControlChannel and connectOnce are
  owed,            \* frames the read loop still has to write itself
  gen,             \* number of the latest session
  conn,            \* session -> "none", "open" or "closed"
  disk,            \* the allow-list on disk
  cfg,             \* session -> session.cfg
  streams,         \* session -> session.streams
  writeMu,         \* session -> the holder of session.writeMu
  pc,              \* job -> where its goroutine is
  sess, id, req,   \* job -> its session, request id and request
  cancelled,       \* job -> its own context is cancelled
  expired,         \* job -> the deadline its verb armed has passed
  proc,            \* job -> its command: "none", "running" or "exited"
  seq,             \* job -> next sequence number
  term,            \* job -> the terminal frame it has decided on, if any
  got              \* job -> frames ICLIC received on its stream

loopVars == <<shutdown, reader, owed>>
sessionVars == <<gen, conn, disk, cfg>>
jobIds == <<sess, id, req>>        \* fixed when the job is spawned
jobVars == <<pc, jobIds, cancelled, expired, proc, seq, term, got>>
vars == <<loopVars, sessionVars, streams, writeMu, jobVars>>

Sessions == 1..MaxSessions
NoRequest == [verb |-> "none", target |-> "none", follow |-> FALSE]

ReaderStates == {"dial", "hello", "read", "reply", "replying", "backoff", "stopped"}
JobStates == {"idle", "start", "run", "send", "sending", "end", "ending", "unwind", "done"}

Data(n) == [kind |-> "res", seq |-> n]
Terminal(k) == [kind |-> k, seq |-> 0]     \* an eof or error frame carries no seq
FrameSet == {Data(n) : n \in 0..LineCap} \cup {Terminal(k) : k \in {"eof", "err"}}

Active(j) == pc[j] \notin {"idle", "done"}

\* Mutant of CtxDone: the job keeps the context it was given, without its deadline.
CtxDoneNoDeadline(j) == shutdown \/ cancelled[j]

CtxDone(j) == shutdown \/ cancelled[j] \/ expired[j]
IsMetrics(j) == req[j].verb = "metrics.live"

Init ==
  /\ shutdown = FALSE
  /\ reader = "dial"
  /\ owed = 0
  /\ gen = 0
  /\ conn = [g \in Sessions |-> "none"]
  /\ disk \in ControlFiles
  /\ cfg = [g \in Sessions |-> NoConfig]
  /\ streams = [g \in Sessions |-> [r \in ReqIds |-> NoJob]]
  /\ writeMu = [g \in Sessions |-> NoJob]
  /\ pc = [j \in Jobs |-> "idle"]
  /\ sess = [j \in Jobs |-> 0]
  /\ id = [j \in Jobs |-> NoId]
  /\ req = [j \in Jobs |-> NoRequest]
  /\ cancelled = [j \in Jobs |-> FALSE]
  /\ expired = [j \in Jobs |-> FALSE]
  /\ proc = [j \in Jobs |-> "none"]
  /\ seq = [j \in Jobs |-> 0]
  /\ term = [j \in Jobs |-> "none"]
  /\ got = [j \in Jobs |-> <<>>]

-----------------------------------------------------------------------------
(* The environment *)

\* SIGTERM: the signal context of main is cancelled.
Shutdown ==
  /\ ~shutdown
  /\ shutdown' = TRUE
  /\ UNCHANGED <<reader, owed, sessionVars, streams, writeMu, jobVars>>

\* The network or ICLIC drops the connection.
ConnDrop(g) ==
  /\ conn[g] = "open"
  /\ conn' = [conn EXCEPT ![g] = "closed"]
  /\ UNCHANGED <<loopVars, gen, disk, cfg, streams, writeMu, jobVars>>

\* The operator edits control.yaml or services.d.
EditAllowList ==
  /\ disk' \in ControlFiles \ {disk}
  /\ UNCHANGED <<loopVars, gen, conn, cfg, streams, writeMu, jobVars>>

-----------------------------------------------------------------------------
(* RunControlChannel and connectOnce *)

\* A dial that succeeds: a new session with the allow-list of this moment.
Connect ==
  /\ reader = "dial"
  /\ ~shutdown
  /\ gen < MaxSessions
  /\ gen' = gen + 1
  /\ conn' = [conn EXCEPT ![gen + 1] = "open"]
  /\ cfg' = [cfg EXCEPT ![gen + 1] = LoadControlConfig(disk.file, disk.services)]
  /\ reader' = "hello"
  /\ UNCHANGED <<shutdown, owed, disk, streams, writeMu, jobVars>>

DialFails ==
  /\ reader = "dial"
  /\ reader' = "backoff"
  /\ UNCHANGED <<shutdown, owed, sessionVars, streams, writeMu, jobVars>>

BackoffElapses ==
  /\ reader = "backoff"
  /\ reader' = "dial"
  /\ UNCHANGED <<shutdown, owed, sessionVars, streams, writeMu, jobVars>>

\* The checks of ctx at the top of the loop, after connectOnce and in the backoff.
Stop ==
  /\ reader \in {"dial", "backoff"}
  /\ shutdown
  /\ reader' = "stopped"
  /\ UNCHANGED <<shutdown, owed, sessionVars, streams, writeMu, jobVars>>

HelloSent ==
  /\ reader = "hello"
  /\ conn[gen] = "open"
  /\ reader' = "read"
  /\ UNCHANGED <<shutdown, owed, sessionVars, streams, writeMu, jobVars>>

\* The deferred conn.Close of connectOnce.
LeaveSession(c) == [c EXCEPT ![gen] = "closed"]

\* The write of the hello frame fails.
HelloFails ==
  /\ reader = "hello"
  /\ conn' = LeaveSession(conn)
  /\ reader' = "backoff"
  /\ UNCHANGED <<shutdown, owed, gen, disk, cfg, streams, writeMu, jobVars>>

\* conn.Read fails: the connection is gone, or ctx is done, which closes it.
ReadFails ==
  /\ reader = "read"
  /\ conn[gen] = "closed" \/ shutdown
  /\ conn' = LeaveSession(conn)
  /\ reader' = "backoff"
  /\ UNCHANGED <<shutdown, owed, gen, disk, cfg, streams, writeMu, jobVars>>

-----------------------------------------------------------------------------
(* dispatch and handleReq: one frame from ICLIC *)

Reading == reader = "read" /\ conn[gen] = "open"

\* spawn: register the cancel function, then start the goroutine.  Nothing keeps ICLIC
\* from using an id again, even while a job still runs under it.
ReceiveRequest(j, r, q) ==
  /\ Reading
  /\ pc[j] = "idle"
  /\ streams' = [streams EXCEPT ![gen][r] = j]
  /\ pc' = [pc EXCEPT ![j] = "start"]
  /\ sess' = [sess EXCEPT ![j] = gen]
  /\ id' = [id EXCEPT ![j] = r]
  /\ req' = [req EXCEPT ![j] = q]
  /\ UNCHANGED <<loopVars, sessionVars, writeMu, cancelled, expired, proc, seq, term, got>>

\* Mutant of AfterCancel: the entry is dropped when the cancel arrives.
AfterCancelDropped(r) == [streams EXCEPT ![gen][r] = NoJob]

\* cancelStream only looks the entry up; the job removes it when it returns.
AfterCancel(r) == streams

ReceiveCancel(r) ==
  /\ Reading
  /\ streams[gen][r] # NoJob
  /\ cancelled' = [cancelled EXCEPT ![streams[gen][r]] = TRUE]
  /\ streams' = AfterCancel(r)
  /\ UNCHANGED <<loopVars, sessionVars, writeMu, pc, jobIds, expired, proc,
                 seq, term, got>>

\* A ping is answered with a pong and an eof, an unknown verb with an error.
InlineFrames(v) == IF v = "ping" THEN 2 ELSE 1

ReceiveInline(v) ==
  /\ Reading
  /\ owed' = InlineFrames(v)
  /\ reader' = "reply"
  /\ UNCHANGED <<shutdown, sessionVars, streams, writeMu, jobVars>>

-----------------------------------------------------------------------------
(* session.write *)

\* Mutant of WriterFree: the connection is written without taking writeMu.
WriterFreeAlways(g) == TRUE

WriterFree(g) == writeMu[g] = NoJob

Release(g) == writeMu' = [writeMu EXCEPT ![g] = NoJob]

Delivers(j, frame) ==
  /\ conn[sess[j]] = "open"
  /\ got' = [got EXCEPT ![j] = Append(@, frame)]
  /\ UNCHANGED conn

\* The context was done before the library began to write.
Refuses == UNCHANGED <<got, conn>>

\* The library closes the connection, the frame may have reached ICLIC or not.
Breaks(j, frame) ==
  /\ conn' = [conn EXCEPT ![sess[j]] = "closed"]
  /\ \/ UNCHANGED got
     \/ /\ conn[sess[j]] = "open"
        /\ got' = [got EXCEPT ![j] = Append(@, frame)]

ReplyLock ==
  /\ reader = "reply"
  /\ WriterFree(gen)
  /\ writeMu' = [writeMu EXCEPT ![gen] = Reader]
  /\ reader' = "replying"
  /\ UNCHANGED <<shutdown, owed, sessionVars, streams, jobVars>>

\* The read loop's own write; its error is dropped and the loop goes on.
ReplyWritten ==
  /\ reader = "replying"
  /\ conn' \in {conn, [conn EXCEPT ![gen] = "closed"]}
  /\ Release(gen)
  /\ owed' = owed - 1
  /\ reader' = IF owed = 1 THEN "read" ELSE "reply"
  /\ UNCHANGED <<shutdown, gen, disk, cfg, streams, jobVars>>

-----------------------------------------------------------------------------
(* The jobs *)

\* Mutant of Permission: the job asks the newest allow-list, not its session's.
PermissionNewest(j) == Answer(cfg[gen], req[j])

Permission(j) == Answer(cfg[sess[j]], req[j])

Goto(j, state) == pc' = [pc EXCEPT ![j] = state]

EndWith(j, frame) ==
  /\ Goto(j, "end")
  /\ term' = [term EXCEPT ![j] = frame]

\* An early return of the job: not_permitted, unknown_target or bad_source.
Refuse(j) ==
  /\ pc[j] = "start"
  /\ Permission(j) # "stream"
  /\ EndWith(j, "err")
  /\ UNCHANGED <<loopVars, sessionVars, streams, writeMu, jobIds, cancelled,
                 expired, proc, seq, got>>

Starting(j) == pc[j] = "start" /\ Permission(j) = "stream"

\* exec.Cmd.Start: it fails at once when ctx is done, and for reasons of its own.
Spawn(j) ==
  /\ Starting(j) /\ ~IsMetrics(j)
  /\ ~CtxDone(j)
  /\ proc' = [proc EXCEPT ![j] = "running"]
  /\ Goto(j, "run")
  /\ UNCHANGED <<loopVars, sessionVars, streams, writeMu, jobIds, cancelled,
                 expired, seq, term, got>>

\* The first readCPUSample of metrics.live.
StartMetrics(j) ==
  /\ Starting(j) /\ IsMetrics(j)
  /\ Goto(j, "run")
  /\ UNCHANGED <<loopVars, sessionVars, streams, writeMu, jobIds, cancelled,
                 expired, proc, seq, term, got>>

\* spawn_failed or metrics_unavailable.
StartFails(j) ==
  /\ Starting(j)
  /\ EndWith(j, "err")
  /\ UNCHANGED <<loopVars, sessionVars, streams, writeMu, jobIds, cancelled,
                 expired, proc, seq, got>>

\* The context.WithTimeout of the live verbs.
Expire(j) ==
  /\ pc[j] \in {"run", "send", "sending", "end", "ending"}
  /\ HasDeadline(req[j])
  /\ ~expired[j]
  /\ expired' = [expired EXCEPT ![j] = TRUE]
  /\ UNCHANGED <<loopVars, sessionVars, streams, writeMu, pc, jobIds, cancelled,
                 proc, seq, term, got>>

\* The command exits by itself.
Exit(j) ==
  /\ proc[j] = "running"
  /\ proc' = [proc EXCEPT ![j] = "exited"]
  /\ UNCHANGED <<loopVars, sessionVars, streams, writeMu, pc, jobIds, cancelled,
                 expired, seq, term, got>>

\* Mutant of Killable: the command is tied to the deadline alone.
KillableByDeadline(j) == shutdown \/ expired[j]

Killable(j) == CtxDone(j)

\* exec.CommandContext kills the command once its context is done.
Kill(j) ==
  /\ proc[j] = "running"
  /\ Killable(j)
  /\ proc' = [proc EXCEPT ![j] = "exited"]
  /\ UNCHANGED <<loopVars, sessionVars, streams, writeMu, pc, jobIds, cancelled,
                 expired, seq, term, got>>

InLoop(j) == pc[j] = "run" /\ ~IsMetrics(j)

LimitReached(j) == LineLimited(req[j]) /\ seq[j] >= LineLimit

\* The scanner returns a line, of a running command or left behind by it.
ScanLine(j) ==
  /\ InLoop(j)
  /\ seq[j] < LineCap
  /\ \/ ~LimitReached(j) /\ Goto(j, "send") /\ UNCHANGED term
     \/ LimitReached(j) /\ EndWith(j, "eof")
  /\ UNCHANGED <<loopVars, sessionVars, streams, writeMu, jobIds, cancelled,
                 expired, proc, seq, got>>

\* The command has been waited for and its pipe is drained.
ScanEof(j) ==
  /\ InLoop(j)
  /\ proc[j] = "exited"
  /\ EndWith(j, "eof")
  /\ UNCHANGED <<loopVars, sessionVars, streams, writeMu, jobIds, cancelled,
                 expired, proc, seq, got>>

\* A line longer than lineBufferBytes stops the scanner; the command may live on.
ScanTooLong(j) ==
  /\ InLoop(j)
  /\ proc[j] = "running"
  /\ EndWith(j, "eof")
  /\ UNCHANGED <<loopVars, sessionVars, streams, writeMu, jobIds, cancelled,
                 expired, proc, seq, got>>

\* metricsLiveJob's select: the ticker may win even when ctx is done.
Tick(j) ==
  /\ pc[j] = "run" /\ IsMetrics(j)
  /\ seq[j] < LineCap
  /\ Goto(j, "send")
  /\ UNCHANGED <<loopVars, sessionVars, streams, writeMu, jobIds, cancelled,
                 expired, proc, seq, term, got>>

MetricsDone(j) ==
  /\ pc[j] = "run" /\ IsMetrics(j)
  /\ CtxDone(j)
  /\ EndWith(j, "eof")
  /\ UNCHANGED <<loopVars, sessionVars, streams, writeMu, jobIds, cancelled,
                 expired, proc, seq, got>>

Lock(j) ==
  /\ pc[j] \in {"send", "end"}
  /\ WriterFree(sess[j])
  /\ writeMu' = [writeMu EXCEPT ![sess[j]] = j]
  /\ Goto(j, IF pc[j] = "send" THEN "sending" ELSE "ending")
  /\ UNCHANGED <<loopVars, sessionVars, streams, jobIds, cancelled, expired,
                 proc, seq, term, got>>

\* Mutant of NextSeq: the sequence number is not advanced.
NextSeqStuck(n) == n

NextSeq(n) == n + 1

SendOk(j) ==
  /\ pc[j] = "sending"
  /\ Delivers(j, Data(seq[j]))
  /\ seq' = [seq EXCEPT ![j] = NextSeq(@)]
  /\ Goto(j, "run")
  /\ Release(sess[j])
  /\ UNCHANGED <<loopVars, gen, disk, cfg, streams, jobIds, cancelled, expired,
                 proc, term>>

\* A command's loop breaks and goes on to its eof, metricsLiveJob just returns.
SendFails(j) ==
  /\ pc[j] = "sending"
  /\ \/ CtxDone(j) /\ Refuses
     \/ Breaks(j, Data(seq[j]))
  /\ \/ ~IsMetrics(j) /\ EndWith(j, "eof")
     \/ IsMetrics(j) /\ Goto(j, "unwind") /\ UNCHANGED term
  /\ Release(sess[j])
  /\ UNCHANGED <<loopVars, gen, disk, cfg, streams, jobIds, cancelled, expired,
                 proc, seq>>

\* Mutant of AfterTerminal: the loop is not left once the terminal frame is out.
AfterTerminalLoop(j) == IF IsMetrics(j) THEN "run" ELSE "unwind"

AfterTerminal(j) == "unwind"

\* bestEffort: its own five seconds, and its result is dropped.
TerminalWritten(j) ==
  /\ pc[j] = "ending"
  /\ \/ Delivers(j, Terminal(term[j]))
     \/ Refuses
     \/ Breaks(j, Terminal(term[j]))
  /\ Goto(j, AfterTerminal(j))
  /\ Release(sess[j])
  /\ UNCHANGED <<loopVars, gen, disk, cfg, streams, jobIds, cancelled, expired,
                 proc, seq, term>>

\* Mutant of Unregistered: the finished job stays in the registry.
UnregisteredNever(j) == streams

Unregistered(j) == [streams EXCEPT ![sess[j]][id[j]] = NoJob]

\* Mutant of CancelOnReturn: the deferred cancel is missing.
CancelOnReturnNever(j) == cancelled

CancelOnReturn(j) == [cancelled EXCEPT ![j] = TRUE]

\* The deferred cancel and removeStream of the goroutine.
Return(j) ==
  /\ pc[j] = "unwind"
  /\ cancelled' = CancelOnReturn(j)
  /\ streams' = Unregistered(j)
  /\ Goto(j, "done")
  /\ UNCHANGED <<loopVars, sessionVars, writeMu, jobIds, expired, proc, seq,
                 term, got>>

-----------------------------------------------------------------------------

Environment ==
  \/ Shutdown
  \/ \E g \in Sessions : ConnDrop(g)
  \/ EditAllowList

ReadLoop ==
  \/ Connect \/ DialFails \/ BackoffElapses \/ Stop
  \/ HelloSent \/ HelloFails \/ ReadFails
  \/ \E j \in Jobs, r \in ReqIds : \E q \in Requests[j] : ReceiveRequest(j, r, q)
  \/ \E r \in ReqIds : ReceiveCancel(r)
  \/ \E v \in InlineVerbs : ReceiveInline(v)
  \/ ReplyLock \/ ReplyWritten

Job(j) ==
  \/ Refuse(j) \/ Spawn(j) \/ StartMetrics(j) \/ StartFails(j) \/ Expire(j)
  \/ Exit(j) \/ Kill(j)
  \/ ScanLine(j) \/ ScanEof(j) \/ ScanTooLong(j) \/ Tick(j) \/ MetricsDone(j)
  \/ Lock(j) \/ SendOk(j) \/ SendFails(j) \/ TerminalWritten(j) \/ Return(j)

\* The process is about to end and nothing is left to do.
Terminated ==
  /\ reader = "stopped"
  /\ \A j \in Jobs : ~Active(j) /\ proc[j] # "running"
  /\ UNCHANGED vars

Next == Environment \/ ReadLoop \/ (\E j \in Jobs : Job(j)) \/ Terminated

Spec == Init /\ [][Next]_vars

-----------------------------------------------------------------------------
(* Fairness: goroutines are scheduled, a mutex is handed on to its waiters, *)
(* timers fire and a kill arrives.  Nothing makes ICLIC send or read, nor a *)
(* command print or exit, and a Write whose context is not done may block  *)
(* for as long as the connection is up.                                    *)

WriteEnds(j) ==
  /\ pc[j] = "sending"
  /\ conn[sess[j]] = "closed" \/ CtxDone(j)
  /\ SendOk(j) \/ SendFails(j)

ReplyEnds ==
  /\ reader = "replying"
  /\ conn[gen] = "closed" \/ shutdown
  /\ ReplyWritten

JobFairness(j) ==
  /\ WF_vars(Refuse(j) \/ Spawn(j) \/ StartMetrics(j) \/ StartFails(j))
  /\ WF_vars(Expire(j))
  /\ WF_vars(Kill(j))
  /\ WF_vars(~RunsShell(req[j]) /\ ScanEof(j))   \* a shell's children keep the pipe open
  /\ WF_vars(MetricsDone(j))
  /\ SF_vars(Lock(j))
  /\ WF_vars(WriteEnds(j))
  /\ WF_vars(TerminalWritten(j))
  /\ WF_vars(Return(j))

ReadLoopFairness ==
  /\ WF_vars(Connect \/ DialFails)
  /\ WF_vars(BackoffElapses)
  /\ WF_vars(Stop)
  /\ WF_vars(ReadFails)
  /\ SF_vars(ReplyLock)
  /\ WF_vars(ReplyEnds)

Fairness == ReadLoopFairness /\ \A j \in Jobs : JobFairness(j)

FairSpec == Spec /\ Fairness

\* ICLIC keeps reading: every Write ends, delivered or not.
IclicReads == WF_vars(ReplyWritten) /\ \A j \in Jobs : WF_vars(SendOk(j) \/ SendFails(j))

-----------------------------------------------------------------------------
(* Properties *)

TypeOK ==
  /\ shutdown \in BOOLEAN
  /\ reader \in ReaderStates
  /\ owed \in 0..2
  /\ gen \in 0..MaxSessions
  /\ conn \in [Sessions -> {"none", "open", "closed"}]
  /\ disk \in ControlFiles
  /\ DOMAIN cfg = Sessions
  /\ streams \in [Sessions -> [ReqIds -> Jobs \cup {NoJob}]]
  /\ writeMu \in [Sessions -> Jobs \cup {NoJob, Reader}]
  /\ pc \in [Jobs -> JobStates]
  /\ sess \in [Jobs -> 0..MaxSessions]
  /\ id \in [Jobs -> ReqIds \cup {NoId}]
  /\ DOMAIN req = Jobs
  /\ \A j \in Jobs : req[j] \in Requests[j] \cup {NoRequest}
  /\ cancelled \in [Jobs -> BOOLEAN]
  /\ expired \in [Jobs -> BOOLEAN]
  /\ proc \in [Jobs -> {"none", "running", "exited"}]
  /\ seq \in [Jobs -> 0..LineCap]
  /\ term \in [Jobs -> {"none", "eof", "err"}]
  /\ got \in [Jobs -> Seq(FrameSet)]

\* The WebSocket allows one writer at a time (session.writeMu): whoever is in a
\* conn.Write of a session, job or read loop, is the one holder of its mutex.
OneWriter ==
  /\ \A j \in Jobs : pc[j] \in {"sending", "ending"} => writeMu[sess[j]] = j
  /\ reader = "replying" => writeMu[gen] = Reader

\* What ICLIC receives of one request: data frames numbered from 0 without a gap
\* or a repetition, then at most one eof or error frame, then nothing, although
\* the job may have broken off at any write (streamCommand, metricsLiveJob).
StreamShape ==
  \A j \in Jobs : \A i \in DOMAIN got[j] :
    \/ got[j][i] = Data(i - 1)
    \/ i = Len(got[j]) /\ got[j][i].kind # "res"

\* The agent is the authority: a command runs, or data leaves the host, only for
\* a verb that the request's own session advertised, however the allow-list has
\* been edited and the channel reconnected since.
ServedWithinOptIn ==
  \A j \in Jobs :
    proc[j] # "none" \/ seq[j] > 0 =>
      /\ req[j].verb \in Advertised(cfg[sess[j]])
      /\ req[j].verb = "logs.tail" => req[j].target \in SourceNames(cfg[sess[j]])

\* Sessions never touch each other.  The only connection that may be open is that of the
\* newest session, while its read loop is serving it (connectOnce closes it on its way out);
\* and an entry of session.streams is a goroutine of that very session that has not returned,
\* so a cancel frame can reach no other session and no dead job.
SessionsApart ==
  /\ \A g \in Sessions :
       conn[g] = "open" => g = gen /\ reader \in {"hello", "read", "reply", "replying"}
  /\ \A g \in Sessions, r \in ReqIds :
       streams[g][r] # NoJob =>
         LET j == streams[g][r] IN sess[j] = g /\ id[j] = r /\ Active(j)

\* Every job that still has something to do is registered under its id, so that a
\* cancel frame can stop it (the comment of spawn), unless ICLIC has used that id
\* for another request of the session: the other job then takes the entry over,
\* and whichever returns first removes it.
Registered ==
  \A j \in Jobs :
    /\ pc[j] \notin {"idle", "unwind", "done"}
    /\ \A k \in Jobs \ {j} : <<sess[k], id[k]>> # <<sess[j], id[j]>>
    => streams[sess[j]][id[j]] = j

\* A snapshot whose output is cut sends no more than its maxLines (streamCommand's cap), and
\* a command that is still running when its job has returned has had its context cancelled
\* (the deferred cancel of spawn).
CutIsClean ==
  \A j \in Jobs :
    /\ LineLimited(req[j]) =>
         Cardinality({i \in DOMAIN got[j] : got[j][i].kind = "res"}) <= LineLimit
    /\ pc[j] = "done" /\ proc[j] = "running" => cancelled[j]

\* The frames of every request form a stream as RequestStream specifies it: each
\* step of the channel is a step of at most one stream, or of none.
Stream == INSTANCE RequestStream WITH Streams <- Jobs, frames <- got

ImplementsRequestStream == Stream!Spec

\* A job waits for the mutex behind a Write that has no deadline of its own.
HeldUp(j) ==
  /\ pc[j] \in {"send", "end"}
  /\ \/ writeMu[sess[j]] = Reader
     \/ \E k \in Jobs : writeMu[sess[j]] = k /\ ~HasDeadline(req[k])

\* A live stream ends by itself, its command killed and its goroutine gone, even
\* if ICLIC neither cancels it nor reads another byte (the ceilings of logs.tail
\* with follow, proc.top.live and metrics.live).
DeadlineStops ==
  \A j \in Jobs :
    []<>~HeldUp(j) =>
      (pc[j] = "run" /\ HasDeadline(req[j])) ~> (pc[j] = "done" /\ proc[j] # "running")

\* A cancelled job comes to its end while ICLIC keeps reading, whatever the other
\* jobs and the read loop write meanwhile (cancelStream, streamCommand).
CancelStops ==
  IclicReads =>
    \A j \in Jobs : cancelled[j] /\ ~RunsShell(req[j]) ~> (pc[j] = "done" /\ proc[j] # "running")

\* The command of a job is killed once its socket is closed (the comment of
\* streamCommand: "cancel frame, the follow timeout, or socket close").
SocketCloseStops ==
  \A j \in Jobs : (proc[j] = "running" /\ conn[sess[j]] = "closed") ~> (proc[j] # "running")
=============================================================================
