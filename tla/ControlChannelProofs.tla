------------------------ MODULE ControlChannelProofs ------------------------
(***************************************************************************)
(* Theorems about ControlChannel for every set of jobs, ids and requests   *)
(* and every bound.                                                        *)
(***************************************************************************)
EXTENDS ControlChannel, FiniteSetTheorems, TLAPS

-----------------------------------------------------------------------------
(* Type correctness *)

\* What the types rest on: the read loop is in a session while it reads or
\* replies, a spawned job has a session and an id, there is room for the frame
\* about to be sent, and a job that ends has decided how.
Places ==
  /\ reader \in {"hello", "read", "reply", "replying"} => gen >= 1
  /\ reader \in {"reply", "replying"} => owed >= 1
  /\ \A j \in Jobs :
       /\ pc[j] = "idle" => sess[j] = 0 /\ seq[j] = 0 /\ got[j] = <<>>
       /\ pc[j] # "idle" => sess[j] \in 1..gen /\ id[j] \in ReqIds /\ req[j] \in Requests[j]
       /\ pc[j] \in {"send", "sending"} => seq[j] < LineCap
       /\ pc[j] \in {"end", "ending"} => term[j] # "none"

TypeInv == TypeOK /\ Places

\* The bounds are natural numbers.
LEMMA BoundTypes == MaxSessions \in Nat /\ LineCap \in Nat
BY ChannelAssumption

\* The reader, the jobs and nobody are different owners of a lock.
LEMMA NamesDiffer == NoJob \notin Jobs /\ Reader \notin Jobs /\ Reader # NoJob
BY ChannelAssumption

\* What the handlers send are frames.
LEMMA FrameTypes ==
  /\ \A n \in 0..LineCap : Data(n) \in FrameSet
  /\ \A k \in {"eof", "err"} : Terminal(k) \in FrameSet
BY DEF FrameSet

\* Type correctness holds at first.
LEMMA InitTypeInv == Init => TypeInv
<1> SUFFICES ASSUME Init PROVE TypeInv
  OBVIOUS
<1>1. Places
  BY DEF Init, Places
<1>2. conn \in [Sessions -> {"none", "open", "closed"}]
  BY DEF Init
<1>3. streams \in [Sessions -> [ReqIds -> Jobs \cup {NoJob}]]
  BY DEF Init
<1>4. DOMAIN req = Jobs /\ \A j \in Jobs : req[j] \in Requests[j] \cup {NoRequest}
  BY DEF Init
<1>5. got \in [Jobs -> Seq(FrameSet)]
  BY DEF Init
<1>6. DOMAIN cfg = Sessions /\ disk \in ControlFiles
  BY DEF Init
<1>7. /\ sess \in [Jobs -> 0..MaxSessions]
      /\ seq \in [Jobs -> 0..LineCap]
      /\ gen \in 0..MaxSessions
      /\ owed \in 0..2
  BY BoundTypes DEF Init
<1>8. /\ writeMu \in [Sessions -> Jobs \cup {NoJob, Reader}]
      /\ id \in [Jobs -> ReqIds \cup {NoId}]
      /\ pc \in [Jobs -> JobStates]
  BY DEF Init, JobStates
<1>9. /\ shutdown \in BOOLEAN
      /\ reader \in ReaderStates
      /\ cancelled \in [Jobs -> BOOLEAN]
      /\ expired \in [Jobs -> BOOLEAN]
      /\ proc \in [Jobs -> {"none", "running", "exited"}]
      /\ term \in [Jobs -> {"none", "eof", "err"}]
  BY DEF Init, ReaderStates
<1>10. TypeOK
  BY <1>2, <1>3, <1>4, <1>5, <1>6, <1>7, <1>8, <1>9 DEF TypeOK
<1> QED
  BY <1>1, <1>10 DEF TypeInv

\* However a Write ends, it is one frame more on one stream at the most.
LEMMA WriteTypes ==
  ASSUME got \in [Jobs -> Seq(FrameSet)], conn \in [Sessions -> {"none", "open", "closed"}],
         NEW j \in Jobs, NEW frame \in FrameSet,
         Delivers(j, frame) \/ Refuses \/ Breaks(j, frame)
  PROVE  /\ got' \in [Jobs -> Seq(FrameSet)]
         /\ conn' \in [Sessions -> {"none", "open", "closed"}]
         /\ \A k \in Jobs : k # j => got'[k] = got[k]
<1>1. CASE Delivers(j, frame)
  BY <1>1 DEF Delivers
<1>2. CASE Refuses
  BY <1>2 DEF Refuses
<1>3. CASE Breaks(j, frame)
  <2>1. conn' = [conn EXCEPT ![sess[j]] = "closed"]
    BY <1>3 DEF Breaks
  <2>2. got' = got \/ got' = [got EXCEPT ![j] = Append(got[j], frame)]
    BY <1>3 DEF Breaks
  <2>3. conn' \in [Sessions -> {"none", "open", "closed"}]
    BY <2>1
  <2>4. CASE got' = got
    BY <2>3, <2>4
  <2>5. CASE got' = [got EXCEPT ![j] = Append(got[j], frame)]
    BY <2>3, <2>5
  <2> QED
    BY <2>2, <2>4, <2>5
<1> QED
  BY <1>1, <1>2, <1>3

\* Every action keeps the types; one step for each action.
LEMMA StepTypeInv == TypeInv /\ [Next]_vars => TypeInv'
<1> SUFFICES ASSUME TypeInv, [Next]_vars PROVE TypeInv'
  OBVIOUS
<1> USE BoundTypes, NamesDiffer DEF TypeInv, TypeOK, Places, loopVars, sessionVars, jobVars, jobIds
<1>1. CASE Shutdown
  BY <1>1 DEF Shutdown, ReaderStates
<1>2. CASE EditAllowList
  BY <1>2 DEF EditAllowList, ReaderStates
<1>3. CASE Connect
  <2>1. gen + 1 \in Sessions /\ gen' = gen + 1
    BY <1>3 DEF Connect, Sessions
  <2>2. conn' \in [Sessions -> {"none", "open", "closed"}]
    BY <1>3, <2>1 DEF Connect
  <2>3. DOMAIN cfg' = Sessions
    BY <1>3 DEF Connect
  <2>4. gen' \in 0..MaxSessions /\ reader' \in ReaderStates
    BY <1>3, <2>1 DEF Connect, Sessions, ReaderStates
  <2>5. UNCHANGED <<shutdown, owed, disk, streams, writeMu, jobVars>>
    BY <1>3 DEF Connect
  <2>6. TypeOK'
    BY <2>2, <2>3, <2>4, <2>5
  <2>7. Places'
    BY <1>3, <2>1, <2>5 DEF Connect
  <2> QED
    BY <2>6, <2>7
<1>4. CASE DialFails
  BY <1>4 DEF DialFails, ReaderStates
<1>5. CASE BackoffElapses
  BY <1>5 DEF BackoffElapses, ReaderStates
<1>6. CASE Stop
  BY <1>6 DEF Stop, ReaderStates
<1>7. CASE HelloSent
  BY <1>7 DEF HelloSent, ReaderStates
<1>8. CASE HelloFails
  BY <1>8 DEF HelloFails, ReaderStates, LeaveSession
<1>9. CASE ReadFails
  BY <1>9 DEF ReadFails, ReaderStates, LeaveSession
<1>10. CASE ReplyLock
  BY <1>10 DEF ReplyLock, ReaderStates, WriterFree
<1>11. CASE ReplyWritten
  <2>1. conn' \in [Sessions -> {"none", "open", "closed"}]
    BY <1>11 DEF ReplyWritten
  <2>2. writeMu' \in [Sessions -> Jobs \cup {NoJob, Reader}]
    BY <1>11 DEF ReplyWritten, Release
  <2>3. owed' = owed - 1 /\ owed \in 1..2 /\ reader' = IF owed = 1 THEN "read" ELSE "reply"
    BY <1>11 DEF ReplyWritten
  <2>4. UNCHANGED <<shutdown, gen, disk, cfg, streams, jobVars>>
    BY <1>11 DEF ReplyWritten
  <2>5. TypeOK'
    BY <2>1, <2>2, <2>3, <2>4 DEF ReaderStates
  <2>6. Places'
    BY <1>11, <2>3, <2>4 DEF ReplyWritten
  <2> QED
    BY <2>5, <2>6
<1>12. CASE \E g \in Sessions : ConnDrop(g)
  BY <1>12 DEF ConnDrop
<1>13. CASE \E j \in Jobs, r \in ReqIds : \E q \in Requests[j] : ReceiveRequest(j, r, q)
  <2>0. PICK j \in Jobs, r \in ReqIds : \E q \in Requests[j] : ReceiveRequest(j, r, q)
    BY <1>13
  <2>1. PICK q \in Requests[j] : ReceiveRequest(j, r, q)
    BY <2>0
  <2>2. gen \in Sessions /\ gen \in 1..gen
    BY <2>1 DEF ReceiveRequest, Reading, Sessions
  <2>3. streams' \in [Sessions -> [ReqIds -> Jobs \cup {NoJob}]]
    BY <2>1, <2>2 DEF ReceiveRequest
  <2>4. /\ pc' = [pc EXCEPT ![j] = "start"]
        /\ sess' = [sess EXCEPT ![j] = gen]
        /\ id' = [id EXCEPT ![j] = r]
        /\ req' = [req EXCEPT ![j] = q]
    BY <2>1 DEF ReceiveRequest
  <2>5. UNCHANGED <<loopVars, sessionVars, writeMu, cancelled, expired, proc, seq, term, got>>
    BY <2>1 DEF ReceiveRequest
  <2>6. TypeOK'
    BY <2>2, <2>3, <2>4, <2>5 DEF JobStates, Sessions
  <2>7. Places'
    BY <2>2, <2>4, <2>5
  <2> QED
    BY <2>6, <2>7
<1>14. CASE \E r \in ReqIds : ReceiveCancel(r)
  BY <1>14 DEF ReceiveCancel, Reading, AfterCancel, Sessions
<1>15. CASE \E v \in InlineVerbs : ReceiveInline(v)
  BY <1>15 DEF ReceiveInline, InlineFrames, ReaderStates, Reading
<1>16. CASE \E j \in Jobs : Refuse(j)
  BY <1>16, FrameTypes DEF Refuse, JobStates, EndWith, Goto
<1>17. CASE \E j \in Jobs : Spawn(j)
  BY <1>17, FrameTypes DEF Spawn, JobStates, Goto, Starting
<1>18. CASE \E j \in Jobs : StartMetrics(j)
  BY <1>18, FrameTypes DEF StartMetrics, JobStates, Goto, Starting
<1>19. CASE \E j \in Jobs : StartFails(j)
  BY <1>19, FrameTypes DEF StartFails, JobStates, EndWith, Goto, Starting
<1>20. CASE \E j \in Jobs : Expire(j)
  BY <1>20, FrameTypes DEF Expire, JobStates
<1>21. CASE \E j \in Jobs : Exit(j)
  BY <1>21, FrameTypes DEF Exit, JobStates
<1>22. CASE \E j \in Jobs : Kill(j)
  BY <1>22, FrameTypes DEF Kill, JobStates
<1>23. CASE \E j \in Jobs : ScanLine(j)
  <2>1. PICK j \in Jobs : ScanLine(j)
    BY <1>23
  <2>2. /\ UNCHANGED <<loopVars, sessionVars, streams, writeMu, jobIds, cancelled>>
        /\ UNCHANGED <<expired, proc, seq, got>>
        /\ pc[j] = "run" /\ seq[j] < LineCap
    BY <2>1 DEF ScanLine, InLoop
  <2>3. \/ pc' = [pc EXCEPT ![j] = "send"] /\ term' = term
        \/ pc' = [pc EXCEPT ![j] = "end"] /\ term' = [term EXCEPT ![j] = "eof"]
    BY <2>1 DEF ScanLine, Goto, EndWith
  <2>4. pc' \in [Jobs -> JobStates] /\ term' \in [Jobs -> {"none", "eof", "err"}]
    <3>1. pc \in [Jobs -> JobStates] /\ term \in [Jobs -> {"none", "eof", "err"}]
      OBVIOUS
    <3>2. "end" \in JobStates /\ "send" \in JobStates
      BY DEF JobStates
    <3>3. CASE pc' = [pc EXCEPT ![j] = "send"] /\ term' = term
      BY <3>1, <3>2, <3>3
    <3>4. CASE pc' = [pc EXCEPT ![j] = "end"] /\ term' = [term EXCEPT ![j] = "eof"]
      BY <3>1, <3>2, <3>4
    <3> QED
      BY <2>3, <3>3, <3>4
  <2>5. TypeOK'
    BY <2>2, <2>4
  <2>6. Places'
    BY <2>2, <2>3
  <2> QED
    BY <2>5, <2>6
<1>24. CASE \E j \in Jobs : ScanEof(j)
  BY <1>24, FrameTypes DEF ScanEof, JobStates, EndWith, Goto, InLoop
<1>25. CASE \E j \in Jobs : ScanTooLong(j)
  BY <1>25, FrameTypes DEF ScanTooLong, JobStates, EndWith, Goto, InLoop
<1>26. CASE \E j \in Jobs : Tick(j)
  BY <1>26, FrameTypes DEF Tick, JobStates, Goto
<1>27. CASE \E j \in Jobs : MetricsDone(j)
  BY <1>27, FrameTypes DEF MetricsDone, JobStates, EndWith, Goto
<1>28. CASE \E j \in Jobs : Lock(j)
  <2>1. PICK j \in Jobs : Lock(j)
    BY <1>28
  <2>2. sess[j] \in Sessions
    BY <2>1 DEF Lock, Sessions
  <2>3. writeMu' \in [Sessions -> Jobs \cup {NoJob, Reader}]
    BY <2>1, <2>2 DEF Lock
  <2>4. CASE pc[j] = "send"
    BY <2>1, <2>3, <2>4 DEF Lock, JobStates, Goto
  <2>5. CASE pc[j] = "end"
    BY <2>1, <2>3, <2>5 DEF Lock, JobStates, Goto
  <2> QED
    BY <2>1, <2>4, <2>5 DEF Lock
<1>29. CASE \E j \in Jobs : SendOk(j)
  <2>1. PICK j \in Jobs : SendOk(j)
    BY <1>29
  <2>2. seq[j] \in 0..(LineCap - 1) /\ seq' = [seq EXCEPT ![j] = seq[j] + 1]
    BY <2>1 DEF SendOk, NextSeq
  <2>3. seq' \in [Jobs -> 0..LineCap]
    BY <2>2
  <2>4. got' \in [Jobs -> Seq(FrameSet)]
    BY <2>1, <2>2, FrameTypes DEF SendOk, Delivers
  <2>5. writeMu' \in [Sessions -> Jobs \cup {NoJob, Reader}]
    BY <2>1 DEF SendOk, Release
  <2>6. pc' = [pc EXCEPT ![j] = "run"] /\ pc[j] = "sending"
    BY <2>1 DEF SendOk, Goto
  <2>7. UNCHANGED <<loopVars, sessionVars, streams, jobIds, cancelled, expired, proc, term>>
    BY <2>1 DEF SendOk, Delivers
  <2>8. TypeOK'
    BY <2>3, <2>4, <2>5, <2>6, <2>7 DEF JobStates
  <2>9. Places'
    BY <2>1, <2>2, <2>6, <2>7 DEF SendOk, Delivers
  <2> QED
    BY <2>8, <2>9
<1>30. CASE \E j \in Jobs : SendFails(j)
  <2>1. PICK j \in Jobs : SendFails(j)
    BY <1>30
  <2>2. Data(seq[j]) \in FrameSet /\ (Refuses \/ Breaks(j, Data(seq[j])))
    BY <2>1, FrameTypes DEF SendFails
  <2>3. /\ got' \in [Jobs -> Seq(FrameSet)]
        /\ conn' \in [Sessions -> {"none", "open", "closed"}]
        /\ \A k \in Jobs : k # j => got'[k] = got[k]
    BY <2>2, WriteTypes
  <2>4. writeMu' \in [Sessions -> Jobs \cup {NoJob, Reader}]
    BY <2>1 DEF SendFails, Release
  <2>5. \/ pc' = [pc EXCEPT ![j] = "end"] /\ term' = [term EXCEPT ![j] = "eof"]
        \/ pc' = [pc EXCEPT ![j] = "unwind"] /\ term' = term
    BY <2>1 DEF SendFails, EndWith, Goto
  <2>6. UNCHANGED <<loopVars, gen, disk, cfg, streams, jobIds, cancelled, expired, proc, seq>>
    BY <2>1 DEF SendFails
  <2>7. pc' \in [Jobs -> JobStates] /\ term' \in [Jobs -> {"none", "eof", "err"}]
    <3>1. pc \in [Jobs -> JobStates] /\ term \in [Jobs -> {"none", "eof", "err"}]
      OBVIOUS
    <3>2. "end" \in JobStates /\ "unwind" \in JobStates
      BY DEF JobStates
    <3>3. CASE pc' = [pc EXCEPT ![j] = "unwind"] /\ term' = term
      BY <3>1, <3>2, <3>3
    <3>4. CASE pc' = [pc EXCEPT ![j] = "end"] /\ term' = [term EXCEPT ![j] = "eof"]
      BY <3>1, <3>2, <3>4
    <3> QED
      BY <2>5, <3>3, <3>4
  <2>8. TypeOK'
    BY <2>3, <2>4, <2>6, <2>7
  <2>9. Places'
    BY <2>1, <2>3, <2>5, <2>6 DEF SendFails
  <2> QED
    BY <2>8, <2>9
<1>31. CASE \E j \in Jobs : TerminalWritten(j)
  <2>1. PICK j \in Jobs : TerminalWritten(j)
    BY <1>31
  <2>2. Terminal(term[j]) \in FrameSet
    BY <2>1, FrameTypes DEF TerminalWritten
  <2>3. Delivers(j, Terminal(term[j])) \/ Refuses \/ Breaks(j, Terminal(term[j]))
    BY <2>1 DEF TerminalWritten
  <2>4. /\ got' \in [Jobs -> Seq(FrameSet)]
        /\ conn' \in [Sessions -> {"none", "open", "closed"}]
        /\ \A k \in Jobs : k # j => got'[k] = got[k]
    BY <2>2, <2>3, WriteTypes
  <2>5. writeMu' \in [Sessions -> Jobs \cup {NoJob, Reader}]
    BY <2>1 DEF TerminalWritten, Release
  <2>6. pc' = [pc EXCEPT ![j] = "unwind"]
    BY <2>1 DEF TerminalWritten, AfterTerminal, Goto
  <2>7. UNCHANGED <<loopVars, gen, disk, cfg, streams, jobIds, cancelled, expired, proc, seq, term>>
    BY <2>1 DEF TerminalWritten
  <2>8. TypeOK'
    BY <2>4, <2>5, <2>6, <2>7 DEF JobStates
  <2>9. Places'
    BY <2>1, <2>4, <2>6, <2>7 DEF TerminalWritten
  <2> QED
    BY <2>8, <2>9
<1>32. CASE \E j \in Jobs : Return(j)
  <2>1. PICK j \in Jobs : Return(j)
    BY <1>32
  <2>2. sess[j] \in Sessions /\ id[j] \in ReqIds
    BY <2>1 DEF Return, Sessions
  <2>3. streams' \in [Sessions -> [ReqIds -> Jobs \cup {NoJob}]]
    BY <2>1, <2>2 DEF Return, Unregistered
  <2> QED
    BY <2>1, <2>3 DEF Return, JobStates, Goto, CancelOnReturn
<1>33. CASE UNCHANGED vars
  BY <1>33 DEF vars
<1> QED
  BY <1>1, <1>2, <1>3, <1>4, <1>5, <1>6, <1>7, <1>8, <1>9, <1>10, <1>11, <1>12, <1>13, <1>14,
     <1>15, <1>16, <1>17, <1>18, <1>19, <1>20, <1>21, <1>22, <1>23, <1>24, <1>25, <1>26, <1>27,
     <1>28, <1>29, <1>30, <1>31, <1>32, <1>33
  DEF Next, Environment, ReadLoop, Job, Terminated
\* Every variable keeps its type, and the places of the read loop and of the jobs
\* fit together, in every behaviour of the channel (session, RunControlChannel).
THEOREM TypeCorrect == Spec => []TypeInv
<1>1. Init => TypeInv
  BY InitTypeInv
<1>2. TypeInv /\ [Next]_vars => TypeInv'
  BY StepTypeInv
<1> QED
  BY <1>1, <1>2, PTL DEF Spec

-----------------------------------------------------------------------------
(* One writer per connection *)

\* Every action leaves at most one writer; the lock is taken only when free.
LEMMA StepOneWriter == TypeInv /\ OneWriter /\ [Next]_vars => OneWriter'
<1> SUFFICES ASSUME TypeInv, OneWriter, [Next]_vars PROVE OneWriter'
  OBVIOUS
<1> USE NamesDiffer DEF TypeInv, TypeOK, Places, OneWriter, loopVars, sessionVars, jobVars, jobIds
<1>1. CASE Shutdown
  BY <1>1 DEF Shutdown
<1>2. CASE EditAllowList
  BY <1>2 DEF EditAllowList
<1>3. CASE Connect
  BY <1>3 DEF Connect, Sessions
<1>4. CASE DialFails
  BY <1>4 DEF DialFails
<1>5. CASE BackoffElapses
  BY <1>5 DEF BackoffElapses
<1>6. CASE Stop
  BY <1>6 DEF Stop
<1>7. CASE HelloSent
  BY <1>7 DEF HelloSent
<1>8. CASE HelloFails
  BY <1>8 DEF HelloFails, LeaveSession
<1>9. CASE ReadFails
  BY <1>9 DEF ReadFails, LeaveSession
<1>10. CASE ReplyLock
  <2>1. gen \in Sessions
    BY <1>10 DEF ReplyLock, Sessions
  <2>2. \A j \in Jobs : pc[j] \in {"sending", "ending"} => sess[j] # gen
    BY <1>10 DEF ReplyLock, WriterFree
  <2> QED
    BY <2>1, <2>2, <1>10 DEF ReplyLock
<1>11. CASE ReplyWritten
  <2>1. writeMu[gen] = Reader /\ \A j \in Jobs : pc[j] \in {"sending", "ending"} => sess[j] # gen
    BY <1>11 DEF ReplyWritten
  <2> QED
    BY <2>1, <1>11 DEF ReplyWritten, Release
<1>12. CASE \E g \in Sessions : ConnDrop(g)
  BY <1>12 DEF ConnDrop
<1>13. CASE \E j \in Jobs, r \in ReqIds : \E q \in Requests[j] : ReceiveRequest(j, r, q)
  BY <1>13 DEF ReceiveRequest, Reading, Sessions
<1>14. CASE \E r \in ReqIds : ReceiveCancel(r)
  BY <1>14 DEF ReceiveCancel, Reading, AfterCancel
<1>15. CASE \E v \in InlineVerbs : ReceiveInline(v)
  BY <1>15 DEF ReceiveInline, Reading, InlineFrames
<1>16. CASE \E j \in Jobs : Refuse(j)
  BY <1>16 DEF Refuse, EndWith, Goto
<1>17. CASE \E j \in Jobs : Spawn(j)
  BY <1>17 DEF Spawn, Goto, Starting
<1>18. CASE \E j \in Jobs : StartMetrics(j)
  BY <1>18 DEF StartMetrics, Goto, Starting
<1>19. CASE \E j \in Jobs : StartFails(j)
  BY <1>19 DEF StartFails, EndWith, Goto, Starting
<1>20. CASE \E j \in Jobs : Expire(j)
  BY <1>20 DEF Expire
<1>21. CASE \E j \in Jobs : Exit(j)
  BY <1>21 DEF Exit
<1>22. CASE \E j \in Jobs : Kill(j)
  BY <1>22 DEF Kill
<1>23. CASE \E j \in Jobs : ScanLine(j)
  BY <1>23 DEF ScanLine, EndWith, Goto, InLoop
<1>24. CASE \E j \in Jobs : ScanEof(j)
  BY <1>24 DEF ScanEof, EndWith, Goto, InLoop
<1>25. CASE \E j \in Jobs : ScanTooLong(j)
  BY <1>25 DEF ScanTooLong, EndWith, Goto, InLoop
<1>26. CASE \E j \in Jobs : Tick(j)
  BY <1>26 DEF Tick, Goto
<1>27. CASE \E j \in Jobs : MetricsDone(j)
  BY <1>27 DEF MetricsDone, EndWith, Goto
<1>28. CASE \E j \in Jobs : Lock(j)
  <2>1. PICK j \in Jobs : Lock(j)
    BY <1>28
  <2>2. writeMu[sess[j]] = NoJob /\ writeMu' = [writeMu EXCEPT ![sess[j]] = j]
    BY <2>1 DEF Lock, WriterFree
  <2>3. sess[j] \in Sessions
    BY <2>1 DEF Lock, Sessions
  <2>4. \A k \in Jobs : k # j => pc'[k] = pc[k]
    BY <2>1 DEF Lock, Goto
  <2>5. UNCHANGED <<sess, gen, reader>>
    BY <2>1 DEF Lock
  <2> QED
    BY <2>2, <2>3, <2>4, <2>5
<1>29. CASE \E j \in Jobs : SendOk(j)
  BY <1>29 DEF SendOk, Goto, Release, Delivers, NextSeq
<1>30. CASE \E j \in Jobs : SendFails(j)
  BY <1>30 DEF SendFails, Goto, EndWith, Release, Refuses, Breaks
<1>31. CASE \E j \in Jobs : TerminalWritten(j)
  BY <1>31 DEF TerminalWritten, Goto, Release, Delivers, Refuses, Breaks, AfterTerminal
<1>32. CASE \E j \in Jobs : Return(j)
  BY <1>32 DEF Return, Goto, Unregistered, CancelOnReturn
<1>33. CASE UNCHANGED vars
  BY <1>33 DEF vars
<1> QED
  BY <1>1, <1>2, <1>3, <1>4, <1>5, <1>6, <1>7, <1>8, <1>9, <1>10, <1>11, <1>12, <1>13, <1>14,
     <1>15, <1>16, <1>17, <1>18, <1>19, <1>20, <1>21, <1>22, <1>23, <1>24, <1>25, <1>26, <1>27,
     <1>28, <1>29, <1>30, <1>31, <1>32, <1>33
  DEF Next, Environment, ReadLoop, Job, Terminated

\* No two goroutines are ever in a Write of the same connection, whatever jobs run
\* beside the read loop's own replies (session.write and writeMu).
THEOREM MutualExclusion == Spec => []OneWriter
<1>1. Init => OneWriter
  BY DEF Init, OneWriter
<1>2. TypeInv /\ OneWriter /\ [Next]_vars => OneWriter'
  BY StepOneWriter
<1> QED
  BY <1>1, <1>2, TypeCorrect, PTL DEF Spec

-----------------------------------------------------------------------------
(* The shape of a request's stream *)

Unbroken(s) == \A i \in DOMAIN s : s[i] = Data(i - 1)

Shaped(s) == \A i \in DOMAIN s : s[i] = Data(i - 1) \/ (i = Len(s) /\ s[i].kind # "res")

\* Until its job unwinds a stream has data frames only, and as long as its
\* connection is up the next sequence number is the number of frames received.
\* A frame that was delivered although its Write failed is not counted, but then
\* the connection is gone and nothing can follow it.
StreamInv ==
  \A j \in Jobs :
    /\ Shaped(got[j])
    /\ pc[j] \notin {"unwind", "done"} => Unbroken(got[j])
    /\ pc[j] \notin {"idle", "unwind", "done"} /\ conn[sess[j]] = "open" => Len(got[j]) = seq[j]

\* The next numbered frame continues an unbroken stream.
LEMMA AppendData ==
  ASSUME NEW s \in Seq(FrameSet), Unbroken(s)
  PROVE  /\ Unbroken(Append(s, Data(Len(s))))
         /\ Len(Append(s, Data(Len(s)))) = Len(s) + 1
BY DEF Unbroken

\* An unbroken stream is well shaped: it has no terminal frame yet.
LEMMA UnbrokenShaped == \A s : Unbroken(s) => Shaped(s)
BY DEF Unbroken, Shaped

\* Closing a connection opens none.
LEMMA ClosingOpensNone ==
  ASSUME conn \in [Sessions -> {"none", "open", "closed"}], NEW g,
         conn' = conn \/ conn' = [conn EXCEPT ![g] = "closed"]
  PROVE  \A h \in Sessions : conn'[h] = "open" => conn[h] = "open"
OBVIOUS

\* A terminal frame ends an unbroken stream well.
LEMMA AppendTerminal ==
  ASSUME NEW s \in Seq(FrameSet), Unbroken(s), NEW k \in {"eof", "err"}
  PROVE  Shaped(Append(s, Terminal(k)))
BY DEF Unbroken, Shaped, Terminal

\* Every action keeps the shape of every stream, with one terminal frame at the most.
LEMMA StepStreamInv == TypeInv /\ StreamInv /\ [Next]_vars => StreamInv'
<1> SUFFICES ASSUME TypeInv, StreamInv, [Next]_vars PROVE StreamInv'
  OBVIOUS
<1> USE UnbrokenShaped DEF TypeInv, TypeOK, Places, StreamInv, loopVars, sessionVars, jobVars, jobIds
<1>1. CASE Shutdown
  BY <1>1 DEF Shutdown
<1>2. CASE EditAllowList
  BY <1>2 DEF EditAllowList
<1>3. CASE Connect
  BY <1>3 DEF Connect, Sessions
<1>4. CASE DialFails
  BY <1>4 DEF DialFails
<1>5. CASE BackoffElapses
  BY <1>5 DEF BackoffElapses
<1>6. CASE Stop
  BY <1>6 DEF Stop
<1>7. CASE HelloSent
  BY <1>7 DEF HelloSent
<1>8. CASE HelloFails
  BY <1>8 DEF HelloFails, LeaveSession
<1>9. CASE ReadFails
  BY <1>9 DEF ReadFails, LeaveSession
<1>10. CASE ReplyLock
  BY <1>10 DEF ReplyLock, WriterFree
<1>11. CASE ReplyWritten
  <2>1. \A h \in Sessions : conn'[h] = "open" => conn[h] = "open"
    BY <1>11, ClosingOpensNone DEF ReplyWritten
  <2>2. UNCHANGED <<pc, sess, seq, got>>
    BY <1>11 DEF ReplyWritten
  <2>3. \A j \in Jobs : pc[j] # "idle" => sess[j] \in Sessions
    BY DEF Sessions
  <2> QED
    BY <2>1, <2>2, <2>3
<1>12. CASE \E g \in Sessions : ConnDrop(g)
  BY <1>12 DEF ConnDrop
<1>13. CASE \E j \in Jobs, r \in ReqIds : \E q \in Requests[j] : ReceiveRequest(j, r, q)
  BY <1>13 DEF ReceiveRequest, Reading, Sessions
<1>14. CASE \E r \in ReqIds : ReceiveCancel(r)
  BY <1>14 DEF ReceiveCancel, Reading, AfterCancel
<1>15. CASE \E v \in InlineVerbs : ReceiveInline(v)
  BY <1>15 DEF ReceiveInline, Reading, InlineFrames
<1>16. CASE \E j \in Jobs : Refuse(j)
  BY <1>16 DEF Refuse, EndWith, Goto
<1>17. CASE \E j \in Jobs : Spawn(j)
  BY <1>17 DEF Spawn, Goto, Starting
<1>18. CASE \E j \in Jobs : StartMetrics(j)
  BY <1>18 DEF StartMetrics, Goto, Starting
<1>19. CASE \E j \in Jobs : StartFails(j)
  BY <1>19 DEF StartFails, EndWith, Goto, Starting
<1>20. CASE \E j \in Jobs : Expire(j)
  BY <1>20 DEF Expire
<1>21. CASE \E j \in Jobs : Exit(j)
  BY <1>21 DEF Exit
<1>22. CASE \E j \in Jobs : Kill(j)
  BY <1>22 DEF Kill
<1>23. CASE \E j \in Jobs : ScanLine(j)
  <2>1. PICK j \in Jobs : ScanLine(j)
    BY <1>23
  <2>2. /\ pc[j] = "run" /\ UNCHANGED <<conn, sess, seq, got>>
        /\ pc' = [pc EXCEPT ![j] = "send"] \/ pc' = [pc EXCEPT ![j] = "end"]
    BY <2>1 DEF ScanLine, EndWith, Goto, InLoop
  <2> QED
    BY <2>2
<1>24. CASE \E j \in Jobs : ScanEof(j)
  BY <1>24 DEF ScanEof, EndWith, Goto, InLoop
<1>25. CASE \E j \in Jobs : ScanTooLong(j)
  BY <1>25 DEF ScanTooLong, EndWith, Goto, InLoop
<1>26. CASE \E j \in Jobs : Tick(j)
  BY <1>26 DEF Tick, Goto
<1>27. CASE \E j \in Jobs : MetricsDone(j)
  BY <1>27 DEF MetricsDone, EndWith, Goto
<1>28. CASE \E j \in Jobs : Lock(j)
  BY <1>28 DEF Lock, Goto, WriterFree
<1>29. CASE \E j \in Jobs : SendOk(j)
  <2>1. PICK j \in Jobs : SendOk(j)
    BY <1>29
  <2>2. /\ pc[j] = "sending" /\ pc' = [pc EXCEPT ![j] = "run"]
        /\ conn[sess[j]] = "open" /\ conn' = conn /\ sess' = sess
        /\ seq' = [seq EXCEPT ![j] = seq[j] + 1]
        /\ got' = [got EXCEPT ![j] = Append(got[j], Data(seq[j]))]
    BY <2>1 DEF SendOk, Goto, Delivers, NextSeq
  <2>3. Unbroken(got[j]) /\ Len(got[j]) = seq[j]
    BY <2>2
  <2>4. Unbroken(got'[j]) /\ Len(got'[j]) = seq'[j]
    BY <2>2, <2>3, AppendData
  <2> QED
    BY <2>2, <2>4
<1>30. CASE \E j \in Jobs : SendFails(j)
  <2>1. PICK j \in Jobs : SendFails(j)
    BY <1>30
  <2>2. /\ pc[j] = "sending" /\ UNCHANGED <<sess, seq>>
        /\ pc' = [pc EXCEPT ![j] = "end"] \/ pc' = [pc EXCEPT ![j] = "unwind"]
    BY <2>1 DEF SendFails, Goto, EndWith
  <2>3. Unbroken(got[j]) /\ (conn[sess[j]] = "open" => Len(got[j]) = seq[j])
    BY <2>2
  <2>4. CASE UNCHANGED <<got, conn>>
    <3>1. \A k \in Jobs : pc'[k] \notin {"idle", "unwind", "done"} =>
                            pc[k] \notin {"idle", "unwind", "done"}
      BY <2>2
    <3>2. \A k \in Jobs : pc'[k] \notin {"unwind", "done"} => pc[k] \notin {"unwind", "done"}
      BY <2>2
    <3> QED
      BY <2>2, <2>4, <3>1, <3>2
  <2>5. CASE conn' = [conn EXCEPT ![sess[j]] = "closed"] /\ got' = got
    <3>1. \A h \in Sessions : conn'[h] = "open" => conn[h] = "open"
      BY <2>5, ClosingOpensNone
    <3>2. \A k \in Jobs : pc[k] # "idle" => sess[k] \in Sessions
      BY DEF Sessions
    <3> QED
      BY <2>2, <2>3, <2>5, <3>1, <3>2
  <2>6. CASE /\ conn' = [conn EXCEPT ![sess[j]] = "closed"]
             /\ conn[sess[j]] = "open"
             /\ got' = [got EXCEPT ![j] = Append(got[j], Data(seq[j]))]
    <3>1. Unbroken(got'[j])
      BY <2>3, <2>6, AppendData
    <3>2. \A k \in Jobs : k # j => got'[k] = got[k] /\ pc'[k] = pc[k]
      BY <2>2, <2>6
    <3>3. sess[j] \in Sessions
      BY <2>2 DEF Sessions
    <3> QED
      BY <2>2, <2>6, <3>1, <3>2, <3>3
  <2> QED
    BY <2>1, <2>4, <2>5, <2>6 DEF SendFails, Refuses, Breaks
<1>31. CASE \E j \in Jobs : TerminalWritten(j)
  <2>1. PICK j \in Jobs : TerminalWritten(j)
    BY <1>31
  <2>2. /\ pc[j] = "ending" /\ pc' = [pc EXCEPT ![j] = "unwind"] /\ UNCHANGED <<sess, seq>>
        /\ term[j] \in {"eof", "err"}
    BY <2>1 DEF TerminalWritten, Goto, AfterTerminal
  <2>3. Unbroken(got[j])
    BY <2>2
  <2>4. got'[j] = got[j] \/ got'[j] = Append(got[j], Terminal(term[j]))
    BY <2>1 DEF TerminalWritten, Delivers, Refuses, Breaks
  <2>5. Shaped(got'[j])
    BY <2>2, <2>3, <2>4, AppendTerminal, UnbrokenShaped
  <2>6. conn' = conn \/ conn' = [conn EXCEPT ![sess[j]] = "closed"]
    BY <2>1 DEF TerminalWritten, Delivers, Refuses, Breaks
  <2>7. \A h \in Sessions : conn'[h] = "open" => conn[h] = "open"
    BY <2>6, ClosingOpensNone
  <2>8. \A k \in Jobs : k # j => got'[k] = got[k]
    BY <2>1 DEF TerminalWritten, Delivers, Refuses, Breaks
  <2>9. \A k \in Jobs : pc[k] # "idle" => sess[k] \in Sessions
    BY DEF Sessions
  <2> QED
    BY <2>2, <2>5, <2>7, <2>8, <2>9
<1>32. CASE \E j \in Jobs : Return(j)
  BY <1>32 DEF Return, Goto, Unregistered, CancelOnReturn
<1>33. CASE UNCHANGED vars
  BY <1>33 DEF vars
<1> QED
  BY <1>1, <1>2, <1>3, <1>4, <1>5, <1>6, <1>7, <1>8, <1>9, <1>10, <1>11, <1>12, <1>13, <1>14,
     <1>15, <1>16, <1>17, <1>18, <1>19, <1>20, <1>21, <1>22, <1>23, <1>24, <1>25, <1>26, <1>27,
     <1>28, <1>29, <1>30, <1>31, <1>32, <1>33
  DEF Next, Environment, ReadLoop, Job, Terminated

\* Whatever is refused, cancelled, cut off or lost, ICLIC sees of every request the
\* data frames 0, 1, 2, ... and then at most one eof or error (streamCommand,
\* metricsLiveJob, bestEffort).
THEOREM StreamsAreShaped == Spec => []StreamShape
<1>1. Init => StreamInv
  BY DEF Init, StreamInv, Shaped, Unbroken
<1>2. TypeInv /\ StreamInv /\ [Next]_vars => StreamInv'
  BY StepStreamInv
<1>3. StreamInv => StreamShape
  BY DEF StreamInv, StreamShape, Shaped
<1> QED
  BY <1>1, <1>2, <1>3, TypeCorrect, PTL DEF Spec

-----------------------------------------------------------------------------
(* The registry of cancel functions *)

\* No other job has used j's id in j's session.
Alone(j) == \A k \in Jobs \ {j} : <<sess[k], id[k]>> # <<sess[j], id[j]>>

\* A job in progress that is alone under its id has its entry, which the spawn and
\* the return of the others leave alone because theirs are different entries.
RegistryInv ==
  \A j \in Jobs : pc[j] \notin {"idle", "done"} /\ Alone(j) => streams[sess[j]][id[j]] = j

\* Every step leaves the entry of a job that is alone under its id in place.
LEMMA StepRegistryInv == TypeInv /\ RegistryInv /\ [Next]_vars => RegistryInv'
<1> SUFFICES ASSUME TypeInv, RegistryInv, [Next]_vars PROVE RegistryInv'
  OBVIOUS
<1> USE NamesDiffer DEF TypeInv, TypeOK, Places, RegistryInv, Alone, loopVars, sessionVars, jobVars, jobIds
<1>1. CASE Shutdown
  BY <1>1 DEF Shutdown
<1>2. CASE EditAllowList
  BY <1>2 DEF EditAllowList
<1>3. CASE Connect
  BY <1>3 DEF Connect, Sessions
<1>4. CASE DialFails
  BY <1>4 DEF DialFails
<1>5. CASE BackoffElapses
  BY <1>5 DEF BackoffElapses
<1>6. CASE Stop
  BY <1>6 DEF Stop
<1>7. CASE HelloSent
  BY <1>7 DEF HelloSent
<1>8. CASE HelloFails
  BY <1>8 DEF HelloFails, LeaveSession
<1>9. CASE ReadFails
  BY <1>9 DEF ReadFails, LeaveSession
<1>10. CASE ReplyLock
  BY <1>10 DEF ReplyLock, WriterFree
<1>11. CASE ReplyWritten
  BY <1>11 DEF ReplyWritten, Release
<1>12. CASE \E g \in Sessions : ConnDrop(g)
  BY <1>12 DEF ConnDrop
<1>13. CASE \E j \in Jobs, r \in ReqIds : \E q \in Requests[j] : ReceiveRequest(j, r, q)
  <2>0. PICK j \in Jobs, r \in ReqIds : \E q \in Requests[j] : ReceiveRequest(j, r, q)
    BY <1>13
  <2>1. PICK q \in Requests[j] : ReceiveRequest(j, r, q)
    BY <2>0
  <2>2. /\ pc[j] = "idle" /\ pc' = [pc EXCEPT ![j] = "start"]
        /\ sess' = [sess EXCEPT ![j] = gen] /\ id' = [id EXCEPT ![j] = r]
        /\ streams' = [streams EXCEPT ![gen][r] = j]
    BY <2>1 DEF ReceiveRequest
  <2>3. gen \in Sessions /\ gen # 0
    BY <2>1 DEF ReceiveRequest, Reading, Sessions
  <2>4. SUFFICES ASSUME NEW k \in Jobs, pc'[k] \notin {"idle", "done"}, Alone(k)'
                 PROVE  streams'[sess'[k]][id'[k]] = k
    BY DEF RegistryInv
  <2>5. CASE k = j
    BY <2>2, <2>3, <2>5
  <2>6. CASE k # j
    <3>1. pc[k] = pc'[k] /\ sess'[k] = sess[k] /\ id'[k] = id[k]
      BY <2>2, <2>6
    <3>2. sess'[j] = gen /\ id'[j] = r
      BY <2>2
    <3>3. <<sess[k], id[k]>> # <<gen, r>>
      BY <2>4, <2>6, <3>1, <3>2 DEF Alone
    <3>4. \A l \in Jobs \ {j} : sess'[l] = sess[l] /\ id'[l] = id[l]
      BY <2>2
    <3>5. sess[k] \in 1..gen /\ id[k] \in ReqIds /\ sess[j] = 0
      BY <2>2, <2>4, <3>1
    <3>6. Alone(k)
      <4> SUFFICES ASSUME NEW l \in Jobs \ {k} PROVE <<sess[l], id[l]>> # <<sess[k], id[k]>>
        BY DEF Alone
      <4>1. CASE l = j
        BY <3>5, <4>1
      <4>2. CASE l # j
        BY <2>4, <3>1, <3>4, <4>2 DEF Alone
      <4> QED
        BY <4>1, <4>2
    <3>7. streams[sess[k]][id[k]] = k
      BY <2>4, <3>1, <3>6
    <3>8. streams'[sess[k]][id[k]] = streams[sess[k]][id[k]]
      BY <2>2, <2>3, <3>3, <3>5
    <3> QED
      BY <3>1, <3>7, <3>8
  <2> QED
    BY <2>5, <2>6
<1>14. CASE \E r \in ReqIds : ReceiveCancel(r)
  BY <1>14 DEF ReceiveCancel, Reading, AfterCancel
<1>15. CASE \E v \in InlineVerbs : ReceiveInline(v)
  BY <1>15 DEF ReceiveInline, Reading, InlineFrames
<1>16. CASE \E j \in Jobs : Refuse(j)
  BY <1>16 DEF Refuse, EndWith, Goto
<1>17. CASE \E j \in Jobs : Spawn(j)
  BY <1>17 DEF Spawn, Goto, Starting
<1>18. CASE \E j \in Jobs : StartMetrics(j)
  BY <1>18 DEF StartMetrics, Goto, Starting
<1>19. CASE \E j \in Jobs : StartFails(j)
  BY <1>19 DEF StartFails, EndWith, Goto, Starting
<1>20. CASE \E j \in Jobs : Expire(j)
  BY <1>20 DEF Expire
<1>21. CASE \E j \in Jobs : Exit(j)
  BY <1>21 DEF Exit
<1>22. CASE \E j \in Jobs : Kill(j)
  BY <1>22 DEF Kill
<1>23. CASE \E j \in Jobs : ScanLine(j)
  <2>1. PICK j \in Jobs : ScanLine(j)
    BY <1>23
  <2>2. /\ pc[j] = "run" /\ UNCHANGED <<sess, id, streams>>
        /\ pc' = [pc EXCEPT ![j] = "send"] \/ pc' = [pc EXCEPT ![j] = "end"]
    BY <2>1 DEF ScanLine, EndWith, Goto, InLoop
  <2>3. \A k \in Jobs : pc'[k] \notin {"idle", "done"} <=> pc[k] \notin {"idle", "done"}
    BY <2>2
  <2>4. \A k \in Jobs : pc'[k] # "idle" <=> pc[k] # "idle"
    BY <2>2
  <2> QED
    BY <2>2, <2>3, <2>4
<1>24. CASE \E j \in Jobs : ScanEof(j)
  BY <1>24 DEF ScanEof, EndWith, Goto, InLoop
<1>25. CASE \E j \in Jobs : ScanTooLong(j)
  BY <1>25 DEF ScanTooLong, EndWith, Goto, InLoop
<1>26. CASE \E j \in Jobs : Tick(j)
  BY <1>26 DEF Tick, Goto
<1>27. CASE \E j \in Jobs : MetricsDone(j)
  BY <1>27 DEF MetricsDone, EndWith, Goto
<1>28. CASE \E j \in Jobs : Lock(j)
  BY <1>28 DEF Lock, Goto, WriterFree
<1>29. CASE \E j \in Jobs : SendOk(j)
  BY <1>29 DEF SendOk, Goto, Release, Delivers, NextSeq
<1>30. CASE \E j \in Jobs : SendFails(j)
  <2>1. PICK j \in Jobs : SendFails(j)
    BY <1>30
  <2>2. /\ pc[j] = "sending" /\ UNCHANGED <<sess, id, streams>>
        /\ pc' = [pc EXCEPT ![j] = "end"] \/ pc' = [pc EXCEPT ![j] = "unwind"]
    BY <2>1 DEF SendFails, EndWith, Goto
  <2>3. \A k \in Jobs : pc'[k] \notin {"idle", "done"} <=> pc[k] \notin {"idle", "done"}
    BY <2>2
  <2>4. \A k \in Jobs : pc'[k] # "idle" <=> pc[k] # "idle"
    BY <2>2
  <2> QED
    BY <2>2, <2>3, <2>4
<1>31. CASE \E j \in Jobs : TerminalWritten(j)
  BY <1>31 DEF TerminalWritten, Goto, Release, Delivers, Refuses, Breaks, AfterTerminal
<1>32. CASE \E j \in Jobs : Return(j)
  <2>1. PICK j \in Jobs : Return(j)
    BY <1>32
  <2>2. /\ pc[j] = "unwind" /\ pc' = [pc EXCEPT ![j] = "done"] /\ UNCHANGED <<sess, id>>
        /\ streams' = [streams EXCEPT ![sess[j]][id[j]] = NoJob]
    BY <2>1 DEF Return, Goto, Unregistered
  <2>3. \A k \in Jobs \ {j} :
          pc[k] # "idle" /\ Alone(k) => streams'[sess[k]][id[k]] = streams[sess[k]][id[k]]
    BY <2>2
  <2>4. \A k \in Jobs : Alone(k)' <=> Alone(k)
    BY <2>2
  <2> QED
    BY <2>2, <2>3, <2>4
<1>33. CASE UNCHANGED vars
  BY <1>33 DEF vars
<1> QED
  BY <1>1, <1>2, <1>3, <1>4, <1>5, <1>6, <1>7, <1>8, <1>9, <1>10, <1>11, <1>12, <1>13, <1>14,
     <1>15, <1>16, <1>17, <1>18, <1>19, <1>20, <1>21, <1>22, <1>23, <1>24, <1>25, <1>26, <1>27,
     <1>28, <1>29, <1>30, <1>31, <1>32, <1>33
  DEF Next, Environment, ReadLoop, Job, Terminated

\* A cancel frame finds the job it is meant for as long as there is something to
\* cancel, whatever ICLIC does with the ids of other requests (spawn, cancelStream).
THEOREM CancelFindsItsJob == Spec => []Registered
<1>1. Init => RegistryInv
  BY DEF Init, RegistryInv
<1>2. TypeInv /\ RegistryInv /\ [Next]_vars => RegistryInv'
  BY StepRegistryInv
<1>3. RegistryInv => Registered
  BY DEF RegistryInv, Registered, Alone
<1> QED
  BY <1>1, <1>2, <1>3, TypeCorrect, PTL DEF Spec

-----------------------------------------------------------------------------
(* Cut output *)

DataBelow(s, n) == \A i \in DOMAIN s : s[i].kind = "res" => i <= n

\* The data frames of a line-limited job lie within its limit, there is room for the one
\* it is about to send, and what has returned with its command running is cancelled.
CutInv ==
  \A j \in Jobs :
    /\ LineLimited(req[j]) => DataBelow(got[j], LineLimit)
    /\ LineLimited(req[j]) /\ pc[j] \in {"send", "sending"} => seq[j] < LineLimit
    /\ pc[j] = "done" /\ proc[j] = "running" => cancelled[j]

\* A data frame below the limit and a terminal frame anywhere keep a stream within it.
LEMMA AppendBelow ==
  ASSUME NEW s \in Seq(FrameSet), NEW f, NEW n \in Nat,
         DataBelow(s, n), f.kind = "res" => Len(s) < n
  PROVE  DataBelow(Append(s, f), n)
BY DEF DataBelow

\* A sequence with its data frames at 1..n at the most has no more than n of them.
LEMMA BelowCounts ==
  ASSUME NEW s \in Seq(FrameSet), NEW n \in Nat, DataBelow(s, n)
  PROVE  Cardinality({i \in DOMAIN s : s[i].kind = "res"}) <= n
<1> DEFINE Hits == {i \in DOMAIN s : s[i].kind = "res"}
<1>1. Hits \subseteq 1..n
  BY DEF DataBelow
<1>2. IsFiniteSet(1..n) /\ Cardinality(1..n) = n
  BY FS_Interval
<1>3. Cardinality(Hits) <= Cardinality(1..n)
  BY <1>1, <1>2, FS_Subset
<1> QED
  BY <1>2, <1>3

\* Only the metrics sampler sends without counting lines, and it has no line limit.
LEMMA MetricsUnlimited == \A j \in Jobs : IsMetrics(j) => ~LineLimited(req[j])
BY DEF IsMetrics, LineLimited

\* Every action keeps CutInv: a job sends a line only when
\* the limit is not reached, and it is done only once it has been cancelled.
LEMMA StepCutInv ==
  ASSUME TypeInv, StreamInv, CutInv, [Next]_vars
  PROVE  CutInv'
<1> USE ChannelAssumption DEF CutInv, loopVars, sessionVars, jobVars, jobIds
<1>0. /\ pc \in [Jobs -> JobStates] /\ got \in [Jobs -> Seq(FrameSet)]
      /\ seq \in [Jobs -> 0..LineCap] /\ DOMAIN req = Jobs
      /\ cancelled \in [Jobs -> BOOLEAN]
      /\ proc \in [Jobs -> {"none", "running", "exited"}]
  BY DEF TypeInv, TypeOK
<1>1. CASE UNCHANGED jobVars
  BY <1>1
<1>2. CASE \E j \in Jobs, r \in ReqIds : \E q \in Requests[j] : ReceiveRequest(j, r, q)
  <2>0. PICK j \in Jobs, r \in ReqIds : \E q \in Requests[j] : ReceiveRequest(j, r, q)
    BY <1>2
  <2>1. PICK q \in Requests[j] : ReceiveRequest(j, r, q)
    BY <2>0
  <2>2. /\ pc' = [pc EXCEPT ![j] = "start"] /\ req' = [req EXCEPT ![j] = q]
        /\ UNCHANGED <<got, seq, cancelled, proc>>
        /\ got[j] = <<>>
    BY <2>1 DEF ReceiveRequest, TypeInv, Places
  <2>3. DataBelow(got'[j], LineLimit)
    BY <2>2 DEF DataBelow
  <2> QED
    BY <1>0, <2>2, <2>3
<1>3. CASE \E r \in ReqIds : ReceiveCancel(r)
  <2>1. PICK r \in ReqIds : ReceiveCancel(r)
    BY <1>3
  <2>2. /\ cancelled' = [cancelled EXCEPT ![streams[gen][r]] = TRUE]
        /\ UNCHANGED <<pc, req, got, seq, proc>>
    BY <2>1 DEF ReceiveCancel
  <2> QED
    BY <1>0, <2>2
<1>4. CASE \E j \in Jobs : Job(j)
  <2>1. PICK j \in Jobs : Job(j)
    BY <1>4
  <2>2. CASE Refuse(j) \/ Spawn(j) \/ StartMetrics(j) \/ StartFails(j)
    <3>1. /\ \E to \in {"end", "run"} : pc' = [pc EXCEPT ![j] = to]
          /\ UNCHANGED <<req, got, seq, cancelled>>
          /\ proc' = proc \/ proc' = [proc EXCEPT ![j] = "running"]
      BY <2>2 DEF Refuse, Spawn, StartMetrics, StartFails, EndWith, Goto
    <3> QED
      BY <1>0, <3>1
  <2>3. CASE Expire(j) \/ Exit(j) \/ Kill(j)
    <3>1. /\ UNCHANGED <<pc, req, got, seq, cancelled>>
          /\ proc' = proc \/ proc' = [proc EXCEPT ![j] = "exited"]
      BY <2>3 DEF Expire, Exit, Kill
    <3> QED
      BY <1>0, <3>1
  <2>4. CASE ScanLine(j) \/ ScanEof(j) \/ ScanTooLong(j)
    <3>1. /\ UNCHANGED <<req, got, seq, cancelled, proc>>
          /\ \/ pc' = [pc EXCEPT ![j] = "send"] /\ ~LimitReached(j)
             \/ pc' = [pc EXCEPT ![j] = "end"]
      BY <2>4 DEF ScanLine, ScanEof, ScanTooLong, EndWith, Goto
    <3> QED
      BY <1>0, <3>1 DEF LimitReached
  <2>5. CASE Tick(j) \/ MetricsDone(j)
    <3>1. /\ UNCHANGED <<req, got, seq, cancelled, proc>> /\ IsMetrics(j)
          /\ pc' = [pc EXCEPT ![j] = "send"] \/ pc' = [pc EXCEPT ![j] = "end"]
      BY <2>5 DEF Tick, MetricsDone, EndWith, Goto
    <3> QED
      BY <1>0, <3>1, MetricsUnlimited
  <2>6. CASE Lock(j)
    <3>1. /\ UNCHANGED <<req, got, seq, cancelled, proc>>
          /\ \/ pc[j] = "send" /\ pc' = [pc EXCEPT ![j] = "sending"]
             \/ pc' = [pc EXCEPT ![j] = "ending"]
      BY <2>6 DEF Lock, Goto
    <3> QED
      BY <1>0, <3>1
  <2>7. CASE SendOk(j) \/ SendFails(j)
    <3>1. /\ pc[j] = "sending" /\ UNCHANGED <<req, cancelled, proc>>
          /\ \E to \in {"run", "end", "unwind"} : pc' = [pc EXCEPT ![j] = to]
          /\ seq' = seq \/ seq' = [seq EXCEPT ![j] = NextSeq(seq[j])]
          /\ \/ got' = got
             \/ conn[sess[j]] = "open" /\ got' = [got EXCEPT ![j] = Append(got[j], Data(seq[j]))]
      BY <2>7 DEF SendOk, SendFails, EndWith, Goto, Delivers, Refuses, Breaks
    <3>2. LineLimited(req[j]) => DataBelow(got'[j], LineLimit)
      <4>1. CASE got' = got
        BY <4>1
      <4>2. CASE got' # got /\ LineLimited(req[j])
        <5>1. Len(got[j]) = seq[j] /\ seq[j] < LineLimit
          BY <3>1, <4>2 DEF StreamInv
        <5>2. got[j] \in Seq(FrameSet) /\ DataBelow(got[j], LineLimit)
          BY <1>0, <4>2
        <5>3. DataBelow(Append(got[j], Data(seq[j])), LineLimit)
          BY <5>1, <5>2, AppendBelow
        <5> QED
          BY <1>0, <3>1, <4>2, <5>3
      <4> QED
        BY <4>1, <4>2
    <3>3. \A k \in Jobs : k # j => got'[k] = got[k] /\ seq'[k] = seq[k] /\ pc'[k] = pc[k]
      BY <1>0, <3>1
    <3>4. pc'[j] \in {"run", "end", "unwind"}
      BY <1>0, <3>1
    <3> QED
      BY <3>1, <3>2, <3>3, <3>4
  <2>8. CASE TerminalWritten(j)
    <3>1. /\ pc' = [pc EXCEPT ![j] = "unwind"] /\ UNCHANGED <<req, seq, cancelled, proc>>
          /\ got' = got \/ got' = [got EXCEPT ![j] = Append(got[j], Terminal(term[j]))]
          /\ term[j] \in {"eof", "err"}
      BY <2>8 DEF TerminalWritten, AfterTerminal, Goto, Delivers, Refuses, Breaks, TypeInv, TypeOK, Places
    <3>2. LineLimited(req[j]) => DataBelow(got'[j], LineLimit)
      <4> SUFFICES ASSUME LineLimited(req[j]) PROVE DataBelow(got'[j], LineLimit)
        OBVIOUS
      <4>1. Terminal(term[j]).kind # "res"
        BY <3>1 DEF Terminal
      <4>2. got[j] \in Seq(FrameSet) /\ DataBelow(got[j], LineLimit)
        BY <1>0
      <4>3. DataBelow(Append(got[j], Terminal(term[j])), LineLimit)
        BY <4>1, <4>2, AppendBelow
      <4> QED
        BY <1>0, <3>1, <4>2, <4>3
    <3>3. \A k \in Jobs : k # j => got'[k] = got[k] /\ pc'[k] = pc[k]
      BY <1>0, <3>1
    <3>4. pc'[j] = "unwind"
      BY <1>0, <3>1
    <3> QED
      BY <3>1, <3>2, <3>3, <3>4
  <2>9. CASE Return(j)
    <3>1. /\ pc' = [pc EXCEPT ![j] = "done"] /\ UNCHANGED <<req, got, seq, proc>>
          /\ cancelled' = [cancelled EXCEPT ![j] = TRUE]
      BY <2>9 DEF Return, Goto, CancelOnReturn
    <3> QED
      BY <1>0, <3>1
  <2> QED
    BY <2>1, <2>2, <2>3, <2>4, <2>5, <2>6, <2>7, <2>8, <2>9 DEF Job
<1>5. CASE Environment \/ Terminated \/ UNCHANGED vars
  BY <1>1, <1>5 DEF Environment, Shutdown, ConnDrop, EditAllowList, Terminated, vars
<1>6. CASE Connect \/ DialFails \/ BackoffElapses \/ Stop \/ HelloSent \/ HelloFails \/ ReadFails
  BY <1>1, <1>6 DEF Connect, DialFails, BackoffElapses, Stop, HelloSent, HelloFails, ReadFails
<1>7. CASE (\E v \in InlineVerbs : ReceiveInline(v)) \/ ReplyLock \/ ReplyWritten
  BY <1>1, <1>7 DEF ReceiveInline, ReplyLock, ReplyWritten
<1> QED
  BY <1>2, <1>3, <1>4, <1>5, <1>6, <1>7 DEF Next, ReadLoop

\* However its Writes end, a line-limited job delivers no more lines than its limit, and
\* no command outlives its job without having been cancelled (streamCommand, spawn).
THEOREM OutputIsCut == Spec => []CutIsClean
<1>1. Init => StreamInv /\ CutInv
  BY DEF Init, StreamInv, Shaped, Unbroken, CutInv, DataBelow
<1>2. TypeInv /\ StreamInv /\ CutInv /\ [Next]_vars => (StreamInv /\ CutInv)'
  BY StepStreamInv, StepCutInv
<1>3. TypeInv /\ CutInv => CutIsClean
  BY ChannelAssumption, BelowCounts DEF TypeInv, TypeOK, CutInv, CutIsClean
<1> QED
  BY <1>1, <1>2, <1>3, TypeCorrect, PTL DEF Spec

-----------------------------------------------------------------------------
(* Sessions apart *)

\* A step of a job that does not return keeps it alive and touches no connection but
\* its own, which it can only close.
LEMMA JobMoves ==
  ASSUME TypeInv, NEW j \in Jobs, Job(j), ~Return(j)
  PROVE  /\ UNCHANGED <<reader, gen, sess, id, streams>>
         /\ \/ pc' = pc
            \/ Active(j) /\ \E to \in JobStates \ {"idle", "done"} : pc' = [pc EXCEPT ![j] = to]
         /\ conn' = conn \/ conn' = [conn EXCEPT ![sess[j]] = "closed"]
<1> USE DEF loopVars, sessionVars, jobVars, jobIds, JobStates, Active, Goto, EndWith
<1>1. CASE Refuse(j) \/ Spawn(j) \/ StartMetrics(j) \/ StartFails(j)
  BY <1>1 DEF Refuse, Spawn, StartMetrics, StartFails, Starting
<1>2. CASE Expire(j) \/ Exit(j) \/ Kill(j)
  BY <1>2 DEF Expire, Exit, Kill
<1>3. CASE ScanLine(j) \/ ScanEof(j) \/ ScanTooLong(j)
  BY <1>3 DEF ScanLine, ScanEof, ScanTooLong, InLoop
<1>4. CASE Tick(j) \/ MetricsDone(j)
  BY <1>4 DEF Tick, MetricsDone
<1>5. CASE Lock(j)
  BY <1>5 DEF Lock
<1>6. CASE SendOk(j)
  BY <1>6 DEF SendOk, Delivers
<1>7. CASE SendFails(j)
  BY <1>7 DEF SendFails, Refuses, Breaks
<1>8. CASE TerminalWritten(j)
  BY <1>8 DEF TerminalWritten, AfterTerminal, Delivers, Refuses, Breaks
<1> QED
  BY <1>1, <1>2, <1>3, <1>4, <1>5, <1>6, <1>7, <1>8 DEF Job

\* connectOnce serves one connection and closes it before the next is dialled.
Serving == reader \in {"hello", "read", "reply", "replying"}

OneConnection == \A g \in Sessions : conn[g] = "open" => g = gen /\ Serving

\* Every entry of a session's registry is a job of that session that has not returned.
EntriesAlive ==
  \A g \in Sessions, r \in ReqIds :
    streams[g][r] # NoJob =>
      /\ sess[streams[g][r]] = g
      /\ id[streams[g][r]] = r
      /\ Active(streams[g][r])

\* No step opens a connection while another is open, or leaves one open behind it.
LEMMA StepOneConnection ==
  ASSUME TypeInv, OneConnection, [Next]_vars
  PROVE  OneConnection'
<1> USE DEF TypeInv, TypeOK, OneConnection, Serving, loopVars, sessionVars, jobVars, jobIds
<1>1. CASE Shutdown \/ EditAllowList \/ UNCHANGED vars
  BY <1>1 DEF Shutdown, EditAllowList, vars
<1>2. CASE \E g \in Sessions : ConnDrop(g)
  BY <1>2 DEF ConnDrop
<1>3. CASE Connect
  <2>1. /\ \A g \in Sessions : conn[g] # "open"
        /\ gen' = gen + 1 /\ reader' = "hello"
        /\ conn' = [conn EXCEPT ![gen + 1] = "open"]
    BY <1>3 DEF Connect
  <2> QED
    BY <2>1
<1>4. CASE DialFails \/ BackoffElapses \/ Stop
  BY <1>4 DEF DialFails, BackoffElapses, Stop
<1>5. CASE HelloSent
  BY <1>5 DEF HelloSent
<1>6. CASE HelloFails \/ ReadFails
  <2>1. gen' = gen /\ conn' = [conn EXCEPT ![gen] = "closed"]
    BY <1>6 DEF HelloFails, ReadFails, LeaveSession
  <2>2. \A g \in Sessions : conn'[g] # "open"
    BY <2>1
  <2> QED
    BY <2>2
<1>7. CASE \E j \in Jobs, r \in ReqIds : \E q \in Requests[j] : ReceiveRequest(j, r, q)
  BY <1>7 DEF ReceiveRequest
<1>8. CASE \E r \in ReqIds : ReceiveCancel(r)
  BY <1>8 DEF ReceiveCancel
<1>9. CASE (\E v \in InlineVerbs : ReceiveInline(v)) \/ ReplyLock
  BY <1>9 DEF ReceiveInline, ReplyLock
<1>10. CASE ReplyWritten
  <2>1. gen' = gen /\ reader = "replying" /\ reader' \in {"read", "reply"}
    BY <1>10 DEF ReplyWritten
  <2>2. \A h \in Sessions : conn'[h] = "open" => conn[h] = "open"
    BY <1>10, ClosingOpensNone DEF ReplyWritten
  <2> QED
    BY <2>1, <2>2
<1>11. CASE \E j \in Jobs : Job(j)
  <2>1. PICK j \in Jobs : Job(j)
    BY <1>11
  <2>2. CASE Return(j)
    BY <2>2 DEF Return
  <2>3. CASE ~Return(j)
    <3>1. UNCHANGED <<reader, gen>>
          /\ (conn' = conn \/ conn' = [conn EXCEPT ![sess[j]] = "closed"])
      BY <2>1, <2>3, JobMoves
    <3>2. \A h \in Sessions : conn'[h] = "open" => conn[h] = "open"
      BY <3>1, ClosingOpensNone
    <3> QED
      BY <3>1, <3>2
  <2> QED
    BY <2>2, <2>3
<1> QED
  BY <1>1, <1>2, <1>3, <1>4, <1>5, <1>6, <1>7, <1>8, <1>9, <1>10, <1>11
  DEF Next, Environment, ReadLoop, Terminated

\* The read loop enters a job under its own session and id; a job takes away no more
\* than an entry, and always the one that might lead to it once it is gone.
LEMMA StepEntriesAlive ==
  ASSUME TypeInv, EntriesAlive, [Next]_vars
  PROVE  EntriesAlive'
<1> USE NamesDiffer DEF EntriesAlive, Active, loopVars, sessionVars, jobVars, jobIds
<1>0. /\ streams \in [Sessions -> [ReqIds -> Jobs \cup {NoJob}]]
      /\ pc \in [Jobs -> JobStates]
      /\ DOMAIN sess = Jobs /\ DOMAIN id = Jobs
  BY DEF TypeInv, TypeOK
<1>1. CASE UNCHANGED <<streams, pc, sess, id>>
  BY <1>1
<1>2. CASE \E j \in Jobs, r \in ReqIds : \E q \in Requests[j] : ReceiveRequest(j, r, q)
  <2>0. PICK j \in Jobs, r \in ReqIds : \E q \in Requests[j] : ReceiveRequest(j, r, q)
    BY <1>2
  <2>1. PICK q \in Requests[j] : ReceiveRequest(j, r, q)
    BY <2>0
  <2>2. /\ pc[j] = "idle" /\ pc' = [pc EXCEPT ![j] = "start"]
        /\ sess' = [sess EXCEPT ![j] = gen] /\ id' = [id EXCEPT ![j] = r]
        /\ streams' = [streams EXCEPT ![gen][r] = j]
    BY <2>1 DEF ReceiveRequest
  <2> SUFFICES ASSUME NEW g \in Sessions, NEW q2 \in ReqIds, streams'[g][q2] # NoJob
               PROVE  /\ sess'[streams'[g][q2]] = g
                      /\ id'[streams'[g][q2]] = q2
                      /\ pc'[streams'[g][q2]] \notin {"idle", "done"}
    OBVIOUS
  <2>3. CASE g = gen /\ q2 = r
    <3>1. streams'[g][q2] = j
      BY <1>0, <2>2, <2>3
    <3> QED
      BY <1>0, <2>2, <2>3, <3>1
  <2>4. CASE ~(g = gen /\ q2 = r)
    <3>1. streams'[g][q2] = streams[g][q2]
      BY <1>0, <2>2, <2>4
    <3>2. streams[g][q2] \in Jobs /\ streams[g][q2] # j
      BY <1>0, <2>2, <3>1
    <3> QED
      BY <1>0, <2>2, <3>1, <3>2
  <2> QED
    BY <2>3, <2>4
<1>3. CASE \E j \in Jobs : Job(j)
  <2>1. PICK j \in Jobs : Job(j)
    BY <1>3
  <2>2. CASE Return(j)
    <3>1. /\ pc' = [pc EXCEPT ![j] = "done"] /\ UNCHANGED <<sess, id>>
          /\ streams' = [streams EXCEPT ![sess[j]][id[j]] = NoJob]
      BY <2>2 DEF Return, Goto, Unregistered
    <3> SUFFICES ASSUME NEW g \in Sessions, NEW r \in ReqIds, streams'[g][r] # NoJob
                 PROVE  /\ sess'[streams'[g][r]] = g
                        /\ id'[streams'[g][r]] = r
                        /\ pc'[streams'[g][r]] \notin {"idle", "done"}
      OBVIOUS
    <3>2. streams'[g][r] = streams[g][r] /\ ~(g = sess[j] /\ r = id[j])
      BY <1>0, <3>1
    <3>3. streams[g][r] \in Jobs /\ streams[g][r] # j
      BY <1>0, <3>2
    <3> QED
      BY <1>0, <3>1, <3>2, <3>3
  <2>3. CASE ~Return(j)
    <3>1. /\ UNCHANGED <<sess, id, streams>>
          /\ \/ pc' = pc
             \/ Active(j) /\ \E to \in JobStates \ {"idle", "done"} : pc' = [pc EXCEPT ![j] = to]
      BY <2>1, <2>3, JobMoves
    <3>2. \A k \in Jobs : Active(k) => Active(k)'
      BY <1>0, <3>1
    <3>3. \A g \in Sessions, r \in ReqIds : streams[g][r] # NoJob => streams[g][r] \in Jobs
      BY <1>0
    <3> QED
      BY <3>1, <3>2, <3>3
  <2> QED
    BY <2>2, <2>3
<1>4. CASE (\E r \in ReqIds : ReceiveCancel(r)) \/ UNCHANGED vars
  BY <1>1, <1>4 DEF ReceiveCancel, AfterCancel, vars
<1>5. CASE Shutdown \/ EditAllowList \/ (\E g \in Sessions : ConnDrop(g))
  BY <1>1, <1>5 DEF Shutdown, EditAllowList, ConnDrop
<1>6. CASE Connect \/ DialFails \/ BackoffElapses \/ Stop \/ HelloSent
  BY <1>1, <1>6 DEF Connect, DialFails, BackoffElapses, Stop, HelloSent
<1>7. CASE HelloFails \/ ReadFails \/ (\E v \in InlineVerbs : ReceiveInline(v)) \/ ReplyLock \/ ReplyWritten
  BY <1>1, <1>7 DEF HelloFails, ReadFails, ReceiveInline, ReplyLock, ReplyWritten
<1> QED
  BY <1>2, <1>3, <1>4, <1>5, <1>6, <1>7 DEF Next, Environment, ReadLoop, Terminated

\* The connection of an old session is closed before the next one is opened, and a cancel
\* frame reaches a live goroutine of its own session or none, whichever way ICLIC reuses
\* ids (connectOnce's deferred close, spawn, removeStream).
THEOREM SessionsStayApart == Spec => []SessionsApart
<1>1. Init => OneConnection /\ EntriesAlive
  BY DEF Init, OneConnection, EntriesAlive
<1>2. TypeInv /\ OneConnection /\ EntriesAlive /\ [Next]_vars => (OneConnection /\ EntriesAlive)'
  BY StepOneConnection, StepEntriesAlive
<1>3. OneConnection /\ EntriesAlive => SessionsApart
  BY DEF OneConnection, EntriesAlive, SessionsApart, Serving
<1> QED
  BY <1>1, <1>2, <1>3, TypeCorrect, PTL DEF Spec

-----------------------------------------------------------------------------
(* The agent is the authority *)

\* A job past its opt-in check still passes it: its session's allow-list and its
\* request never change.
OptInInv ==
  \A j \in Jobs :
    proc[j] # "none" \/ seq[j] > 0 \/ pc[j] \in {"run", "send", "sending"} =>
      /\ pc[j] \notin {"idle", "start"}
      /\ Permission(j) = "stream"

\* ControlConfig: a request answered with a stream is for something advertised.
LEMMA AnswerIsAdvertised ==
  ASSUME NEW c, NEW q, q.verb \in StreamVerbs, Answer(c, q) = "stream"
  PROVE  /\ q.verb \in Advertised(c)
         /\ q.verb = "logs.tail" => q.target \in SourceNames(c)
<1>1. CASE q.verb = "logs.tail"
  BY <1>1 DEF Answer, LogsAnswer, Advertised, SourceNames
<1>2. CASE q.verb # "logs.tail"
  <2>1. JobAllowed(c, q.verb)
    BY <1>2 DEF Answer
  <2> QED
    BY <1>2, <2>1 DEF JobAllowed, Advertised, StreamVerbs
<1> QED
  BY <1>1, <1>2

\* The requests of the model are for streams.
LEMMA RequestVerbs == \A j \in Jobs : \A q \in Requests[j] : q.verb \in StreamVerbs
BY ChannelAssumption

\* A job keeps serving only what its session was opened to serve.
LEMMA StepOptInInv == TypeInv /\ OptInInv /\ [Next]_vars => OptInInv'
<1> SUFFICES ASSUME TypeInv, OptInInv, [Next]_vars PROVE OptInInv'
  OBVIOUS
<1> USE DEF TypeInv, TypeOK, Places, OptInInv, Permission, loopVars, sessionVars, jobVars, jobIds
<1>1. CASE Shutdown
  BY <1>1 DEF Shutdown
<1>2. CASE EditAllowList
  BY <1>2 DEF EditAllowList
<1>3. CASE Connect
  BY <1>3 DEF Connect, Sessions
<1>4. CASE DialFails
  BY <1>4 DEF DialFails
<1>5. CASE BackoffElapses
  BY <1>5 DEF BackoffElapses
<1>6. CASE Stop
  BY <1>6 DEF Stop
<1>7. CASE HelloSent
  BY <1>7 DEF HelloSent
<1>8. CASE HelloFails
  BY <1>8 DEF HelloFails, LeaveSession
<1>9. CASE ReadFails
  BY <1>9 DEF ReadFails, LeaveSession
<1>10. CASE ReplyLock
  BY <1>10 DEF ReplyLock, WriterFree
<1>11. CASE ReplyWritten
  BY <1>11 DEF ReplyWritten, Release
<1>12. CASE \E g \in Sessions : ConnDrop(g)
  BY <1>12 DEF ConnDrop
<1>13. CASE \E j \in Jobs, r \in ReqIds : \E q \in Requests[j] : ReceiveRequest(j, r, q)
  BY <1>13 DEF ReceiveRequest, Reading, Sessions
<1>14. CASE \E r \in ReqIds : ReceiveCancel(r)
  BY <1>14 DEF ReceiveCancel, Reading, AfterCancel
<1>15. CASE \E v \in InlineVerbs : ReceiveInline(v)
  BY <1>15 DEF ReceiveInline, Reading, InlineFrames
<1>16. CASE \E j \in Jobs : Refuse(j)
  BY <1>16 DEF Refuse, EndWith, Goto
<1>17. CASE \E j \in Jobs : Spawn(j)
  BY <1>17 DEF Spawn, Goto, Starting
<1>18. CASE \E j \in Jobs : StartMetrics(j)
  BY <1>18 DEF StartMetrics, Goto, Starting
<1>19. CASE \E j \in Jobs : StartFails(j)
  BY <1>19 DEF StartFails, EndWith, Goto, Starting
<1>20. CASE \E j \in Jobs : Expire(j)
  BY <1>20 DEF Expire
<1>21. CASE \E j \in Jobs : Exit(j)
  BY <1>21 DEF Exit
<1>22. CASE \E j \in Jobs : Kill(j)
  BY <1>22 DEF Kill
<1>23. CASE \E j \in Jobs : ScanLine(j)
  BY <1>23 DEF ScanLine, EndWith, Goto, InLoop
<1>24. CASE \E j \in Jobs : ScanEof(j)
  BY <1>24 DEF ScanEof, EndWith, Goto, InLoop
<1>25. CASE \E j \in Jobs : ScanTooLong(j)
  BY <1>25 DEF ScanTooLong, EndWith, Goto, InLoop
<1>26. CASE \E j \in Jobs : Tick(j)
  BY <1>26 DEF Tick, Goto
<1>27. CASE \E j \in Jobs : MetricsDone(j)
  BY <1>27 DEF MetricsDone, EndWith, Goto
<1>28. CASE \E j \in Jobs : Lock(j)
  BY <1>28 DEF Lock, Goto, WriterFree
<1>29. CASE \E j \in Jobs : SendOk(j)
  BY <1>29 DEF SendOk, Goto, Release, Delivers, NextSeq
<1>30. CASE \E j \in Jobs : SendFails(j)
  BY <1>30 DEF SendFails, Goto, EndWith, Release, Refuses, Breaks
<1>31. CASE \E j \in Jobs : TerminalWritten(j)
  BY <1>31 DEF TerminalWritten, Goto, Release, Delivers, Refuses, Breaks, AfterTerminal
<1>32. CASE \E j \in Jobs : Return(j)
  BY <1>32 DEF Return, Goto, Unregistered, CancelOnReturn
<1>33. CASE UNCHANGED vars
  BY <1>33 DEF vars
<1> QED
  BY <1>1, <1>2, <1>3, <1>4, <1>5, <1>6, <1>7, <1>8, <1>9, <1>10, <1>11, <1>12, <1>13, <1>14,
     <1>15, <1>16, <1>17, <1>18, <1>19, <1>20, <1>21, <1>22, <1>23, <1>24, <1>25, <1>26, <1>27,
     <1>28, <1>29, <1>30, <1>31, <1>32, <1>33
  DEF Next, Environment, ReadLoop, Job, Terminated

\* A command runs and data leaves the host only for a verb, and a log source, that
\* the request's own session advertised (the guards of the jobs, helloFrame).
THEOREM OptInIsAuthority == Spec => []ServedWithinOptIn
<1>1. Init => OptInInv
  BY DEF Init, OptInInv
<1>2. TypeInv /\ OptInInv /\ [Next]_vars => OptInInv'
  BY StepOptInInv
<1>3. TypeInv /\ OptInInv => ServedWithinOptIn
  BY AnswerIsAdvertised, RequestVerbs DEF TypeInv, Places, OptInInv, ServedWithinOptIn, Permission
<1> QED
  BY <1>1, <1>2, <1>3, TypeCorrect, PTL DEF Spec


-----------------------------------------------------------------------------
(* The channel implements RequestStream *)

\* The frames of RequestStream are those of ControlChannel.
LEMMA SameFrames ==
  /\ \A n : Stream!Data(n) = Data(n)
  /\ Stream!Ends = {Terminal(k) : k \in {"eof", "err"}}
BY DEF Stream!Data, Data, Stream!Ends, Terminal

\* A stream without a break is open in the sense of RequestStream.
LEMMA UnbrokenOpen ==
  ASSUME NEW j \in Jobs, Unbroken(got[j])
  PROVE  Stream!Open(j)
<1>1. \A n : Data(n).kind = "res"
  BY DEF Data
<1> QED
  BY <1>1 DEF Unbroken, Stream!Open

\* One step of the channel extends one stream by the frame its specification
\* allows, or extends none.
LEMMA StepRefines ==
  ASSUME TypeInv, StreamInv, [Next]_vars
  PROVE  [Stream!Next]_got
<1>1. CASE \E j \in Jobs : SendOk(j) \/ SendFails(j)
  <2>1. PICK j \in Jobs : SendOk(j) \/ SendFails(j)
    BY <1>1
  <2>2. \/ got' = got
        \/ /\ pc[j] = "sending" /\ conn[sess[j]] = "open"
           /\ got' = [got EXCEPT ![j] = Append(got[j], Data(seq[j]))]
    BY <2>1 DEF SendOk, SendFails, Delivers, Refuses, Breaks
  <2>3. CASE /\ pc[j] = "sending" /\ conn[sess[j]] = "open"
             /\ got' = [got EXCEPT ![j] = Append(got[j], Data(seq[j]))]
    <3>1. Unbroken(got[j]) /\ Len(got[j]) = seq[j]
      BY <2>3 DEF StreamInv
    <3>2. Stream!ReceiveData(j)
      BY <2>3, <3>1, SameFrames, UnbrokenOpen DEF Stream!ReceiveData, Stream!Extend
    <3> QED
      BY <3>2 DEF Stream!Next
  <2> QED
    BY <2>2, <2>3
<1>2. CASE \E j \in Jobs : TerminalWritten(j)
  <2>1. PICK j \in Jobs : TerminalWritten(j)
    BY <1>2
  <2>2. got' = got \/ got' = [got EXCEPT ![j] = Append(got[j], Terminal(term[j]))]
    BY <2>1 DEF TerminalWritten, Delivers, Refuses, Breaks
  <2>3. Unbroken(got[j]) /\ term[j] \in {"eof", "err"}
    BY <2>1 DEF TerminalWritten, TypeInv, TypeOK, Places, StreamInv
  <2>4. CASE got' = [got EXCEPT ![j] = Append(got[j], Terminal(term[j]))]
    <3>1. Stream!ReceiveEnd(j)
      BY <2>3, <2>4, SameFrames, UnbrokenOpen DEF Stream!ReceiveEnd, Stream!Extend
    <3> QED
      BY <3>1 DEF Stream!Next
  <2> QED
    BY <2>2, <2>4
<1>3. CASE got' = got
  BY <1>3
<1>4. (\E j \in Jobs : SendOk(j) \/ SendFails(j) \/ TerminalWritten(j)) \/ got' = got
  BY DEF Next, Environment, ReadLoop, Job, Terminated, vars, loopVars, sessionVars, jobVars,
         Shutdown, ConnDrop, EditAllowList, Connect, DialFails, BackoffElapses, Stop,
         HelloSent, HelloFails, ReadFails, ReceiveRequest, ReceiveCancel, ReceiveInline,
         ReplyLock, ReplyWritten, Refuse, Spawn, StartMetrics, StartFails, Expire, Exit,
         Kill, ScanLine, ScanEof, ScanTooLong, Tick, MetricsDone, Lock, Return
<1> QED
  BY <1>1, <1>2, <1>3, <1>4

\* ICLIC, looking at one request, cannot tell the channel from the abstract stream
\* (session.write, streamCommand, metricsLiveJob, bestEffort).
THEOREM ChannelImplementsStream == Spec => ImplementsRequestStream
<1>1. Init => Stream!Init
  BY DEF Init, Stream!Init
<1>2. TypeInv /\ StreamInv /\ [Next]_vars => [Stream!Next]_got
  BY StepRefines
<1>3. Init => StreamInv
  BY DEF Init, StreamInv, Shaped, Unbroken
<1>4. TypeInv /\ StreamInv /\ [Next]_vars => StreamInv'
  BY StepStreamInv
<1> QED
  BY <1>1, <1>2, <1>3, <1>4, TypeCorrect, PTL DEF Spec, ImplementsRequestStream, Stream!Spec

=============================================================================
