------------------------------ MODULE SecurityLog ------------------------------
(***************************************************************************)
(* How security.snapshot counts what a window of a log file holds.  A log  *)
(* is a sequence of lines, the oldest first; a line is [at, ip, counts]:   *)
(* its timestamp, if it has one that parses, an address, and whether it is *)
(* of the kind that is counted (access denied, a 4xx, a ban).  The caps on *)
(* what is read are in half lines, so that a cap may fall inside a line.   *)
(*                                                                         *)
(* The operator called a mutant is a plausible slip in the definition      *)
(* after it; nothing uses it.                                              *)
(***************************************************************************)
EXTENDS Integers, Sequences, FiniteSets

Line == [at : Int, ip : STRING, counts : BOOLEAN]
NoTime == -1
Broken == [at |-> NoTime, ip |-> "", counts |-> FALSE]

Lines(n, log) == SubSeq(log, Len(log) - n + 1, Len(log))

\* readFileCapped: the first cap half lines.
ReadHead(log, cap) ==
  IF 2 * Len(log) <= cap THEN log
  ELSE SubSeq(log, 1, cap \div 2) \o (IF cap % 2 = 1 THEN <<Broken>> ELSE <<>>)

\* Mutant of ReadTail: the log is read from its start, as the ban log is.
ReadTailHead(log, cap) == ReadHead(log, cap)

\* readFileTailCapped: the last cap half lines, beginning inside a line if cap is odd.
ReadTail(log, cap) ==
  IF 2 * Len(log) <= cap THEN log
  ELSE (IF cap % 2 = 1 THEN <<Broken>> ELSE <<>>) \o Lines(cap \div 2, log)

\* filterLinesSince, as the places of the lines that are kept: lines without a time are
\* dropped, a line at the very start is kept.
FilterLinesSince(lines, since) ==
  {i \in DOMAIN lines : lines[i].at # NoTime /\ lines[i].at >= since}

\* countWAFBlocks, countNginx4xx.
CountLines(lines, kept) == Cardinality({i \in kept : lines[i].counts})

\* collectWAFBlocksFile, collectNginx4xxFile.
CountFile(log, since, cap) ==
  LET lines == ReadTail(log, cap)
  IN CountLines(lines, FilterLinesSince(lines, since))

\* collectFail2ban: all the addresses, the bans after since, and the first of those.
Bans(log, since, cap, maxRecent) ==
  LET lines == ReadHead(log, cap)
      read == {i \in DOMAIN lines : lines[i].counts}
      inside == {i \in read : lines[i].at # NoTime /\ lines[i].at > since}
      earlier(i) == {j \in inside : j < i}
  IN [total |-> {lines[i].ip : i \in read},
      window |-> Cardinality(inside),
      recent |-> {lines[i] : i \in {j \in inside : Cardinality(earlier(j)) < maxRecent}}]

=============================================================================
