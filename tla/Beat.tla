---------------------------------- MODULE Beat ----------------------------------
(***************************************************************************)
(* The beats of one agent process as its primitives see them: now and then *)
(* the runner calls all the bindings at once, each under a context that    *)
(* ends Cap later, and waits for all of them.  Merging and posting their   *)
(* results is the subject of Heartbeat.                                    *)
(*                                                                         *)
(* Time is counted in units of the deadline: Cap = 1 is its five seconds.  *)
(* When the next beat begins is open, up to Period after the last: ICLIC   *)
(* sets the interval, a tick is late when the beat before it was long, and *)
(* what a primitive or a POST does after the deadline takes time that is   *)
(* only counted there.                                                     *)
(***************************************************************************)
EXTENDS AgentProcess

CONSTANTS
  Bindings,   \* the bindings a host may have
  Period,     \* the longest time from the begin of a beat to that of the next
  Cap         \* perBindingTimeout

ASSUME BeatAssumption ==
  /\ Cap \in Nat /\ Period \in Nat
  /\ 0 < Cap /\ Cap <= Period

VARIABLES
  beat,       \* the number of this beat
  began,      \* the time it begins
  offset,     \* the time since then
  stage       \* where each binding's call is: "idle", "called", its own stages, "done"

beatVars == <<beat, began, offset, stage>>

Now == began + offset

\* The context of every call of this beat is done.
Late == offset >= Cap \/ told

Beating == \E b \in Bindings : stage[b] # "idle"

\* The loop may take a tick although its context is done.  host.beats bounds the beats that
\* are looked at.
BeginBeat ==
  /\ at[Unit] = "running"
  /\ ~Beating /\ beat < host.beats
  /\ host.bound # {}
  /\ stage' = [b \in Bindings |-> IF b \in host.bound THEN "called" ELSE "idle"]
  /\ UNCHANGED <<beat, began, offset>>

PassTime ==
  /\ Beating /\ offset < Cap
  /\ offset' = offset + 1
  /\ UNCHANGED <<beat, began, stage>>

\* wg.Wait, and the ticker for the next beat.
EndBeat ==
  /\ Beating
  /\ \A b \in host.bound : stage[b] = "done"
  /\ stage' = [b \in Bindings |-> "idle"]
  /\ beat' = beat + 1
  /\ began' \in Now .. began + Period
  /\ offset' = 0

Step(b, s) ==
  /\ stage' = [stage EXCEPT ![b] = s]
  /\ UNCHANGED <<beat, began, offset>>

\* A new process knows nothing of the beat the last one died in; it beats from the next on.
NewBeats ==
  /\ beat' = IF Beating THEN beat + 1 ELSE beat
  /\ began' = Now
  /\ offset' = 0
  /\ stage' = [b \in Bindings |-> "idle"]

BeatInit ==
  /\ beat = 0 /\ began = 0 /\ offset = 0
  /\ stage = [b \in Bindings |-> "idle"]

=============================================================================
