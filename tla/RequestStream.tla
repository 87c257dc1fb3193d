---------------------------- MODULE RequestStream ----------------------------
(***************************************************************************)
(* What the control channel promises about the stream of one request, with *)
(* no sessions, goroutines or commands: frames arrive in order, each data  *)
(* frame carries the next number, and nothing follows the frame that ends  *)
(* the stream.  A stream may also just stop: its connection may be lost.   *)
(***************************************************************************)
EXTENDS Naturals, Sequences

CONSTANTS Streams

VARIABLE frames              \* stream -> frames received on it

Data(n) == [kind |-> "res", seq |-> n]
Ends == {[kind |-> k, seq |-> 0] : k \in {"eof", "err"}}

Open(s) == \A i \in DOMAIN frames[s] : frames[s][i].kind = "res"

Init == frames = [s \in Streams |-> <<>>]

Extend(s, f) == frames' = [frames EXCEPT ![s] = Append(@, f)]

ReceiveData(s) == Open(s) /\ Extend(s, Data(Len(frames[s])))

ReceiveEnd(s) == Open(s) /\ \E f \in Ends : Extend(s, f)

Next == \E s \in Streams : ReceiveData(s) \/ ReceiveEnd(s)

Spec == Init /\ [][Next]_frames
=============================================================================
