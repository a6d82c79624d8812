---------------------------- MODULE RelayAdapter ----------------------------
(***************************************************************************)
(* The forwarder goroutine of linNode.Subscribe (adapt.go): it ranges over *)
(* the bus channel and passes every frame on, numbered, into a channel of  *)
(* its own under one of three back-pressure policies.  The consumer of     *)
(* that channel runs concurrently; the forwarder is its only sender.       *)
(*                                                                         *)
(* A frame is identified by its place in the stream the bus delivers to    *)
(* this subscription, counted from 0.  The policies and the channel depth  *)
(* come from package relay, which is external.                             *)
(***************************************************************************)
EXTENDS Integers, Sequences, SequencesExt

CONSTANTS
  Policies,      \* of relay.DropNewest, relay.DropOldest, relay.Block
  Depth,         \* cfg.ChanDepth(64)
  BusDepth,      \* capacity of the bus's subscriber channel
  MaxFrames      \* bound: frames the bus delivers

ASSUME AdapterAssumption ==
  /\ Policies \subseteq {"DropNewest", "DropOldest", "Block"}
  /\ Depth \in Nat \ {0} /\ BusDepth \in Nat \ {0} /\ MaxFrames \in Nat

VARIABLES
  BackPressure,          \* cfg.BackPressure, what the subscriber asked for
  frames, framesClosed,  \* the channel from the bus
  delivered,             \* how many frames the bus put into it
  pc,                    \* the forwarder
  msg, seq,              \* its message in hand and its next sequence number
  ch, chClosed,          \* the channel to the consumer
  got, ended             \* the consumer: what it received, whether its range loop ended

in   == <<frames, framesClosed, delivered>>
fwd  == <<pc, msg, seq>>
out  == <<ch, chClosed>>
user == <<got, ended>>
vars == <<BackPressure, in, fwd, out, user>>

Init ==
  /\ BackPressure \in Policies
  /\ frames = <<>> /\ framesClosed = FALSE /\ delivered = 0
  /\ pc = "range" /\ msg = [frame |-> 0, Seq |-> 0] /\ seq = 0
  /\ ch = <<>> /\ chClosed = FALSE
  /\ got = <<>> /\ ended = FALSE

-----------------------------------------------------------------------------
(* The bus: a frame into the subscriber channel if there is room, Close.   *)
Arrive ==
  /\ ~framesClosed /\ delivered < MaxFrames
  /\ Len(frames) < BusDepth
  /\ frames' = Append(frames, delivered)
  /\ delivered' = delivered + 1
  /\ UNCHANGED <<BackPressure, framesClosed, fwd, out, user>>

CloseBus ==
  /\ ~framesClosed
  /\ framesClosed' = TRUE
  /\ UNCHANGED <<BackPressure, frames, delivered, fwd, out, user>>

-----------------------------------------------------------------------------
RangeUnnumbered ==  \* mutant of RangeFrames: seq is not incremented
  /\ pc = "range"
  /\ \/ /\ frames # <<>>
        /\ msg' = [frame |-> Head(frames), Seq |-> seq]
        /\ frames' = Tail(frames)
        /\ pc' = "send"
        /\ UNCHANGED chClosed
     \/ /\ frames = <<>> /\ framesClosed
        /\ chClosed' = TRUE
        /\ pc' = "done"
        /\ UNCHANGED <<msg, frames>>
  /\ UNCHANGED <<seq, framesClosed, delivered, ch, user>>

RangeSpins ==  \* mutant of RangeFrames: the end of the bus channel is not noticed
  /\ pc = "range"
  /\ \/ /\ frames # <<>>
        /\ msg' = [frame |-> Head(frames), Seq |-> seq]
        /\ seq' = seq + 1
        /\ frames' = Tail(frames)
        /\ pc' = "send"
     \/ frames = <<>> /\ framesClosed /\ UNCHANGED <<msg, seq, frames, pc>>
  /\ UNCHANGED <<chClosed, framesClosed, delivered, ch, user>>

(* The head of the range loop, ToMessage and the numbering.  When the bus  *)
(* channel is closed and empty the deferred close(ch) runs.                *)
RangeFrames ==
  /\ pc = "range"
  /\ \/ /\ frames # <<>>
        /\ msg' = [frame |-> Head(frames), Seq |-> seq]
        /\ seq' = seq + 1
        /\ frames' = Tail(frames)
        /\ pc' = "send"
        /\ UNCHANGED chClosed
     \/ /\ frames = <<>> /\ framesClosed
        /\ chClosed' = TRUE
        /\ pc' = "done"
        /\ UNCHANGED <<msg, seq, frames>>
  /\ UNCHANGED <<framesClosed, delivered, ch, user>>

(* A send succeeds when there is room in the buffer.                       *)
Put ==
  /\ Len(ch) < Depth
  /\ ch' = Append(ch, msg)
  /\ pc' = "range"

Send ==
  /\ pc = "send"
  /\ Put
  /\ UNCHANGED <<in, msg, seq, chClosed, user>>

DropAlways ==  \* mutant of Drop: whatever the policy
  /\ pc = "send"
  /\ Len(ch) >= Depth
  /\ pc' = "range"
  /\ UNCHANGED <<in, msg, seq, out, user>>

(* The default cases of the two select statements; Block has none.         *)
Drop ==
  /\ pc = "send" /\ BackPressure = "DropNewest"
  /\ Len(ch) >= Depth
  /\ pc' = "range"
  /\ UNCHANGED <<in, msg, seq, out, user>>

MakeRoom ==
  /\ pc = "send" /\ BackPressure = "DropOldest"
  /\ Len(ch) >= Depth
  /\ pc' = "evict"
  /\ UNCHANGED <<in, msg, seq, out, user>>

(* <-ch: waits for something to evict.                                     *)
Evict ==
  /\ pc = "evict"
  /\ ch # <<>>
  /\ ch' = Tail(ch)
  /\ pc' = "resend"
  /\ UNCHANGED <<in, msg, seq, chClosed, user>>

Resend ==
  /\ pc = "resend"
  /\ Put
  /\ UNCHANGED <<in, msg, seq, chClosed, user>>

Forward ==
  /\ RangeFrames \/ Send \/ Drop \/ MakeRoom \/ Evict \/ Resend
  /\ UNCHANGED BackPressure

-----------------------------------------------------------------------------
(* The consumer ranges over the channel it was given.                      *)
Consume ==
  /\ ~ended
  /\ \/ /\ ch # <<>>
        /\ got' = Append(got, Head(ch))
        /\ ch' = Tail(ch)
        /\ UNCHANGED ended
     \/ /\ ch = <<>> /\ chClosed
        /\ ended' = TRUE
        /\ UNCHANGED <<got, ch>>
  /\ UNCHANGED <<BackPressure, in, fwd, chClosed>>

Finished == ended /\ UNCHANGED vars

Next == Arrive \/ CloseBus \/ Forward \/ Consume \/ Finished

Spec == Init /\ [][Next]_vars

(* The forwarder is scheduled; the consumer keeps ranging.                 *)
FairSpec == Spec /\ WF_vars(Forward) /\ WF_vars(Consume)

-----------------------------------------------------------------------------
Seen == got \o ch

(* Whatever the policy, the consumer gets the frames in the order of the   *)
(* bus, none twice, each under the number it was given.                    *)
OrderKept ==
  /\ \A i \in DOMAIN Seen : Seen[i].Seq = Seen[i].frame
  /\ \A i, j \in DOMAIN Seen : i < j => Seen[i].Seq < Seen[j].Seq

(* Block loses nothing; DropNewest loses a frame only after Depth earlier  *)
(* ones went through; DropOldest never loses the newest one.               *)
PolicyKept ==
  /\ BackPressure = "Block" /\ pc \in {"range", "done"} => Len(Seen) = seq
  /\ BackPressure = "DropNewest" =>
       \A n \in 0..(seq - 2) : (\E i \in DOMAIN Seen : Seen[i].Seq = n) \/ Len(Seen) >= Depth
  /\ BackPressure = "DropOldest" /\ pc \in {"range", "done"} /\ seq > 0 =>
       Seen # <<>> /\ Last(Seen).Seq = seq - 1

(* REQ-ADAPT-004, "yields one relay.Message per received frame", for a     *)
(* consumer that always reads: every frame taken from the bus is offered   *)
(* and the forwarder comes back for the next one.                          *)
EveryFrameForwarded == pc # "range" ~> pc \in {"range", "done"}
=============================================================================
