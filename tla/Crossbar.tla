------------------------------ MODULE Crossbar ------------------------------
(***************************************************************************)
(* A route between two buses, made of the parts the repository offers for  *)
(* it.  The frames of bus A reach a source, the adapter's Subscribe or     *)
(* go-lin's subscribe command, which passes them on as relay.Messages; a   *)
(* sink, the adapter's Send or go-lin's send stream, publishes them on bus *)
(* B.  A statistics Collector listens on bus A as well, and other spokes   *)
(* send messages of their own to the sink.                                 *)
(*                                                                         *)
(* RelayAdapter gives the forwarder, its channel and the consumer.  For    *)
(* the subscribe command the channel is the pipe to the sink (external), a *)
(* write to which waits for room, so BackPressure is Block.                *)
(***************************************************************************)
EXTENDS RelayAdapter, RelayMessage, Collector

CONSTANTS
  Traffic,    \* the frames exchanged on bus A, in order
  Sources,    \* of "Adapt", "subscribe"
  Sinks,      \* of "Send", "stream"
  Counts,     \* values of subscribe's --count; -1 for no such flag
  Others,     \* messages of other spokes
  MaxOthers   \* bound: how many of them

ASSUME RouteAssumption ==
  /\ Traffic \in Seq([ID : 0..LINMaxID, Data : Seq(Byte), ChecksumType : LINChecksumType,
                      Checksum : Byte])
  /\ \A f \in Range(Traffic) : Len(f.Data) \in 1..LINMaxDataLen  \* as the bus has them
  /\ NoFrame \notin Range(Traffic)
  /\ MaxFrames = Len(Traffic) /\ MaxOthers \in Nat
  /\ Sources \subseteq {"Adapt", "subscribe"} /\ Sinks \subseteq {"Send", "stream"}
  /\ Counts \subseteq Nat \cup {-1}

VARIABLES
  source, sink, limit,  \* how the route is set up
  sent, heard,          \* exchanges on bus A; history: those the source's channel took
  count, cancelled,     \* runSubscribe's count and its ctx
  reg,                  \* bus B: identifier -> registered response
  published,            \* cmdSendStream's sent
  others                \* messages of other spokes so far

setup == <<source, sink, limit>>
far   == <<reg, published, others>>
rvars == <<vars, cvars, setup, sent, heard, count, cancelled, far>>

RouteInit ==
  /\ Init /\ New
  /\ source \in Sources /\ sink \in Sinks
  /\ limit \in IF source = "subscribe" THEN Counts ELSE {-1}
  /\ source = "subscribe" => BackPressure = "Block"
  /\ sent = 0 /\ heard = <<>>
  /\ count = limit /\ cancelled = FALSE
  /\ reg = [id \in 0..LINMaxID |-> NoEntry]
  /\ published = 0 /\ others = 0

-----------------------------------------------------------------------------
(* Bus A: an exchange is offered to both channels; Close ends both.        *)
Broadcast ==
  /\ ~framesClosed /\ sent < Len(Traffic)
  /\ sent' = sent + 1
  /\ \/ Arrive /\ heard' = Append(heard, sent + 1)
     \/ Len(frames) >= BusDepth /\ UNCHANGED <<vars, heard>>
  /\ WatchOffer(Traffic[sent + 1])
  /\ UNCHANGED <<setup, count, cancelled, far>>

CloseWatch ==
  /\ watchClosed' = TRUE
  /\ UNCHANGED <<watch, hand, totalCount, totalBits, perID, watched, discarded, resets, report>>

CloseA ==
  /\ CloseBus
  /\ CloseWatch
  /\ UNCHANGED <<setup, sent, heard, count, cancelled, far>>

-----------------------------------------------------------------------------
AdaptForward ==
  /\ source = "Adapt"
  /\ Forward
  /\ UNCHANGED <<cvars, setup, sent, heard, count, cancelled, far>>

(* runSubscribe at its select: the next frame or the end of the channel.   *)
(* The context's end, when both are ready, is the other choice.            *)
SubscribeRange ==
  /\ source = "subscribe" /\ count # 0
  /\ RangeFrames
  /\ UNCHANGED <<BackPressure, cvars, setup, sent, heard, count, cancelled, far>>

(* It returns: count is used up, or the context is done.  The command then *)
(* closes its bus, and its end of the pipe with the process.               *)
SubscribeReturn ==
  /\ source = "subscribe" /\ pc = "range"
  /\ count = 0 \/ cancelled
  /\ pc' = "done"
  /\ framesClosed' = TRUE /\ chClosed' = TRUE
  /\ CloseWatch
  /\ UNCHANGED <<BackPressure, frames, delivered, msg, seq, ch, user, setup, sent, heard,
                 count, cancelled, far>>

CountEvery ==  \* mutant of CountDown: one message more
  IF count > 0 /\ seq > 1 THEN count - 1 ELSE count

CountDown == IF count > 0 THEN count - 1 ELSE count

(* enc.Encode, then the count.                                             *)
SubscribeWrite ==
  /\ source = "subscribe"
  /\ Send
  /\ count' = CountDown
  /\ UNCHANGED <<BackPressure, cvars, setup, sent, heard, cancelled, far>>

(* SIGINT or SIGTERM.                                                      *)
Signal ==
  /\ source = "subscribe" /\ ~cancelled
  /\ cancelled' = TRUE
  /\ UNCHANGED <<vars, cvars, setup, sent, heard, count, far>>

-----------------------------------------------------------------------------
Handle(m) == IF sink = "Send" THEN NodeSend(reg, m) ELSE StreamSend(reg, m)

Accept(m) ==
  \E r \in {Handle(m)} :
    /\ reg' = r.reg
    /\ published' = published + (IF r.err THEN 0 ELSE 1)

(* The message the forwarder made of a frame.                              *)
Routed(e) == ToMessage(Traffic[heard[e.frame + 1]])

(* The sink takes the next message of the route, or sees its end.          *)
Sink ==
  /\ Consume
  /\ \/ ch # <<>> /\ \E m \in {Routed(Head(ch))} : Accept(m)
     \/ ch = <<>> /\ UNCHANGED <<reg, published>>
  /\ UNCHANGED <<cvars, setup, sent, heard, count, cancelled, others>>

SinkOther ==
  /\ ~ended /\ others < MaxOthers
  /\ \E m \in Others : Accept(m)
  /\ others' = others + 1
  /\ UNCHANGED <<vars, cvars, setup, sent, heard, count, cancelled>>

-----------------------------------------------------------------------------
Stats == Collect /\ UNCHANGED <<vars, setup, sent, heard, count, cancelled, far>>

RouteOver == ended /\ watch = <<>> /\ hand = NoFrame /\ UNCHANGED rvars

Source == AdaptForward \/ SubscribeRange \/ SubscribeReturn \/ SubscribeWrite

RouteNext ==
  Broadcast \/ CloseA \/ Source \/ Signal \/ Sink \/ SinkOther \/ Stats \/ RouteOver

(* The source and the sink are goroutines or processes that are scheduled; *)
(* a step of the sink is one that consumes.  Nothing obliges the bus to    *)
(* carry frames or to be closed.                                           *)
RouteSpec == RouteInit /\ [][RouteNext]_rvars /\ WF_vars(Source) /\ WF_vars(Consume)

-----------------------------------------------------------------------------
(* The last of the frames q (indices of Traffic) with an identifier.       *)
LastOf(q, id) ==
  LET of == {i \in DOMAIN q : Traffic[q[i]].ID = id}
  IN  IF of = {} THEN NoEntry
      ELSE [data |-> Traffic[q[Max(of)]].Data, ct |-> "enhanced"]

Through == [i \in DOMAIN got |-> heard[got[i].frame + 1]]

(* Bus B answers an identifier with the newest frame of it that came       *)
(* through, never with an older one or another's data, though the source   *)
(* may drop and other spokes send; they may withdraw it.  And a route that *)
(* does not drop ends with what bus A last delivered to it: with --count   *)
(* the first so many messages and not one more or less, without it all of  *)
(* them, unless a signal cut it short (main.go 230-340, adapt.go 39-87).   *)
(* Both sinks publish the bytes with the enhanced checksum, a diagnostic   *)
(* frame's too; which checksum the far end ought to use is left open.      *)
RouteFaithful ==
  /\ \A f \in Range(Traffic) :
       \/ reg[f.ID] = LastOf(Through, f.ID)
       \/ others > 0 /\ reg[f.ID] = NoEntry
  /\ limit >= 0 => Len(got) <= limit
  /\ ended /\ BackPressure = "Block" /\ ~cancelled =>
       Through = IF limit < 0 \/ limit > Len(heard) THEN heard ELSE SubSeq(heard, 1, limit)

(* The sink comes to the end of the route once bus A is closed or the      *)
(* subscribe command is told to stop: the source is never stuck between    *)
(* its two channels.  DropOldest does not keep this, see                   *)
(* EveryFrameForwarded.                                                    *)
RouteEnds == (framesClosed /\ BackPressure # "DropOldest") \/ cancelled ~> ended
=============================================================================
