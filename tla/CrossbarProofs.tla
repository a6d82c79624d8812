--------------------------- MODULE CrossbarProofs ---------------------------
(***************************************************************************)
(* The route of Crossbar keeps its order, its back-pressure policies, its  *)
(* content and its statistics: for any traffic, channel depths, policies,  *)
(* sources, sinks and limits, and however its goroutines interleave.  The  *)
(* forwarder is that of adapt.go or of cmd/go-lin's subscribe, the         *)
(* Collector that of stats/stats.go.                                       *)
(***************************************************************************)
EXTENDS Crossbar, SequenceTheorems, FiniteSetTheorems, TLAPS

Msg == [frame : Nat, Seq : Nat]

(* The forwarder has a message in hand.                                    *)
Holding == pc \in {"send", "evict", "resend"}

(* The bus channel holds the frames not yet taken, one after the other,    *)
(* and a message in hand has the number of the last one taken.             *)
ForwardInv ==
  /\ seq \in Nat /\ delivered \in Nat
  /\ frames \in Seq(Nat) /\ Len(frames) = delivered - seq
  /\ \A i \in 1..Len(frames) : frames[i] = seq + i - 1
  /\ pc \in {"range", "send", "evict", "resend", "done"}
  /\ Holding => seq > 0 /\ msg = [frame |-> seq - 1, Seq |-> seq - 1]
  /\ got \in Seq(Msg) /\ ch \in Seq(Msg)

(* The numbers in the two channels below n.                                *)
InOrder(q, n) ==
  /\ \A i \in 1..Len(q) : q[i].Seq = q[i].frame /\ q[i].Seq < n
  /\ \A i, j \in 1..Len(q) : i < j => q[i].Seq < q[j].Seq

(* How many messages have been dealt with.                                 *)
Handled == IF Holding THEN seq - 1 ELSE seq

OrderInv == InOrder(Seen, Handled)

-----------------------------------------------------------------------------
(* Sequences.                                                              *)

(* What the consumer takes moves from one end of Seen to the other.        *)
LEMMA MoveHead ==
  ASSUME NEW S, NEW p \in Seq(S), NEW q \in Seq(S), q # <<>>
  PROVE  /\ Append(p, Head(q)) \in Seq(S) /\ Tail(q) \in Seq(S)
         /\ Append(p, Head(q)) \o Tail(q) = p \o q
<1>1. Head(q) \in S /\ Tail(q) \in Seq(S) /\ Len(Tail(q)) = Len(q) - 1
      /\ Append(p, Head(q)) \in Seq(S) /\ Len(q) \in Nat /\ Len(p) \in Nat
  OBVIOUS
<1>2. PICK a \in Seq(S) : a = Append(p, Head(q))
  BY <1>1
<1>3. PICK t \in Seq(S) : t = Tail(q)
  BY <1>1
<1>4. /\ Len(a) = Len(p) + 1 /\ a[Len(p) + 1] = q[1]
      /\ \A i \in 1..Len(p) : a[i] = p[i]
  BY <1>1, <1>2
<1>5. \A i \in 1..Len(t) : t[i] = q[i + 1]
  BY <1>1, <1>3
<1>6. /\ a \o t \in Seq(S) /\ Len(a \o t) = Len(a) + Len(t)
      /\ \A i \in 1..(Len(a) + Len(t)) : (a \o t)[i] = IF i <= Len(a) THEN a[i] ELSE t[i - Len(a)]
  BY ConcatProperties
<1>7. /\ p \o q \in Seq(S) /\ Len(p \o q) = Len(p) + Len(q)
      /\ \A i \in 1..(Len(p) + Len(q)) : (p \o q)[i] = IF i <= Len(p) THEN p[i] ELSE q[i - Len(p)]
  BY ConcatProperties
<1>8. Len(a) + Len(t) = Len(p) + Len(q)
  BY <1>1, <1>3, <1>4
<1>9. ASSUME NEW i \in 1..(Len(p) + Len(q)) PROVE (a \o t)[i] = (p \o q)[i]
  <2>1. CASE i <= Len(p)
    BY <1>1, <1>4, <1>6, <1>7, <1>8, <2>1
  <2>2. CASE i = Len(p) + 1
    <3>1. (a \o t)[i] = q[1]
      BY <1>1, <1>4, <1>6, <1>8, <2>2
    <3>2. (p \o q)[i] = q[1]
      BY <1>1, <1>7, <2>2
    <3> QED  BY <3>1, <3>2
  <2>3. CASE i > Len(p) + 1
    <3>1. (a \o t)[i] = t[i - Len(p) - 1]
      BY <1>1, <1>4, <1>6, <1>8, <2>3
    <3>2. i - Len(p) - 1 \in 1..Len(t)
      BY <1>1, <1>3, <2>3
    <3>3. t[i - Len(p) - 1] = q[i - Len(p)]
      BY <1>1, <1>5, <3>2
    <3>4. (p \o q)[i] = q[i - Len(p)]
      BY <1>1, <1>7, <2>3
    <3> QED  BY <3>1, <3>3, <3>4
  <2>4. i <= Len(p) \/ i = Len(p) + 1 \/ i > Len(p) + 1
    BY <1>1
  <2> QED  BY <2>1, <2>2, <2>3, <2>4
<1>10. a \o t = p \o q
  BY <1>6, <1>7, <1>8, <1>9, SeqEqual
<1> QED  BY <1>1, <1>2, <1>3, <1>10

(* What the forwarder puts into its channel comes last in Seen.            *)
LEMMA AppendLast ==
  ASSUME NEW S, NEW p \in Seq(S), NEW q \in Seq(S), NEW m \in S
  PROVE  /\ Append(q, m) \in Seq(S)
         /\ p \o q \in Seq(S) /\ p \o Append(q, m) \in Seq(S)
         /\ Len(p \o q) = Len(p) + Len(q)
         /\ Len(p \o Append(q, m)) = Len(p \o q) + 1
         /\ (p \o Append(q, m))[Len(p \o q) + 1] = m
         /\ \A i \in 1..Len(p \o q) : (p \o Append(q, m))[i] = (p \o q)[i]
<1>1. PICK a \in Seq(S) : a = Append(q, m)
  <2>1. Append(q, m) \in Seq(S)
    OBVIOUS
  <2> QED  BY <2>1
<1>2. /\ Len(a) = Len(q) + 1 /\ a[Len(q) + 1] = m /\ Len(p) \in Nat /\ Len(q) \in Nat
      /\ \A i \in 1..Len(q) : a[i] = q[i]
  BY <1>1
<1>3. /\ p \o a \in Seq(S) /\ Len(p \o a) = Len(p) + Len(a)
      /\ \A i \in 1..(Len(p) + Len(a)) : (p \o a)[i] = IF i <= Len(p) THEN p[i] ELSE a[i - Len(p)]
  BY ConcatProperties
<1>4. /\ p \o q \in Seq(S) /\ Len(p \o q) = Len(p) + Len(q)
      /\ \A i \in 1..(Len(p) + Len(q)) : (p \o q)[i] = IF i <= Len(p) THEN p[i] ELSE q[i - Len(p)]
  BY ConcatProperties
<1>5. (p \o a)[Len(p) + Len(q) + 1] = m
  <2>1. (p \o a)[Len(p) + Len(q) + 1] = a[Len(q) + 1]
    BY <1>2, <1>3
  <2> QED  BY <1>2, <2>1
<1>6. ASSUME NEW i \in 1..(Len(p) + Len(q)) PROVE (p \o a)[i] = (p \o q)[i]
  BY <1>2, <1>3, <1>4
<1> QED  BY <1>1, <1>2, <1>3, <1>4, <1>5, <1>6

(* Evicting the oldest message of the channel takes it out of Seen.        *)
LEMMA EvictHead ==
  ASSUME NEW S, NEW p \in Seq(S), NEW q \in Seq(S), q # <<>>
  PROVE  /\ Tail(q) \in Seq(S)
         /\ p \o Tail(q) \in Seq(S) /\ Len(p \o q) \in Nat
         /\ Len(p \o Tail(q)) = Len(p \o q) - 1
         /\ \A i \in 1..(Len(p \o q) - 1) :
              (p \o Tail(q))[i] = IF i <= Len(p) THEN (p \o q)[i] ELSE (p \o q)[i + 1]
<1>1. PICK t \in Seq(S) : t = Tail(q)
  <2>1. Tail(q) \in Seq(S)
    OBVIOUS
  <2> QED  BY <2>1
<1>2. /\ Len(t) = Len(q) - 1 /\ Len(p) \in Nat /\ Len(q) \in Nat /\ Len(q) >= 1
      /\ \A i \in 1..Len(t) : t[i] = q[i + 1]
  BY <1>1
<1>3. /\ p \o t \in Seq(S) /\ Len(p \o t) = Len(p) + Len(t)
      /\ \A i \in 1..(Len(p) + Len(t)) : (p \o t)[i] = IF i <= Len(p) THEN p[i] ELSE t[i - Len(p)]
  BY ConcatProperties
<1>4. /\ p \o q \in Seq(S) /\ Len(p \o q) = Len(p) + Len(q)
      /\ \A i \in 1..(Len(p) + Len(q)) : (p \o q)[i] = IF i <= Len(p) THEN p[i] ELSE q[i - Len(p)]
  BY ConcatProperties
<1>5. ASSUME NEW i \in 1..(Len(p) + Len(q) - 1)
      PROVE  (p \o t)[i] = IF i <= Len(p) THEN (p \o q)[i] ELSE (p \o q)[i + 1]
  <2>1. CASE i <= Len(p)
    BY <1>2, <1>3, <1>4, <2>1
  <2>2. CASE i > Len(p)
    <3>1. (p \o t)[i] = t[i - Len(p)] /\ i - Len(p) \in 1..Len(t)
      BY <1>2, <1>3, <2>2
    <3>2. t[i - Len(p)] = q[i - Len(p) + 1]
      BY <1>2, <3>1
    <3>3. (p \o q)[i + 1] = q[i + 1 - Len(p)] /\ i + 1 - Len(p) = i - Len(p) + 1
      BY <1>2, <1>4, <2>2
    <3>4. ~(i <= Len(p))
      BY <1>2, <2>2
    <3> QED  BY <3>1, <3>2, <3>3, <3>4
  <2> QED  BY <1>2, <2>1, <2>2
<1> QED  BY <1>1, <1>2, <1>3, <1>4, <1>5

-----------------------------------------------------------------------------
(* The forwarder and its channels.                                         *)

(* A step that only ends the forwarder, or leaves it and its channels as   *)
(* they are.                                                               *)
Quiet ==
  /\ UNCHANGED <<BackPressure, frames, delivered, msg, seq, ch, got>>
  /\ \/ pc' = pc
     \/ pc = "range" /\ pc' = "done"

(* What any step of the route does to them.                                *)
Step == Arrive \/ Forward \/ Consume \/ Quiet

(* Every step of the route is such a step,                                 *)
LEMMA RouteSteps == [RouteNext]_rvars => Step
<1> SUFFICES ASSUME [RouteNext]_rvars PROVE Step
  OBVIOUS
<1>1. CASE UNCHANGED vars
  BY <1>1 DEF Step, Quiet, vars, in, fwd, out, user
<1>2. CASE Broadcast
  BY <1>1, <1>2 DEF Broadcast, Step
<1>3. CASE CloseA
  BY <1>3 DEF CloseA, CloseBus, Step, Quiet, fwd, out, user
<1>4. CASE AdaptForward
  BY <1>4 DEF AdaptForward, Step
<1>5. CASE SubscribeRange
  BY <1>5 DEF SubscribeRange, Step, Forward
<1>6. CASE SubscribeReturn
  BY <1>6 DEF SubscribeReturn, Step, Quiet, user
<1>7. CASE SubscribeWrite
  BY <1>7 DEF SubscribeWrite, Step, Forward
<1>8. CASE Sink
  BY <1>8 DEF Sink, Step
<1>9. CASE Signal \/ SinkOther \/ Stats \/ RouteOver
  BY <1>1, <1>9 DEF Signal, SinkOther, Stats, RouteOver, rvars
<1>10. CASE UNCHANGED rvars
  BY <1>1, <1>10 DEF rvars
<1> QED  BY <1>2, <1>3, <1>4, <1>5, <1>6, <1>7, <1>8, <1>9, <1>10 DEF RouteNext, Source

(* and so is every step of the forwarder alone.                            *)
LEMMA AdapterSteps == [Next]_vars => Step
<1> SUFFICES ASSUME [Next]_vars PROVE Step
  OBVIOUS
<1>1. CASE CloseBus
  BY <1>1 DEF CloseBus, Step, Quiet, fwd, out, user
<1>2. CASE UNCHANGED vars
  BY <1>2 DEF Step, Quiet, vars, in, fwd, out, user
<1> QED  BY <1>1, <1>2 DEF Next, Finished, Step

(* The head of the range loop takes the next frame, or ends.               *)
LEMMA RangeEffect ==
  ASSUME ForwardInv, RangeFrames, UNCHANGED BackPressure
  PROVE  \/ Quiet
         \/ /\ frames # <<>> /\ pc = "range" /\ pc' = "send"
            /\ msg' = [frame |-> seq, Seq |-> seq] /\ seq' = seq + 1 /\ frames' = Tail(frames)
            /\ UNCHANGED <<BackPressure, delivered, ch, got>>
<1>1. CASE frames # <<>>
  <2>1. Head(frames) = seq
    <3>1. 1 \in 1..Len(frames) /\ Head(frames) = frames[1]
      BY <1>1 DEF ForwardInv
    <3> QED  BY <3>1 DEF ForwardInv
  <2> QED  BY <1>1, <2>1 DEF RangeFrames, user
<1>2. CASE frames = <<>>
  BY <1>2 DEF RangeFrames, Quiet, user
<1> QED  BY <1>1, <1>2

(* The bus channel and the message in hand stay as described.              *)
LEMMA ForwardStep == ForwardInv /\ Step => ForwardInv'
<1> SUFFICES ASSUME ForwardInv, Step PROVE ForwardInv'
  OBVIOUS
<1>1. CASE Arrive
  <2>1. /\ frames' = Append(frames, delivered) /\ delivered' = delivered + 1
        /\ UNCHANGED <<pc, msg, seq, ch, got>>
    BY <1>1 DEF Arrive, fwd, out, user
  <2>2. /\ frames' \in Seq(Nat) /\ Len(frames') = Len(frames) + 1
        /\ frames'[Len(frames) + 1] = delivered
        /\ \A i \in 1..Len(frames) : frames'[i] = frames[i]
    BY <2>1 DEF ForwardInv
  <2>3. Len(frames') = delivered' - seq' /\ delivered' \in Nat
    BY <2>1, <2>2 DEF ForwardInv
  <2>4. delivered = seq + (Len(frames) + 1) - 1
    BY DEF ForwardInv
  <2>5. \A i \in 1..Len(frames') : frames'[i] = seq' + i - 1
    <3> SUFFICES ASSUME NEW i \in 1..(Len(frames) + 1) PROVE frames'[i] = seq + i - 1
      BY <2>1, <2>2
    <3>1. Len(frames) \in Nat /\ seq \in Nat
      BY DEF ForwardInv
    <3>2. CASE i = Len(frames) + 1
      BY <3>2, <2>2, <2>4
    <3>3. CASE i # Len(frames) + 1
      <4>1. i \in 1..Len(frames)
        BY <3>1, <3>3
      <4> QED  BY <4>1, <2>2 DEF ForwardInv
    <3> QED  BY <3>2, <3>3
  <2> QED  BY <2>1, <2>2, <2>3, <2>5 DEF ForwardInv, Holding, Msg
<1>2. CASE Quiet
  BY <1>2 DEF Quiet, ForwardInv, Holding, Msg
<1>3. CASE RangeFrames /\ UNCHANGED BackPressure
  <2>1. CASE ~Quiet
    <3>1. /\ frames # <<>> /\ pc' = "send"
          /\ msg' = [frame |-> seq, Seq |-> seq] /\ seq' = seq + 1 /\ frames' = Tail(frames)
          /\ UNCHANGED <<delivered, ch, got>>
      BY <1>3, <2>1, RangeEffect
    <3>2. /\ frames' \in Seq(Nat) /\ Len(frames') = Len(frames) - 1
          /\ \A i \in 1..Len(frames') : frames'[i] = frames[i + 1] /\ i + 1 \in 1..Len(frames)
      BY <3>1 DEF ForwardInv
    <3>3. seq' \in Nat /\ seq' > 0 /\ seq' - 1 = seq /\ Len(frames') = delivered' - seq'
      BY <3>1, <3>2 DEF ForwardInv
    <3>4. \A i \in 1..Len(frames') : frames'[i] = seq' + i - 1
      BY <3>1, <3>2, <3>3 DEF ForwardInv
    <3> QED  BY <3>1, <3>2, <3>3, <3>4 DEF ForwardInv, Holding, Msg
  <2> QED  BY <1>2, <2>1
<1>4. CASE Send \/ Resend
  <2>1. msg \in Msg
    BY <1>4 DEF Send, Resend, ForwardInv, Holding, Msg
  <2>2. ch' \in Seq(Msg)
    <3>1. ch' = Append(ch, msg) /\ ch \in Seq(Msg)
      BY <1>4 DEF Send, Resend, Put, ForwardInv
    <3> HIDE DEF Msg
    <3> QED  BY <2>1, <3>1
  <2>3. UNCHANGED <<frames, delivered, seq, got>> /\ pc' = "range"
    BY <1>4 DEF Send, Resend, Put, in, user
  <2> QED  BY <2>2, <2>3 DEF ForwardInv, Holding, Msg
<1>5. CASE Drop \/ MakeRoom
  BY <1>5 DEF Drop, MakeRoom, in, out, user, ForwardInv, Holding, Msg
<1>6. CASE Evict
  <2>1. ch' \in Seq(Msg)
    BY <1>6 DEF Evict, ForwardInv
  <2> QED  BY <1>6, <2>1 DEF Evict, in, user, ForwardInv, Holding, Msg
<1>7. CASE Consume
  <2>1. got' \in Seq(Msg) /\ ch' \in Seq(Msg)
    <3>1. CASE ch # <<>>
      <4>1. got' = Append(got, Head(ch)) /\ ch' = Tail(ch)
        BY <1>7, <3>1 DEF Consume
      <4> QED  BY <3>1, <4>1, MoveHead DEF ForwardInv
    <3>2. CASE ch = <<>>
      BY <1>7, <3>2 DEF Consume, ForwardInv
    <3> QED  BY <3>1, <3>2
  <2> QED  BY <1>7, <2>1 DEF Consume, in, fwd, ForwardInv, Holding, Msg
<1> QED  BY <1>1, <1>2, <1>3, <1>4, <1>5, <1>6, <1>7 DEF Step, Forward

(* How Seen changes: it grows by the message in hand, loses one to make    *)
(* room, or stays.                                                         *)
LEMMA SeenEffect ==
  ASSUME ForwardInv, Step
  PROVE  /\ Seen \in Seq(Msg)
         /\ \/ Send \/ Resend
            \/ Evict
            \/ Seen' = Seen
         /\ Send \/ Resend =>
              /\ Len(Seen') = Len(Seen) + 1
              /\ Seen'[Len(Seen) + 1] = [frame |-> seq - 1, Seq |-> seq - 1]
              /\ \A i \in 1..Len(Seen) : Seen'[i] = Seen[i]
         /\ Evict =>
              /\ Len(Seen') = Len(Seen) - 1
              /\ \A i \in 1..(Len(Seen) - 1) :
                   Seen'[i] = IF i <= Len(got) THEN Seen[i] ELSE Seen[i + 1]
<1>1. got \in Seq(Msg) /\ ch \in Seq(Msg)
  BY DEF ForwardInv
<1>2. Seen \in Seq(Msg)
  BY <1>1, ConcatProperties DEF Seen
<1>3. ASSUME Send \/ Resend
      PROVE  /\ Len(Seen') = Len(Seen) + 1
             /\ Seen'[Len(Seen) + 1] = [frame |-> seq - 1, Seq |-> seq - 1]
             /\ \A i \in 1..Len(Seen) : Seen'[i] = Seen[i]
  <2>1. msg = [frame |-> seq - 1, Seq |-> seq - 1] /\ msg \in Msg
    BY <1>3 DEF Send, Resend, ForwardInv, Holding, Msg
  <2>2. Seen' = got \o Append(ch, msg)
    BY <1>3 DEF Send, Resend, Put, user, Seen
  <2>3. /\ Len(got \o Append(ch, msg)) = Len(got \o ch) + 1
        /\ (got \o Append(ch, msg))[Len(got \o ch) + 1] = msg
        /\ \A i \in 1..Len(got \o ch) : (got \o Append(ch, msg))[i] = (got \o ch)[i]
    <3> HIDE DEF Msg
    <3> QED  BY <1>1, <2>1, AppendLast
  <2> QED  BY <2>1, <2>2, <2>3 DEF Seen
<1>4. ASSUME Evict
      PROVE  /\ Len(Seen') = Len(Seen) - 1
             /\ \A i \in 1..(Len(Seen) - 1) :
                  Seen'[i] = IF i <= Len(got) THEN Seen[i] ELSE Seen[i + 1]
  <2>1. ch # <<>> /\ Seen' = got \o Tail(ch)
    BY <1>4 DEF Evict, user, Seen
  <2>2. PICK p, q : p = got /\ q = ch
    OBVIOUS
  <2>3. /\ Len(p \o Tail(q)) = Len(p \o q) - 1
        /\ \A i \in 1..(Len(p \o q) - 1) :
             (p \o Tail(q))[i] = IF i <= Len(p) THEN (p \o q)[i] ELSE (p \o q)[i + 1]
    <3> HIDE DEF Msg
    <3> QED  BY <1>1, <2>1, <2>2, EvictHead
  <2> QED  BY <2>1, <2>2, <2>3, Zenon DEF Seen
<1>5. ASSUME ~(Send \/ Resend), ~Evict PROVE Seen' = Seen
  <2>1. CASE UNCHANGED <<got, ch>>
    BY <2>1 DEF Seen
  <2>2. CASE Consume
    <3>1. CASE ch # <<>>
      <4>1. got' = Append(got, Head(ch)) /\ ch' = Tail(ch)
        BY <2>2, <3>1 DEF Consume
      <4>2. Append(got, Head(ch)) \o Tail(ch) = got \o ch
        BY <1>1, <3>1, MoveHead
      <4> QED  BY <4>1, <4>2 DEF Seen
    <3>2. CASE ch = <<>>
      BY <2>1, <2>2, <3>2 DEF Consume
    <3> QED  BY <3>1, <3>2
  <2> QED  BY <1>5, <2>1, <2>2 DEF Step, Arrive, Quiet, Forward, RangeFrames, Drop, MakeRoom, out, user
<1> QED  BY <1>2, <1>3, <1>4, <1>5

(* How the count of messages dealt with changes.                           *)
LEMMA HandledEffect ==
  ASSUME ForwardInv, Step
  PROVE  /\ Handled \in Nat /\ BackPressure' = BackPressure
         /\ Send \/ Resend \/ Drop => Handled = seq - 1 /\ Handled' = seq /\ seq' = seq /\ ~Holding'
         /\ ~(Send \/ Resend \/ Drop) =>
              /\ Handled' = Handled
              /\ ~Holding' => ~Holding /\ seq' = seq
         /\ pc' \in {"evict", "resend"} => pc \in {"evict", "resend"} \/ BackPressure = "DropOldest"
<1>1. Handled \in Nat
  BY DEF Handled, Holding, ForwardInv
<1>2. BackPressure' = BackPressure
  BY DEF Step, Arrive, Forward, Consume, Quiet
<1>3. ASSUME Send \/ Resend \/ Drop
      PROVE  Handled = seq - 1 /\ Handled' = seq /\ seq' = seq /\ ~Holding'
  BY <1>3 DEF Send, Resend, Drop, Put, Handled, Holding
<1>4. ASSUME ~(Send \/ Resend \/ Drop)
      PROVE  /\ Handled' = Handled
             /\ ~Holding' => ~Holding /\ seq' = seq
  <2>1. CASE pc' = pc /\ seq' = seq
    BY <2>1 DEF Handled, Holding
  <2>2. CASE Quiet
    BY <2>2 DEF Quiet, Handled, Holding
  <2>3. CASE RangeFrames /\ UNCHANGED BackPressure
    <3>1. CASE ~Quiet
      <4>1. pc = "range" /\ pc' = "send" /\ seq' = seq + 1
        BY <2>3, <3>1, RangeEffect
      <4> QED  BY <4>1 DEF Handled, Holding, ForwardInv
    <3> QED  BY <2>2, <3>1
  <2>4. CASE MakeRoom \/ Evict
    BY <2>4 DEF MakeRoom, Evict, Handled, Holding
  <2> QED  BY <1>4, <2>1, <2>2, <2>3, <2>4 DEF Step, Arrive, Forward, Consume, fwd
<1>5. ASSUME pc' \in {"evict", "resend"}
      PROVE  pc \in {"evict", "resend"} \/ BackPressure = "DropOldest"
  BY <1>5 DEF Step, Arrive, Forward, Consume, Quiet, RangeFrames, Send, Resend, Put, Drop, MakeRoom,
              Evict, fwd
<1> QED  BY <1>1, <1>2, <1>3, <1>4, <1>5

(* A new message comes last under a number above all the others.           *)
LEMMA OrderStep == ForwardInv /\ OrderInv /\ Step => OrderInv'
<1> SUFFICES ASSUME ForwardInv, OrderInv, Step PROVE OrderInv'
  OBVIOUS
<1>1. PICK s \in Seq(Msg), n \in Nat : s = Seen /\ n = Handled
  BY SeenEffect, HandledEffect
<1>2. PICK t, m : t = Seen' /\ m = Handled'
  OBVIOUS
<1>3. InOrder(s, n) /\ Len(s) \in Nat /\ \A i \in 1..Len(s) : s[i].Seq \in Nat
  <2>1. \A i \in 1..Len(s) : s[i] \in Msg
    <3> HIDE DEF Msg
    <3> QED  BY ElementOfSeq
  <2> QED  BY <1>1, <2>1 DEF OrderInv, Msg
<1>4. SUFFICES InOrder(t, m)
  BY <1>2 DEF OrderInv, InOrder
<1>5. CASE Send \/ Resend
  <2>1. m = n + 1 /\ n = seq - 1
    <3>1. n = seq - 1 /\ m = seq /\ seq \in Nat
      BY <1>1, <1>2, <1>5, HandledEffect DEF ForwardInv
    <3> QED  BY <3>1
  <2>2. /\ Len(t) = Len(s) + 1
        /\ t[Len(s) + 1] = [frame |-> n, Seq |-> n]
        /\ \A i \in 1..Len(s) : t[i] = s[i]
    BY <1>1, <1>2, <1>5, <2>1, SeenEffect
  <2>3. t[Len(s) + 1].Seq = n /\ t[Len(s) + 1].frame = n
    BY <2>2
  <2>4. ASSUME NEW i \in 1..Len(t) PROVE t[i].Seq = t[i].frame /\ t[i].Seq < m
    BY <1>1, <1>3, <2>1, <2>2, <2>3 DEF InOrder
  <2>5. ASSUME NEW i \in 1..Len(t), NEW j \in 1..Len(t), i < j PROVE t[i].Seq < t[j].Seq
    <3>1. i \in 1..Len(s) /\ t[i] = s[i] /\ s[i].Seq < n
      BY <1>3, <2>2, <2>5 DEF InOrder
    <3>2. CASE j = Len(s) + 1
      BY <3>1, <3>2, <2>3
    <3>3. CASE j # Len(s) + 1
      <4>1. j \in 1..Len(s) /\ t[j] = s[j]
        BY <1>3, <2>2, <3>3
      <4> QED  BY <1>3, <2>5, <3>1, <4>1 DEF InOrder
    <3> QED  BY <3>2, <3>3
  <2> QED  BY <2>4, <2>5 DEF InOrder
<1>6. CASE Evict
  <2>1. m = n
    <3>1. ~(Send \/ Resend \/ Drop)
      BY <1>6 DEF Evict, Send, Resend, Drop
    <3> QED  BY <1>1, <1>2, <3>1, HandledEffect
  <2>2. PICK g \in Nat : g = Len(got)
    BY DEF ForwardInv
  <2>3. /\ Len(t) = Len(s) - 1
        /\ \A i \in 1..(Len(s) - 1) : t[i] = IF i <= g THEN s[i] ELSE s[i + 1]
    BY <1>1, <1>2, <1>6, <2>2, SeenEffect
  <2>4. ASSUME NEW i \in 1..Len(t) PROVE t[i].Seq = t[i].frame /\ t[i].Seq < m
    <3>1. i \in 1..Len(s) /\ i + 1 \in 1..Len(s)
      BY <1>3, <2>3
    <3> QED  BY <1>3, <2>1, <2>3, <3>1 DEF InOrder
  <2>5. ASSUME NEW i \in 1..Len(t), NEW j \in 1..Len(t), i < j PROVE t[i].Seq < t[j].Seq
    <3>1. i \in 1..Len(s) /\ i + 1 \in 1..Len(s) /\ j \in 1..Len(s) /\ j + 1 \in 1..Len(s)
      BY <1>3, <2>3
    <3>2. /\ t[i] = IF i <= g THEN s[i] ELSE s[i + 1]
          /\ t[j] = IF j <= g THEN s[j] ELSE s[j + 1]
      <4>1. i \in 1..(Len(s) - 1) /\ j \in 1..(Len(s) - 1)
        BY <2>3
      <4> QED  BY <2>3, <4>1
    <3>3. PICK a \in 1..Len(s), b \in 1..Len(s) : a < b /\ t[i] = s[a] /\ t[j] = s[b]
      <4>1. CASE j <= g
        <5>1. i <= g /\ t[i] = s[i] /\ t[j] = s[j]
          BY <2>2, <2>5, <3>1, <3>2, <4>1
        <5> QED  BY <2>5, <3>1, <5>1
      <4>2. CASE i > g
        <5>1. t[i] = s[i + 1] /\ t[j] = s[j + 1] /\ i + 1 < j + 1
          BY <2>2, <2>5, <3>1, <3>2, <4>2
        <5> QED  BY <3>1, <5>1
      <4>3. CASE i <= g /\ j > g
        <5>1. t[i] = s[i] /\ t[j] = s[j + 1] /\ i < j + 1
          BY <2>2, <2>5, <3>1, <3>2, <4>3
        <5> QED  BY <3>1, <5>1
      <4>4. j <= g \/ i > g \/ (i <= g /\ j > g)
        BY <2>2
      <4> QED  BY <4>1, <4>2, <4>3, <4>4
    <3> QED  BY <1>3, <3>3 DEF InOrder
  <2> QED  BY <2>4, <2>5 DEF InOrder
<1>7. CASE ~(Send \/ Resend) /\ ~Evict
  <2>1. t = s
    BY <1>1, <1>2, <1>7, SeenEffect
  <2>2. m \in {n, n + 1}
    BY <1>1, <1>2, HandledEffect DEF ForwardInv
  <2> QED  BY <1>3, <2>1, <2>2 DEF InOrder
<1> QED  BY <1>5, <1>6, <1>7

-----------------------------------------------------------------------------
(* What each policy keeps, at every place of the forwarder.                *)
Covered(q, n) == \A k \in 0..(n - 1) : (\E i \in 1..Len(q) : q[i].Seq = k) \/ Len(q) >= Depth

PolicyInv ==
  /\ pc \in {"evict", "resend"} => BackPressure = "DropOldest"
  /\ BackPressure = "Block" => Len(Seen) = Handled
  /\ BackPressure = "DropNewest" => Covered(Seen, Handled)
  /\ BackPressure = "DropOldest" /\ ~Holding /\ seq > 0 =>
       Seen # <<>> /\ Seen[Len(Seen)].Seq = seq - 1

(* Each policy, one step at a time.                                        *)
LEMMA PolicyStep == ForwardInv /\ PolicyInv /\ Step => PolicyInv'
<1> SUFFICES ASSUME ForwardInv, PolicyInv, Step PROVE PolicyInv'
  OBVIOUS
<1>1. PICK s \in Seq(Msg), n \in Nat : s = Seen /\ n = Handled
  BY SeenEffect, HandledEffect
<1>2. PICK t, m : t = Seen' /\ m = Handled'
  OBVIOUS
<1>3. BackPressure' = BackPressure /\ seq \in Nat /\ Len(s) \in Nat
  BY HandledEffect DEF ForwardInv
<1>4. pc' \in {"evict", "resend"} => BackPressure' = "DropOldest"
  BY <1>3, HandledEffect DEF PolicyInv
<1>5. SUFFICES /\ BackPressure = "Block" => Len(t) = m
               /\ BackPressure = "DropNewest" => Covered(t, m)
               /\ BackPressure = "DropOldest" /\ ~Holding' /\ seq' > 0 =>
                    t # <<>> /\ t[Len(t)].Seq = seq' - 1
  BY <1>2, <1>3, <1>4 DEF PolicyInv, Covered
<1>6. CASE Send \/ Resend
  <2>1. m = n + 1 /\ n = seq - 1 /\ seq' = seq
    BY <1>1, <1>2, <1>3, <1>6, HandledEffect
  <2>2. /\ Len(t) = Len(s) + 1
        /\ t[Len(s) + 1] = [frame |-> n, Seq |-> n]
        /\ \A i \in 1..Len(s) : t[i] = s[i]
    BY <1>1, <1>2, <1>6, <2>1, SeenEffect
  <2>3. t[Len(s) + 1].Seq = n
    BY <2>2
  <2>4. BackPressure = "Block" => Len(t) = m
    BY <1>1, <2>1, <2>2 DEF PolicyInv
  <2>5. ASSUME Covered(s, n) PROVE Covered(t, m)
    <3> SUFFICES ASSUME NEW k \in 0..(m - 1)
                 PROVE  (\E i \in 1..Len(t) : t[i].Seq = k) \/ Len(t) >= Depth
      BY DEF Covered
    <3>1. CASE k = n
      BY <1>3, <2>2, <2>3, <3>1
    <3>2. CASE k # n
      <4>1. k \in 0..(n - 1)
        BY <1>1, <2>1, <3>2
      <4>2. CASE \E i \in 1..Len(s) : s[i].Seq = k
        <5>1. PICK i \in 1..Len(s) : s[i].Seq = k
          BY <4>2
        <5>2. i \in 1..Len(t) /\ t[i].Seq = k
          BY <1>3, <2>2, <5>1
        <5> QED  BY <5>2
      <4>3. CASE Len(s) >= Depth
        BY <1>3, <2>2, <4>3, AdapterAssumption
      <4> QED  BY <2>5, <4>1, <4>2, <4>3 DEF Covered
    <3> QED  BY <3>1, <3>2
  <2>6. t # <<>> /\ t[Len(t)].Seq = seq' - 1
    BY <1>3, <2>1, <2>2, <2>3
  <2> QED  BY <1>1, <2>4, <2>5, <2>6 DEF PolicyInv
<1>7. CASE Evict
  <2>1. BackPressure = "DropOldest" /\ Holding'
    BY <1>7 DEF Evict, PolicyInv, Holding
  <2> QED  BY <2>1
<1>8. CASE Drop
  <2>1. BackPressure = "DropNewest" /\ Len(ch) >= Depth /\ UNCHANGED <<got, ch>>
    BY <1>8 DEF Drop, out, user
  <2>2. t = s
    BY <1>1, <1>2, <2>1 DEF Seen
  <2>3. Len(s) >= Depth
    <3>1. Len(got \o ch) = Len(got) + Len(ch) /\ Len(got) \in Nat /\ Len(ch) \in Nat
      BY ConcatProperties DEF ForwardInv
    <3> QED  BY <1>1, <2>1, <3>1, AdapterAssumption DEF Seen
  <2>4. Covered(t, m)
    BY <2>2, <2>3 DEF Covered
  <2> QED  BY <2>1, <2>4
<1>9. CASE ~(Send \/ Resend \/ Drop) /\ ~Evict
  <2>1. t = s
    BY <1>1, <1>2, <1>9, SeenEffect
  <2>2. m = n /\ (~Holding' => ~Holding /\ seq' = seq)
    BY <1>1, <1>2, <1>9, HandledEffect
  <2> QED  BY <1>1, <2>1, <2>2 DEF PolicyInv
<1> QED  BY <1>6, <1>7, <1>8, <1>9

-----------------------------------------------------------------------------
AdapterInv == ForwardInv /\ OrderInv /\ PolicyInv

(* The forwarder begins so.                                                *)
LEMMA AdapterInit == Init => AdapterInv
<1> SUFFICES ASSUME Init PROVE AdapterInv
  OBVIOUS
<1>1. /\ pc = "range" /\ seq = 0 /\ delivered = 0 /\ frames = <<>> /\ got = <<>> /\ ch = <<>>
      /\ ~Holding
  BY DEF Init, Holding
<1>2. <<>> \in Seq(Msg) /\ <<>> \in Seq(Nat) /\ Len(<<>>) = 0
  OBVIOUS
<1>3. Seen = <<>>
  BY <1>1, <1>2, ConcatEmptySeq DEF Seen
<1>4. Handled = 0
  BY <1>1 DEF Handled
<1>5. ForwardInv
  BY <1>1, <1>2 DEF ForwardInv
<1>6. OrderInv
  BY <1>3, <1>4 DEF OrderInv, InOrder
<1>7. PolicyInv
  BY <1>1, <1>3, <1>4 DEF PolicyInv, Covered
<1> QED  BY <1>5, <1>6, <1>7 DEF AdapterInv

(* The forwarder stays so, alone and in a route.                           *)
LEMMA AdapterInvariance == (Spec => []AdapterInv) /\ (RouteSpec => []AdapterInv)
<1>1. AdapterInv /\ Step => AdapterInv'
  BY ForwardStep, OrderStep, PolicyStep DEF AdapterInv
<1>2. RouteInit => AdapterInv
  BY AdapterInit DEF RouteInit
<1>3. Spec => []AdapterInv
  BY <1>1, AdapterInit, AdapterSteps, PTL DEF Spec
<1>4. RouteSpec => []AdapterInv
  BY <1>1, <1>2, RouteSteps, PTL DEF RouteSpec
<1> QED  BY <1>3, <1>4

(* The consumer gets the frames in the order of the bus, none twice, each  *)
(* under the number it was given, whatever the policy drops: for the       *)
(* adapter alone and for either source of the route.                       *)
THEOREM OrderPreserved == (Spec => []OrderKept) /\ (RouteSpec => []OrderKept)
<1>1. AdapterInv => OrderKept
  <2> SUFFICES ASSUME AdapterInv PROVE OrderKept
    OBVIOUS
  <2>1. Seen \in Seq(Msg)
    BY ConcatProperties DEF AdapterInv, ForwardInv, Seen
  <2>2. DOMAIN Seen = 1..Len(Seen)
    BY <2>1
  <2> QED  BY <2>2 DEF AdapterInv, OrderInv, InOrder, OrderKept
<1> QED  BY <1>1, AdapterInvariance, PTL

(* Block loses nothing; DropNewest loses a frame only when Depth others    *)
(* went through; DropOldest never loses the newest one.                    *)
THEOREM PoliciesKept == (Spec => []PolicyKept) /\ (RouteSpec => []PolicyKept)
<1>1. AdapterInv => PolicyKept
  <2> SUFFICES ASSUME AdapterInv PROVE PolicyKept
    OBVIOUS
  <2>1. Seen \in Seq(Msg) /\ seq \in Nat
    BY ConcatProperties DEF AdapterInv, ForwardInv, Seen
  <2>2. DOMAIN Seen = 1..Len(Seen)
    BY <2>1
  <2>3. pc \in {"range", "done"} => ~Holding /\ Handled = seq
    BY DEF Holding, Handled
  <2>4. Handled \in {seq, seq - 1}
    BY DEF Handled
  <2>5. ASSUME BackPressure = "DropNewest", NEW n \in 0..(seq - 2)
        PROVE  (\E i \in DOMAIN Seen : Seen[i].Seq = n) \/ Len(Seen) >= Depth
    <3>1. n \in 0..(Handled - 1)
      BY <2>1, <2>4
    <3> QED  BY <2>2, <2>5, <3>1 DEF AdapterInv, PolicyInv, Covered
  <2> QED  BY <2>3, <2>5 DEF AdapterInv, PolicyInv, PolicyKept, Last
<1> QED  BY <1>1, AdapterInvariance, PTL

-----------------------------------------------------------------------------
(* The Collector.                                                          *)

(* What a tally holds.                                                     *)
LEMMA InTally ==
  ASSUME NEW m, NEW x
  PROVE  x \in Tally(m) <=> \E id \in DOMAIN m : \E k \in 1..m[id] : x = <<id, k>>
  BY DEF Tally

(* Counting one more frame adds one pair to the tally.                     *)
LEMMA TallyGrows ==
  ASSUME NEW m, \A id \in DOMAIN m : m[id] \in Nat, NEW h, NEW c,
         c = [id \in DOMAIN m \cup {h} |->
                (IF id \in DOMAIN m THEN m[id] ELSE 0) + (IF id = h THEN 1 ELSE 0)],
         IsFiniteSet(Tally(m))
  PROVE  /\ \A id \in DOMAIN c : c[id] \in Nat
         /\ IsFiniteSet(Tally(c))
         /\ Cardinality(Tally(c)) = Cardinality(Tally(m)) + 1
<1>1. PICK n \in Nat : n = IF h \in DOMAIN m THEN m[h] ELSE 0
  OBVIOUS
<1>2. /\ DOMAIN c = DOMAIN m \cup {h} /\ c[h] = n + 1
      /\ \A id \in DOMAIN m : id # h => c[id] = m[id]
  <2>1. c[h] = n + 1
    BY <1>1
  <2>2. ASSUME NEW id \in DOMAIN m, id # h PROVE c[id] = m[id]
    BY <2>2
  <2> QED  BY <2>1, <2>2
<1>3. \A id \in DOMAIN c : c[id] \in Nat
  BY <1>2
<1>4. <<h, n + 1>> \notin Tally(m)
  <2> SUFFICES ASSUME <<h, n + 1>> \in Tally(m) PROVE FALSE
    OBVIOUS
  <2>0. PICK id \in DOMAIN m : \E k \in 1..m[id] : <<h, n + 1>> = <<id, k>>
    BY InTally
  <2>1. PICK k \in 1..m[id] : <<h, n + 1>> = <<id, k>>
    BY <2>0
  <2>2. id = h /\ k = n + 1 /\ n = m[h] /\ m[h] \in Nat
    BY <1>1, <2>1
  <2> QED  BY <2>1, <2>2
<1>5. Tally(c) = Tally(m) \cup {<<h, n + 1>>}
  <2>1. ASSUME NEW x \in Tally(c) PROVE x \in Tally(m) \cup {<<h, n + 1>>}
    <3>0. PICK id \in DOMAIN c : \E k \in 1..c[id] : x = <<id, k>>
      BY <2>1, InTally
    <3>1. PICK k \in 1..c[id] : x = <<id, k>>
      BY <3>0
    <3>2. CASE id = h /\ k = n + 1
      BY <3>1, <3>2
    <3>3. CASE id = h /\ k # n + 1
      <4>1. k \in 1..n
        BY <1>1, <1>2, <3>1, <3>3
      <4>2. h \in DOMAIN m /\ n = m[h]
        BY <1>1, <4>1
      <4> QED  BY <3>1, <3>3, <4>1, <4>2, InTally
    <3>4. CASE id # h
      BY <1>2, <3>1, <3>4, InTally
    <3> QED  BY <3>2, <3>3, <3>4
  <2>2. ASSUME NEW x \in Tally(m) PROVE x \in Tally(c)
    <3>0. PICK id \in DOMAIN m : \E k \in 1..m[id] : x = <<id, k>>
      BY <2>2, InTally
    <3>1. PICK k \in 1..m[id] : x = <<id, k>>
      BY <3>0
    <3>2. id \in DOMAIN c /\ k \in 1..c[id]
      <4>1. CASE id = h
        BY <1>1, <1>2, <3>1, <4>1
      <4>2. CASE id # h
        BY <1>2, <3>1, <4>2
      <4> QED  BY <4>1, <4>2
    <3> QED  BY <3>1, <3>2, InTally
  <2>3. <<h, n + 1>> \in Tally(c)
    <3>1. h \in DOMAIN c /\ n + 1 \in 1..c[h]
      BY <1>2
    <3> QED  BY <3>1, InTally
  <2> QED  BY <2>1, <2>2, <2>3
<1>6. PICK T, x : T = Tally(m) /\ x = <<h, n + 1>>
  OBVIOUS
<1>7. IsFiniteSet(T \cup {x}) /\ Cardinality(T \cup {x}) = Cardinality(T) + 1
  BY <1>4, <1>6, FS_AddElement
<1>8. IsFiniteSet(Tally(c)) /\ Cardinality(Tally(c)) = Cardinality(Tally(m)) + 1
  BY <1>5, <1>6, <1>7
<1> QED  BY <1>3, <1>8

(* The counters tally with the total, and a reader's total is not ahead of *)
(* them.                                                                   *)
CollectorInv ==
  /\ sent \in Nat
  /\ watch \in Seq(Range(Traffic)) /\ hand \in Range(Traffic) \cup {NoFrame}
  /\ watched \in Nat /\ totalCount \in Nat /\ discarded \in Nat /\ resets \in Nat
  /\ watched = Len(watch) + InHand + totalCount + discarded
  /\ \A id \in DOMAIN perID : perID[id] \in Nat
  /\ IsFiniteSet(Tally(perID)) /\ Cardinality(Tally(perID)) = totalCount
  /\ report # NoReport =>
       /\ report.total \in Nat /\ report.at \in Nat /\ report.at <= resets
       /\ report.at = resets => report.total <= totalCount

(* The Collector begins so.                                                *)
LEMMA CollectorInit == RouteInit => CollectorInv
<1> SUFFICES ASSUME RouteInit PROVE CollectorInv
  OBVIOUS
<1>1. /\ sent = 0 /\ watch = <<>> /\ hand = NoFrame /\ watched = 0 /\ totalCount = 0
      /\ discarded = 0 /\ resets = 0 /\ perID = <<>> /\ report = NoReport
  BY DEF RouteInit, New
<1>2. <<>> \in Seq(Range(Traffic)) /\ Len(<<>>) = 0 /\ DOMAIN <<>> = {}
  OBVIOUS
<1>3. Tally(<<>>) = {}
  BY <1>2, InTally
<1>4. IsFiniteSet({}) /\ Cardinality({}) = 0
  BY FS_EmptySet
<1>5. IsFiniteSet(Tally(perID)) /\ Cardinality(Tally(perID)) = totalCount /\ DOMAIN perID = {}
  BY <1>1, <1>2, <1>3, <1>4
<1>6. watched = Len(watch) + InHand + totalCount + discarded /\ watch \in Seq(Range(Traffic))
  BY <1>1, <1>2 DEF InHand
<1> QED  BY <1>1, <1>5, <1>6 DEF CollectorInv

(* The bus offers a frame of the traffic, which is never NoFrame.          *)
LEMMA OfferStep ==
  ASSUME CollectorInv, Broadcast
  PROVE  CollectorInv'
<1>1. PICK f : f = Traffic[sent + 1]
  OBVIOUS
<1>2. f \in Range(Traffic) /\ sent' \in Nat
  <2>1. sent + 1 \in DOMAIN Traffic
    BY RouteAssumption DEF Broadcast, CollectorInv
  <2> QED  BY <1>1, <2>1 DEF Range, Broadcast, CollectorInv
<1>3. UNCHANGED <<hand, totalCount, perID, discarded, resets, report>>
  BY DEF Broadcast, WatchOffer
<1>4. /\ watch' \in Seq(Range(Traffic)) /\ watched' \in Nat
      /\ watched' = Len(watch') + InHand + totalCount + discarded
  <2>1. CASE Len(watch) < WatchDepth
    <3>1. watch' = Append(watch, f) /\ watched' = watched + 1
      BY <1>1, <2>1 DEF Broadcast, WatchOffer
    <3>2. watch' \in Seq(Range(Traffic)) /\ Len(watch') = Len(watch) + 1 /\ Len(watch) \in Nat
      BY <1>2, <3>1 DEF CollectorInv
    <3>3. InHand \in Nat
      BY DEF InHand
    <3> QED  BY <3>1, <3>2, <3>3 DEF CollectorInv
  <2>2. CASE ~(Len(watch) < WatchDepth)
    BY <2>2 DEF Broadcast, WatchOffer, CollectorInv
  <2> QED  BY <2>1, <2>2
<1> QED  BY <1>2, <1>3, <1>4 DEF CollectorInv, InHand, Tally

(* Watch, Observe, Reset and the readers, in any order.                    *)
LEMMA StatsStep ==
  ASSUME CollectorInv, Stats
  PROVE  CollectorInv'
<1>1. sent' = sent
  BY DEF Stats
<1>2. CASE Watch
  <2>1. /\ hand = NoFrame /\ watch # <<>> /\ hand' = Head(watch) /\ watch' = Tail(watch)
        /\ UNCHANGED <<totalCount, perID, watched, discarded, resets, report>>
    BY <1>2 DEF Watch
  <2>2. /\ hand' \in Range(Traffic) /\ watch' \in Seq(Range(Traffic))
        /\ Len(watch') = Len(watch) - 1 /\ Len(watch) \in Nat
    BY <2>1 DEF CollectorInv
  <2>3. hand' # NoFrame
    BY <2>2, RouteAssumption
  <2>4. InHand = 0 /\ InHand' = 1
    BY <2>1, <2>3 DEF InHand
  <2>5. watched' = Len(watch') + InHand' + totalCount' + discarded'
    BY <2>1, <2>2, <2>4 DEF CollectorInv
  <2> QED  BY <1>1, <2>1, <2>2, <2>5 DEF CollectorInv, Tally
<1>3. CASE Observe
  <2>1. /\ hand # NoFrame /\ hand' = NoFrame /\ totalCount' = totalCount + 1
        /\ UNCHANGED <<watch, watched, discarded, resets, report>>
    BY <1>3 DEF Observe
  <2>2. PICK h, c : h = hand.ID /\ c = perID'
    OBVIOUS
  <2>3. c = [id \in DOMAIN perID \cup {h} |->
                (IF id \in DOMAIN perID THEN perID[id] ELSE 0) + (IF id = h THEN 1 ELSE 0)]
    BY <1>3, <2>2 DEF Observe
  <2>4. /\ \A id \in DOMAIN c : c[id] \in Nat
        /\ IsFiniteSet(Tally(c))
        /\ Cardinality(Tally(c)) = Cardinality(Tally(perID)) + 1
    <3>1. PICK m : m = perID
      OBVIOUS
    <3>2. (\A id \in DOMAIN m : m[id] \in Nat) /\ IsFiniteSet(Tally(m))
      BY <3>1 DEF CollectorInv
    <3>3. c = [id \in DOMAIN m \cup {h} |->
                 (IF id \in DOMAIN m THEN m[id] ELSE 0) + (IF id = h THEN 1 ELSE 0)]
      BY <2>3, <3>1
    <3>4. /\ \A id \in DOMAIN c : c[id] \in Nat
          /\ IsFiniteSet(Tally(c))
          /\ Cardinality(Tally(c)) = Cardinality(Tally(m)) + 1
      BY <3>2, <3>3, TallyGrows
    <3> QED  BY <3>1, <3>4
  <2>5. InHand = 1 /\ InHand' = 0
    BY <2>1 DEF InHand
  <2>6. watched' = Len(watch') + InHand' + totalCount' + discarded' /\ totalCount' \in Nat
    BY <2>1, <2>5 DEF CollectorInv
  <2>7. report' # NoReport =>
          /\ report'.total \in Nat /\ report'.at \in Nat /\ report'.at <= resets'
          /\ report'.at = resets' => report'.total <= totalCount'
    BY <2>1 DEF CollectorInv, NoReport
  <2>8. IsFiniteSet(Tally(perID')) /\ Cardinality(Tally(perID')) = totalCount'
    BY <2>1, <2>2, <2>4 DEF CollectorInv
  <2> QED  BY <1>1, <2>1, <2>2, <2>4, <2>6, <2>7, <2>8 DEF CollectorInv, Tally, NoReport
<1>4. CASE Reset
  <2>1. /\ totalCount' = 0 /\ perID' = <<>> /\ resets' = resets + 1
        /\ discarded' = discarded + totalCount
        /\ UNCHANGED <<watch, hand, watched, report>>
    BY <1>4 DEF Reset
  <2>2. Tally(<<>>) = {} /\ IsFiniteSet({}) /\ Cardinality({}) = 0 /\ DOMAIN <<>> = {}
    BY InTally, FS_EmptySet
  <2>3. IsFiniteSet(Tally(perID')) /\ Cardinality(Tally(perID')) = totalCount'
    BY <2>1, <2>2
  <2>4. InHand' = InHand /\ InHand \in Nat /\ Len(watch) \in Nat
    BY <2>1 DEF InHand, CollectorInv
  <2>5. /\ watched' = Len(watch') + InHand' + totalCount' + discarded'
        /\ discarded' \in Nat /\ resets' \in Nat
    BY <2>1, <2>4 DEF CollectorInv
  <2>6. report' # NoReport =>
          /\ report'.total \in Nat /\ report'.at \in Nat /\ report'.at <= resets'
          /\ report'.at # resets'
    BY <2>1 DEF CollectorInv, NoReport
  <2> QED  BY <1>1, <2>1, <2>2, <2>3, <2>5, <2>6 DEF CollectorInv, Tally, NoReport
<1>5. CASE TotalCount
  <2>1. /\ report' = [total |-> totalCount, at |-> resets]
        /\ UNCHANGED <<watch, hand, totalCount, perID, watched, discarded, resets>>
    BY <1>5 DEF TotalCount
  <2> QED  BY <1>1, <2>1 DEF CollectorInv, InHand, Tally, NoReport
<1>6. CASE PerID
  BY <1>1, <1>6 DEF PerID, CollectorInv, InHand, Tally, NoReport
<1> QED  BY <1>2, <1>3, <1>4, <1>5, <1>6 DEF Stats, Collect

(* The counts after any step.                                              *)
LEMMA CollectorStep == CollectorInv /\ [RouteNext]_rvars => CollectorInv'
<1> SUFFICES ASSUME CollectorInv, [RouteNext]_rvars PROVE CollectorInv'
  OBVIOUS
<1>1. CASE UNCHANGED <<sent, watch, hand, totalCount, perID, watched, discarded, resets, report>>
  BY <1>1 DEF CollectorInv, InHand, Tally, NoReport
<1>2. CASE CloseA \/ SubscribeReturn
  BY <1>1, <1>2 DEF CloseA, SubscribeReturn, CloseWatch
<1>3. CASE AdaptForward \/ SubscribeRange \/ SubscribeWrite
  BY <1>1, <1>3 DEF AdaptForward, SubscribeRange, SubscribeWrite, cvars
<1>4. CASE Signal \/ Sink \/ SinkOther
  BY <1>1, <1>4 DEF Signal, Sink, SinkOther, cvars
<1>5. CASE UNCHANGED rvars
  BY <1>1, <1>5 DEF rvars, cvars
<1> QED  BY <1>2, <1>3, <1>4, <1>5, OfferStep, StatsStep DEF RouteNext, Source, RouteOver

(* The statistics are exact while Watch, Reset and the readers overlap:    *)
(* every frame the channel took is accounted for once, the total is the    *)
(* sum over the identifiers, and a reader's two questions agree unless a   *)
(* Reset came between them.                                                *)
THEOREM StatisticsExact == RouteSpec => []CollectorExact
<1>1. CollectorInv => CollectorExact
  <2> SUFFICES ASSUME CollectorInv PROVE CollectorExact
    OBVIOUS
  <2>1. Sum(perID) = totalCount
    BY DEF CollectorInv, Sum
  <2>2. report # NoReport /\ report.at = resets => totalCount >= report.total
    BY DEF CollectorInv
  <2> QED  BY <2>1, <2>2 DEF CollectorInv, CollectorExact
<1> QED  BY <1>1, CollectorInit, CollectorStep, PTL DEF RouteSpec

-----------------------------------------------------------------------------
(* Numbers as text.                                                        *)

(* Induction over the natural numbers, for a set.                          *)
LEMMA SetInduction ==
  ASSUME NEW S, 0 \in S, \A n \in Nat : n \in S => n + 1 \in S
  PROVE  Nat \subseteq S
<1> DEFINE T == Nat \ S
           R == {ss \in Nat \X Nat : ss[1] < ss[2]}
<1>1. SUFFICES ASSUME T # {} PROVE FALSE
  OBVIOUS
<1>2. IsWellFoundedOn(R, Nat)
  BY NatLessThanWellFounded DEF OpToRel
<1>3. \E x \in T : \A y \in T : ~(<<y, x>> \in R)
  <2>1. T \subseteq Nat
    OBVIOUS
  <2> HIDE DEF R, T
  <2> QED  BY <1>1, <1>2, <2>1, WFMin
<1>4. PICK x \in T : \A y \in T : ~(<<y, x>> \in R)
  BY <1>3
<1>5. \A y \in T : ~(y < x)
  BY <1>4
<1> QED  BY <1>4, <1>5

(* A non-empty set of numbers up to a bound has a greatest one.            *)
LEMMA MaxExists ==
  ASSUME NEW n \in Nat, NEW T \in SUBSET (1..n), T # {}
  PROVE  Max(T) \in T /\ \A y \in T : Max(T) >= y
<1> DEFINE Has(U) == U # {} => \E x \in U : \A y \in U : x >= y
           S == {m \in Nat : \A U \in SUBSET (1..m) : Has(U)}
<1>1. 0 \in S
  <2>1. 1..0 = {}
    OBVIOUS
  <2> QED  BY <2>1
<1>2. ASSUME NEW m \in Nat, m \in S PROVE m + 1 \in S
  <2> SUFFICES ASSUME NEW U \in SUBSET (1..(m + 1)), U # {}
               PROVE  \E x \in U : \A y \in U : x >= y
    OBVIOUS
  <2>1. CASE m + 1 \in U
    <3>1. \A y \in U : m + 1 >= y
      OBVIOUS
    <3> QED  BY <2>1, <3>1
  <2>2. CASE m + 1 \notin U
    <3>1. U \in SUBSET (1..m)
      BY <2>2
    <3> QED  BY <1>2, <3>1
  <2> QED  BY <2>1, <2>2
<1>3. n \in S
  <2> HIDE DEF S
  <2>1. Nat \subseteq S
    BY <1>1, <1>2, SetInduction
  <2> QED  BY <2>1
<1>4. \E x \in T : \A y \in T : x >= y
  BY <1>3
<1> QED  BY <1>4 DEF Max

(* The loop of ParseUint, as an equation over the places read so far.      *)
IsParse(it, s, base, S) ==
  it = [t \in SUBSET S |-> IF t = {} THEN base ELSE ParseDigit(it[t \ {Max(t)}], s[Max(t)])]

(* That equation has a solution.                                           *)
LEMMA ParseExists ==
  ASSUME NEW s, NEW base
  PROVE  \A n \in Nat : \E it : IsParse(it, s, base, 1..n)
<1> DEFINE Body(it, t) == IF t = {} THEN base ELSE ParseDigit(it[t \ {Max(t)}], s[Max(t)])
           S == {n \in Nat : \E it : IsParse(it, s, base, 1..n)}
<1>1. 0 \in S
  <2> DEFINE f == [t \in SUBSET (1..0) |-> base]
  <2>1. \A t \in SUBSET (1..0) : t = {}
    OBVIOUS
  <2>2. IsParse(f, s, base, 1..0)
    BY <2>1 DEF IsParse
  <2> QED  BY <2>2
<1>2. ASSUME NEW n \in Nat, n \in S PROVE n + 1 \in S
  <2>1. PICK f : IsParse(f, s, base, 1..n)
    BY <1>2
  <2>2. \A t \in SUBSET (1..n) : f[t] = Body(f, t)
    BY <2>1 DEF IsParse
  <2> DEFINE g == [t \in SUBSET (1..(n + 1)) |->
                     IF n + 1 \in t THEN ParseDigit(f[t \ {n + 1}], s[n + 1]) ELSE f[t]]
  <2>3. ASSUME NEW t \in SUBSET (1..(n + 1)) PROVE g[t] = Body(g, t)
    <3>1. CASE n + 1 \in t
      <4>1. Max(t) = n + 1
        <5>1. \A y \in t : y \in Int /\ n + 1 >= y
          OBVIOUS
        <5>2. PICK k \in Nat : k = n + 1
          OBVIOUS
        <5>3. t \in SUBSET (1..k) /\ t # {}
          BY <3>1, <5>2
        <5>4. Max(t) \in t /\ \A y \in t : Max(t) >= y
          BY <5>3, MaxExists
        <5>5. Max(t) \in Int /\ n + 1 >= Max(t) /\ Max(t) >= n + 1
          BY <3>1, <5>1, <5>4
        <5> QED  BY <5>5
      <4>2. t \ {n + 1} \in SUBSET (1..n) /\ n + 1 \notin t \ {n + 1} /\ t # {}
        BY <3>1
      <4>3. g[t \ {n + 1}] = f[t \ {n + 1}] /\ g[t] = ParseDigit(f[t \ {n + 1}], s[n + 1])
        BY <3>1, <4>2
      <4> HIDE DEF g
      <4> QED  BY <4>1, <4>2, <4>3
    <3>2. CASE n + 1 \notin t
      <4>0. t \in SUBSET (1..n)
        BY <3>2
      <4>1. t \in SUBSET (1..n) /\ t \ {Max(t)} \in SUBSET (1..n)
        BY <4>0, Zenon
      <4>2. g[t] = f[t] /\ g[t \ {Max(t)}] = f[t \ {Max(t)}]
        <5>1. ASSUME NEW u \in SUBSET (1..n) PROVE g[u] = f[u]
          <6>1. u \in SUBSET (1..(n + 1)) /\ n + 1 \notin u
            OBVIOUS
          <6> QED  BY <6>1
        <5> HIDE DEF g
        <5> QED  BY <4>1, <5>1
      <4> HIDE DEF g
      <4> QED  BY <2>2, <4>1, <4>2
    <3> QED  BY <3>1, <3>2
  <2>4. PICK h : h = g
    OBVIOUS
  <2>5. h = [t \in SUBSET (1..(n + 1)) |-> h[t]]
    BY <2>4
  <2> HIDE DEF g
  <2>6. IsParse(h, s, base, 1..(n + 1))
    BY <2>3, <2>4, <2>5 DEF IsParse
  <2> QED  BY <2>6
<1> HIDE DEF S
<1>3. Nat \subseteq S
  BY <1>1, <1>2, SetInduction
<1> QED  BY <1>3 DEF S

(* Its rounds, for a number of one and of two digits.                      *)
LEMMA ParseRounds ==
  ASSUME NEW a, NEW b, NEW base
  PROVE  /\ FoldLeft(ParseDigit, base, <<a>>) = ParseDigit(base, a)
         /\ FoldLeft(ParseDigit, base, <<a, b>>) = ParseDigit(ParseDigit(base, a), b)
<1>1. ASSUME NEW s, NEW n \in Nat, DOMAIN s = 1..n
      PROVE  \E it : FoldLeft(ParseDigit, base, s) = it[1..n] /\ IsParse(it, s, base, 1..n)
  <2>1. PICK it : it = CHOOSE f : IsParse(f, s, base, DOMAIN s)
    OBVIOUS
  <2>2. FoldLeft(ParseDigit, base, s) = it[DOMAIN s]
    BY <2>1, Zenon DEF FoldLeft, MapThenFoldSet, IsParse
  <2>3. \E f : IsParse(f, s, base, DOMAIN s)
    BY <1>1, ParseExists
  <2>4. IsParse(it, s, base, DOMAIN s)
    BY <2>1, <2>3
  <2> QED  BY <1>1, <2>2, <2>4
<1>2. ASSUME NEW it, NEW s, NEW n \in Nat, IsParse(it, s, base, 1..n)
      PROVE  /\ it[{}] = base
             /\ 1 <= n => it[{1}] = ParseDigit(it[{}], s[1])
             /\ 2 <= n => it[{1, 2}] = ParseDigit(it[{1}], s[2])
  <2>1. \A t \in SUBSET (1..n) :
          it[t] = IF t = {} THEN base ELSE ParseDigit(it[t \ {Max(t)}], s[Max(t)])
    BY <1>2 DEF IsParse
  <2>2. it[{}] = base
    BY <2>1
  <2>3. ASSUME 1 <= n PROVE it[{1}] = ParseDigit(it[{}], s[1])
    <3>1. {1} \in SUBSET (1..n) /\ {1} # {}
      BY <2>3
    <3>2. Max({1}) = 1
      BY <3>1, MaxExists
    <3>3. {1} \ {1} = {}
      OBVIOUS
    <3> QED  BY <2>1, <3>1, <3>2, <3>3
  <2>4. ASSUME 2 <= n PROVE it[{1, 2}] = ParseDigit(it[{1}], s[2])
    <3>1. {1, 2} \in SUBSET (1..n) /\ {1, 2} # {}
      BY <2>4
    <3>2. Max({1, 2}) = 2
      <4>1. Max({1, 2}) \in {1, 2} /\ \A y \in {1, 2} : Max({1, 2}) >= y
        BY <3>1, MaxExists
      <4> QED  BY <4>1
    <3>3. {1, 2} \ {2} = {1}
      OBVIOUS
    <3> QED  BY <2>1, <3>1, <3>2, <3>3
  <2> QED  BY <2>2, <2>3, <2>4
<1>3. FoldLeft(ParseDigit, base, <<a>>) = ParseDigit(base, a)
  <2>1. DOMAIN <<a>> = 1..1 /\ 1..1 = {1} /\ <<a>>[1] = a /\ 1 \in Nat
    OBVIOUS
  <2>2. PICK it : FoldLeft(ParseDigit, base, <<a>>) = it[1..1] /\ IsParse(it, <<a>>, base, 1..1)
    BY <1>1, <2>1
  <2>s. PICK s : s = <<a>>
    OBVIOUS
  <2>3. PICK n \in Nat : n = 1
    OBVIOUS
  <2>4. it[{}] = base /\ it[{1}] = ParseDigit(it[{}], s[1])
    <3>1. IsParse(it, s, base, 1..n) /\ 1 <= n
      BY <2>s, <2>2, <2>3
    <3> QED  BY <1>2, <3>1
  <2> QED  BY <2>1, <2>2, <2>s, <2>4
<1>4. FoldLeft(ParseDigit, base, <<a, b>>) = ParseDigit(ParseDigit(base, a), b)
  <2>1. DOMAIN <<a, b>> = 1..2 /\ 1..2 = {1, 2} /\ <<a, b>>[1] = a /\ <<a, b>>[2] = b /\ 2 \in Nat
    OBVIOUS
  <2>2. PICK it : FoldLeft(ParseDigit, base, <<a, b>>) = it[1..2] /\ IsParse(it, <<a, b>>, base, 1..2)
    BY <1>1, <2>1
  <2>s. PICK s : s = <<a, b>>
    OBVIOUS
  <2>3. PICK n \in Nat : n = 2
    OBVIOUS
  <2>4. /\ it[{}] = base
        /\ it[{1}] = ParseDigit(it[{}], s[1])
        /\ it[{1, 2}] = ParseDigit(it[{1}], s[2])
    <3>1. IsParse(it, s, base, 1..n) /\ 1 <= n /\ 2 <= n
      BY <2>s, <2>2, <2>3
    <3> QED  BY <1>2, <3>1
  <2> QED  BY <2>1, <2>2, <2>s, <2>4
<1> QED  BY <1>3, <1>4

(* A digit that keeps the number in a byte.                                *)
LEMMA GoodDigit ==
  ASSUME NEW v \in Nat, NEW d \in 0..9, 10 * v + d <= 255
  PROVE  ParseDigit([val |-> v, err |-> FALSE], d) = [val |-> 10 * v + d, err |-> FALSE]
<1>1. PICK r : r = [val |-> v, err |-> FALSE]
  OBVIOUS
<1>2. r.val = v /\ ~ r.err
  BY <1>1, Zenon
<1>3. d # Junk /\ ~(10 * r.val + d > 255)
  BY <1>2 DEF Junk
<1>4. ParseDigit(r, d) = [val |-> 10 * r.val + d, err |-> FALSE]
  BY <1>2, <1>3, Zenon DEF ParseDigit
<1> QED  BY <1>1, <1>2, <1>4, Zenon

(* A LIN identifier written by Itoa is read back by ParseUint.             *)
LEMMA ParseItoa ==
  ASSUME NEW id \in 0..LINMaxID
  PROVE  ParseUint8(Itoa(id)) = [val |-> id, err |-> FALSE]
<1> DEFINE zero == [val |-> 0, err |-> FALSE]
<1>1. id \in 0..63
  BY DEF LINMaxID
<1>2. CASE id < 10
  <2>1. Itoa(id) = <<id>> /\ <<id>> # <<>>
    BY <1>1, <1>2 DEF Itoa
  <2>2. ParseUint8(Itoa(id)) = FoldLeft(ParseDigit, zero, <<id>>)
    BY <2>1, Zenon DEF ParseUint8
  <2>3. ParseDigit(zero, id) = [val |-> id, err |-> FALSE]
    <3>1. id \in 0..9 /\ 10 * 0 + id = id /\ id <= 255
      BY <1>1, <1>2
    <3>2. ParseDigit(zero, id) = [val |-> 10 * 0 + id, err |-> FALSE]
      BY <3>1, GoodDigit
    <3> QED  BY <3>1, <3>2
  <2> QED  BY <2>2, <2>3, ParseRounds
<1>3. CASE id >= 10
  <2>1. PICK a \in 0..9, b \in 0..9 : a = id \div 10 /\ b = id % 10 /\ id = 10 * a + b
    <3>1. id \div 10 \in 0..9 /\ id % 10 \in 0..9 /\ id = 10 * (id \div 10) + (id % 10)
      BY <1>1
    <3> QED  BY <3>1
  <2>2. Itoa(id) = <<a, b>> /\ <<a, b>> # <<>>
    BY <1>1, <1>3, <2>1 DEF Itoa
  <2>3. ParseUint8(Itoa(id)) = FoldLeft(ParseDigit, zero, <<a, b>>)
    BY <2>2, Zenon DEF ParseUint8
  <2>4. PICK ra : ra = [val |-> a, err |-> FALSE]
    OBVIOUS
  <2>5. ParseDigit(zero, a) = ra
    <3>1. 10 * 0 + a = a /\ a <= 255
      OBVIOUS
    <3>2. ParseDigit(zero, a) = [val |-> 10 * 0 + a, err |-> FALSE]
      BY <3>1, GoodDigit
    <3> QED  BY <2>4, <3>1, <3>2
  <2>6. ParseDigit(ra, b) = [val |-> id, err |-> FALSE]
    <3>1. a \in Nat /\ 10 * a + b = id /\ id <= 255
      BY <1>1, <2>1
    <3>2. ParseDigit([val |-> a, err |-> FALSE], b) = [val |-> 10 * a + b, err |-> FALSE]
      BY <3>1, GoodDigit
    <3> QED  BY <2>4, <3>1, <3>2
  <2>7. FoldLeft(ParseDigit, zero, <<a, b>>) = ParseDigit(ParseDigit(zero, a), b)
    BY ParseRounds, Zenon
  <2> QED  BY <2>3, <2>5, <2>6, <2>7, Zenon
<1> QED  BY <1>1, <1>2, <1>3

-----------------------------------------------------------------------------
(* The register of bus B.                                                  *)

(* What bus B holds of a frame that came through.                          *)
Entry(f) == [data |-> f.Data, ct |-> "enhanced"]

(* One more frame through: the last one of its identifier, of the others   *)
(* the same as before.                                                     *)
LEMMA LastAppend ==
  ASSUME NEW S, NEW q \in Seq(S), NEW k \in S, NEW id
  PROVE  LastOf(Append(q, k), id) = IF Traffic[k].ID = id THEN Entry(Traffic[k]) ELSE LastOf(q, id)
<1>0. Append(q, k) \in Seq(S)
  OBVIOUS
<1>1. PICK a \in Seq(S) : a = Append(q, k)
  BY <1>0
<1>2. PICK n \in Nat : n = Len(q)
  OBVIOUS
<1>3. /\ DOMAIN q = 1..n /\ DOMAIN a = 1..(n + 1) /\ a[n + 1] = k
      /\ \A i \in 1..n : a[i] = q[i]
  BY <1>1, <1>2
<1>4. PICK old : old = {i \in DOMAIN q : Traffic[q[i]].ID = id}
  OBVIOUS
<1>5. PICK new : new = {i \in DOMAIN a : Traffic[a[i]].ID = id}
  OBVIOUS
<1>6. /\ LastOf(q, id) = IF old = {} THEN NoEntry ELSE Entry(Traffic[q[Max(old)]])
      /\ LastOf(a, id) = IF new = {} THEN NoEntry ELSE Entry(Traffic[a[Max(new)]])
  BY <1>4, <1>5, Zenon DEF LastOf, Entry
<1>7. old \in SUBSET (1..n) /\ new \in SUBSET (1..(n + 1))
  BY <1>3, <1>4, <1>5
<1>8. CASE Traffic[k].ID = id
  <2>1. n + 1 \in new
    BY <1>3, <1>5, <1>8
  <2>2. PICK m \in Nat : m = n + 1
    OBVIOUS
  <2>3. new \in SUBSET (1..m) /\ new # {}
    BY <1>7, <2>1, <2>2
  <2>4. Max(new) \in new /\ \A y \in new : Max(new) >= y
    BY <2>3, MaxExists
  <2>5. Max(new) \in 1..(n + 1) /\ Max(new) >= n + 1
    BY <1>7, <2>1, <2>4
  <2>6. Max(new) = n + 1
    BY <2>5
  <2> QED  BY <1>1, <1>3, <1>6, <1>8, <2>3, <2>6
<1>9. CASE Traffic[k].ID # id
  <2>1. new = old
    BY <1>3, <1>4, <1>5, <1>9
  <2>2. CASE old = {}
    BY <1>1, <1>6, <1>9, <2>1, <2>2
  <2>3. CASE old # {}
    <3>1. Max(old) \in 1..n
      BY <1>7, <2>3, MaxExists
    <3> QED  BY <1>1, <1>3, <1>6, <1>9, <2>1, <2>3, <3>1
  <2> QED  BY <2>2, <2>3
<1> QED  BY <1>8, <1>9

(* The register in an answer of Publish.                                   *)
LEMMA RegOf ==
  ASSUME NEW e, NEW x, NEW r, r = [err |-> e, reg |-> x]
  PROVE  r.reg = x
OBVIOUS

(* A payload Publish takes for a withdrawal or refuses.                    *)
LEMMA Unfit ==
  ASSUME NEW d \in Seq(Byte) \cup {Nil}, d \in {Nil, <<>>} \/ Len(d) > LINMaxDataLen
  PROVE  d = Nil \/ Len(d) \notin 1..LINMaxDataLen
<1>1. CASE d = <<>>
  BY <1>1 DEF LINMaxDataLen
<1>2. CASE d # Nil /\ Len(d) > LINMaxDataLen
  <2>1. PICK n \in Nat : n = Len(d)
    <3>1. d \in Seq(Byte)
      BY <1>2
    <3> QED  BY <3>1, LenProperties
  <2>2. n \notin 1..LINMaxDataLen
    <3>1. LINMaxDataLen = 8
      BY DEF LINMaxDataLen
    <3>2. n > 8
      BY <1>2, <2>1, <3>1
    <3> QED  BY <3>1, <3>2
  <2> QED  BY <2>1, <2>2
<1> QED  BY <1>1, <1>2

(* A frame of bus A goes through both sinks unharmed: its identifier is    *)
(* read back and its data published.                                       *)
LEMMA HandleRouted ==
  ASSUME NEW f \in Range(Traffic)
  PROVE  /\ f.ID \in 0..LINMaxID
         /\ Handle(ToMessage(f)).reg = [reg EXCEPT ![f.ID] = Entry(f)]
<1>1. f.ID \in 0..LINMaxID /\ f.Data \in Seq(Byte) /\ Len(f.Data) \in 1..LINMaxDataLen
  <2>1. PICK i \in DOMAIN Traffic : f = Traffic[i]
    BY DEF Range
  <2> DEFINE Frame == [ID : 0..LINMaxID, Data : Seq(Byte), ChecksumType : LINChecksumType,
                       Checksum : Byte]
  <2>2. f \in Frame
    <3>1. Traffic \in Seq(Frame)
      BY RouteAssumption
    <3> HIDE DEF Frame
    <3> QED  BY <2>1, <3>1, ElementOfSeq
  <2> QED  BY <2>2, RouteAssumption
<1>2. f.Data # <<>> /\ f.Data # Nil
  BY <1>1, NilAssumption
<1>3. PICK m : m = ToMessage(f)
  OBVIOUS
<1>4. m.ID = Itoa(f.ID) /\ m.Payload = f.Data
  BY <1>2, <1>3 DEF ToMessage, Clone
<1>5. PICK id : id = ParseUint8(m.ID)
  OBVIOUS
<1>6. id.val = f.ID /\ ~ id.err
  <2>1. id = [val |-> f.ID, err |-> FALSE]
    BY <1>1, <1>4, <1>5, ParseItoa
  <2> QED  BY <2>1, Zenon
<1>7. ~(f.ID > LINMaxID) /\ Size(f.Data) = Len(f.Data) /\ ~(Len(f.Data) > LINMaxDataLen)
  <2>1. ~(f.ID > LINMaxID)
    <3>1. LINMaxID = 63
      BY DEF LINMaxID
    <3>2. f.ID \in 0..63
      BY <1>1, <3>1
    <3> QED  BY <3>1, <3>2
  <2>2. Size(f.Data) = Len(f.Data)
    BY <1>2 DEF Size
  <2>3. ~(Len(f.Data) > LINMaxDataLen)
    <3>1. LINMaxDataLen = 8
      BY DEF LINMaxDataLen
    <3>2. PICK n \in 1..8 : n = Len(f.Data)
      BY <1>1, <3>1
    <3>3. ~(n > LINMaxDataLen)
      BY <3>1
    <3> QED  BY <3>2, <3>3, Zenon
  <2> QED  BY <2>1, <2>2, <2>3
<1>8. Publish(reg, f.ID, f.Data) = [err |-> FALSE, reg |-> [reg EXCEPT ![f.ID] = Entry(f)]]
  BY <1>1, <1>2, <1>7, Zenon DEF Publish, Entry
<1>9. NodeSend(reg, m) = Publish(reg, f.ID, f.Data)
  BY <1>4, <1>5, <1>6, <1>7, Zenon DEF NodeSend
<1>10. StreamSend(reg, m) = Publish(reg, f.ID, f.Data)
  <2>1. PICK g : g = FromMessage(m)
    OBVIOUS
  <2>2. g = [err |-> FALSE, ID |-> f.ID, Data |-> f.Data,
             ChecksumType |-> IF m.checksum_type = "enhanced" THEN "enhanced" ELSE "classic",
             Checksum |-> ParseUint8(m.checksum).val]
    BY <1>2, <1>4, <1>5, <1>6, <1>7, <2>1, Zenon DEF FromMessage, Clone
  <2>3. ~ g.err /\ g.ID = f.ID /\ g.Data = f.Data
    BY <2>2, Zenon
  <2> QED  BY <2>1, <2>3, Zenon DEF StreamSend
<1>11. Handle(m) = Publish(reg, f.ID, f.Data)
  BY <1>9, <1>10, Zenon DEF Handle
<1>12. Handle(m).reg = [reg EXCEPT ![f.ID] = Entry(f)]
  BY <1>8, <1>11, RegOf
<1> QED  BY <1>1, <1>3, <1>12

(* The messages of the other spokes hold nothing a bus would publish: no   *)
(* data, too much of it, or no LIN identifier.                             *)
OthersUnfit ==
  \A m \in Others :
    /\ m.Payload \in Seq(Byte) \cup {Nil}
    /\ \/ m.Payload \in {Nil, <<>>}
       \/ Len(m.Payload) > LINMaxDataLen
       \/ ParseUint8(m.ID).err
       \/ ParseUint8(m.ID).val > LINMaxID

(* Such a message withdraws a response or does nothing.                    *)
LEMMA HandleOther ==
  ASSUME OthersUnfit, NEW m \in Others
  PROVE  \E id : Handle(m).reg \in {reg, [reg EXCEPT ![id] = NoEntry]}
<1>1. /\ m.Payload \in Seq(Byte) \cup {Nil}
      /\ \/ m.Payload \in {Nil, <<>>}
         \/ Len(m.Payload) > LINMaxDataLen
         \/ ParseUint8(m.ID).err
         \/ ParseUint8(m.ID).val > LINMaxID
  BY DEF OthersUnfit
<1>2. PICK id : id = ParseUint8(m.ID)
  OBVIOUS
<1>3. ASSUME NEW d, d = Nil \/ Len(d) \notin 1..LINMaxDataLen \/ id.val > LINMaxID
      PROVE  Publish(reg, id.val, d).reg \in {reg, [reg EXCEPT ![id.val] = NoEntry]}
  <2>1. CASE id.val > LINMaxID \/ (d # Nil /\ Len(d) \notin 1..LINMaxDataLen)
    <3>1. Publish(reg, id.val, d) = [err |-> TRUE, reg |-> reg]
      BY <2>1, Zenon DEF Publish
    <3> QED  BY <3>1, RegOf
  <2>2. CASE ~(id.val > LINMaxID \/ (d # Nil /\ Len(d) \notin 1..LINMaxDataLen))
    <3>1. d = Nil
      BY <1>3, <2>2
    <3>2. Publish(reg, id.val, d) = [err |-> FALSE, reg |-> [reg EXCEPT ![id.val] = NoEntry]]
      BY <2>2, <3>1, Zenon DEF Publish
    <3> QED  BY <3>2, RegOf
  <2> QED  BY <2>1, <2>2
<1>4. NodeSend(reg, m).reg \in {reg, [reg EXCEPT ![id.val] = NoEntry]}
  <2>1. CASE id.err \/ id.val > LINMaxID \/ Size(m.Payload) > LINMaxDataLen
    <3>1. NodeSend(reg, m) = [err |-> TRUE, reg |-> reg]
      BY <1>2, <2>1, Zenon DEF NodeSend
    <3> QED  BY <3>1, RegOf
  <2>2. CASE ~(id.err \/ id.val > LINMaxID \/ Size(m.Payload) > LINMaxDataLen)
    <3>1. NodeSend(reg, m) = Publish(reg, id.val, m.Payload)
      BY <1>2, <2>2, Zenon DEF NodeSend
    <3>2. m.Payload = Nil \/ Len(m.Payload) \notin 1..LINMaxDataLen
      <4>1. m.Payload \in {Nil, <<>>} \/ Len(m.Payload) > LINMaxDataLen
        BY <1>1, <1>2, <2>2
      <4> QED  BY <1>1, <4>1, Unfit
    <3> QED  BY <1>3, <3>1, <3>2
  <2> QED  BY <2>1, <2>2
<1>5. StreamSend(reg, m).reg \in {reg, [reg EXCEPT ![id.val] = NoEntry]}
  <2>1. PICK g : g = FromMessage(m)
    OBVIOUS
  <2>2. CASE id.err \/ id.val > LINMaxID
    <3>1. g = [err |-> TRUE]
      BY <1>2, <2>1, <2>2, Zenon DEF FromMessage, BadFrame
    <3>2. StreamSend(reg, m) = [err |-> TRUE, reg |-> reg]
      <4>1. g.err
        BY <3>1, Zenon
      <4> QED  BY <2>1, <4>1, Zenon DEF StreamSend
    <3> QED  BY <3>2, RegOf
  <2>3. CASE ~(id.err \/ id.val > LINMaxID)
    <3>1. g = [err |-> FALSE, ID |-> id.val, Data |-> Clone(m.Payload),
               ChecksumType |-> IF m.checksum_type = "enhanced" THEN "enhanced" ELSE "classic",
               Checksum |-> ParseUint8(m.checksum).val]
      BY <1>2, <2>1, <2>3, Zenon DEF FromMessage
    <3>2. ~ g.err /\ g.ID = id.val /\ g.Data = Clone(m.Payload)
      BY <3>1, Zenon
    <3>3. StreamSend(reg, m) = Publish(reg, id.val, Clone(m.Payload))
      BY <2>1, <3>2, Zenon DEF StreamSend
    <3>4. Clone(m.Payload) = Nil \/ Len(Clone(m.Payload)) \notin 1..LINMaxDataLen
      <4>1. m.Payload \in {Nil, <<>>} \/ Len(m.Payload) > LINMaxDataLen
        BY <1>1, <1>2, <2>3
      <4>2. Clone(m.Payload) = IF m.Payload = <<>> THEN Nil ELSE m.Payload
        BY DEF Clone
      <4> QED  BY <1>1, <4>1, <4>2, Unfit
    <3> QED  BY <1>3, <3>3, <3>4
  <2> QED  BY <2>2, <2>3
<1>6. Handle(m) \in {NodeSend(reg, m), StreamSend(reg, m)}
  BY DEF Handle
<1> QED  BY <1>4, <1>5, <1>6

-----------------------------------------------------------------------------
(* The route from end to end.                                              *)

(* heard lists what the bus put into the source's channel.                 *)
HeardInv ==
  /\ sent \in Nat
  /\ heard \in Seq(1..Len(Traffic)) /\ Len(heard) = delivered

(* A limit counts down with the messages written, and no frame is taken    *)
(* once it is used up.                                                     *)
LimitInv ==
  /\ limit \in Int /\ count \in Int
  /\ source \in {"Adapt", "subscribe"}
  /\ source = "Adapt" => limit = -1
  /\ source = "subscribe" => BackPressure = "Block"
  /\ limit < 0 => count < 0
  /\ limit >= 0 => count >= 0 /\ Len(Seen) + count = limit /\ (Holding => count > 0)

(* Block leaves no gaps.                                                   *)
BlockInv == BackPressure = "Block" => \A i \in 1..Len(Seen) : Seen[i].frame = i - 1

(* The source ends when its channel is used up, its limit is, or it is     *)
(* told to; the sink ends after it and with nothing left to read.          *)
EndInv ==
  /\ chClosed => pc = "done"
  /\ pc = "done" => framesClosed /\ (frames = <<>> \/ count = 0 \/ cancelled)
  /\ ended => chClosed /\ ch = <<>>

(* Every identifier of bus B, not only those of the traffic.               *)
RegInv ==
  /\ others \in Nat /\ DOMAIN reg = 0..LINMaxID
  /\ \A id \in 0..LINMaxID :
       \/ reg[id] = LastOf(Through, id)
       \/ others > 0 /\ reg[id] = NoEntry

(* A step of the source, or one that leaves its place alone.               *)
LEMMA SourceSteps ==
  ASSUME [RouteNext]_rvars
  PROVE  /\ UNCHANGED <<source, sink, limit>>
         /\ \/ pc' = pc /\ count' = count /\ chClosed' = chClosed
            \/ AdaptForward \/ SubscribeRange \/ SubscribeReturn \/ SubscribeWrite
<1>1. UNCHANGED <<source, sink, limit>>
  BY DEF RouteNext, Broadcast, CloseA, Source, AdaptForward, SubscribeRange, SubscribeReturn,
         SubscribeWrite, Signal, Sink, SinkOther, Stats, RouteOver, rvars, setup
<1>2. CASE Broadcast \/ CloseA
  BY <1>1, <1>2 DEF Broadcast, CloseA, Arrive, CloseBus, vars, fwd, out
<1>3. CASE Signal \/ SinkOther \/ Stats \/ RouteOver \/ UNCHANGED rvars
  BY <1>1, <1>3 DEF Signal, SinkOther, Stats, RouteOver, rvars, vars, fwd, out
<1>4. CASE Sink
  BY <1>1, <1>4 DEF Sink, Consume, fwd
<1> QED  BY <1>1, <1>2, <1>3, <1>4 DEF RouteNext, Source

(* heard grows with the channel.                                           *)
LEMMA HeardStep == HeardInv /\ [RouteNext]_rvars => HeardInv'
<1> SUFFICES ASSUME HeardInv, [RouteNext]_rvars PROVE HeardInv'
  OBVIOUS
<1>1. CASE UNCHANGED <<sent, heard, delivered>>
  BY <1>1 DEF HeardInv
<1>2. CASE Broadcast
  <2>1. sent' = sent + 1 /\ sent' \in Nat /\ sent + 1 \in 1..Len(Traffic)
    <3>1. Len(Traffic) \in Nat
      BY RouteAssumption
    <3> QED  BY <1>2, <3>1 DEF Broadcast, HeardInv
  <2>2. CASE Arrive /\ heard' = Append(heard, sent + 1)
    <3>1. delivered' = delivered + 1
      BY <2>2 DEF Arrive
    <3>2. PICK S : S = 1..Len(Traffic)
      OBVIOUS
    <3>3. heard \in Seq(S) /\ sent + 1 \in S
      BY <2>1, <3>2 DEF HeardInv
    <3>4. heard' \in Seq(S) /\ Len(heard') = Len(heard) + 1
      BY <2>2, <3>3
    <3> QED  BY <2>1, <3>1, <3>2, <3>4 DEF HeardInv
  <2>3. CASE UNCHANGED <<vars, heard>>
    BY <2>1, <2>3 DEF HeardInv, vars, in
  <2> QED  BY <1>2, <2>2, <2>3 DEF Broadcast
<1>3. CASE AdaptForward \/ SubscribeRange \/ SubscribeWrite
  BY <1>1, <1>3 DEF AdaptForward, SubscribeRange, SubscribeWrite, Forward, RangeFrames, Send, Drop,
                    MakeRoom, Evict, Resend, in
<1>4. CASE CloseA \/ SubscribeReturn \/ Sink
  BY <1>1, <1>4 DEF CloseA, CloseBus, SubscribeReturn, Sink, Consume, in
<1>5. CASE Signal \/ SinkOther \/ Stats \/ RouteOver \/ UNCHANGED rvars
  BY <1>1, <1>5 DEF Signal, SinkOther, Stats, RouteOver, rvars, vars, in
<1> QED  BY <1>2, <1>3, <1>4, <1>5 DEF RouteNext, Source

(* The countdown, one step of the source at a time.                        *)
LEMMA LimitStep == AdapterInv /\ LimitInv /\ [RouteNext]_rvars => LimitInv'
<1> SUFFICES ASSUME AdapterInv, LimitInv, [RouteNext]_rvars PROVE LimitInv'
  OBVIOUS
<1>1. ForwardInv /\ Step /\ UNCHANGED <<source, limit>>
  BY RouteSteps, SourceSteps DEF AdapterInv
<1>2. BackPressure' = BackPressure
  BY <1>1, HandledEffect
<1>3. Len(Seen) \in Nat
  BY <1>1, SeenEffect
<1>4. ASSUME Seen' = Seen, count' = count, Holding' => Holding \/ count # 0 PROVE LimitInv'
  <2>1. limit >= 0 => Len(Seen') + count' = limit /\ (Holding' => count' > 0)
    BY <1>4 DEF LimitInv
  <2> QED  BY <1>1, <1>2, <1>4, <2>1 DEF LimitInv
<1>5. CASE pc' = pc /\ count' = count
  <2>1. ~(Send \/ Resend) /\ ~Evict
    BY <1>5 DEF Send, Resend, Put, Evict
  <2>2. Seen' = Seen
    BY <1>1, <2>1, SeenEffect
  <2> QED  BY <1>4, <1>5, <2>2 DEF Holding
<1>6. CASE AdaptForward
  <2>1. source = "Adapt" /\ count' = count
    BY <1>6 DEF AdaptForward
  <2>2. ~(limit >= 0)
    BY <2>1 DEF LimitInv
  <2> QED  BY <1>1, <1>2, <2>1, <2>2 DEF LimitInv
<1>7. CASE SubscribeRange
  <2>1. count # 0 /\ count' = count /\ Seen' = Seen
    BY <1>7 DEF SubscribeRange, RangeFrames, user, Seen
  <2> QED  BY <1>4, <2>1
<1>8. CASE SubscribeReturn
  <2>1. count' = count /\ Seen' = Seen /\ ~Holding'
    BY <1>8 DEF SubscribeReturn, user, Seen, Holding
  <2> QED  BY <1>4, <2>1
<1>9. CASE SubscribeWrite
  <2>1. source = "subscribe" /\ Send /\ count' = CountDown
    BY <1>9 DEF SubscribeWrite
  <2>2. Len(Seen') = Len(Seen) + 1
    BY <1>1, <2>1, SeenEffect
  <2>3. Holding /\ ~Holding'
    BY <2>1 DEF Send, Put, Holding
  <2>4. limit >= 0 => count > 0 /\ count' = count - 1
    BY <2>1, <2>3 DEF LimitInv, CountDown
  <2>5. limit < 0 => count' = count
    BY <2>1 DEF LimitInv, CountDown
  <2>6. limit >= 0 => count' \in Int /\ count' >= 0 /\ Len(Seen') + count' = limit
    BY <1>3, <2>2, <2>4 DEF LimitInv
  <2> QED  BY <1>1, <1>2, <2>3, <2>5, <2>6 DEF LimitInv
<1> QED  BY <1>5, <1>6, <1>7, <1>8, <1>9, SourceSteps

(* Under Block a message comes in at the place of its number.              *)
LEMMA BlockStep == AdapterInv /\ BlockInv /\ Step => BlockInv'
<1> SUFFICES ASSUME AdapterInv, BlockInv, Step, BackPressure = "Block"
             PROVE  \A i \in 1..Len(Seen') : Seen'[i].frame = i - 1
  BY HandledEffect DEF BlockInv, AdapterInv
<1>1. ForwardInv /\ PolicyInv
  BY DEF AdapterInv
<1>2. PICK s \in Seq(Msg) : s = Seen
  BY <1>1, SeenEffect
<1>3. PICK t : t = Seen'
  OBVIOUS
<1>4. Len(s) \in Nat /\ \A i \in 1..Len(s) : s[i].frame = i - 1
  BY <1>2 DEF BlockInv
<1>5. CASE Send \/ Resend
  <2>1. Len(s) = seq - 1
    BY <1>1, <1>2, <1>5, HandledEffect DEF PolicyInv
  <2>2. /\ Len(t) = Len(s) + 1
        /\ t[Len(s) + 1] = [frame |-> Len(s), Seq |-> Len(s)]
        /\ \A i \in 1..Len(s) : t[i] = s[i]
    BY <1>1, <1>2, <1>3, <1>5, <2>1, SeenEffect
  <2>3. t[Len(s) + 1].frame = Len(s)
    BY <2>2
  <2>4. \A i \in 1..Len(t) : t[i].frame = i - 1
    BY <1>4, <2>2, <2>3
  <2> QED  BY <1>3, <2>4
<1>6. CASE Evict
  BY <1>1, <1>6 DEF PolicyInv, Evict
<1>7. CASE ~(Send \/ Resend) /\ ~Evict
  BY <1>1, <1>2, <1>4, <1>7, SeenEffect
<1> QED  BY <1>5, <1>6, <1>7

(* The order in which the ends come.                                       *)
LEMMA EndStep == EndInv /\ [RouteNext]_rvars => EndInv'
<1> SUFFICES ASSUME EndInv, [RouteNext]_rvars PROVE EndInv'
  OBVIOUS
<1>1. CASE Broadcast
  <2>1. ~framesClosed /\ UNCHANGED <<pc, chClosed, ch, ended, framesClosed>>
    BY <1>1 DEF Broadcast, Arrive, vars, in, fwd, out, user
  <2>2. pc # "done"
    BY <2>1 DEF EndInv
  <2> QED  BY <2>1, <2>2 DEF EndInv
<1>2. CASE CloseA
  <2>1. framesClosed' /\ UNCHANGED <<pc, frames, chClosed, ch, ended, count, cancelled>>
    BY <1>2 DEF CloseA, CloseBus, fwd, out, user
  <2> QED  BY <2>1 DEF EndInv
<1>3. CASE pc # "done" /\ pc' # "done" /\ UNCHANGED <<chClosed, ended>>
  BY <1>3 DEF EndInv
<1>4. CASE RangeFrames /\ UNCHANGED <<count, cancelled>>
  <2>1. pc = "range" /\ ~chClosed /\ ~ended /\ ended' = ended
    BY <1>4 DEF RangeFrames, EndInv, user
  <2>2. CASE frames # <<>>
    BY <1>3, <1>4, <2>1, <2>2 DEF RangeFrames
  <2>3. CASE frames = <<>>
    <3>1. framesClosed /\ framesClosed' = framesClosed /\ frames' = <<>> /\ pc' = "done"
      BY <1>4, <2>3 DEF RangeFrames
    <3> QED  BY <2>1, <3>1 DEF EndInv
  <2> QED  BY <2>2, <2>3
<1>5. CASE AdaptForward
  <2>1. CASE Send \/ Drop \/ MakeRoom \/ Evict \/ Resend
    BY <1>3, <2>1 DEF Send, Drop, MakeRoom, Evict, Resend, Put, out, user
  <2> QED  BY <1>4, <1>5, <2>1 DEF AdaptForward, Forward
<1>6. CASE SubscribeRange
  BY <1>4, <1>6 DEF SubscribeRange
<1>7. CASE SubscribeReturn
  <2>1. pc = "range" /\ (count = 0 \/ cancelled) /\ pc' = "done" /\ framesClosed'
        /\ UNCHANGED <<count, cancelled, ended>>
    BY <1>7 DEF SubscribeReturn, user
  <2>2. ~ended
    BY <2>1 DEF EndInv
  <2> QED  BY <2>1, <2>2 DEF EndInv
<1>8. CASE SubscribeWrite
  BY <1>3, <1>8 DEF SubscribeWrite, Send, Put, user
<1>9. CASE Signal
  <2>1. cancelled' /\ UNCHANGED <<pc, framesClosed, chClosed, ch, ended>>
    BY <1>9 DEF Signal, vars, in, fwd, out, user
  <2> QED  BY <2>1 DEF EndInv
<1>10. CASE Sink
  <2>1. ~ended /\ UNCHANGED <<pc, framesClosed, frames, chClosed, count, cancelled>>
    BY <1>10 DEF Sink, Consume, in, fwd
  <2>2. CASE ch # <<>>
    <3>1. ended' = ended
      BY <1>10, <2>2 DEF Sink, Consume
    <3> QED  BY <2>1, <3>1 DEF EndInv
  <2>3. CASE ch = <<>>
    <3>1. chClosed /\ ch' = ch
      BY <1>10, <2>3 DEF Sink, Consume
    <3> QED  BY <2>1, <2>3, <3>1 DEF EndInv
  <2> QED  BY <2>2, <2>3
<1>11. CASE SinkOther \/ Stats \/ RouteOver \/ UNCHANGED rvars
  <2>1. UNCHANGED <<pc, framesClosed, frames, chClosed, ch, ended, count, cancelled>>
    BY <1>11 DEF SinkOther, Stats, RouteOver, rvars, vars, in, fwd, out, user
  <2> QED  BY <2>1 DEF EndInv
<1> QED  BY <1>1, <1>2, <1>5, <1>6, <1>7, <1>8, <1>9, <1>10, <1>11 DEF RouteNext, Source

(* What is in the channels was heard.                                      *)
LEMMA Reach ==
  ASSUME AdapterInv, HeardInv
  PROVE  /\ got \in Seq(Msg) /\ Len(got) \in Nat /\ Len(heard) \in Nat
         /\ \A i \in 1..Len(got) : got[i] = Seen[i] /\ got[i].frame + 1 \in 1..Len(heard)
         /\ ch # <<>> => Head(ch) \in Msg /\ Head(ch).frame + 1 \in 1..Len(heard)
<1>1. got \in Seq(Msg) /\ ch \in Seq(Msg) /\ Len(got) \in Nat /\ Len(ch) \in Nat
  <2>1. got \in Seq(Msg) /\ ch \in Seq(Msg)
    BY DEF AdapterInv, ForwardInv
  <2> QED  BY <2>1, LenProperties
<1>2. /\ Seen \in Seq(Msg) /\ Len(Seen) = Len(got) + Len(ch)
      /\ \A i \in 1..(Len(got) + Len(ch)) : Seen[i] = IF i <= Len(got) THEN got[i] ELSE ch[i - Len(got)]
  BY <1>1, ConcatProperties DEF Seen
<1>3. Handled \in Nat /\ Handled <= Len(heard) /\ Len(heard) \in Nat
  <2>1. seq \in Nat /\ Len(frames) \in Nat /\ Len(frames) = delivered - seq /\ delivered = Len(heard)
        /\ delivered \in Nat /\ (Holding => seq > 0)
    BY DEF AdapterInv, ForwardInv, HeardInv
  <2> QED  BY <2>1 DEF Handled
<1>4. ASSUME NEW i \in 1..Len(Seen) PROVE Seen[i] \in Msg /\ Seen[i].frame + 1 \in 1..Len(heard)
  <2>1. Seen[i] \in Msg
    <3> HIDE DEF Msg
    <3> QED  BY <1>2, ElementOfSeq
  <2>2. Seen[i].frame \in Nat /\ Seen[i].frame < Handled
    BY <2>1 DEF Msg, AdapterInv, OrderInv, InOrder
  <2> QED  BY <1>3, <2>1, <2>2
<1>5. ASSUME NEW i \in 1..Len(got)
      PROVE  got[i] = Seen[i] /\ got[i].frame + 1 \in 1..Len(heard)
  <2>1. i \in 1..Len(Seen) /\ got[i] = Seen[i]
    BY <1>1, <1>2
  <2> QED  BY <1>4, <2>1
<1>6. ASSUME ch # <<>> PROVE Head(ch) \in Msg /\ Head(ch).frame + 1 \in 1..Len(heard)
  <2>1. Head(ch) = ch[1] /\ Len(ch) >= 1
    BY <1>1, <1>6
  <2>2. PICK k \in 1..Len(Seen) : k = Len(got) + 1
    BY <1>1, <1>2, <2>1
  <2>3. Seen[k] = ch[1]
    BY <1>1, <1>2, <2>1, <2>2
  <2> QED  BY <1>4, <2>1, <2>3
<1> QED  BY <1>1, <1>3, <1>5, <1>6

(* Through names frames of the traffic.                                    *)
LEMMA ThroughType ==
  ASSUME AdapterInv, HeardInv
  PROVE  Through \in Seq(1..Len(Traffic)) /\ Len(Through) = Len(got)
         /\ \A i \in 1..Len(got) : Through[i] = heard[got[i].frame + 1]
<1>1. PICK S : S = 1..Len(Traffic)
  OBVIOUS
<1>2. heard \in Seq(S)
  BY <1>1 DEF HeardInv
<1>3. PICK n \in Nat : n = Len(got)
  BY Reach
<1>4. DOMAIN got = 1..n
  BY <1>3, Reach
<1>5. Through = [i \in 1..n |-> heard[got[i].frame + 1]]
  BY <1>4 DEF Through
<1>6. \A i \in 1..n : heard[got[i].frame + 1] \in S
  <2> SUFFICES ASSUME NEW i \in 1..n PROVE heard[got[i].frame + 1] \in S
    OBVIOUS
  <2>1. got[i].frame + 1 \in 1..Len(heard)
    BY <1>3, Reach
  <2> QED  BY <1>2, <2>1, ElementOfSeq
<1>7. Through \in Seq(S) /\ Len(Through) = n /\ \A i \in 1..n : Through[i] = heard[got[i].frame + 1]
  BY <1>5, <1>6
<1> QED  BY <1>1, <1>3, <1>7

(* What came through stays as it is while heard grows.                     *)
LEMMA ThroughKept ==
  ASSUME AdapterInv, HeardInv, [RouteNext]_rvars, got' = got
  PROVE  Through' = Through
<1>1. ASSUME NEW i \in 1..Len(heard) PROVE heard'[i] = heard[i]
  <2>1. CASE heard' = heard
    BY <2>1
  <2>2. CASE heard' = Append(heard, sent + 1)
    BY <2>2 DEF HeardInv
  <2> QED  BY <2>1, <2>2 DEF RouteNext, Broadcast, CloseA, Source, AdaptForward, SubscribeRange,
                SubscribeReturn, SubscribeWrite, Signal, Sink, SinkOther, Stats, RouteOver, rvars
<1>2. \A i \in DOMAIN got : got[i].frame + 1 \in 1..Len(heard)
  BY Reach
<1>3. Through' = [i \in DOMAIN got |-> heard'[got[i].frame + 1]]
  BY DEF Through
<1> QED  BY <1>1, <1>2, <1>3 DEF Through

(* A message of the route becomes the last one of its identifier, on bus B *)
(* as in Through.                                                          *)
LEMMA SinkTakes ==
  ASSUME AdapterInv, HeardInv, RegInv, Sink, ch # <<>>
  PROVE  RegInv'
<1>1. /\ got' = Append(got, Head(ch)) /\ heard' = heard /\ others' = others
      /\ \E m \in {Routed(Head(ch))} : Accept(m)
  BY DEF Sink, Consume
<1>2. PICK k : k = heard[Head(ch).frame + 1]
  OBVIOUS
<1>3. k \in 1..Len(Traffic)
  <2>1. PICK S : S = 1..Len(Traffic)
    OBVIOUS
  <2>2. heard \in Seq(S) /\ Head(ch).frame + 1 \in 1..Len(heard)
    BY <2>1, Reach DEF HeardInv
  <2>3. heard[Head(ch).frame + 1] \in S
    BY <2>2, ElementOfSeq
  <2> QED  BY <1>2, <2>1, <2>3
<1>4. PICK f : f = Traffic[k]
  OBVIOUS
<1>5. f \in Range(Traffic)
  <2>1. DOMAIN Traffic = 1..Len(Traffic)
    BY RouteAssumption
  <2> QED  BY <1>3, <1>4, <2>1 DEF Range
<1>6. reg' = [reg EXCEPT ![f.ID] = Entry(f)] /\ f.ID \in 0..LINMaxID
  <2>1. reg' = Handle(ToMessage(f)).reg
    BY <1>1, <1>2, <1>4 DEF Accept, Routed
  <2> QED  BY <1>5, <2>1, HandleRouted
<1>7. Through' = Append(Through, k)
  <2>1. PICK n \in Nat : n = Len(got)
    BY Reach
  <2>2. got \in Seq(Msg) /\ Head(ch) \in Msg
    BY Reach
  <2>3. PICK g : g = Append(got, Head(ch))
    OBVIOUS
  <2>4. /\ DOMAIN g = 1..(n + 1) /\ g[n + 1] = Head(ch)
        /\ \A i \in 1..n : g[i] = got[i]
    <3> HIDE DEF Msg
    <3> QED  BY <2>1, <2>2, <2>3
  <2>5. Through' = [i \in 1..(n + 1) |-> heard[g[i].frame + 1]]
    BY <1>1, <2>3, <2>4 DEF Through
  <2>6. PICK S : S = 1..Len(Traffic)
    OBVIOUS
  <2>7. PICK q \in Seq(S) : q = Through
    BY <2>6, ThroughType
  <2>8. Len(q) = n /\ \A i \in 1..n : q[i] = heard[g[i].frame + 1]
    BY <2>1, <2>4, <2>7, ThroughType
  <2>9. k \in S /\ k = heard[g[n + 1].frame + 1]
    BY <1>2, <1>3, <2>4, <2>6
  <2>10. PICK h : h = [i \in 1..(n + 1) |-> heard[g[i].frame + 1]]
    OBVIOUS
  <2>11. \A i \in 1..(n + 1) : h[i] = IF i = n + 1 THEN k ELSE q[i]
    BY <2>8, <2>9, <2>10
  <2>12. DOMAIN h = 1..(n + 1) /\ h = [i \in 1..(n + 1) |-> h[i]]
    BY <2>10
  <2>13. /\ DOMAIN Append(q, k) = 1..(n + 1)
         /\ \A i \in 1..(n + 1) : Append(q, k)[i] = IF i = n + 1 THEN k ELSE q[i]
         /\ Append(q, k) \in Seq(S)
    BY <2>8, <2>9
  <2>14. h = Append(q, k)
    <3>1. h \in Seq(S)
      <4>1. \A i \in 1..(n + 1) : h[i] \in S
        BY <2>11, <2>13, ElementOfSeq
      <4>2. h = [i \in 1..(n + 1) |-> h[i]] /\ n + 1 \in Nat
        BY <2>12
      <4>3. h \in [1..(n + 1) -> S]
        BY <4>1, <4>2
      <4> QED  BY <4>2, <4>3, SeqDef
    <3>2. Len(h) = Len(Append(q, k)) /\ Len(h) = n + 1
      BY <2>8, <2>9, <2>12
    <3> QED  BY <2>11, <2>13, <3>1, <3>2, SeqEqual
  <2> QED  BY <2>5, <2>7, <2>10, <2>14
<1>8. ASSUME NEW id \in 0..LINMaxID
      PROVE  reg'[id] = LastOf(Through', id) \/ (others' > 0 /\ reg'[id] = NoEntry)
  <2>1. LastOf(Through', id) = IF f.ID = id THEN Entry(f) ELSE LastOf(Through, id)
    <3>1. PICK S : S = 1..Len(Traffic)
      OBVIOUS
    <3>2. Through \in Seq(S) /\ k \in S
      BY <1>3, <3>1, ThroughType
    <3>3. LastOf(Append(Through, k), id)
            = IF Traffic[k].ID = id THEN Entry(Traffic[k]) ELSE LastOf(Through, id)
      BY <3>2, LastAppend
    <3> QED  BY <1>4, <1>7, <3>3
  <2>2. reg'[id] = IF f.ID = id THEN Entry(f) ELSE reg[id]
    BY <1>6 DEF RegInv
  <2>3. reg[id] = LastOf(Through, id) \/ (others > 0 /\ reg[id] = NoEntry)
    BY DEF RegInv
  <2> QED  BY <1>1, <2>1, <2>2, <2>3
<1>9. DOMAIN reg' = 0..LINMaxID /\ others' \in Nat
  BY <1>1, <1>6 DEF RegInv
<1>10. \A id \in 0..LINMaxID :
         LET lo == LastOf(Through, id) IN reg'[id] = lo' \/ (others' > 0 /\ reg'[id] = NoEntry)
  BY <1>8 DEF LastOf
<1> QED  BY <1>9, <1>10 DEF RegInv, LastOf

(* Bus B after any step.                                                   *)
LEMMA RegStep ==
  ASSUME OthersUnfit, AdapterInv, HeardInv, RegInv, [RouteNext]_rvars
  PROVE  RegInv'
<1>1. CASE UNCHANGED <<reg, others, got>>
  <2>1. Through' = Through
    BY <1>1, ThroughKept
  <2> QED  BY <1>1, <2>1 DEF RegInv, LastOf
<1>2. CASE Sink
  <2>1. CASE ch = <<>>
    <3>1. UNCHANGED <<reg, others, got>>
      BY <1>2, <2>1 DEF Sink, Consume
    <3> QED  BY <1>1, <3>1
  <2> QED  BY <1>2, <2>1, SinkTakes
<1>3. CASE SinkOther
  <2>1. others' = others + 1 /\ got' = got /\ \E m \in Others : Accept(m)
    BY <1>3 DEF SinkOther, vars, user
  <2>2. Through' = Through
    BY <2>1, ThroughKept
  <2>3. PICK m \in Others : reg' = Handle(m).reg
    BY <2>1 DEF Accept
  <2>4. PICK id : reg' \in {reg, [reg EXCEPT ![id] = NoEntry]}
    BY <2>3, HandleOther
  <2>5. DOMAIN reg' = 0..LINMaxID /\ \A x \in 0..LINMaxID : reg'[x] \in {reg[x], NoEntry}
    BY <2>4 DEF RegInv
  <2>6. others' \in Nat /\ others' > 0
    BY <2>1 DEF RegInv
  <2> QED  BY <2>2, <2>5, <2>6 DEF RegInv, LastOf
<1>4. CASE Broadcast \/ CloseA
  BY <1>1, <1>4 DEF Broadcast, CloseA, Arrive, CloseBus, vars, user, far
<1>5. CASE AdaptForward \/ SubscribeRange \/ SubscribeReturn \/ SubscribeWrite
  BY <1>1, <1>5 DEF AdaptForward, SubscribeRange, SubscribeReturn, SubscribeWrite, Forward,
                    RangeFrames, Send, Drop, MakeRoom, Evict, Resend, user, far
<1>6. CASE Signal \/ Stats \/ RouteOver \/ UNCHANGED rvars
  BY <1>1, <1>6 DEF Signal, Stats, RouteOver, rvars, vars, user, far
<1> QED  BY <1>2, <1>3, <1>4, <1>5, <1>6 DEF RouteNext, Source

RouteInv == HeardInv /\ LimitInv /\ BlockInv /\ EndInv /\ RegInv

(* The route begins so.                                                    *)
LEMMA RouteStart == RouteInit => RouteInv
<1> SUFFICES ASSUME RouteInit PROVE RouteInv
  OBVIOUS
<1>1. /\ pc = "range" /\ delivered = 0 /\ got = <<>> /\ ch = <<>> /\ ~chClosed /\ ~ended
      /\ ~Holding
  BY DEF RouteInit, Init, Holding
<1>2. Seen = <<>> /\ Len(Seen) = 0
  BY <1>1 DEF Seen
<1>3. HeardInv
  BY <1>1 DEF RouteInit, HeardInv
<1>4. LimitInv
  <2>1. limit \in Nat \cup {-1} /\ source \in {"Adapt", "subscribe"} /\ count = limit
        /\ (source = "Adapt" => limit = -1) /\ (source = "subscribe" => BackPressure = "Block")
    BY RouteAssumption DEF RouteInit
  <2> QED  BY <1>1, <1>2, <2>1 DEF LimitInv
<1>5. BlockInv
  BY <1>2 DEF BlockInv
<1>6. EndInv
  BY <1>1 DEF EndInv
<1>7. RegInv
  <2>1. Through = <<>>
    BY <1>1 DEF Through
  <2>2. ASSUME NEW id PROVE LastOf(Through, id) = NoEntry
    BY <2>1 DEF LastOf
  <2>3. DOMAIN reg = 0..LINMaxID /\ others \in Nat /\ \A id \in 0..LINMaxID : reg[id] = NoEntry
    BY DEF RouteInit
  <2> QED  BY <2>2, <2>3 DEF RegInv
<1> QED  BY <1>3, <1>4, <1>5, <1>6, <1>7 DEF RouteInv

(* At the end of a route that does not drop, what came through is what was *)
(* heard, up to the limit.                                                 *)
LEMMA EndOfRoute ==
  ASSUME AdapterInv, RouteInv, ended, BackPressure = "Block", ~cancelled
  PROVE  Through = IF limit < 0 \/ limit > Len(heard) THEN heard ELSE SubSeq(heard, 1, limit)
<1>1. pc = "done" /\ ch = <<>> /\ (frames = <<>> \/ count = 0)
  BY DEF RouteInv, EndInv
<1>2. PICK n \in Nat : n = Len(got)
  BY Reach DEF RouteInv
<1>3. Seen = got
  <2>1. got \in Seq(Msg)
    BY Reach DEF RouteInv
  <2> HIDE DEF Msg
  <2> QED  BY <1>1, <2>1 DEF Seen
<1>4. n = seq /\ seq \in Nat
  BY <1>1, <1>2, <1>3 DEF AdapterInv, PolicyInv, ForwardInv, Handled, Holding
<1>5. PICK S : S = 1..Len(Traffic)
  OBVIOUS
<1>6. PICK h \in Seq(S) : h = heard
  BY <1>5 DEF RouteInv, HeardInv
<1>7. Len(h) \in Nat /\ n <= Len(h) /\ (frames = <<>> => n = Len(h))
  <2>1. Len(frames) \in Nat /\ Len(frames) = delivered - seq /\ delivered = Len(h) /\ delivered \in Nat
    BY <1>6 DEF AdapterInv, ForwardInv, RouteInv, HeardInv
  <2>2. frames = <<>> => Len(frames) = 0
    OBVIOUS
  <2> QED  BY <1>4, <2>1, <2>2
<1>8. PICK q \in Seq(S) : q = Through
  BY <1>5, ThroughType DEF RouteInv
<1>9. Len(q) = n /\ \A i \in 1..n : q[i] = h[i]
  <2>1. Len(q) = n /\ \A i \in 1..n : q[i] = h[got[i].frame + 1]
    BY <1>2, <1>6, <1>8, ThroughType DEF RouteInv
  <2>2. \A i \in 1..n : got[i].frame = i - 1
    BY <1>2, <1>3 DEF RouteInv, BlockInv
  <2> QED  BY <2>1, <2>2
<1>10. n = Len(h) => q = h
  BY <1>9, SeqEqual
<1>11. LimitInv
  BY DEF RouteInv
<1>12. CASE limit < 0 \/ limit > Len(h)
  <2>1. count # 0
    BY <1>2, <1>3, <1>7, <1>11, <1>12 DEF LimitInv
  <2> QED  BY <1>1, <1>6, <1>7, <1>8, <1>10, <1>12, <2>1
<1>13. CASE ~(limit < 0 \/ limit > Len(h))
  <2>1. limit \in 0..Len(h) /\ n + count = limit /\ count >= 0 /\ count \in Int
    BY <1>2, <1>3, <1>7, <1>11, <1>13 DEF LimitInv
  <2>2. n = limit
    BY <1>1, <1>7, <2>1
  <2>3. /\ SubSeq(h, 1, n) \in Seq(S) /\ Len(SubSeq(h, 1, n)) = n
        /\ \A i \in 1..n : SubSeq(h, 1, n)[i] = h[i]
    BY <1>7, SubSeqProperties
  <2>4. q = SubSeq(h, 1, n)
    BY <1>9, <2>3, SeqEqual
  <2> QED  BY <1>6, <1>8, <1>13, <2>2, <2>4
<1> QED  BY <1>6, <1>12, <1>13

(* Bus B answers every identifier of bus A's traffic with the newest frame *)
(* of it that came through, or not at all after another spoke withdrew it; *)
(* a limit is never exceeded; and a route that does not drop ends with     *)
(* exactly the frames it heard up to the limit.  For sinks whose other     *)
(* spokes publish nothing of their own (adapt.go 39-87, cmd/go-lin/main.go *)
(* 230-340).                                                               *)
THEOREM RouteRight ==
  ASSUME OthersUnfit
  PROVE  RouteSpec => []RouteFaithful
<1>1. AdapterInv /\ RouteInv => RouteFaithful
  <2> SUFFICES ASSUME AdapterInv, RouteInv PROVE RouteFaithful
    OBVIOUS
  <2>1. ASSUME NEW f \in Range(Traffic)
        PROVE  reg[f.ID] = LastOf(Through, f.ID) \/ (others > 0 /\ reg[f.ID] = NoEntry)
    BY HandleRouted DEF RouteInv, RegInv
  <2>2. ASSUME limit >= 0 PROVE Len(got) <= limit
    <3>1. Len(Seen) = Len(got) + Len(ch) /\ Len(got) \in Nat /\ Len(ch) \in Nat
      <4>1. got \in Seq(Msg) /\ ch \in Seq(Msg)
        BY DEF AdapterInv, ForwardInv
      <4> QED  BY <4>1, ConcatProperties, LenProperties DEF Seen
    <3>2. count >= 0 /\ Len(Seen) + count = limit /\ count \in Int /\ limit \in Int
      BY <2>2 DEF RouteInv, LimitInv
    <3> QED  BY <3>1, <3>2
  <2>3. ASSUME ended, BackPressure = "Block", ~cancelled
        PROVE  Through = IF limit < 0 \/ limit > Len(heard) THEN heard ELSE SubSeq(heard, 1, limit)
    BY <2>3, EndOfRoute
  <2> QED  BY <2>1, <2>2, <2>3 DEF RouteFaithful
<1>2. AdapterInv /\ RouteInv /\ [RouteNext]_rvars => RouteInv'
  BY RouteSteps, HeardStep, LimitStep, BlockStep, EndStep, RegStep DEF RouteInv
<1> QED  BY <1>1, <1>2, RouteStart, AdapterInvariance, PTL DEF RouteSpec
=============================================================================
