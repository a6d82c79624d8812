-------------------------- MODULE VirtualBusProofs --------------------------
(***************************************************************************)
(* What VirtualBus guarantees for every set of goroutines, every menu of   *)
(* calls and every channel capacity.  TypeOK is not inductive by itself:   *)
(* Publish may use its arguments, and CountDelivery its cursor, only       *)
(* because of what LockInv says of the goroutine's position.               *)
(***************************************************************************)
EXTENDS VirtualBus, SequenceTheorems, TLAPS

IInv == TypeOK /\ LockInv

-----------------------------------------------------------------------------
(* Replacing one element of a sequence gives a sequence of the same length.*)
LEMMA SeqUpdate ==
  ASSUME NEW S, NEW q \in Seq(S), NEW i \in DOMAIN q, NEW e \in S
  PROVE  /\ [q EXCEPT ![i] = e] \in Seq(S)
         /\ DOMAIN [q EXCEPT ![i] = e] = DOMAIN q
  OBVIOUS

(* A function on the domain of a sequence is a sequence.                   *)
LEMMA SameDomainSeq ==
  ASSUME NEW S, NEW T, NEW q \in Seq(S), NEW f \in [DOMAIN q -> T]
  PROVE  f \in Seq(T)
  OBVIOUS

(* A sequence over a set is one over every larger set.                     *)
LEMMA SeqMono ==
  ASSUME NEW S, NEW T, S \subseteq T, NEW q \in Seq(S)
  PROVE  q \in Seq(T)
  OBVIOUS

(* The head and the tail of a non-empty sequence.                          *)
LEMMA TailSeq ==
  ASSUME NEW S, NEW q \in Seq(S), q # <<>>
  PROVE  /\ Tail(q) \in Seq(S)
         /\ Head(q) \in S
         /\ 1 \in DOMAIN q /\ Head(q) = q[1]
         /\ \A i \in DOMAIN Tail(q) : i + 1 \in DOMAIN q /\ Tail(q)[i] = q[i + 1]
  OBVIOUS

(* What the operation of a call says of its arguments.                     *)
LEMMA CallArgs ==
  ASSUME NEW c \in Call
  PROVE  /\ c.op = "Publish" =>
              c.id \in Byte /\ c.data \in {Nil} \cup Seq(Byte) /\ c.ct \in LINChecksumType
         /\ c.op = "SendHeader" => c.id \in Byte
         /\ c.op = "Subscribe" => c.filters \in SUBSET Filter
         /\ c.op = "SetSchedule" => c.entries \in Seq(Byte)
  BY DEF Call

(* What the argument checks leave.                                         *)
LEMMA CheckedArgs ==
  ASSUME NEW c \in Call, ~BadArgs(c)
  PROVE  /\ c.op \in {"Publish", "SendHeader"} => c.id \in 0..LINMaxID
         /\ c.op = "Publish" /\ c.data # Nil => c.data \in Payload
<1>1. c.op \in {"Publish", "SendHeader"} => ~(c.id > LINMaxID)
  BY Zenon DEF BadArgs
<1>2. c.op = "Publish" /\ c.data # Nil => ~(Len(c.data) = 0) /\ ~(Len(c.data) > LINMaxDataLen)
  BY Zenon DEF BadArgs
<1>3. c.op \in {"Publish", "SendHeader"} => c.id \in Byte
  BY CallArgs
<1>4. c.op = "Publish" /\ c.data # Nil => c.data \in Seq(Byte)
  BY CallArgs
<1>5. ASSUME c.op \in {"Publish", "SendHeader"} PROVE c.id \in 0..LINMaxID
  <2>1. c.id \in Byte /\ ~(c.id > LINMaxID)
    BY <1>1, <1>3, <1>5
  <2> QED  BY <2>1 DEF Byte, LINMaxID
<1>6. ASSUME c.op = "Publish", c.data # Nil PROVE c.data \in Payload
  <2>1. c.data \in Seq(Byte) /\ ~(Len(c.data) = 0) /\ ~(Len(c.data) > LINMaxDataLen)
    BY <1>2, <1>4, <1>6
  <2>2. Len(c.data) \in Nat
    BY <2>1
  <2>3. ASSUME NEW n \in Nat, ~(n = 0), ~(n > LINMaxDataLen) PROVE n \in 1..LINMaxDataLen
    BY <2>3 DEF LINMaxDataLen
  <2>4. Len(c.data) \in 1..LINMaxDataLen
    BY <2>1, <2>2, <2>3, Zenon
  <2> QED  BY <2>1, <2>4 DEF Payload
<1> QED  BY <1>5, <1>6

(* Appending keeps what was there and adds one element at the end.         *)
LEMMA AppendSeq ==
  ASSUME NEW S, NEW q \in Seq(S), NEW e \in S
  PROVE  /\ Append(q, e) \in Seq(S)
         /\ DOMAIN Append(q, e) = DOMAIN q \cup {Len(q) + 1}
         /\ \A i \in DOMAIN q : Append(q, e)[i] = q[i]
         /\ Append(q, e)[Len(q) + 1] = e
  OBVIOUS

(* Every update of the counters keeps their type.                          *)
LEMMA MetricsType ==
  ASSUME NEW m \in Metrics, NEW n \in Nat
  PROVE  /\ [m EXCEPT !.error = @ + 1] \in Metrics
         /\ [m EXCEPT !.write = @ + 1] \in Metrics
         /\ [m EXCEPT !.bytesWritten = @ + n] \in Metrics
         /\ [m EXCEPT !.deliver = @ + 1] \in Metrics
         /\ [m EXCEPT !.bytesDelivered = @ + n] \in Metrics
         /\ [m EXCEPT !.drop = @ + n] \in Metrics
<1>1. [m EXCEPT !.error = @ + 1] \in Metrics
  BY DEF Metrics
<1>2. [m EXCEPT !.write = @ + 1] \in Metrics
  BY DEF Metrics
<1>3. [m EXCEPT !.bytesWritten = @ + n] \in Metrics
  BY DEF Metrics
<1>4. [m EXCEPT !.deliver = @ + 1] \in Metrics
  BY DEF Metrics
<1>5. [m EXCEPT !.bytesDelivered = @ + n] \in Metrics
  BY DEF Metrics
<1>6. [m EXCEPT !.drop = @ + n] \in Metrics
  BY DEF Metrics
<1> QED  BY <1>1, <1>2, <1>3, <1>4, <1>5, <1>6

(* Every counter Metrics loads is a number.                                *)
LEMMA LoadedType ==
  ASSUME NEW m \in Metrics, NEW n \in 1..6
  PROVE  m[LoadOrder[n]] \in Nat
<1>1. /\ m["write"] \in Nat /\ m["deliver"] \in Nat /\ m["drop"] \in Nat
      /\ m["bytesWritten"] \in Nat /\ m["bytesDelivered"] \in Nat /\ m["error"] \in Nat
  BY DEF Metrics
<1>2. LoadOrder[n] \in {"write", "deliver", "drop", "bytesWritten", "bytesDelivered", "error"}
  BY DEF LoadOrder
<1> QED  BY <1>1, <1>2

(* So does a call that may count an error.                                 *)
LEMMA ErrorCounted ==
  ASSUME metrics \in Metrics, CountError \/ UNCHANGED metrics
  PROVE  metrics' \in Metrics
<1>1. [metrics EXCEPT !.error = @ + 1] \in Metrics
  BY MetricsType
<1> QED  BY <1>1 DEF CountError

(* Every update of a channel keeps its type.                               *)
LEMMA ChanUpdate ==
  ASSUME NEW c \in Chan, NEW f \in Frame, NEW b \in BOOLEAN
  PROVE  /\ [c EXCEPT !.buf = Append(@, f)] \in Chan
         /\ [c EXCEPT !.lost = @ + 1] \in Chan
         /\ [c EXCEPT !.closed = b] \in Chan
         /\ [c EXCEPT !.eof = TRUE] \in Chan
<1>1. [c EXCEPT !.buf = Append(@, f)] \in Chan
  <2>1. Append(c.buf, f) \in Seq(Frame)
    BY DEF Chan
  <2> QED  BY <2>1 DEF Chan
<1>2. [c EXCEPT !.lost = @ + 1] \in Chan
  BY DEF Chan
<1>3. [c EXCEPT !.closed = b] \in Chan
  BY DEF Chan
<1>4. [c EXCEPT !.eof = TRUE] \in Chan
  BY DEF Chan
<1> QED  BY <1>1, <1>2, <1>3, <1>4

(* The channel Subscribe makes.                                            *)
LEMMA NewChanType ==
  ASSUME NEW c \in Call, c.op = "Subscribe"
  PROVE  NewChan(c) \in Chan /\ ~NewChan(c).closed
  BY CallArgs DEF NewChan, Chan

(* The call Init gives an idle goroutine, and the empty frame, are typed.  *)
LEMMA InitTypes ==
  [op |-> "Close"] \in Call /\ NoFrame \in Frame /\ NoMetrics \in Metrics
  BY DEF Call, NoFrame, Frame, NoMetrics, Metrics, LINMaxID, LINChecksumType

(* The initial state satisfies the inductive invariant. *)
LEMMA InitInv == Init => IInv
<1> SUFFICES ASSUME Init PROVE IInv
  OBVIOUS
<1>1. TypeOK
  <2>1. subs \in Seq(DOMAIN chans) /\ rest \in [Proc -> Seq(DOMAIN chans)]
    BY DEF Init
  <2>2. responses \in [0..LINMaxID -> Entry \cup {NoEntry}]
    BY DEF Init
  <2>3. pc \in [Proc -> Label] /\ result \in [Proc -> Outcome]
    BY DEF Init, Label, Outcome
  <2>4. call \in [Proc -> Call] /\ frame \in [Proc -> Frame] /\ metrics \in Metrics
    BY InitTypes DEF Init
  <2>5. closed \in BOOLEAN /\ panicked \in BOOLEAN
    BY Zenon DEF Init
  <2>6. schedule \in Seq(Byte) /\ chans \in Seq(Chan)
    BY DEF Init
  <2>7. calls \in [Proc -> Nat] /\ sum \in [Proc -> Nat] /\ snap \in [Proc -> Seq(Nat)]
    BY DEF Init
  <2> QED  BY <2>1, <2>2, <2>3, <2>4, <2>5, <2>6, <2>7, Zenon DEF Init, TypeOK
<1>2. LockInv
  BY NoProcAssumption DEF Init, LockInv, Reading, Writing
<1> QED  BY <1>1, <1>2 DEF IInv

(* Every step keeps the invariant.                                         *)
LEMMA StepInv == IInv /\ [Next]_vars => IInv'
<1> SUFFICES ASSUME IInv, [Next]_vars PROVE IInv'
  OBVIOUS
<1> USE NoProcAssumption DEF bus, mutex, local
<1>1. ASSUME NEW p \in Proc, Begin(p) PROVE IInv'
  <2>1. TypeOK'
    <3>1. call' \in [Proc -> Call]
      <4>1. PICK c \in Call : call' = [call EXCEPT ![p] = c]
        BY <1>1, MenuAssumption DEF Begin
      <4> QED  BY <4>1 DEF IInv, TypeOK
    <3> QED  BY <3>1, <1>1, SMTT(30) DEF Begin, Goto, IInv, TypeOK, Label
  <2>2. LockInv'
    BY <1>1 DEF Begin, Goto, IInv, TypeOK, LockInv, Reading, Writing
  <2> QED  BY <2>1, <2>2 DEF IInv
<1>2. ASSUME NEW p \in Proc, Reject(p) PROVE IInv'
  <2>1. TypeOK'
    BY <1>2 DEF Reject, Return, Goto, IInv, TypeOK, Label, Outcome
  <2>2. LockInv'
    BY <1>2 DEF Reject, Return, Goto, IInv, TypeOK, LockInv, Reading, Writing
  <2> QED  BY <2>1, <2>2 DEF IInv
<1>3. ASSUME NEW p \in Proc, Lock(p) PROVE IInv'
  <2>1. TypeOK'
    BY <1>3 DEF Lock, Goto, IInv, TypeOK, Label, Outcome
  <2>2. LockInv'
    BY <1>3 DEF Lock, Goto, IInv, TypeOK, LockInv, Reading, Writing
  <2> QED  BY <2>1, <2>2 DEF IInv
<1>4. ASSUME NEW p \in Proc, Publish(p) PROVE IInv'
  <2>1. TypeOK'
    <3>1. call[p] \in Call /\ call[p].op = "Publish" /\ ~BadArgs(call[p])
      BY <1>4 DEF Publish, Locked, IInv, TypeOK, LockInv, Writing
    <3>2. call[p].id \in 0..LINMaxID
      BY <3>1, CheckedArgs
    <3>3. call[p].data # Nil => [data |-> call[p].data, ct |-> call[p].ct] \in Entry
      BY <3>1, CheckedArgs, CallArgs DEF Entry
    <3>4. responses' \in [0..LINMaxID -> Entry \cup {NoEntry}]
      BY <3>2, <3>3, <1>4 DEF Publish, IInv, TypeOK
    <3>5. metrics' \in Metrics
      <4>1. CountError \/ UNCHANGED metrics
        BY <1>4, Zenon DEF Publish
      <4> QED  BY <4>1, ErrorCounted DEF IInv, TypeOK
    <3> QED  BY <3>4, <3>5, <1>4
          DEF Publish, Locked, Unlock, Return, Goto, IInv, TypeOK, Label, Outcome
  <2>2. LockInv'
    BY <1>4, ZenonT(60) DEF Publish, Locked, Unlock, CountError, Return, Goto, Metrics, IInv, TypeOK, LockInv, Reading, Writing
  <2> QED  BY <2>1, <2>2 DEF IInv
<1>5. ASSUME NEW p \in Proc, Subscribe(p) PROVE IInv'
  <2>1. TypeOK'
    <3>1. NewChan(call[p]) \in Chan
      BY <1>5, NewChanType DEF Subscribe, Locked, IInv, TypeOK
    <3>2. chans' \in Seq(Chan) /\ subs' \in Seq(DOMAIN chans') /\ DOMAIN chans \subseteq DOMAIN chans'
      <4>1. CASE closed
        BY <4>1, <1>5 DEF Subscribe, IInv, TypeOK
      <4>2. CASE ~closed
        <5>1. chans' = Append(chans, NewChan(call[p])) /\ subs' = Append(subs, Len(chans) + 1)
          BY <4>2, <1>5 DEF Subscribe, AddSubscription
        <5>2. chans' \in Seq(Chan) /\ DOMAIN chans' = DOMAIN chans \cup {Len(chans) + 1}
          BY <5>1, <3>1, AppendSeq DEF IInv, TypeOK
        <5>3. subs \in Seq(DOMAIN chans')
          BY <5>2, SeqMono DEF IInv, TypeOK
        <5> QED  BY <5>1, <5>2, <5>3
      <4> QED  BY <4>1, <4>2
    <3>3. rest' \in [Proc -> Seq(DOMAIN chans')]
      BY <3>2, <1>5, SeqMono DEF Subscribe, local, IInv, TypeOK
    <3>4. metrics' \in Metrics
      <4>1. CountError \/ UNCHANGED metrics
        BY <1>5, Zenon DEF Subscribe
      <4> QED  BY <4>1, ErrorCounted DEF IInv, TypeOK
    <3> QED  BY <3>2, <3>3, <3>4, <1>5
          DEF Subscribe, Locked, Unlock, Return, Goto, IInv, TypeOK, Label, Outcome
  <2>2. LockInv'
    <3>1. NewChan(call[p]) \in Chan /\ ~NewChan(call[p]).closed
      BY <1>5, NewChanType DEF Subscribe, Locked, IInv, TypeOK
    <3>2. /\ \A s \in DOMAIN chans : chans'[s] = chans[s]
          /\ ~closed' => \A s \in DOMAIN chans' : ~chans'[s].closed
      <4>1. CASE closed
        BY <4>1, <1>5 DEF Subscribe, IInv, TypeOK
      <4>2. CASE ~closed
        <5>1. chans' = Append(chans, NewChan(call[p]))
          BY <4>2, <1>5 DEF Subscribe, AddSubscription
        <5> QED  BY <5>1, <3>1, <4>2, AppendSeq, SMTT(30) DEF IInv, TypeOK, LockInv
      <4> QED  BY <4>1, <4>2
    <3>3. closed' => subs' = <<>>
      BY <1>5 DEF Subscribe, IInv, LockInv
    <3> QED  BY <3>2, <3>3, <1>5, ZenonT(60)
          DEF Subscribe, Locked, Unlock, Return, Goto, IInv, TypeOK, LockInv, Reading, Writing
  <2> QED  BY <2>1, <2>2 DEF IInv
<1>6. ASSUME NEW p \in Proc, SetSchedule(p) PROVE IInv'
  <2>1. TypeOK'
    BY <1>6, CallArgs DEF SetSchedule, Locked, Unlock, Return, Goto, IInv, TypeOK, Label, Outcome
  <2>2. LockInv'
    BY <1>6 DEF SetSchedule, Locked, Unlock, Return, Goto, IInv, TypeOK, LockInv, Reading, Writing
  <2> QED  BY <2>1, <2>2 DEF IInv
<1>7. ASSUME NEW p \in Proc, Close(p) PROVE IInv'
  <2>1. TypeOK'
    <3>1. CASE closed
      <4>1. subs' = subs /\ chans' = chans /\ panicked' = panicked /\ closed' = TRUE
        BY <3>1, <1>7, Zenon DEF Close
      <4> QED  BY <4>1, <1>7
            DEF Close, Locked, Unlock, Return, Goto, IInv, TypeOK, Label, Outcome
    <3>2. CASE ~closed
      <4>1. closed' \in BOOLEAN /\ panicked' \in BOOLEAN /\ subs' = <<>>
        BY <3>2, <1>7, Zenon DEF Close, IInv, TypeOK
      <4>2. chans' = [s \in DOMAIN chans |->
              [chans[s] EXCEPT !.closed = @ \/ \E i \in DOMAIN subs : subs[i] = s]]
        BY <3>2, <1>7, Zenon DEF Close, CloseAll
      <4>3. ASSUME NEW s \in DOMAIN chans
            PROVE  [chans[s] EXCEPT !.closed = @ \/ \E i \in DOMAIN subs : subs[i] = s] \in Chan
        <5>1. chans[s] \in Chan
          BY DEF IInv, TypeOK
        <5>2. ASSUME NEW b \in BOOLEAN PROVE [chans[s] EXCEPT !.closed = b] \in Chan
          BY <5>1 DEF Chan
        <5>3. (chans[s].closed \/ \E i \in DOMAIN subs : subs[i] = s) \in BOOLEAN
          BY Zenon
        <5> QED  BY <5>2, <5>3, Zenon
      <4>4. chans' \in [DOMAIN chans -> Chan]
        BY <4>2, <4>3, Zenon
      <4>5. chans' \in Seq(Chan) /\ DOMAIN chans' = DOMAIN chans
        BY <4>4, SameDomainSeq DEF IInv, TypeOK
      <4>6. UNCHANGED <<responses, schedule, metrics, call, calls, frame, rest, sum, snap, readers>>
            /\ pc' \in [Proc -> Label] /\ result' \in [Proc -> Outcome] /\ writer' = NoProc
        <5>1. Unlock /\ Return(p, IF pc[p] = "critExpired" THEN "ErrTimeout" ELSE "nil")
              /\ UNCHANGED <<responses, schedule, metrics, call, calls, local>>
          BY <1>7, Zenon DEF Close
        <5> QED  BY <5>1 DEF Unlock, Return, Goto, IInv, TypeOK, Label, Outcome
      <4> QED  BY <4>1, <4>5, <4>6, SMTT(30) DEF IInv, TypeOK
    <3> QED  BY <3>1, <3>2
  <2>2. LockInv'
    BY <1>7 DEF Close, Locked, Unlock, Return, Goto, CloseAll, IInv, TypeOK, LockInv, Reading, Writing
  <2> QED  BY <2>1, <2>2 DEF IInv
<1>8. ASSUME NEW p \in Proc, Lookup(p) PROVE IInv'
  <2>1. TypeOK'
    <3>1. call[p] \in Call /\ call[p].op = "SendHeader" /\ ~BadArgs(call[p])
      BY <1>8 DEF Lookup, IInv, TypeOK
    <3>2. call[p].id \in 0..LINMaxID
      BY <3>1, CheckedArgs
    <3> DEFINE e == responses[call[p].id]
    <3>3. e # NoEntry => e \in Entry
      BY <3>2 DEF IInv, TypeOK
    <3>4. e # NoEntry => Synthesise(call[p].id, e, <<p, calls[p]>>) \in Frame
      BY <3>2, <3>3 DEF Entry, Synthesise, Frame, IInv, TypeOK
    <3>5. frame' \in [Proc -> Frame]
      BY <3>4, <1>8 DEF Lookup, IInv, TypeOK
    <3>6. metrics' \in Metrics
      <4>1. CountError \/ UNCHANGED metrics
        BY <1>8, Zenon DEF Lookup
      <4> QED  BY <4>1, ErrorCounted DEF IInv, TypeOK
    <3> QED  BY <3>5, <3>6, <1>8
          DEF Lookup, Return, Goto, IInv, TypeOK, Label, Outcome
  <2>2. LockInv'
    BY <1>8, ZenonT(60) DEF Lookup, CountError, Return, Goto, Metrics, IInv, TypeOK, LockInv, Reading, Writing
  <2> QED  BY <2>1, <2>2 DEF IInv
<1>9. ASSUME NEW p \in Proc, BroadcastRLock(p) PROVE IInv'
  <2>1. TypeOK'
    BY <1>9 DEF BroadcastRLock, RLock, Goto, IInv, TypeOK, Label, Outcome
  <2>2. LockInv'
    BY <1>9 DEF BroadcastRLock, RLock, Goto, IInv, TypeOK, LockInv, Reading, Writing
  <2> QED  BY <2>1, <2>2 DEF IInv
<1>10. ASSUME NEW p \in Proc, Offer(p) PROVE IInv'
  <2>1. TypeOK'
    <3> DEFINE s == Head(rest[p])
    <3>1. rest[p] # <<>> /\ s \in DOMAIN chans /\ Tail(rest[p]) \in Seq(DOMAIN chans)
      BY <1>10, TailSeq DEF Offer, IInv, TypeOK
    <3>2. chans[s] \in Chan /\ frame[p] \in Frame
      BY <3>1 DEF IInv, TypeOK
    <3>3. panicked' \in BOOLEAN
      BY <1>10, Zenon DEF Offer, IInv, TypeOK
    <3>4. UNCHANGED <<responses, schedule, subs, closed, writer, readers, call, calls, frame, sum, snap, result>>
      BY <1>10 DEF Offer
    <3>5. CASE OfferSkip(p, s)
      BY <3>1, <3>3, <3>4, <3>5 DEF OfferSkip, Next1, IInv, TypeOK
    <3>6. CASE OfferSend(p, s)
      <4>1. chans' = [chans EXCEPT ![s] = [chans[s] EXCEPT !.buf = Append(@, frame[p])]]
        BY <3>6 DEF OfferSend
      <4>2. chans' \in Seq(Chan) /\ DOMAIN chans' = DOMAIN chans
        <5> DEFINE c == [chans[s] EXCEPT !.buf = Append(@, frame[p])]
        <5>1. c \in Chan
          BY <3>2, ChanUpdate
        <5>2. chans \in Seq(Chan) /\ chans' = [chans EXCEPT ![s] = c]
          BY <4>1 DEF IInv, TypeOK
        <5> HIDE DEF c, s
        <5> QED  BY <5>1, <5>2, <3>1, SeqUpdate
      <4> QED  BY <4>2, <3>3, <3>4, <3>6 DEF OfferSend, Goto, Label, IInv, TypeOK
    <3>7. CASE OfferDrop(p, s)
      <4>1. chans' = [chans EXCEPT ![s] = [chans[s] EXCEPT !.lost = @ + 1]]
        BY <3>7 DEF OfferDrop
      <4>2. chans' \in Seq(Chan) /\ DOMAIN chans' = DOMAIN chans
        <5> DEFINE c == [chans[s] EXCEPT !.lost = @ + 1]
        <5>1. c \in Chan
          BY <3>2, ChanUpdate
        <5>2. chans \in Seq(Chan) /\ chans' = [chans EXCEPT ![s] = c]
          BY <4>1 DEF IInv, TypeOK
        <5> HIDE DEF c, s
        <5> QED  BY <5>1, <5>2, <3>1, SeqUpdate
      <4>3. metrics' \in Metrics
        BY <3>7, MetricsType DEF OfferDrop, IInv, TypeOK
      <4> QED  BY <4>2, <4>3, <3>1, <3>3, <3>4, <3>7 DEF OfferDrop, Next1, IInv, TypeOK
    <3> QED  BY <3>5, <3>6, <3>7, <1>10 DEF Offer
  <2>2. LockInv'
    <3> DEFINE s == Head(rest[p])
    <3>1. rest[p] # <<>> /\ s \in DOMAIN chans /\ ~closed
      BY <1>10, TailSeq DEF Offer, IInv, TypeOK, LockInv, Reading
    <3>2. UNCHANGED <<subs, closed, writer, readers, call>>
      BY <1>10 DEF Offer
    <3>3. DOMAIN chans' = DOMAIN chans /\ \A c \in DOMAIN chans : chans'[c].closed = chans[c].closed
      <4>1. ASSUME NEW c \in Chan, NEW f, NEW n
            PROVE  /\ [c EXCEPT !.buf = f].closed = c.closed
                   /\ [c EXCEPT !.lost = n].closed = c.closed
        BY DEF Chan
      <4>2. \A c \in DOMAIN chans : chans[c] \in Chan
        BY DEF IInv, TypeOK
      <4>3. CASE OfferSkip(p, s)
        BY <4>3 DEF OfferSkip
      <4>4. CASE OfferSend(p, s)
        BY <4>1, <4>2, <4>4, <3>1, SMTT(30) DEF OfferSend, IInv, TypeOK
      <4>5. CASE OfferDrop(p, s)
        BY <4>1, <4>2, <4>5, <3>1, SMTT(30) DEF OfferDrop, IInv, TypeOK
      <4> QED  BY <4>3, <4>4, <4>5, <1>10 DEF Offer
    <3>4. \A q \in Proc : /\ pc'[q] \in Reading <=> pc[q] \in Reading
                          /\ pc'[q] \in Writing <=> pc[q] \in Writing
                          /\ pc'[q] \in {"sent", "delivered"} => rest'[q] # <<>>
      BY <1>10, <3>1 DEF Offer, OfferSkip, OfferSend, OfferDrop, Next1, Goto, IInv, TypeOK, LockInv, Reading, Writing
    <3> QED  BY <3>1, <3>2, <3>3, <3>4 DEF IInv, LockInv
  <2> QED  BY <2>1, <2>2 DEF IInv
<1>11. ASSUME NEW p \in Proc, CountBytesDelivered(p) PROVE IInv'
  <2>1. TypeOK'
    <3>1. Tail(rest[p]) \in Seq(DOMAIN chans)
      BY <1>11, TailSeq DEF CountBytesDelivered, IInv, TypeOK, LockInv
    <3>2. Len(frame[p].Data) \in Nat
      BY DEF IInv, TypeOK, Frame, Payload
    <3>3. metrics' \in Metrics
      BY <3>2, <1>11, MetricsType, Zenon DEF CountBytesDelivered, IInv, TypeOK
    <3> QED  BY <3>1, <3>3, <1>11
          DEF CountBytesDelivered, Next1, Goto, IInv, TypeOK, Label
  <2>2. LockInv'
    BY <1>11 DEF CountBytesDelivered, Next1, Goto, IInv, TypeOK, LockInv, Reading, Writing
  <2> QED  BY <2>1, <2>2 DEF IInv
<1>12. ASSUME NEW p \in Proc, BroadcastRUnlock(p) PROVE IInv'
  <2>1. TypeOK'
    BY <1>12 DEF BroadcastRUnlock, RUnlock, Return, Goto, IInv, TypeOK, Label, Outcome
  <2>2. LockInv'
    BY <1>12 DEF BroadcastRUnlock, RUnlock, Return, Goto, IInv, TypeOK, LockInv, Reading, Writing
  <2> QED  BY <2>1, <2>2 DEF IInv
<1>13. ASSUME NEW p \in Proc, PollRLock(p) PROVE IInv'
  <2>1. TypeOK'
    BY <1>13 DEF PollRLock, RLock, Goto, IInv, TypeOK, Label, Outcome
  <2>2. LockInv'
    BY <1>13 DEF PollRLock, RLock, Goto, IInv, TypeOK, LockInv, Reading, Writing
  <2> QED  BY <2>1, <2>2 DEF IInv
<1>14. ASSUME NEW p \in Proc, Scan(p) PROVE IInv'
  <2>1. TypeOK'
    <3>1. rest[p] # <<>> => Tail(rest[p]) \in Seq(DOMAIN chans)
      BY TailSeq DEF IInv, TypeOK
    <3>2. CASE rest[p] = <<>>
      BY <3>2, <1>14 DEF Scan, RUnlock, Goto, IInv, TypeOK, Label
    <3>3. CASE rest[p] # <<>> /\ chans[Head(rest[p])].buf # <<>>
      BY <3>3, <1>14 DEF Scan, RUnlock, Goto, IInv, TypeOK, Label
    <3>4. CASE rest[p] # <<>> /\ chans[Head(rest[p])].buf = <<>>
      <4>1. rest' \in [Proc -> Seq(DOMAIN chans)]
        BY <3>1, <3>4, <1>14 DEF Scan, Next1, IInv, TypeOK
      <4> QED  BY <4>1, <3>4, <1>14 DEF Scan, IInv, TypeOK
    <3> QED  BY <3>2, <3>3, <3>4
  <2>2. LockInv'
    <3>1. CASE rest[p] = <<>>
      BY <3>1, <1>14, ZenonT(60) DEF Scan, RUnlock, Goto, IInv, TypeOK, LockInv, Reading, Writing
    <3>2. CASE rest[p] # <<>> /\ chans[Head(rest[p])].buf # <<>>
      BY <3>2, <1>14, ZenonT(60) DEF Scan, RUnlock, Goto, IInv, TypeOK, LockInv, Reading, Writing
    <3>3. CASE rest[p] # <<>> /\ chans[Head(rest[p])].buf = <<>>
      BY <3>3, <1>14 DEF Scan, Next1, IInv, TypeOK, LockInv, Reading, Writing
    <3> QED  BY <3>1, <3>2, <3>3
  <2> QED  BY <2>1, <2>2 DEF IInv
<1>15. ASSUME NEW p \in Proc, Tick(p) PROVE IInv'
  <2>1. TypeOK'
    BY <1>15 DEF Tick, Goto, IInv, TypeOK, Label, Outcome
  <2>2. LockInv'
    BY <1>15 DEF Tick, Goto, IInv, TypeOK, LockInv, Reading, Writing
  <2> QED  BY <2>1, <2>2 DEF IInv
<1>16. ASSUME NEW p \in Proc, CtxDone(p) PROVE IInv'
  <2>1. TypeOK'
    BY <1>16 DEF CtxDone, Goto, IInv, TypeOK, Label, Outcome
  <2>2. LockInv'
    BY <1>16 DEF CtxDone, Goto, IInv, TypeOK, LockInv, Reading, Writing
  <2> QED  BY <2>1, <2>2 DEF IInv
<1>17. ASSUME NEW p \in Proc, CountRLock(p) PROVE IInv'
  <2>1. TypeOK'
    BY <1>17 DEF CountRLock, RLock, Goto, IInv, TypeOK, Label, Outcome
  <2>2. LockInv'
    BY <1>17 DEF CountRLock, RLock, Goto, IInv, TypeOK, LockInv, Reading, Writing
  <2> QED  BY <2>1, <2>2 DEF IInv
<1>18. ASSUME NEW p \in Proc, CountBuffered(p) PROVE IInv'
  <2>1. TypeOK'
    <3>1. rest[p] # <<>> => Tail(rest[p]) \in Seq(DOMAIN chans)
      BY TailSeq DEF IInv, TypeOK
    <3>2. rest[p] # <<>> => chans[Head(rest[p])] \in Chan
      BY TailSeq DEF IInv, TypeOK
    <3>3. rest[p] # <<>> => Len(chans[Head(rest[p])].buf) \in Nat
      BY <3>2, SMTT(30) DEF Chan
    <3>4. metrics' \in Metrics
      <4>1. metrics' \in {metrics, [metrics EXCEPT !.drop = @ + sum[p]]}
        BY <1>18, Zenon DEF CountBuffered
      <4>2. metrics \in Metrics /\ sum[p] \in Nat
        BY DEF IInv, TypeOK
      <4> QED  BY <4>1, <4>2, MetricsType, ZenonT(60)
    <3>5. sum' \in [Proc -> Nat]
      <4>1. CASE rest[p] # <<>>
        <5> DEFINE n == Len(chans[Head(rest[p])].buf)
        <5>1. sum' = [sum EXCEPT ![p] = @ + n] /\ n \in Nat
          BY <4>1, <3>3, <1>18 DEF CountBuffered
        <5> HIDE DEF n
        <5> QED  BY <5>1, SMTT(30) DEF IInv, TypeOK
      <4>2. CASE rest[p] = <<>>
        BY <4>2, <1>18 DEF CountBuffered, IInv, TypeOK
      <4> QED  BY <4>1, <4>2
    <3>6. pc' \in [Proc -> Label] /\ readers' \in SUBSET Proc /\ writer' = writer
      BY <1>18 DEF CountBuffered, RUnlock, Goto, IInv, TypeOK, Label
    <3>7. rest' \in [Proc -> Seq(DOMAIN chans)]
      <4>1. CASE rest[p] # <<>>
        BY <4>1, <3>1, <1>18, ZenonT(60) DEF CountBuffered, Next1, IInv, TypeOK
      <4>2. CASE rest[p] = <<>>
        BY <4>2, <1>18 DEF CountBuffered, IInv, TypeOK
      <4> QED  BY <4>1, <4>2
    <3> QED  BY <3>4, <3>5, <3>6, <3>7, <1>18 DEF CountBuffered, IInv, TypeOK
  <2>2. LockInv'
    BY <1>18, ZenonT(60) DEF CountBuffered, RUnlock, Next1, Goto, IInv, TypeOK, LockInv, Reading, Writing
  <2> QED  BY <2>1, <2>2 DEF IInv
<1>19. ASSUME NEW s \in DOMAIN chans, Receive(s) PROVE IInv'
  <2>1. /\ UNCHANGED <<responses, schedule, subs, closed, metrics, writer, readers>>
        /\ UNCHANGED <<pc, call, calls, frame, rest, sum, snap, result, panicked>>
    BY <1>19 DEF Receive
  <2>2. chans \in Seq(Chan) /\ chans[s] \in Chan
    BY DEF IInv, TypeOK
  <2>3. PICK c \in Chan : chans' = [chans EXCEPT ![s] = c] /\ c.closed = chans[s].closed
    <3>1. CASE chans[s].buf # <<>>
      <4> DEFINE k == [chans[s] EXCEPT !.got = Append(@, Head(chans[s].buf))]
      <4> DEFINE c == [k EXCEPT !.buf = Tail(@)]
      <4>1. Head(chans[s].buf) \in Frame /\ Tail(chans[s].buf) \in Seq(Frame)
        BY <3>1, <2>2, TailSeq DEF Chan
      <4>2. Append(chans[s].got, Head(chans[s].buf)) \in Seq(Frame)
        BY <4>1, <2>2 DEF Chan
      <4>3. k \in Chan /\ k.closed = chans[s].closed /\ k.buf = chans[s].buf
        BY <4>2, <2>2 DEF Chan
      <4>4. c \in Chan /\ c.closed = chans[s].closed
        <5> HIDE DEF k
        <5> QED  BY <4>1, <4>3 DEF Chan
      <4>5. chans' = [chans EXCEPT ![s] = c]
        <5>1. chans' = [chans EXCEPT ![s].got = Append(@, Head(chans[s].buf)), ![s].buf = Tail(@)]
          BY <3>1, <1>19 DEF Receive
        <5> QED  BY <5>1, <2>2
      <4> QED  BY <4>4, <4>5
    <3>2. CASE chans[s].buf = <<>>
      <4> DEFINE c == [chans[s] EXCEPT !.eof = TRUE]
      <4>1. c \in Chan /\ c.closed = chans[s].closed
        BY <2>2 DEF Chan
      <4>2. chans' = [chans EXCEPT ![s] = c]
        BY <3>2, <1>19, <2>2 DEF Receive
      <4> QED  BY <4>1, <4>2
    <3> QED  BY <3>1, <3>2
  <2>4. chans' \in Seq(Chan) /\ DOMAIN chans' = DOMAIN chans
    BY <2>2, <2>3, SeqUpdate
  <2>5. \A q \in DOMAIN chans : chans'[q].closed = chans[q].closed
    BY <2>2, <2>3
  <2>6. TypeOK'
    BY <2>1, <2>4 DEF IInv, TypeOK
  <2>7. LockInv'
    BY <2>1, <2>4, <2>5 DEF IInv, TypeOK, LockInv
  <2> QED  BY <2>6, <2>7 DEF IInv
<1>21. ASSUME NEW p \in Proc, CountWrite(p) PROVE IInv'
  <2>1. TypeOK'
    <3>1. metrics' \in Metrics
      BY <1>21, MetricsType DEF CountWrite, IInv, TypeOK
    <3> QED  BY <3>1, <1>21 DEF CountWrite, Goto, IInv, TypeOK, Label
  <2>2. LockInv'
    BY <1>21 DEF CountWrite, Goto, IInv, TypeOK, LockInv, Reading, Writing
  <2> QED  BY <2>1, <2>2 DEF IInv
<1>22. ASSUME NEW p \in Proc, CountBytesWritten(p) PROVE IInv'
  <2>1. TypeOK'
    <3>1. Len(frame[p].Data) \in Nat
      BY DEF IInv, TypeOK, Frame, Payload
    <3>2. metrics' \in Metrics
      BY <3>1, <1>22, MetricsType, Zenon DEF CountBytesWritten, IInv, TypeOK
    <3> QED  BY <3>2, <1>22 DEF CountBytesWritten, Goto, IInv, TypeOK, Label
  <2>2. LockInv'
    BY <1>22 DEF CountBytesWritten, Goto, IInv, TypeOK, LockInv, Reading, Writing
  <2> QED  BY <2>1, <2>2 DEF IInv
<1>23. ASSUME NEW p \in Proc, CountDelivery(p) PROVE IInv'
  <2>1. TypeOK'
    <3>1. metrics' \in Metrics
      BY <1>23, MetricsType DEF CountDelivery, IInv, TypeOK
    <3> QED  BY <3>1, <1>23 DEF CountDelivery, Goto, IInv, TypeOK, Label
  <2>2. LockInv'
    BY <1>23 DEF CountDelivery, Goto, IInv, TypeOK, LockInv, Reading, Writing
  <2> QED  BY <2>1, <2>2 DEF IInv
<1>24. ASSUME NEW p \in Proc, Health(p) PROVE IInv'
  <2>1. TypeOK'
    BY <1>24 DEF Health, Return, Goto, IInv, TypeOK, Label, Outcome
  <2>2. LockInv'
    BY <1>24 DEF Health, Return, Goto, IInv, TypeOK, LockInv, Reading, Writing
  <2> QED  BY <2>1, <2>2 DEF IInv
<1>25. ASSUME NEW p \in Proc, LoadMetric(p) PROVE IInv'
  <2>1. UNCHANGED <<responses, schedule, subs, closed, metrics, chans, writer, readers,
                    call, calls, frame, rest, sum, panicked>>
    BY <1>25 DEF LoadMetric
  <2> DEFINE loaded == IF pc[p] = "enter" THEN <<>> ELSE snap[p]
  <2>2. loaded \in Seq(Nat)
    BY DEF IInv, TypeOK
  <2>3. /\ snap' = [snap EXCEPT ![p] = Append(loaded, metrics[LoadOrder[Len(loaded) + 1]])]
        /\ \/ Len(loaded) < 5 /\ Goto(p, "loading") /\ UNCHANGED result
           \/ Len(loaded) = 5 /\ Return(p, "metrics")
    BY <1>25, Zenon DEF LoadMetric
  <2> HIDE DEF loaded
  <2>4. metrics[LoadOrder[Len(loaded) + 1]] \in Nat
    <3>1. Len(loaded) < 5 \/ Len(loaded) = 5
      BY <2>3, Zenon
    <3>2. Len(loaded) \in Nat
      BY <2>2
    <3>3. ASSUME NEW n \in Nat, n < 5 \/ n = 5 PROVE n + 1 \in 1..6
      BY <3>3
    <3>4. Len(loaded) + 1 \in 1..6
      BY <3>1, <3>2, <3>3, Zenon
    <3> QED  BY <3>4, LoadedType DEF IInv, TypeOK
  <2>5. snap' \in [Proc -> Seq(Nat)]
    <3> DEFINE n == metrics[LoadOrder[Len(loaded) + 1]]
    <3>1. snap' = [snap EXCEPT ![p] = Append(loaded, n)] /\ n \in Nat
      BY <2>3, <2>4
    <3> HIDE DEF n
    <3>2. Append(loaded, n) \in Seq(Nat)
      BY <3>1, <2>2
    <3> QED  BY <3>1, <3>2, Zenon DEF IInv, TypeOK
  <2>6. pc' \in [Proc -> Label] /\ result' \in [Proc -> Outcome]
    BY <2>3 DEF Return, Goto, IInv, TypeOK, Label, Outcome
  <2>7. TypeOK'
    BY <2>1, <2>5, <2>6 DEF IInv, TypeOK
  <2>8. LockInv'
    <3>1. \A q \in Proc : /\ pc'[q] \in Reading <=> pc[q] \in Reading
                          /\ pc'[q] \in Writing <=> pc[q] \in Writing
                          /\ pc'[q] \in {"sent", "delivered"} => pc[q] = pc'[q]
      BY <1>25, <2>3, ZenonT(60) DEF LoadMetric, Return, Goto, IInv, TypeOK, Reading, Writing
    <3> QED  BY <2>1, <3>1 DEF IInv, LockInv
  <2> QED  BY <2>7, <2>8 DEF IInv
<1>20. CASE UNCHANGED vars
  <2>1. TypeOK'
    BY <1>20 DEF vars, IInv, TypeOK
  <2>2. LockInv'
    BY <1>20 DEF vars, IInv, LockInv
  <2> QED  BY <2>1, <2>2 DEF IInv
<1> QED  BY <1>1, <1>2, <1>3, <1>4, <1>5, <1>6, <1>7, <1>8, <1>9, <1>10, <1>11, <1>12,
            <1>13, <1>14, <1>15, <1>16, <1>17, <1>18, <1>19, <1>20,
            <1>21, <1>22, <1>23, <1>24, <1>25 DEF Next, Step, Finished

(* The invariant holds in every reachable state.                           *)
THEOREM Invariance == Spec => []IInv
<1>1. Init => IInv
  BY InitInv
<1>2. IInv /\ [Next]_vars => IInv'
  BY StepInv
<1> QED  BY <1>1, <1>2, PTL DEF Spec

(* Every variable of the bus keeps its type, for any goroutines and calls. *)
THEOREM TypeCorrect == Spec => []TypeOK
  BY Invariance, PTL DEF IInv

(* The lock discipline holds throughout.                                   *)
THEOREM LockDiscipline == Spec => []LockInv
  BY Invariance, PTL DEF IInv

(* No interleaving of Publish, SendHeader, Subscribe, Close and            *)
(* CloseWithDrain sends on a closed channel or closes one twice.           *)
THEOREM Safety == Spec => []NoPanic
<1>1. Init => NoPanic
  <2> SUFFICES ASSUME Init PROVE NoPanic
    OBVIOUS
  <2>1. panicked = FALSE
    BY Zenon DEF Init
  <2> QED  BY <2>1 DEF NoPanic
<1>2. IInv /\ NoPanic /\ [Next]_vars => NoPanic'
  <2> SUFFICES ASSUME IInv, NoPanic, [Next]_vars PROVE NoPanic'
    OBVIOUS
  <2>1. ASSUME NEW p \in Proc, Close(p) PROVE NoPanic'
    <3>1. ~closed => \A i \in DOMAIN subs : ~chans[subs[i]].closed
      BY DEF IInv, TypeOK, LockInv
    <3> QED  BY <3>1, <2>1, Zenon DEF Close, NoPanic
  <2>2. ASSUME NEW p \in Proc, Offer(p) PROVE NoPanic'
    <3>1. Head(rest[p]) \in DOMAIN chans /\ ~closed
      BY <2>2, TailSeq DEF Offer, IInv, TypeOK, LockInv, Reading
    <3>2. ~chans[Head(rest[p])].closed
      BY <3>1 DEF IInv, LockInv
    <3> QED  BY <3>2, <2>2, Zenon DEF Offer, NoPanic
  <2>3. ASSUME panicked' = panicked PROVE NoPanic'
    BY <2>3 DEF NoPanic
  <2> QED  BY <2>1, <2>2, <2>3, ZenonT(60)
        DEF Next, Step, Finished, vars, Begin, Reject, Lock, Publish, Subscribe, SetSchedule,
            Lookup, CountWrite, CountBytesWritten, BroadcastRLock, CountDelivery,
            CountBytesDelivered, BroadcastRUnlock, Health, LoadMetric, PollRLock, Scan, Tick, CtxDone, CountRLock, CountBuffered, Receive
<1> QED  BY <1>1, <1>2, Invariance, PTL DEF Spec

(* Once closed, the bus stays closed, keeps its registrations and makes no *)
(* delivery: a SendHeader that found its response before Close finds no    *)
(* subscription after it.                                                  *)
THEOREM Finality == Spec => ClosedIsFinal
<1> DEFINE Final == closed => /\ closed'
                              /\ UNCHANGED <<responses, schedule, subs>>
                              /\ DOMAIN chans' = DOMAIN chans
                              /\ \A s \in DOMAIN chans : Len(chans'[s].buf) <= Len(chans[s].buf)
<1>1. IInv /\ [Next]_vars => [Final]_vars
  <2> SUFFICES ASSUME IInv, Next, closed PROVE Final
    BY DEF vars
  <2>1. \A s \in DOMAIN chans : chans[s] \in Chan /\ Len(chans[s].buf) \in Nat
    <3>1. \A s \in DOMAIN chans : chans[s] \in Chan
      BY DEF IInv, TypeOK
    <3> QED  BY <3>1 DEF Chan
  <2>2. ASSUME closed' = closed, UNCHANGED <<responses, schedule, subs, chans>> PROVE Final
    BY <2>1, <2>2
  <2>3. ASSUME NEW s \in DOMAIN chans, Receive(s) PROVE Final
    <3>1. UNCHANGED <<responses, schedule, subs, closed>>
      BY <2>3 DEF Receive, bus
    <3>2. DOMAIN chans' = DOMAIN chans /\ \A q \in DOMAIN chans : Len(chans'[q].buf) <= Len(chans[q].buf)
      <4>1. CASE chans[s].buf # <<>>
        <5>1. Len(Tail(chans[s].buf)) <= Len(chans[s].buf)
          BY <4>1, <2>1 DEF Chan
        <5> DEFINE k == [chans[s] EXCEPT !.got = Append(@, Head(chans[s].buf))]
        <5> DEFINE c == [k EXCEPT !.buf = Tail(@)]
        <5>2. k.buf = chans[s].buf /\ c.buf = Tail(k.buf)
          BY <2>1 DEF Chan
        <5>3. chans' = [chans EXCEPT ![s].got = Append(@, Head(chans[s].buf)), ![s].buf = Tail(@)]
          BY <4>1, <2>3 DEF Receive
        <5>4. chans \in Seq(Chan) /\ chans' = [chans EXCEPT ![s] = c]
          BY <5>3 DEF IInv, TypeOK
        <5>5. DOMAIN chans' = DOMAIN chans /\ chans'[s] = c
              /\ \A q \in DOMAIN chans : q # s => chans'[q] = chans[q]
          <6> HIDE DEF c
          <6> QED  BY <5>4
        <5> HIDE DEF c, k
        <5>6. ASSUME NEW q \in DOMAIN chans PROVE Len(chans'[q].buf) <= Len(chans[q].buf)
          <6>1. CASE q = s
            BY <6>1, <5>1, <5>2, <5>5, Zenon
          <6>2. CASE q # s
            <7>1. chans'[q].buf = chans[q].buf
              BY <6>2, <5>5
            <7> QED  BY <7>1, <2>1
          <6> QED  BY <6>1, <6>2
        <5> QED  BY <5>5, <5>6
      <4>2. CASE chans[s].buf = <<>>
        <5>1. chans' = [chans EXCEPT ![s].eof = TRUE]
          BY <4>2, <2>3 DEF Receive
        <5>2. DOMAIN chans' = DOMAIN chans /\ \A q \in DOMAIN chans : chans'[q].buf = chans[q].buf
          BY <5>1, <2>1 DEF Chan, IInv, TypeOK
        <5> QED  BY <5>2, <2>1
      <4> QED  BY <4>1, <4>2
    <3> QED  BY <3>1, <3>2
  <2>4. ASSUME NEW p \in Proc, Offer(p) PROVE FALSE
    BY <2>4 DEF Offer, IInv, LockInv, Reading
  <2>5. ASSUME NEW p \in Proc, Step(p) PROVE Final
    <3>1. closed'
      BY <2>5, Zenon DEF Step, Reject, Lock, Publish, Subscribe, SetSchedule, Close, Lookup,
             CountWrite, CountBytesWritten, BroadcastRLock, Offer, CountDelivery,
             CountBytesDelivered, BroadcastRUnlock, Health, LoadMetric, PollRLock, Scan, Tick,
             CtxDone, CountRLock, CountBuffered, bus
    <3>2. UNCHANGED <<responses, schedule, subs, chans>>
      BY <2>4, <2>5 DEF Step, Reject, Lock, Publish, Subscribe, SetSchedule, Close, Lookup,
             CountWrite, CountBytesWritten, BroadcastRLock, CountDelivery,
             CountBytesDelivered, BroadcastRUnlock, Health, LoadMetric, PollRLock, Scan, Tick,
             CtxDone, CountRLock, CountBuffered, bus
    <3> QED  BY <3>1, <3>2, <2>1
  <2> QED  BY <2>2, <2>3, <2>5 DEF Next, Begin, Finished, vars, bus
<1>2. Spec => [][Final]_vars
  BY <1>1, Invariance, PTL DEF Spec
<1> QED  BY <1>2, PTL DEF ClosedIsFinal
=============================================================================
