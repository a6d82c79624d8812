------------------------- MODULE BusDeliveryProofs --------------------------
(***************************************************************************)
(* What VirtualBus delivers, for every set of goroutines, menu of calls    *)
(* and channel capacity: the order of a sender's frames, the reach of a    *)
(* broadcast, the only reason for a loss, the refinement of BusContract,   *)
(* and what the counters say about it all.                                 *)
(*                                                                         *)
(* The 23 actions of the bus differ little in what they deliver.  Lemma    *)
(* Classified reduces a step to one of four kinds, and the invariants are  *)
(* shown inductive over those.  Lemma Accounts does the same for the       *)
(* counters.                                                               *)
(***************************************************************************)
EXTENDS VirtualBusProofs, FiniteSetTheorems

(* The labels at which SendHeader is inside broadcast.                     *)
Offering == {"offer", "sent", "delivered"}

-----------------------------------------------------------------------------
(* What one step does to a goroutine, as far as deliveries go.             *)
Still(p) ==
  pc'[p] = pc[p] /\ calls'[p] = calls[p] /\ frame'[p] = frame[p] /\ rest'[p] = rest[p]

Begins(p) ==
  /\ pc[p] = "idle" /\ pc'[p] = "enter"
  /\ calls'[p] = calls[p] + 1 /\ frame'[p] = frame[p] /\ rest'[p] = rest[p]

Outside(p) ==
  /\ pc[p] \notin Offering \cup {"idle"} /\ pc'[p] \notin Offering
  /\ pc'[p] \in Exchanging <=> pc[p] \in Exchanging
  /\ calls'[p] = calls[p] /\ frame'[p] = frame[p]
  /\ rest'[p] \in {rest[p], subs} \/ (rest[p] # <<>> /\ rest'[p] = Tail(rest[p]))

Finds(p) ==
  /\ pc[p] = "enter" /\ pc'[p] = "found"
  /\ call[p].op = "SendHeader" /\ ~BadArgs(call[p])
  /\ calls'[p] = calls[p] /\ rest'[p] = rest[p]
  /\ responses[call[p].id] # NoEntry
  /\ frame'[p] = Synthesise(call[p].id, responses[call[p].id], <<p, calls[p]>>)

Enters(p) ==
  /\ pc[p] = "counted" /\ pc'[p] = "offer"
  /\ calls'[p] = calls[p] /\ frame'[p] = frame[p] /\ rest'[p] = subs

Passes(p) ==
  /\ pc[p] \in {"offer", "delivered"} /\ pc'[p] = "offer"
  /\ calls'[p] = calls[p] /\ frame'[p] = frame[p]
  /\ rest[p] # <<>> /\ rest'[p] = Tail(rest[p])
  /\ pc[p] = "offer" => ~Wanted(p, Head(rest[p])) \/ chans'[Head(rest[p])].lost > 0

Sends(p) ==
  /\ pc[p] = "offer" /\ pc'[p] = "sent"
  /\ calls'[p] = calls[p] /\ frame'[p] = frame[p]
  /\ rest[p] # <<>> /\ rest'[p] = rest[p]
  /\ Wanted(p, Head(rest[p]))

Counts(p) ==
  /\ pc[p] = "sent" /\ pc'[p] = "delivered"
  /\ calls'[p] = calls[p] /\ frame'[p] = frame[p] /\ rest'[p] = rest[p]

Leaves(p) ==
  /\ pc[p] = "offer" /\ pc'[p] = "idle" /\ rest[p] = <<>>
  /\ calls'[p] = calls[p] /\ frame'[p] = frame[p] /\ rest'[p] = rest[p]

Moves(p) ==
  \/ Begins(p) \/ Outside(p) \/ Finds(p) \/ Enters(p) \/ Passes(p) \/ Counts(p) \/ Leaves(p)

(* What it does to the streams: nothing that its subscriber could tell,    *)
(* one frame more in one of them, or a new one.                            *)
SameStream(s) ==
  /\ Taken(s)' = Taken(s)
  /\ chans'[s].filters = chans[s].filters
  /\ chans'[s].lost \in Nat /\ chans'[s].lost >= chans[s].lost
  /\ chans'[s].lost > chans[s].lost => Len(Taken(s)) >= ChanSize

SameStreams ==
  /\ DOMAIN chans' = DOMAIN chans
  /\ \A s \in DOMAIN chans : SameStream(s)

SentTo(p, s) ==
  /\ DOMAIN chans' = DOMAIN chans
  /\ \A c \in DOMAIN chans \ {s} : SameStream(c)
  /\ Taken(s)' = Append(Taken(s), frame[p])
  /\ chans'[s].filters = chans[s].filters
  /\ chans'[s].lost = chans[s].lost

Joined ==
  /\ DOMAIN chans' = DOMAIN chans \cup {Len(chans) + 1}
  /\ \A s \in DOMAIN chans : SameStream(s)
  /\ \A s \in {Len(chans) + 1} : Taken(s)' = <<>> /\ chans'[s].lost = 0

-----------------------------------------------------------------------------
(* What a consumer has received and what its channel holds are sequences   *)
(* of frames, and so is what the stream has taken.                         *)
LEMMA ChanParts ==
  ASSUME TypeOK, NEW s \in DOMAIN chans
  PROVE  /\ chans[s] \in Chan
         /\ chans[s].got \in Seq(Frame) /\ chans[s].buf \in Seq(Frame)
         /\ chans[s].lost \in Nat /\ chans[s].closed \in BOOLEAN
         /\ chans[s].filters \in SUBSET Filter
         /\ Taken(s) \in Seq(Frame)
         /\ Len(Taken(s)) = Len(chans[s].got) + Len(chans[s].buf)
<1>1. chans[s] \in Chan
  BY DEF TypeOK
<1>2. /\ chans[s].got \in Seq(Frame) /\ chans[s].buf \in Seq(Frame)
      /\ chans[s].lost \in Nat /\ chans[s].filters \in SUBSET Filter
  BY <1>1 DEF Chan
<1>3. chans[s].closed \in BOOLEAN
  BY <1>1 DEF Chan
<1>4. Taken(s) \in Seq(Frame) /\ Len(Taken(s)) = Len(chans[s].got) + Len(chans[s].buf)
  BY <1>2 DEF Taken
<1> QED  BY <1>1, <1>2, <1>3, <1>4, Zenon

(* Moving the head of the buffer to the consumer changes nothing in the    *)
(* stream.                                                                 *)
LEMMA MoveHead ==
  ASSUME NEW S, NEW g \in Seq(S), NEW b \in Seq(S), b # <<>>
  PROVE  Append(g, Head(b)) \o Tail(b) = g \o b
<1> DEFINE l == Append(g, Head(b)) \o Tail(b)
           r == g \o b
<1>1. l \in Seq(S) /\ r \in Seq(S)
  OBVIOUS
<1>2. Len(l) = Len(r)
  OBVIOUS
<1>3. \A i \in 1..Len(r) : l[i] = r[i]
  OBVIOUS
<1> QED  BY <1>1, <1>2, <1>3

(* Appending to the buffer appends to the stream.                          *)
LEMMA AppendRight ==
  ASSUME NEW S, NEW g \in Seq(S), NEW b \in Seq(S), NEW e \in S
  PROVE  g \o Append(b, e) = Append(g \o b, e)
<1> DEFINE l == g \o Append(b, e)
           r == Append(g \o b, e)
<1>1. l \in Seq(S) /\ r \in Seq(S)
  OBVIOUS
<1>2. Len(l) = Len(r)
  OBVIOUS
<1>3. \A i \in 1..Len(r) : l[i] = r[i]
  OBVIOUS
<1> QED  BY <1>1, <1>2, <1>3

(* A channel whose record keeps filters, stream and losses is the same     *)
(* stream.                                                                 *)
LEMMA SameParts ==
  ASSUME TypeOK, NEW s \in DOMAIN chans,
         chans'[s].filters = chans[s].filters, chans'[s].lost = chans[s].lost,
         Taken(s)' = Taken(s)
  PROVE  SameStream(s)
<1>1. chans[s].lost \in Nat
  BY ChanParts
<1> QED  BY <1>1 DEF SameStream

(* Where no channel changes, no stream does.                               *)
LEMMA UnchangedStreams ==
  ASSUME TypeOK, chans' = chans
  PROVE  SameStreams
<1>1. ASSUME NEW s \in DOMAIN chans PROVE SameStream(s)
  BY SameParts DEF Taken
<1> QED  BY <1>1 DEF SameStreams

(* The consumer's step moves a frame inside the stream.                    *)
LEMMA ReceiveStreams ==
  ASSUME TypeOK, NEW s \in DOMAIN chans, Receive(s)
  PROVE  SameStreams /\ \A c \in DOMAIN chans : chans'[c].closed = chans[c].closed
<1>1. chans \in Seq(Chan) /\ chans[s] \in Chan
  BY DEF TypeOK
<1>2. PICK c : /\ chans' = [chans EXCEPT ![s] = c] /\ c.closed = chans[s].closed
               /\ c.filters = chans[s].filters /\ c.lost = chans[s].lost
               /\ c.got \o c.buf = chans[s].got \o chans[s].buf
  <2>1. CASE chans[s].buf # <<>>
    <3> DEFINE k == [chans[s] EXCEPT !.got = Append(@, Head(chans[s].buf))]
    <3> DEFINE c == [k EXCEPT !.buf = Tail(@)]
    <3>1. /\ k.closed = chans[s].closed /\ k.filters = chans[s].filters
          /\ k.lost = chans[s].lost /\ k.buf = chans[s].buf
          /\ k.got = Append(chans[s].got, Head(chans[s].buf))
          /\ c.closed = k.closed /\ c.filters = k.filters /\ c.lost = k.lost
          /\ c.got = k.got /\ c.buf = Tail(k.buf)
      BY <1>1 DEF Chan
    <3>2. chans' = [chans EXCEPT ![s] = c]
      <4>1. chans' = [chans EXCEPT ![s].got = Append(@, Head(chans[s].buf)), ![s].buf = Tail(@)]
        BY <2>1 DEF Receive
      <4> QED  BY <4>1, <1>1
    <3>3. c.got \o c.buf = chans[s].got \o chans[s].buf
      <4>1. chans[s].got \in Seq(Frame) /\ chans[s].buf \in Seq(Frame)
        BY ChanParts
      <4>2. Append(chans[s].got, Head(chans[s].buf)) \o Tail(chans[s].buf)
              = chans[s].got \o chans[s].buf
        BY <4>1, <2>1, MoveHead
      <4> HIDE DEF k, c
      <4> QED  BY <4>2, <3>1
    <3> HIDE DEF k, c
    <3> QED  BY <3>1, <3>2, <3>3
  <2>2. CASE chans[s].buf = <<>>
    <3> DEFINE c == [chans[s] EXCEPT !.eof = TRUE]
    <3>1. /\ c.closed = chans[s].closed /\ c.filters = chans[s].filters
          /\ c.lost = chans[s].lost /\ c.buf = chans[s].buf /\ c.got = chans[s].got
      BY <1>1 DEF Chan
    <3>2. chans' = [chans EXCEPT ![s] = c]
      BY <2>2, <1>1 DEF Receive
    <3> HIDE DEF c
    <3> QED  BY <3>1, <3>2
  <2> QED  BY <2>1, <2>2
<1>3. DOMAIN chans' = DOMAIN chans /\ chans'[s] = c
      /\ \A d \in DOMAIN chans : d # s => chans'[d] = chans[d]
  BY <1>1, <1>2
<1>4. ASSUME NEW d \in DOMAIN chans
      PROVE  SameStream(d) /\ chans'[d].closed = chans[d].closed
  <2>1. /\ chans'[d].filters = chans[d].filters /\ chans'[d].lost = chans[d].lost
        /\ chans'[d].closed = chans[d].closed /\ Taken(d)' = Taken(d)
    BY <1>2, <1>3 DEF Taken
  <2> QED  BY <2>1, SameParts
<1> QED  BY <1>3, <1>4 DEF SameStreams

(* Closing the channels leaves what they hold.                             *)
LEMMA CloseStreams ==
  ASSUME TypeOK, NEW q, CloseAll(q)
  PROVE  SameStreams
<1>1. chans' = [s \in DOMAIN chans |->
        [chans[s] EXCEPT !.closed = @ \/ \E i \in DOMAIN q : q[i] = s]]
  BY DEF CloseAll
<1>2. ASSUME NEW s \in DOMAIN chans PROVE SameStream(s)
  <2>1. chans[s] \in Chan
    BY DEF TypeOK
  <2>2. ASSUME NEW b
        PROVE  LET c == [chans[s] EXCEPT !.closed = b]
               IN  /\ c.filters = chans[s].filters /\ c.lost = chans[s].lost
                   /\ c.got = chans[s].got /\ c.buf = chans[s].buf
    BY <2>1 DEF Chan
  <2>3. /\ chans'[s].filters = chans[s].filters /\ chans'[s].lost = chans[s].lost
        /\ chans'[s].got = chans[s].got /\ chans'[s].buf = chans[s].buf
    BY <1>1, <2>2, Zenon
  <2>4. Taken(s)' = Taken(s)
    BY <2>3 DEF Taken
  <2> QED  BY <2>3, <2>4, SameParts
<1> QED  BY <1>1, <1>2 DEF SameStreams

(* Subscribe adds an empty stream and leaves the others.                   *)
LEMMA AddStreams ==
  ASSUME TypeOK, NEW c, AddSubscription(c)
  PROVE  Joined /\ chans' = Append(chans, NewChan(c)) /\ subs' = Append(subs, Len(chans) + 1)
<1>1. chans' = Append(chans, NewChan(c)) /\ subs' = Append(subs, Len(chans) + 1)
  BY DEF AddSubscription
<1>2. chans \in Seq(Chan)
  BY DEF TypeOK
<1>3. /\ DOMAIN chans' = DOMAIN chans \cup {Len(chans) + 1}
      /\ \A s \in DOMAIN chans : chans'[s] = chans[s]
      /\ chans'[Len(chans) + 1] = NewChan(c)
  <2> DEFINE e == NewChan(c)
             S == Chan \cup {e}
  <2>1. chans \in Seq(S) /\ e \in S
    BY <1>2, SeqMono
  <2>2. chans' = Append(chans, e)
    BY <1>1
  <2> HIDE DEF e, S
  <2>3. /\ DOMAIN chans' = DOMAIN chans \cup {Len(chans) + 1}
        /\ \A s \in DOMAIN chans : chans'[s] = chans[s]
        /\ chans'[Len(chans) + 1] = e
    BY <2>1, <2>2, AppendSeq
  <2> QED  BY <2>3 DEF e
<1>4. ASSUME NEW s \in {Len(chans) + 1} PROVE Taken(s)' = <<>> /\ chans'[s].lost = 0
  BY <1>3 DEF Taken, NewChan
<1>5. ASSUME NEW s \in DOMAIN chans PROVE SameStream(s)
  BY <1>3, SameParts DEF Taken
<1> QED  BY <1>1, <1>3, <1>4, <1>5 DEF Joined

(* The send to subscriber s, and the drop.                                 *)
LEMMA SendStreams ==
  ASSUME TypeOK, NEW p \in Proc, NEW s \in DOMAIN chans, OfferSend(p, s)
  PROVE  SentTo(p, s) /\ \A c \in DOMAIN chans : chans'[c].closed = chans[c].closed
<1> DEFINE k == [chans[s] EXCEPT !.buf = Append(@, frame[p])]
<1>1. chans \in Seq(Chan) /\ chans[s] \in Chan
  BY DEF TypeOK
<1>2. /\ k.filters = chans[s].filters /\ k.lost = chans[s].lost /\ k.closed = chans[s].closed
      /\ k.got = chans[s].got /\ k.buf = Append(chans[s].buf, frame[p])
  BY <1>1 DEF Chan
<1>3. chans' = [chans EXCEPT ![s] = k]
  BY DEF OfferSend
<1> HIDE DEF k
<1>4. DOMAIN chans' = DOMAIN chans /\ chans'[s] = k
      /\ \A d \in DOMAIN chans : d # s => chans'[d] = chans[d]
  BY <1>1, <1>3
<1>5. Taken(s)' = Append(Taken(s), frame[p])
  <2>1. chans[s].got \in Seq(Frame) /\ chans[s].buf \in Seq(Frame)
    BY ChanParts
  <2>2. frame[p] \in Frame
    BY DEF TypeOK
  <2>3. chans[s].got \o Append(chans[s].buf, frame[p]) = Append(chans[s].got \o chans[s].buf, frame[p])
    <3>1. \A g, b \in Seq(Frame), e \in Frame : g \o Append(b, e) = Append(g \o b, e)
      BY AppendRight
    <3> QED  BY <2>1, <2>2, <3>1, Zenon
  <2> QED  BY <2>3, <1>2, <1>4, Zenon DEF Taken
<1>6. ASSUME NEW d \in DOMAIN chans \ {s} PROVE SameStream(d)
  BY <1>4, SameParts DEF Taken
<1> QED  BY <1>2, <1>4, <1>5, <1>6 DEF SentTo

(* A drop changes no stream and counts as a loss, at a full channel.       *)
LEMMA DropStreams ==
  ASSUME TypeOK, NEW p \in Proc, NEW s \in DOMAIN chans, OfferDrop(p, s)
  PROVE  SameStreams /\ chans'[s].lost > 0 /\ \A c \in DOMAIN chans : chans'[c].closed = chans[c].closed
<1> DEFINE k == [chans[s] EXCEPT !.lost = @ + 1]
<1>1. chans \in Seq(Chan) /\ chans[s] \in Chan
  BY DEF TypeOK
<1>2. /\ k.filters = chans[s].filters /\ k.lost = chans[s].lost + 1 /\ k.closed = chans[s].closed
      /\ k.got = chans[s].got /\ k.buf = chans[s].buf
  BY <1>1 DEF Chan
<1>3. chans' = [chans EXCEPT ![s] = k]
  BY DEF OfferDrop
<1> HIDE DEF k
<1>4. DOMAIN chans' = DOMAIN chans /\ chans'[s] = k
      /\ \A d \in DOMAIN chans : d # s => chans'[d] = chans[d]
  BY <1>1, <1>3
<1>5. SameStream(s) /\ chans'[s].lost > 0
  <2>1. /\ chans[s].lost \in Nat /\ Len(Taken(s)) = Len(chans[s].got) + Len(chans[s].buf)
        /\ chans[s].got \in Seq(Frame) /\ chans[s].buf \in Seq(Frame)
    BY ChanParts
  <2>2. ~(Len(chans[s].buf) < ChanSize)
    BY DEF OfferDrop, Room
  <2>3. Len(Taken(s)) >= ChanSize
    <3>1. Len(chans[s].got) \in Nat /\ Len(chans[s].buf) \in Nat
      BY <2>1
    <3>2. ASSUME NEW g \in Nat, NEW b \in Nat, ~(b < ChanSize) PROVE g + b >= ChanSize
      BY <3>2, BoundAssumption
    <3> QED  BY <2>1, <2>2, <3>1, <3>2, Zenon
  <2>4. Taken(s)' = Taken(s) /\ chans'[s].filters = chans[s].filters
        /\ chans'[s].lost = chans[s].lost + 1
    BY <1>2, <1>4 DEF Taken
  <2>5. ASSUME NEW n \in Nat PROVE n + 1 \in Nat /\ n + 1 >= n /\ n + 1 > 0
    OBVIOUS
  <2> QED  BY <2>1, <2>3, <2>4, <2>5, Zenon DEF SameStream
<1>6. ASSUME NEW d \in DOMAIN chans, d # s PROVE SameStream(d)
  BY <1>4, <1>6, SameParts DEF Taken
<1>7. SameStreams
  BY <1>4, <1>5, <1>6 DEF SameStreams
<1> QED  BY <1>2, <1>4, <1>5, <1>7

-----------------------------------------------------------------------------
(* Every step is of one of four kinds: no goroutine moves; one moves and   *)
(* no stream changes; one sends to the subscriber at its cursor; one       *)
(* subscribes.  Only in a critical section, with no reader, does b.subs    *)
(* change.                                                                 *)
Others(p) == \A q \in Proc \ {p} : Still(q)

QuietStep == (\A q \in Proc : Still(q)) /\ SameStreams /\ UNCHANGED <<subs, closed>>

MoveStep(p) ==
  /\ Others(p) /\ Moves(p) /\ SameStreams
  /\ UNCHANGED <<subs, closed>> \/ (closed' /\ subs' = <<>> /\ readers = {} /\ pc[p] \in Writing)

SendStep(p) ==
  /\ Others(p) /\ Sends(p)
  /\ \E s \in DOMAIN chans : s = Head(rest[p]) /\ SentTo(p, s)
  /\ UNCHANGED <<subs, closed>>

JoinStep(p) ==
  /\ Others(p) /\ Outside(p) /\ Joined
  /\ subs' = Append(subs, Len(chans) + 1)
  /\ ~closed /\ closed' = closed /\ readers = {}

(* A step that gives one goroutine another label leaves the others.        *)
LEMMA GotoOthers ==
  ASSUME TypeOK, NEW p \in Proc, NEW label, Goto(p, label), UNCHANGED <<calls, frame, rest>>
  PROVE  pc'[p] = label /\ Others(p)
  BY DEF Goto, TypeOK, Others, Still

(* Every step of the bus is of one of the four kinds.                      *)
LEMMA Classified ==
  ASSUME IInv, [Next]_vars
  PROVE  QuietStep \/ \E p \in Proc : MoveStep(p) \/ SendStep(p) \/ JoinStep(p)
<1> USE DEF bus, mutex, local
<1>0. TypeOK /\ LockInv
  BY DEF IInv
<1>1. CASE UNCHANGED vars
  <2>1. SameStreams
    BY <1>0, <1>1, UnchangedStreams DEF vars
  <2> QED  BY <2>1, <1>1 DEF vars, QuietStep, Still
<1>2. ASSUME NEW s \in DOMAIN chans, Receive(s) PROVE QuietStep
  <2>1. SameStreams
    BY <1>0, <1>2, ReceiveStreams
  <2> QED  BY <2>1, <1>2 DEF Receive, QuietStep, Still
<1>3. ASSUME NEW p \in Proc, Begin(p) PROVE MoveStep(p)
  <2>1. SameStreams
    BY <1>0, <1>3, UnchangedStreams DEF Begin
  <2>2. Others(p) /\ Begins(p)
    BY <1>0, <1>3 DEF Begin, Goto, TypeOK, Others, Still, Begins
  <2> QED  BY <2>1, <2>2, <1>3 DEF Begin, MoveStep, Moves
<1>4. ASSUME NEW p \in Proc, NEW label, Goto(p, label), UNCHANGED <<calls, frame, rest, chans>>,
             pc[p] \notin Offering \cup {"idle"}, label \notin Offering,
             label \in Exchanging <=> pc[p] \in Exchanging,
             UNCHANGED <<subs, closed>>
      PROVE  MoveStep(p)
  <2>1. SameStreams
    BY <1>0, <1>4, UnchangedStreams
  <2>2. pc'[p] = label /\ Others(p)
    BY <1>0, <1>4, GotoOthers
  <2> QED  BY <2>1, <2>2, <1>4 DEF MoveStep, Moves, Outside
<1>5. ASSUME NEW p \in Proc, Reject(p) PROVE MoveStep(p)
  BY <1>4, <1>5 DEF Reject, Return, Offering, Exchanging
<1>6. ASSUME NEW p \in Proc, Lock(p) PROVE MoveStep(p)
  <2>1. CASE pc[p] = "expired"
    BY <1>4, <1>6, <2>1 DEF Lock, Offering, Exchanging
  <2>2. CASE pc[p] # "expired"
    BY <1>4, <1>6, <2>2 DEF Lock, Offering, Exchanging
  <2> QED  BY <2>1, <2>2
<1>7. ASSUME NEW p \in Proc, Publish(p) PROVE MoveStep(p)
  <2>1. CASE closed
    BY <1>4, <1>7, <2>1 DEF Publish, Locked, Return, Offering, Exchanging
  <2>2. CASE ~closed
    BY <1>4, <1>7, <2>2 DEF Publish, Locked, Return, Offering, Exchanging
  <2> QED  BY <2>1, <2>2
<1>8. ASSUME NEW p \in Proc, Subscribe(p) PROVE MoveStep(p) \/ JoinStep(p)
  <2>1. CASE closed
    BY <1>4, <1>8, <2>1 DEF Subscribe, Locked, Return, Offering, Exchanging
  <2>2. CASE ~closed
    <3>1. AddSubscription(call[p]) /\ closed' = closed /\ readers = {}
      BY <1>8, <2>2 DEF Subscribe, Locked
    <3>2. Joined /\ subs' = Append(subs, Len(chans) + 1)
      BY <1>0, <3>1, AddStreams
    <3>3. Others(p) /\ Outside(p)
      BY <1>0, <1>8, <2>2 DEF Subscribe, Locked, Return, Goto, TypeOK, Others, Still, Outside, Offering, Exchanging
    <3> QED  BY <2>2, <3>1, <3>2, <3>3 DEF JoinStep
  <2> QED  BY <2>1, <2>2
<1>9. ASSUME NEW p \in Proc, SetSchedule(p) PROVE MoveStep(p)
  BY <1>4, <1>9 DEF SetSchedule, Locked, Return, Offering, Exchanging
<1>10. ASSUME NEW p \in Proc, Close(p) PROVE MoveStep(p)
  <2>1. SameStreams
    <3>1. CASE closed
      BY <1>0, <1>10, <3>1, UnchangedStreams DEF Close
    <3>2. CASE ~closed
      <4>1. CloseAll(subs)
        BY <1>10, <3>2, Zenon DEF Close
      <4> QED  BY <1>0, <4>1, CloseStreams
    <3> QED  BY <3>1, <3>2
  <2>2. Others(p) /\ Outside(p)
    BY <1>0, <1>10 DEF Close, Locked, Return, Goto, TypeOK, Others, Still, Outside, Offering, Exchanging
  <2>3. closed' /\ subs' = <<>> /\ readers = {} /\ pc[p] \in Writing
    <3>1. CASE closed
      BY <1>0, <1>10, <3>1 DEF Close, Locked, LockInv, Writing
    <3>2. CASE ~closed
      BY <1>0, <1>10, <3>2 DEF Close, Locked, LockInv, Writing
    <3> QED  BY <3>1, <3>2
  <2> QED  BY <2>1, <2>2, <2>3 DEF MoveStep, Moves
<1>11. ASSUME NEW p \in Proc, Lookup(p) PROVE MoveStep(p)
  <2>1. CASE UNCHANGED frame
    <3>1. /\ Return(p, "ErrClosed") \/ Return(p, "ErrNoResponse") \/ Goto(p, "found")
          /\ pc[p] = "enter" /\ UNCHANGED <<calls, rest, chans, subs, closed>>
      BY <1>11, Zenon DEF Lookup
    <3>2. CASE Goto(p, "idle")
      BY <3>1, <3>2, <2>1, <1>4 DEF Offering, Exchanging
    <3>3. CASE Goto(p, "found")
      <4>1. SameStreams
        BY <1>0, <3>1, UnchangedStreams
      <4>2. Others(p)
        BY <1>0, <2>1, <3>1, <3>3, GotoOthers
      <4>3. \/ Return(p, "ErrClosed") \/ Return(p, "ErrNoResponse") \/ Finds(p)
        BY <1>0, <1>11 DEF Lookup, Goto, TypeOK, Finds
      <4>4. Finds(p)
        BY <1>0, <4>3, <3>3 DEF Return, Goto, TypeOK
      <4> QED  BY <3>1, <4>1, <4>2, <4>4 DEF MoveStep, Moves
    <3> QED  BY <3>1, <3>2, <3>3 DEF Return
  <2>2. CASE ~UNCHANGED frame
    <3>1. /\ pc[p] = "enter" /\ call[p].op = "SendHeader" /\ ~BadArgs(call[p])
          /\ responses[call[p].id] # NoEntry
          /\ frame' = [frame EXCEPT ![p] = Synthesise(call[p].id, responses[call[p].id], <<p, calls[p]>>)]
          /\ Goto(p, "found")
          /\ UNCHANGED <<calls, rest, chans, subs, closed>>
      BY <1>11, <2>2, Zenon DEF Lookup
    <3>2. SameStreams
      BY <1>0, <3>1, UnchangedStreams
    <3>3. Others(p) /\ Finds(p)
      BY <1>0, <3>1 DEF Goto, TypeOK, Others, Still, Finds
    <3> QED  BY <3>1, <3>2, <3>3 DEF MoveStep, Moves
  <2> QED  BY <2>1, <2>2
<1>12. ASSUME NEW p \in Proc, CountWrite(p) PROVE MoveStep(p)
  BY <1>4, <1>12 DEF CountWrite, Offering, Exchanging
<1>13. ASSUME NEW p \in Proc, CountBytesWritten(p) PROVE MoveStep(p)
  BY <1>4, <1>13 DEF CountBytesWritten, Offering, Exchanging
<1>14. ASSUME NEW p \in Proc, BroadcastRLock(p) PROVE MoveStep(p)
  <2>1. SameStreams
    BY <1>0, <1>14, UnchangedStreams DEF BroadcastRLock
  <2>2. Others(p) /\ Enters(p)
    BY <1>0, <1>14 DEF BroadcastRLock, Goto, TypeOK, Others, Still, Enters
  <2> QED  BY <2>1, <2>2, <1>14 DEF BroadcastRLock, MoveStep, Moves
<1>15. ASSUME NEW p \in Proc, Offer(p) PROVE MoveStep(p) \/ SendStep(p)
  <2>0. PICK s \in DOMAIN chans : s = Head(rest[p])
    BY <1>0, <1>15, TailSeq DEF Offer, TypeOK
  <2>1. pc[p] = "offer" /\ rest[p] # <<>> /\ UNCHANGED <<subs, closed, calls, frame>>
    BY <1>15 DEF Offer
  <2>2. CASE OfferSkip(p, s)
    <3>1. SameStreams
      BY <1>0, <2>2, UnchangedStreams DEF OfferSkip
    <3>2. Others(p) /\ Passes(p)
      BY <1>0, <2>0, <2>1, <2>2 DEF OfferSkip, Next1, TypeOK, Others, Still, Passes
    <3> QED  BY <2>1, <3>1, <3>2 DEF MoveStep, Moves
  <2>3. CASE OfferDrop(p, s)
    <3>1. SameStreams /\ chans'[s].lost > 0
      BY <1>0, <2>3, DropStreams
    <3>2. Others(p) /\ Passes(p)
      BY <1>0, <2>0, <2>1, <2>3, <3>1 DEF OfferDrop, Next1, TypeOK, Others, Still, Passes
    <3> QED  BY <2>1, <3>1, <3>2 DEF MoveStep, Moves
  <2>4. CASE OfferSend(p, s)
    <3>1. SentTo(p, s)
      BY <1>0, <2>4, SendStreams
    <3>2. Others(p) /\ Sends(p)
      BY <1>0, <2>0, <2>1, <2>4 DEF OfferSend, Goto, TypeOK, Others, Still, Sends
    <3> QED  BY <2>0, <2>1, <3>1, <3>2 DEF SendStep
  <2> QED  BY <2>0, <2>2, <2>3, <2>4, <1>15 DEF Offer
<1>16. ASSUME NEW p \in Proc, CountDelivery(p) PROVE MoveStep(p)
  <2>1. SameStreams
    BY <1>0, <1>16, UnchangedStreams DEF CountDelivery
  <2>2. Others(p) /\ Counts(p)
    BY <1>0, <1>16 DEF CountDelivery, Goto, TypeOK, Others, Still, Counts
  <2> QED  BY <2>1, <2>2, <1>16 DEF CountDelivery, MoveStep, Moves
<1>17. ASSUME NEW p \in Proc, CountBytesDelivered(p) PROVE MoveStep(p)
  <2>1. SameStreams
    BY <1>0, <1>17, UnchangedStreams DEF CountBytesDelivered
  <2>2. rest[p] # <<>>
    BY <1>0, <1>17 DEF CountBytesDelivered, LockInv
  <2>3. Others(p) /\ Passes(p)
    BY <1>0, <2>2, <1>17 DEF CountBytesDelivered, Next1, Goto, TypeOK, Others, Still, Passes
  <2> QED  BY <2>1, <2>3, <1>17 DEF CountBytesDelivered, MoveStep, Moves
<1>18. ASSUME NEW p \in Proc, BroadcastRUnlock(p) PROVE MoveStep(p)
  <2>1. SameStreams
    BY <1>0, <1>18, UnchangedStreams DEF BroadcastRUnlock
  <2>2. Others(p) /\ Leaves(p)
    BY <1>0, <1>18 DEF BroadcastRUnlock, Return, Goto, TypeOK, Others, Still, Leaves
  <2> QED  BY <2>1, <2>2, <1>18 DEF BroadcastRUnlock, MoveStep, Moves
<1>19. ASSUME NEW p \in Proc, Health(p) PROVE MoveStep(p)
  BY <1>4, <1>19 DEF Health, Return, Offering, Exchanging
<1>20. ASSUME NEW p \in Proc, LoadMetric(p) PROVE MoveStep(p)
  <2>1. /\ Goto(p, "loading") \/ Goto(p, "idle")
        /\ pc[p] \in {"enter", "loading"} /\ UNCHANGED <<calls, frame, rest, chans, subs, closed>>
    BY <1>20, Zenon DEF LoadMetric, Return
  <2>2. CASE Goto(p, "loading")
    BY <1>4, <2>1, <2>2 DEF Offering, Exchanging
  <2>3. CASE Goto(p, "idle")
    BY <1>4, <2>1, <2>3 DEF Offering, Exchanging
  <2> QED  BY <2>1, <2>2, <2>3
<1>21. ASSUME NEW p \in Proc, PollRLock(p) \/ CountRLock(p) PROVE MoveStep(p)
  <2>1. SameStreams
    BY <1>0, <1>21, UnchangedStreams DEF PollRLock, CountRLock
  <2>2. Others(p) /\ Outside(p)
    BY <1>0, <1>21 DEF PollRLock, CountRLock, Goto, TypeOK, Others, Still, Outside, Offering, Exchanging
  <2> QED  BY <2>1, <2>2, <1>21 DEF PollRLock, CountRLock, MoveStep, Moves
<1>22. ASSUME NEW p \in Proc, Scan(p) \/ CountBuffered(p) PROVE MoveStep(p)
  <2>1. SameStreams
    BY <1>0, <1>22, UnchangedStreams DEF Scan, CountBuffered
  <2>2. UNCHANGED <<subs, closed, calls, frame>>
    BY <1>22 DEF Scan, CountBuffered
  <2>3. pc[p] \in {"scan", "count"}
        /\ \/ rest' = rest /\ (Goto(p, "drained") \/ Goto(p, "select") \/ Goto(p, "expired"))
           \/ rest[p] # <<>> /\ Next1(p) /\ pc' = pc
    BY <1>22, Zenon DEF Scan, CountBuffered
  <2>4. Others(p) /\ Outside(p)
    BY <1>0, <2>2, <2>3 DEF Next1, Goto, TypeOK, Others, Still, Outside, Offering, Exchanging
  <2> QED  BY <2>1, <2>2, <2>4 DEF MoveStep, Moves
<1>23. ASSUME NEW p \in Proc, Tick(p) \/ CtxDone(p) PROVE MoveStep(p)
  <2>1. CASE Tick(p)
    BY <1>4, <2>1 DEF Tick, Offering, Exchanging
  <2>2. CASE CtxDone(p)
    BY <1>4, <2>2 DEF CtxDone, Offering, Exchanging
  <2> QED  BY <1>23, <2>1, <2>2
<1> QED  BY <1>1, <1>2, <1>3, <1>5, <1>6, <1>7, <1>8, <1>9, <1>10, <1>11, <1>12, <1>13, <1>14,
            <1>15, <1>16, <1>17, <1>18, <1>19, <1>20, <1>21, <1>22, <1>23 DEF Next, Step, Finished

-----------------------------------------------------------------------------
(* The order of a sender's frames.  SenderOrder alone is not inductive: a  *)
(* send keeps it only if the stream at the sender's cursor holds nothing   *)
(* of the present call, which depends on b.subs naming no channel twice.   *)
Injective(q) == \A i, j \in DOMAIN q : q[i] = q[j] => i = j

(* b.subs and the cursors into it name no channel twice, and as long as    *)
(* the bus is open b.subs names every channel.                             *)
SubsInv ==
  /\ Injective(subs)
  /\ \A p \in Proc : Injective(rest[p])
  /\ ~closed => \A s \in DOMAIN chans : \E i \in DOMAIN subs : subs[i] = s

(* Stream s holds nothing of p's present call.                             *)
Behind(p, s) ==
  \A i \in DOMAIN Taken(s) : Taken(s)[i].src[1] = p => Taken(s)[i].src[2] < calls[p]

(* Stream s holds nothing of p's future calls.                             *)
NotAhead(p, s) ==
  \A i \in DOMAIN Taken(s) : Taken(s)[i].src[1] = p => Taken(s)[i].src[2] <= calls[p]

Ordered(s) ==
  \A i, j \in DOMAIN Taken(s) :
    i < j /\ Taken(s)[i].src[1] = Taken(s)[j].src[1] => Taken(s)[i].src[2] < Taken(s)[j].src[2]

(* The channels p has not sent to yet.                                     *)
Pending(p) ==
  {rest[p][k] : k \in {i \in DOMAIN rest[p] : i > 1 \/ pc[p] = "offer"}}

OrderInv ==
  /\ \A p \in Proc : pc[p] \in Exchanging => frame[p].src = <<p, calls[p]>>
  /\ \A p \in Proc : pc[p] \notin Offering \cup {"idle"} => \A s \in DOMAIN chans : Behind(p, s)
  /\ \A p \in Proc : pc[p] \in Offering => \A s \in Pending(p) : Behind(p, s)
  /\ \A s \in DOMAIN chans : Ordered(s) /\ \A p \in Proc : NotAhead(p, s)

(* Behind, NotAhead and Ordered depend on the stream and on the number of  *)
(* calls only.                                                             *)
LEMMA SameOrder ==
  ASSUME NEW s, Taken(s)' = Taken(s)
  PROVE  /\ Ordered(s) => Ordered(s)'
         /\ \A p \in Proc : calls'[p] = calls[p] =>
              (Behind(p, s) => Behind(p, s)') /\ (NotAhead(p, s) => NotAhead(p, s)')
  BY DEF Behind, NotAhead, Ordered

(* Tail keeps a sequence free of repetitions.                              *)
LEMMA InjectiveTail ==
  ASSUME NEW S, NEW q \in Seq(S), q # <<>>, Injective(q)
  PROVE  Injective(Tail(q))
  BY TailSeq DEF Injective

(* Every step keeps the subscriptions.                                     *)
LEMMA SubsStep == IInv /\ SubsInv /\ [Next]_vars => SubsInv'
<1> SUFFICES ASSUME IInv, SubsInv, [Next]_vars PROVE SubsInv'
  OBVIOUS
<1>0. subs \in Seq(DOMAIN chans) /\ rest \in [Proc -> Seq(DOMAIN chans)] /\ chans \in Seq(Chan)
  BY DEF IInv, TypeOK
<1>1. CASE QuietStep
  <2>1. \A p \in Proc : rest'[p] = rest[p]
    BY <1>1 DEF QuietStep, Still
  <2> QED  BY <1>1, <2>1 DEF QuietStep, SameStreams, SubsInv, Injective
<1>2. ASSUME NEW p \in Proc, MoveStep(p) PROVE SubsInv'
  <2>1. ASSUME NEW q \in Proc
        PROVE  rest'[q] \in {rest[q], subs} \/ (rest[q] # <<>> /\ rest'[q] = Tail(rest[q]))
    BY <1>2 DEF MoveStep, Others, Still, Moves, Begins, Outside, Finds, Enters, Passes, Counts, Leaves
  <2>2. ASSUME NEW q \in Proc PROVE Injective(rest'[q])
    <3>1. rest[q] # <<>> => Injective(Tail(rest[q]))
      BY <1>0, InjectiveTail DEF SubsInv
    <3> QED  BY <2>1, <3>1 DEF SubsInv
  <2>3. Injective(subs') /\ (~closed' => \A s \in DOMAIN chans' : \E i \in DOMAIN subs' : subs'[i] = s)
    BY <1>2 DEF MoveStep, SameStreams, SubsInv, Injective
  <2> QED  BY <2>2, <2>3 DEF SubsInv, Injective
<1>3. ASSUME NEW p \in Proc, SendStep(p) PROVE SubsInv'
  <2>1. \A q \in Proc : rest'[q] = rest[q]
    BY <1>3 DEF SendStep, Others, Still, Sends
  <2> QED  BY <1>3, <2>1 DEF SendStep, SentTo, SubsInv, Injective
<1>4. ASSUME NEW p \in Proc, JoinStep(p) PROVE SubsInv'
  <2>1. ASSUME NEW q \in Proc PROVE Injective(rest'[q])
    <3>1. rest'[q] \in {rest[q], subs} \/ (rest[q] # <<>> /\ rest'[q] = Tail(rest[q]))
      BY <1>4 DEF JoinStep, Others, Still, Outside
    <3>2. rest[q] # <<>> => Injective(Tail(rest[q]))
      BY <1>0, InjectiveTail DEF SubsInv
    <3> QED  BY <3>1, <3>2 DEF SubsInv
  <2>2. /\ DOMAIN subs' = DOMAIN subs \cup {Len(subs) + 1}
        /\ \A i \in DOMAIN subs : subs'[i] = subs[i] /\ subs'[i] # Len(chans) + 1
        /\ subs'[Len(subs) + 1] = Len(chans) + 1
    BY <1>0, <1>4 DEF JoinStep
  <2>3. Injective(subs')
    BY <2>2 DEF SubsInv, Injective
  <2>4. \A s \in DOMAIN chans' : \E i \in DOMAIN subs' : subs'[i] = s
    BY <1>4, <2>2 DEF JoinStep, Joined, SubsInv
  <2> QED  BY <2>1, <2>3, <2>4 DEF SubsInv, Injective
<1> QED  BY <1>1, <1>2, <1>3, <1>4, Classified

(* Every step keeps the order.                                             *)
LEMMA OrderStep == IInv /\ SubsInv /\ OrderInv /\ [Next]_vars => OrderInv'
<1> SUFFICES ASSUME IInv, SubsInv, OrderInv, [Next]_vars PROVE OrderInv'
  OBVIOUS
<1>0. /\ rest \in [Proc -> Seq(DOMAIN chans)] /\ subs \in Seq(DOMAIN chans) /\ chans \in Seq(Chan)
      /\ calls \in [Proc -> Nat] /\ frame \in [Proc -> Frame]
  BY DEF IInv, TypeOK
<1>t. \A s \in DOMAIN chans : Taken(s) \in Seq(Frame)
  BY ChanParts DEF IInv
<1>n. \A s \in DOMAIN chans : \A i \in DOMAIN Taken(s) : Taken(s)[i].src[2] \in Nat
  <2>1. \A f \in Frame : f.src[2] \in Nat
    BY DEF Frame
  <2>2. \A s \in DOMAIN chans : \A i \in DOMAIN Taken(s) : Taken(s)[i] \in Frame
    BY <1>t
  <2> QED  BY <2>1, <2>2
<1> DEFINE Src(p)   == pc[p] \in Exchanging => frame[p].src = <<p, calls[p]>>
           Start(p) == pc[p] \notin Offering \cup {"idle"} => \A s \in DOMAIN chans : Behind(p, s)
           Ahead(p) == pc[p] \in Offering => \A s \in Pending(p) : Behind(p, s)
           Kept(s)  == Ordered(s) /\ \A p \in Proc : NotAhead(p, s)
(* A goroutine that stays where it is, over streams of which it gets no    *)
(* frame.                                                                  *)
<1>1. ASSUME NEW p \in Proc, Still(p),
             \A s \in DOMAIN chans : Behind(p, s) => Behind(p, s)',
             \A s \in DOMAIN chans' \ DOMAIN chans : Behind(p, s)'
      PROVE  Src(p)' /\ Start(p)' /\ Ahead(p)'
  <2>1. Src(p)'
    BY <1>1 DEF Still, OrderInv
  <2>2. Start(p)'
    BY <1>1 DEF Still, OrderInv
  <2>3. Ahead(p)'
    <3>1. Pending(p)' = Pending(p) /\ Pending(p) \subseteq DOMAIN chans
      BY <1>0, <1>1 DEF Still, Pending
    <3> QED  BY <3>1, <1>1 DEF Still, OrderInv
  <2> QED  BY <2>1, <2>2, <2>3
(* A stream that stays as it is, when no goroutine forgets a call.         *)
<1>2. ASSUME NEW s \in DOMAIN chans, Taken(s)' = Taken(s),
             \A p \in Proc : calls'[p] \in {calls[p], calls[p] + 1}
      PROVE  Kept(s)'
  <2>1. Ordered(s)'
    BY <1>2, SameOrder DEF OrderInv
  <2>2. ASSUME NEW p \in Proc PROVE NotAhead(p, s)'
    <3>1. \A i \in DOMAIN Taken(s) : Taken(s)[i].src[2] \in Nat
      BY <1>n
    <3>2. NotAhead(p, s) /\ calls[p] \in Nat
      BY <1>0 DEF OrderInv
    <3> QED  BY <1>2, <3>1, <3>2 DEF NotAhead
  <2> QED  BY <2>1, <2>2
<1>3. CASE QuietStep
  <2>1. ASSUME NEW p \in Proc PROVE Src(p)' /\ Start(p)' /\ Ahead(p)'
    <3>1. Still(p) /\ DOMAIN chans' = DOMAIN chans
      BY <1>3 DEF QuietStep, SameStreams
    <3>2. \A s \in DOMAIN chans : Behind(p, s) => Behind(p, s)'
      BY <1>3, <3>1, SameOrder DEF QuietStep, SameStreams, SameStream, Still
    <3> QED  BY <1>1, <3>1, <3>2
  <2>2. ASSUME NEW s \in DOMAIN chans PROVE Kept(s)'
    BY <1>2, <1>3 DEF QuietStep, SameStreams, SameStream, Still
  <2> QED  BY <2>1, <2>2, <1>3 DEF QuietStep, SameStreams, OrderInv
<1>4. ASSUME NEW p \in Proc, MoveStep(p) PROVE OrderInv'
  <2>0. DOMAIN chans' = DOMAIN chans /\ \A s \in DOMAIN chans : Taken(s)' = Taken(s)
    BY <1>4 DEF MoveStep, SameStreams, SameStream
  <2>1. ASSUME NEW q \in Proc, q # p PROVE Src(q)' /\ Start(q)' /\ Ahead(q)'
    <3>1. Still(q)
      BY <1>4, <2>1 DEF MoveStep, Others
    <3>2. \A s \in DOMAIN chans : Behind(q, s) => Behind(q, s)'
      BY <2>0, <3>1, SameOrder DEF Still
    <3> QED  BY <1>1, <2>0, <3>1, <3>2
  <2>2. calls'[p] \in {calls[p], calls[p] + 1}
    BY <1>4 DEF MoveStep, Moves, Begins, Outside, Finds, Enters, Passes, Counts, Leaves
  <2>3. ASSUME NEW s \in DOMAIN chans PROVE Kept(s)'
    BY <1>2, <1>4, <2>0, <2>2 DEF MoveStep, Others, Still
  <2>4. Src(p)'
    BY <1>4 DEF MoveStep, Moves, Begins, Outside, Finds, Enters, Passes, Counts, Leaves,
                OrderInv, Exchanging, Offering, Synthesise
  <2>5. CASE Begins(p)
    <3>1. ASSUME NEW s \in DOMAIN chans PROVE Behind(p, s)'
      <4>1. NotAhead(p, s) /\ calls[p] \in Nat
        BY <1>0 DEF OrderInv
      <4>2. \A i \in DOMAIN Taken(s) : Taken(s)[i].src[2] \in Nat
        BY <1>n
      <4> QED  BY <2>0, <2>5, <4>1, <4>2 DEF Begins, NotAhead, Behind
    <3>2. Start(p)' /\ Ahead(p)'
      BY <2>0, <2>5, <3>1 DEF Begins, Offering
    <3> QED  BY <2>0, <2>1, <2>3, <2>4, <3>2 DEF OrderInv
  <2>6. ASSUME calls'[p] = calls[p]
        PROVE  \A s \in DOMAIN chans : Behind(p, s) => Behind(p, s)'
    BY <2>0, <2>6, SameOrder
  <2>7. CASE Outside(p) \/ Finds(p)
    <3>1. Start(p)' /\ Ahead(p)'
      BY <2>0, <2>6, <2>7 DEF Outside, Finds, Offering, OrderInv
    <3> QED  BY <2>0, <2>1, <2>3, <2>4, <3>1 DEF OrderInv
  <2>8. CASE Enters(p) \/ Passes(p) \/ Counts(p) \/ Leaves(p)
    <3>1. calls'[p] = calls[p]
      BY <2>8 DEF Enters, Passes, Counts, Leaves
    <3>2. Start(p)'
      BY <2>8 DEF Enters, Passes, Counts, Leaves, Offering
    <3>3. CASE Enters(p)
      <4>1. Pending(p)' \subseteq DOMAIN chans
        BY <3>3, <1>0 DEF Enters, Pending
      <4>2. Ahead(p)'
        BY <3>1, <3>3, <4>1, <2>6 DEF Enters, Offering, OrderInv
      <4> QED  BY <2>0, <2>1, <2>3, <2>4, <3>2, <4>2 DEF OrderInv
    <3>4. CASE Passes(p)
      <4>1. Pending(p)' \subseteq Pending(p) /\ Pending(p) \subseteq DOMAIN chans
        BY <3>4, <1>0, SMTT(30) DEF Passes, Pending
      <4>2. Ahead(p)'
        BY <3>1, <3>4, <4>1, <2>6 DEF Passes, Offering, OrderInv
      <4> QED  BY <2>0, <2>1, <2>3, <2>4, <3>2, <4>2 DEF OrderInv
    <3>5. CASE Counts(p)
      <4>1. Pending(p)' \subseteq Pending(p) /\ Pending(p) \subseteq DOMAIN chans
        BY <3>5, <1>0 DEF Counts, Pending
      <4>2. Ahead(p)'
        BY <3>1, <3>5, <4>1, <2>6 DEF Counts, Offering, OrderInv
      <4> QED  BY <2>0, <2>1, <2>3, <2>4, <3>2, <4>2 DEF OrderInv
    <3>6. CASE Leaves(p)
      <4>1. Ahead(p)'
        BY <3>6 DEF Leaves, Offering
      <4> QED  BY <2>0, <2>1, <2>3, <2>4, <3>2, <4>1 DEF OrderInv
    <3> QED  BY <2>8, <3>3, <3>4, <3>5, <3>6
  <2> QED  BY <1>4, <2>5, <2>7, <2>8 DEF MoveStep, Moves
<1>5. ASSUME NEW p \in Proc, SendStep(p) PROVE OrderInv'
  <2>1. PICK s \in DOMAIN chans : s = Head(rest[p]) /\ SentTo(p, s)
    BY <1>5 DEF SendStep
  <2>2. /\ DOMAIN chans' = DOMAIN chans /\ Taken(s)' = Append(Taken(s), frame[p])
        /\ \A c \in DOMAIN chans \ {s} : Taken(c)' = Taken(c)
    BY <2>1 DEF SentTo, SameStream
  <2>3. /\ Taken(s) \in Seq(Frame) /\ frame[p] \in Frame
        /\ DOMAIN Taken(s)' = DOMAIN Taken(s) \cup {Len(Taken(s)) + 1}
        /\ \A i \in DOMAIN Taken(s) : Taken(s)'[i] = Taken(s)[i]
        /\ Taken(s)'[Len(Taken(s)) + 1] = frame[p]
    <3>1. Taken(s) \in Seq(Frame) /\ frame[p] \in Frame
      BY <1>0, <1>t
    <3> QED  BY <2>2, <3>1, AppendSeq
  <2>4. /\ \A q \in Proc : calls'[q] = calls[q]
        /\ \A q \in Proc : q # p => Still(q)
        /\ pc[p] = "offer" /\ pc'[p] = "sent" /\ frame'[p] = frame[p]
        /\ rest[p] # <<>> /\ rest'[p] = rest[p] /\ s = rest[p][1]
    BY <1>0, <1>5, <2>1, TailSeq DEF SendStep, Sends, Others, Still
  <2>5. frame[p].src[1] = p /\ frame[p].src[2] = calls[p] /\ calls[p] \in Nat
    BY <1>0, <2>4 DEF OrderInv, Exchanging
  <2>6. Behind(p, s)
    BY <1>0, <2>4 DEF OrderInv, Offering, Pending
  <2>7. ASSUME NEW c \in DOMAIN chans PROVE Kept(c)'
    <3>1. CASE c # s
      BY <1>2, <2>2, <2>4, <3>1
    <3>2. Ordered(s)'
      <4>1. Ordered(s)
        BY DEF OrderInv
      <4>2. \A i, j \in DOMAIN Taken(s)' : i < j => i \in DOMAIN Taken(s)
        BY <2>3
      <4> QED  BY <2>3, <2>5, <2>6, <4>1, <4>2 DEF Ordered, Behind
    <3>3. ASSUME NEW q \in Proc PROVE NotAhead(q, s)'
      <4>1. NotAhead(q, s) /\ calls'[q] = calls[q]
        BY <2>4 DEF OrderInv
      <4> QED  BY <2>3, <2>5, <4>1 DEF NotAhead
    <3> QED  BY <3>1, <3>2, <3>3
  <2>8. ASSUME NEW q \in Proc, q # p PROVE Src(q)' /\ Start(q)' /\ Ahead(q)'
    <3>1. ASSUME NEW c \in DOMAIN chans, Behind(q, c) PROVE Behind(q, c)'
      <4>1. CASE c # s
        BY <2>2, <2>4, <3>1, <4>1, SameOrder
      <4>2. CASE c = s
        BY <2>3, <2>4, <2>5, <2>8, <3>1, <4>2 DEF Behind
      <4> QED  BY <4>1, <4>2
    <3> QED  BY <1>1, <2>2, <2>4, <2>8, <3>1
  <2>9. Src(p)' /\ Start(p)'
    BY <2>4 DEF OrderInv, Exchanging, Offering
  <2>10. Ahead(p)'
    <3>1. Pending(p)' \subseteq Pending(p) \ {s}
      BY <1>0, <2>4 DEF Pending, SubsInv, Injective
    <3>2. \A c \in Pending(p) : Behind(p, c) /\ c \in DOMAIN chans
      BY <1>0, <2>4 DEF OrderInv, Offering, Pending
    <3>3. \A c \in Pending(p) \ {s} : Behind(p, c)'
      BY <2>2, <2>4, <3>2, SameOrder
    <3> QED  BY <3>1, <3>3
  <2> QED  BY <2>2, <2>7, <2>8, <2>9, <2>10 DEF OrderInv
<1>6. ASSUME NEW p \in Proc, JoinStep(p) PROVE OrderInv'
  <2>1. PICK n : n = Len(chans) + 1
    OBVIOUS
  <2>2. /\ DOMAIN chans' = DOMAIN chans \cup {n} /\ Taken(n)' = <<>>
        /\ \A c \in DOMAIN chans : Taken(c)' = Taken(c)
    BY <1>6, <2>1 DEF JoinStep, Joined, SameStream
  <2>3. /\ \A q \in Proc : calls'[q] = calls[q]
        /\ \A q \in Proc : q # p => Still(q)
    BY <1>6 DEF JoinStep, Outside, Others, Still
  <2>4. Ordered(n)' /\ \A q \in Proc : NotAhead(q, n)' /\ Behind(q, n)'
    BY <2>2 DEF Ordered, NotAhead, Behind
  <2>5. ASSUME NEW c \in DOMAIN chans' PROVE Kept(c)'
    BY <1>2, <2>2, <2>3, <2>4
  <2>6. ASSUME NEW q \in Proc, q # p PROVE Src(q)' /\ Start(q)' /\ Ahead(q)'
    <3>1. \A c \in DOMAIN chans : Behind(q, c) => Behind(q, c)'
      BY <2>2, <2>3, SameOrder
    <3> QED  BY <1>1, <2>2, <2>3, <2>4, <2>6, <3>1
  <2>7. Src(p)' /\ Start(p)' /\ Ahead(p)'
    <3>1. \A c \in DOMAIN chans : Behind(p, c) => Behind(p, c)'
      BY <2>2, <2>3, SameOrder
    <3> QED  BY <1>6, <2>2, <2>4, <3>1 DEF JoinStep, Outside, OrderInv, Exchanging, Offering
  <2> QED  BY <2>5, <2>6, <2>7 DEF OrderInv
<1> QED  BY <1>3, <1>4, <1>5, <1>6, Classified

(* The invariant behind the order of frames, in every reachable state.     *)
LEMMA OrderInvariance == Spec => [](IInv /\ SubsInv /\ OrderInv)
<1>1. Init => SubsInv /\ OrderInv
  <2> SUFFICES ASSUME Init PROVE SubsInv /\ OrderInv
    OBVIOUS
  <2>1. SubsInv
    BY DEF Init, SubsInv, Injective
  <2>2. OrderInv
    BY DEF Init, OrderInv, Exchanging, Offering
  <2> QED  BY <2>1, <2>2
<1>2. IInv /\ SubsInv /\ OrderInv /\ [Next]_vars => SubsInv' /\ OrderInv'
  BY SubsStep, OrderStep
<1> QED  BY <1>1, <1>2, Invariance, PTL DEF Spec

(* For any number of goroutines whose broadcasts overlap, and with         *)
(* subscribers coming and the bus closing at any moment, every channel     *)
(* carries the frames of one sender in the order of its calls and none of  *)
(* them twice.                                                             *)
THEOREM SendersInOrder == Spec => []SenderOrder
<1>1. OrderInv => SenderOrder
  BY DEF OrderInv, Ordered, SenderOrder
<1> QED  BY <1>1, OrderInvariance, PTL

(* A channel has lost a frame only after it had taken ChanSize, for every  *)
(* capacity.                                                               *)
THEOREM LossIsOverflow == Spec => []LossNeedsFullChannel
<1>1. Init => LossNeedsFullChannel
  BY DEF Init, LossNeedsFullChannel
<1>2. IInv /\ LossNeedsFullChannel /\ [Next]_vars => LossNeedsFullChannel'
  <2> SUFFICES ASSUME IInv, LossNeedsFullChannel, [Next]_vars PROVE LossNeedsFullChannel'
    OBVIOUS
  <2> DEFINE Full(s) == chans[s].lost > 0 => Len(Taken(s)) >= ChanSize
  <2>0. ASSUME NEW s \in DOMAIN chans
        PROVE  Taken(s) \in Seq(Frame) /\ chans[s].lost \in Nat /\ Full(s)
    BY ChanParts DEF IInv, LossNeedsFullChannel
  <2>1. ASSUME NEW s \in DOMAIN chans, SameStream(s) PROVE Full(s)'
    <3>1. /\ Taken(s)' = Taken(s) /\ chans'[s].lost \in Nat /\ chans'[s].lost >= chans[s].lost
          /\ (chans'[s].lost > chans[s].lost => Len(Taken(s)) >= ChanSize)
      BY <2>1 DEF SameStream
    <3>2. chans[s].lost \in Nat /\ Full(s)
      BY <2>0
    <3> QED  BY <3>1, <3>2
  <2>2. CASE QuietStep
    BY <2>1, <2>2 DEF QuietStep, SameStreams, LossNeedsFullChannel
  <2>3. ASSUME NEW p \in Proc, MoveStep(p) PROVE LossNeedsFullChannel'
    BY <2>1, <2>3 DEF MoveStep, SameStreams, LossNeedsFullChannel
  <2>4. ASSUME NEW p \in Proc, SendStep(p) PROVE LossNeedsFullChannel'
    <3>1. PICK s \in DOMAIN chans : SentTo(p, s)
      BY <2>4 DEF SendStep
    <3>2. /\ DOMAIN chans' = DOMAIN chans /\ Taken(s)' = Append(Taken(s), frame[p])
          /\ \A c \in DOMAIN chans \ {s} : SameStream(c)
          /\ chans'[s].lost = chans[s].lost
      BY <3>1 DEF SentTo
    <3>3. Full(s)'
      <4>1. frame[p] \in Frame
        BY DEF IInv, TypeOK
      <4>2. Len(Taken(s)') = Len(Taken(s)) + 1 /\ Len(Taken(s)) \in Nat
        BY <2>0, <3>2, <4>1
      <4>3. ASSUME NEW n \in Nat, n >= ChanSize PROVE n + 1 >= ChanSize
        BY <4>3, BoundAssumption
      <4> QED  BY <2>0, <3>2, <4>2, <4>3, Zenon
    <3> QED  BY <2>1, <3>2, <3>3 DEF LossNeedsFullChannel
  <2>5. ASSUME NEW p \in Proc, JoinStep(p) PROVE LossNeedsFullChannel'
    <3>1. PICK n : n = Len(chans) + 1
      OBVIOUS
    <3>2. /\ DOMAIN chans' = DOMAIN chans \cup {n} /\ chans'[n].lost = 0
          /\ \A c \in DOMAIN chans : SameStream(c)
      BY <2>5, <3>1 DEF JoinStep, Joined
    <3> QED  BY <2>1, <3>2 DEF LossNeedsFullChannel
  <2> QED  BY <2>2, <2>3, <2>4, <2>5, Classified
<1> QED  BY <1>1, <1>2, Invariance, PTL DEF Spec

-----------------------------------------------------------------------------
(* What a broadcast reaches.  BroadcastReachesAll speaks of a goroutine    *)
(* between two sends; the invariant also says what holds between a send    *)
(* and the counting of it, that the cursor is a suffix of b.subs as it is  *)
(* now, and that a stream holds only frames its filters select.            *)
Passed(p)    == Len(subs) - Len(rest[p])
Chosen(s)    == \A k \in DOMAIN Taken(s) : Selects(s, Taken(s)[k].ID)
Same(p, s)   == \A k \in DOMAIN Taken(s) :
                  Taken(s)[k].src = frame[p].src => Taken(s)[k].ID = frame[p].ID
Holds(p, s)  == \E k \in DOMAIN Taken(s) : Taken(s)[k].src = frame[p].src
Served(p, s) == Selects(s, frame[p].ID) => Holds(p, s) \/ chans[s].lost > 0

Suffix(p) ==
  Len(rest[p]) <= Len(subs) /\ \A k \in DOMAIN rest[p] : rest[p][k] = subs[Passed(p) + k]

ReachInv ==
  /\ \A s \in DOMAIN chans : Chosen(s)
  /\ \A p \in Proc : pc[p] \in Exchanging => \A s \in DOMAIN chans : Same(p, s)
  /\ \A p \in Proc : pc[p] \in Offering => Suffix(p)
  /\ \A p \in Proc : pc[p] \in Offering =>
       \A s \in {subs[i] : i \in 1..Passed(p)} : Served(p, s)
  /\ \A p \in Proc : pc[p] \in {"sent", "delivered"} =>
       \A s \in {Head(rest[p])} : Holds(p, s)

(* The filter of the code, and what it is meant to select.                 *)
LEMMA WantedSelects ==
  ASSUME NEW p, NEW s
  PROVE  Wanted(p, s) <=> Selects(s, frame[p].ID)
  BY DEF Wanted, matchesAny, Matches, Selects

(* These predicates depend on the stream and the sender's frame only.      *)
LEMMA SameReach ==
  ASSUME TypeOK, NEW s \in DOMAIN chans, SameStream(s)
  PROVE  /\ Chosen(s) => Chosen(s)'
         /\ \A p \in Proc : frame'[p] = frame[p] =>
              /\ Same(p, s) => Same(p, s)'
              /\ Holds(p, s) => Holds(p, s)'
              /\ Served(p, s) => Served(p, s)'
<1>1. Taken(s)' = Taken(s) /\ chans'[s].filters = chans[s].filters
  BY DEF SameStream
<1>2. chans[s].lost > 0 => chans'[s].lost > 0
  <2>1. chans[s].lost \in Nat
    BY ChanParts
  <2> QED  BY <2>1 DEF SameStream
<1> QED  BY <1>1, <1>2 DEF Chosen, Same, Holds, Served, Selects

(* Every step keeps the reach of the broadcasts under way.                 *)
LEMMA ReachStep == IInv /\ OrderInv /\ ReachInv /\ [Next]_vars => ReachInv'
<1> SUFFICES ASSUME IInv, OrderInv, ReachInv, [Next]_vars PROVE ReachInv'
  OBVIOUS
<1>0. /\ rest \in [Proc -> Seq(DOMAIN chans)] /\ subs \in Seq(DOMAIN chans) /\ chans \in Seq(Chan)
      /\ calls \in [Proc -> Nat] /\ frame \in [Proc -> Frame] /\ TypeOK
  BY DEF IInv, TypeOK
<1>t. \A s \in DOMAIN chans : Taken(s) \in Seq(Frame)
  BY ChanParts DEF IInv
<1>r. \A p \in Proc : pc[p] \in Offering => p \in readers
  BY DEF IInv, LockInv, Offering, Reading
<1>p. \A p \in Proc : pc[p] \in Offering => \A i \in 1..Passed(p) : subs[i] \in DOMAIN chans
  BY <1>0 DEF ReachInv, Suffix, Passed
<1>h. \A p \in Proc : pc[p] \in {"sent", "delivered"} => Head(rest[p]) \in DOMAIN chans
  BY <1>0, TailSeq DEF IInv, LockInv
<1> DEFINE Id(p)    == pc[p] \in Exchanging => \A s \in DOMAIN chans : Same(p, s)
           Suf(p)   == pc[p] \in Offering => Suffix(p)
           Done(p)  == pc[p] \in Offering => \A s \in {subs[i] : i \in 1..Passed(p)} : Served(p, s)
           Here(p)  == pc[p] \in {"sent", "delivered"} => \A s \in {Head(rest[p])} : Holds(p, s)
(* A goroutine that stays where it is, over streams that keep its frame.   *)
<1>1. ASSUME NEW p \in Proc, Still(p), subs' = subs \/ readers = {},
             \A s \in DOMAIN chans :
               /\ Same(p, s) => Same(p, s)'
               /\ Holds(p, s) => Holds(p, s)'
               /\ Served(p, s) => Served(p, s)',
             \A s \in DOMAIN chans' \ DOMAIN chans : Same(p, s)'
      PROVE  Id(p)' /\ Suf(p)' /\ Done(p)' /\ Here(p)'
  <2>1. Id(p)'
    BY <1>1 DEF Still, ReachInv
  <2>2. pc[p] \in Offering => subs' = subs
    BY <1>1, <1>r
  <2>3. Suf(p)'
    BY <1>1, <2>2 DEF Still, ReachInv, Suffix, Passed
  <2>4. Done(p)'
    <3>1. pc[p] \in Offering => Passed(p)' = Passed(p)
      BY <1>1, <2>2 DEF Still, Passed
    <3> QED  BY <1>1, <2>2, <3>1, <1>p DEF Still, ReachInv
  <2>5. Here(p)'
    BY <1>1, <1>h DEF Still, ReachInv
  <2> QED  BY <2>1, <2>3, <2>4, <2>5
<1>2. CASE QuietStep
  <2>1. \A s \in DOMAIN chans : SameStream(s)
    BY <1>2 DEF QuietStep, SameStreams
  <2>2. ASSUME NEW p \in Proc PROVE Id(p)' /\ Suf(p)' /\ Done(p)' /\ Here(p)'
    BY <1>0, <1>1, <1>2, <2>1, SameReach DEF QuietStep, SameStreams, Still
  <2>3. \A s \in DOMAIN chans' : Chosen(s)'
    BY <1>0, <1>2, <2>1, SameReach DEF QuietStep, SameStreams, ReachInv
  <2> QED  BY <2>2, <2>3 DEF ReachInv
<1>3. ASSUME NEW p \in Proc, MoveStep(p) PROVE ReachInv'
  <2>1. DOMAIN chans' = DOMAIN chans /\ \A s \in DOMAIN chans : SameStream(s)
    BY <1>3 DEF MoveStep, SameStreams
  <2>2. subs' = subs \/ (readers = {} /\ pc[p] \in Writing)
    BY <1>3 DEF MoveStep
  <2>3. ASSUME NEW q \in Proc, q # p PROVE Id(q)' /\ Suf(q)' /\ Done(q)' /\ Here(q)'
    <3>1. Still(q)
      BY <1>3, <2>3 DEF MoveStep, Others
    <3>2. \A s \in DOMAIN chans :
            /\ Same(q, s) => Same(q, s)'
            /\ Holds(q, s) => Holds(q, s)'
            /\ Served(q, s) => Served(q, s)'
      BY <1>0, <2>1, <3>1, SameReach DEF Still
    <3>3. (subs' = subs \/ readers = {}) /\ \A s \in DOMAIN chans' \ DOMAIN chans : Same(q, s)'
      BY <2>1, <2>2
    <3> HIDE DEF Id, Suf, Done, Here
    <3> QED  BY <1>1, <3>1, <3>2, <3>3
  <2>4. \A s \in DOMAIN chans' : Chosen(s)'
    BY <1>0, <2>1, SameReach DEF ReachInv
  <2>5. ASSUME frame'[p] = frame[p]
        PROVE  \A s \in DOMAIN chans :
                 /\ Same(p, s) => Same(p, s)'
                 /\ Holds(p, s) => Holds(p, s)'
                 /\ Served(p, s) => Served(p, s)'
    BY <1>0, <2>1, <2>5, SameReach
  <2>6. CASE Begins(p) \/ Outside(p) \/ Leaves(p)
    <3>1. /\ pc'[p] \notin Offering /\ frame'[p] = frame[p]
          /\ pc'[p] \in Exchanging => pc[p] \in Exchanging
      BY <2>6 DEF Begins, Outside, Leaves, Offering, Exchanging
    <3>2. Id(p)' /\ Suf(p)' /\ Done(p)' /\ Here(p)'
      BY <2>1, <2>5, <3>1 DEF ReachInv, Offering
    <3> QED  BY <2>3, <2>4, <3>2 DEF ReachInv
  <2>7. CASE Finds(p)
    <3>1. ASSUME NEW s \in DOMAIN chans PROVE Same(p, s)'
      <4>1. Behind(p, s) /\ calls[p] \in Nat
        BY <1>0, <2>7 DEF Finds, OrderInv, Offering
      <4>2. frame'[p].src = <<p, calls[p]>>
        BY <2>7 DEF Finds, Synthesise
      <4>3. Taken(s)' = Taken(s)
        BY <2>1 DEF SameStream
      <4> QED  BY <4>1, <4>2, <4>3 DEF Behind, Same
    <3>2. Id(p)' /\ Suf(p)' /\ Done(p)' /\ Here(p)'
      BY <2>1, <2>7, <3>1 DEF Finds, Offering
    <3> QED  BY <2>3, <2>4, <3>2 DEF ReachInv
  <2>8. CASE Enters(p)
    <3>1. subs' = subs /\ rest'[p] = subs /\ frame'[p] = frame[p] /\ pc'[p] = "offer" /\ pc[p] = "counted"
      BY <2>2, <2>8 DEF Enters, Writing
    <3>2. Suffix(p)' /\ Passed(p)' = 0
      BY <1>0, <3>1 DEF Suffix, Passed
    <3>3. Id(p)' /\ Suf(p)' /\ Done(p)' /\ Here(p)'
      BY <2>1, <2>5, <3>1, <3>2 DEF ReachInv, Exchanging
    <3> QED  BY <2>3, <2>4, <3>3 DEF ReachInv
  <2>9. CASE Counts(p)
    <3>1. subs' = subs /\ rest'[p] = rest[p] /\ frame'[p] = frame[p] /\ pc'[p] = "delivered" /\ pc[p] = "sent"
      BY <2>2, <2>9 DEF Counts, Writing
    <3>2. Suffix(p)' /\ Passed(p)' = Passed(p)
      BY <1>0, <3>1 DEF Suffix, Passed, ReachInv, Offering
    <3>3. Id(p)'
      BY <2>1, <2>5, <3>1 DEF ReachInv, Exchanging
    <3>4. Done(p)'
      BY <1>p, <2>1, <2>5, <3>1, <3>2 DEF ReachInv, Offering
    <3>5. Here(p)'
      BY <1>h, <2>1, <2>5, <3>1 DEF ReachInv
    <3> QED  BY <2>3, <2>4, <3>2, <3>3, <3>4, <3>5 DEF ReachInv
  <2>10. CASE Passes(p)
    <3>1. /\ subs' = subs /\ rest[p] # <<>> /\ rest'[p] = Tail(rest[p]) /\ frame'[p] = frame[p]
          /\ pc'[p] = "offer" /\ pc[p] \in {"offer", "delivered"}
      BY <2>2, <2>10 DEF Passes, Writing
    <3>2. /\ Suffix(p) /\ rest[p] \in Seq(DOMAIN chans) /\ Len(rest[p]) \in Nat \ {0}
          /\ Len(Tail(rest[p])) = Len(rest[p]) - 1
          /\ \A k \in DOMAIN Tail(rest[p]) : k + 1 \in DOMAIN rest[p] /\ Tail(rest[p])[k] = rest[p][k + 1]
      BY <1>0, <3>1 DEF ReachInv, Offering
    <3>3. /\ Suffix(p)' /\ Passed(p)' = Passed(p) + 1 /\ Passed(p) \in Nat
          /\ subs[Passed(p) + 1] = Head(rest[p]) /\ Head(rest[p]) \in DOMAIN chans
      <4>1. Len(subs) \in Nat /\ Len(rest[p]) <= Len(subs)
        BY <1>0, <3>2 DEF Suffix
      <4>2. Passed(p)' = Passed(p) + 1 /\ Passed(p) \in Nat
        <5>1. Passed(p)' = Len(subs) - Len(Tail(rest[p]))
          BY <3>1 DEF Passed
        <5>2. ASSUME NEW m \in Nat, NEW n \in Nat \ {0}, n <= m
              PROVE  m - (n - 1) = (m - n) + 1 /\ m - n \in Nat
          BY <5>2
        <5> QED  BY <3>2, <4>1, <5>1, <5>2, Zenon DEF Passed
      <4>3. Head(rest[p]) = rest[p][1] /\ 1 \in DOMAIN rest[p] /\ rest[p][1] \in DOMAIN chans
        BY <3>1, <3>2
      <4>4. subs[Passed(p) + 1] = Head(rest[p])
        BY <3>2, <4>3 DEF Suffix
      <4>5. Len(rest'[p]) <= Len(subs')
        BY <3>1, <3>2, <4>1
      <4>6. ASSUME NEW k \in DOMAIN rest'[p] PROVE rest'[p][k] = subs'[Passed(p)' + k]
        <5>1. k + 1 \in DOMAIN rest[p] /\ rest'[p][k] = rest[p][k + 1] /\ k \in Nat
          BY <3>1, <3>2
        <5>2. rest[p][k + 1] = subs[Passed(p) + (k + 1)]
          BY <3>2, <5>1 DEF Suffix
        <5>3. Passed(p) + (k + 1) = Passed(p)' + k
          BY <4>2, <5>1
        <5> QED  BY <3>1, <5>1, <5>2, <5>3
      <4> QED  BY <4>2, <4>3, <4>4, <4>5, <4>6 DEF Suffix
    <3>4. Id(p)'
      BY <2>1, <2>5, <3>1 DEF ReachInv, Exchanging
    <3>5. PICK s \in DOMAIN chans : s = Head(rest[p])
      BY <3>3
    <3>6. Served(p, s)'
      <4>1. SameStream(s)
        BY <2>1
      <4>2. CASE pc[p] = "delivered"
        <5>1. Holds(p, s)
          BY <3>5, <4>2 DEF ReachInv
        <5> QED  BY <5>1, <2>5, <3>1 DEF Served
      <4>3. CASE pc[p] = "offer"
        <5>1. ~Wanted(p, s) \/ chans'[s].lost > 0
          BY <2>10, <3>5, <4>3 DEF Passes
        <5>2. CASE ~Wanted(p, s)
          <6>1. ~Selects(s, frame[p].ID)
            BY <5>2, WantedSelects
          <6> QED  BY <6>1, <3>1, <4>1 DEF Served, Selects, SameStream
        <5>3. CASE chans'[s].lost > 0
          BY <5>3 DEF Served
        <5> QED  BY <5>1, <5>2, <5>3
      <4> QED  BY <3>1, <4>2, <4>3
    <3>7. Done(p)'
      <4>1. \A i \in 1..Passed(p) : subs[i] \in DOMAIN chans
        BY <1>p, <3>1 DEF Offering
      <4>2. {subs'[i] : i \in 1..Passed(p)'} \subseteq {subs[i] : i \in 1..Passed(p)} \cup {s}
        BY <3>1, <3>3, <3>5
      <4>3. \A c \in {subs[i] : i \in 1..Passed(p)} : Served(p, c)'
        BY <2>5, <3>1, <4>1 DEF ReachInv, Offering
      <4> QED  BY <3>6, <4>2, <4>3
    <3>8. Here(p)'
      BY <3>1
    <3> QED  BY <2>3, <2>4, <3>3, <3>4, <3>7, <3>8 DEF ReachInv
  <2> QED  BY <1>3, <2>6, <2>7, <2>8, <2>9, <2>10 DEF MoveStep, Moves
<1>4. ASSUME NEW p \in Proc, SendStep(p) PROVE ReachInv'
  <2>1. PICK s \in DOMAIN chans : s = Head(rest[p]) /\ SentTo(p, s)
    BY <1>4 DEF SendStep
  <2>2. /\ DOMAIN chans' = DOMAIN chans /\ Taken(s)' = Append(Taken(s), frame[p])
        /\ \A c \in DOMAIN chans \ {s} : SameStream(c)
        /\ chans'[s].filters = chans[s].filters /\ chans'[s].lost = chans[s].lost
    BY <2>1 DEF SentTo
  <2>3. /\ DOMAIN Taken(s)' = DOMAIN Taken(s) \cup {Len(Taken(s)) + 1}
        /\ \A i \in DOMAIN Taken(s) : Taken(s)'[i] = Taken(s)[i]
        /\ Taken(s)'[Len(Taken(s)) + 1] = frame[p]
    <3>1. Taken(s) \in Seq(Frame) /\ frame[p] \in Frame
      BY <1>0, <1>t
    <3> QED  BY <2>2, <3>1, AppendSeq
  <2>4. /\ \A q \in Proc : frame'[q] = frame[q] /\ rest'[q] = rest[q]
        /\ \A q \in Proc : q # p => Still(q)
        /\ pc[p] = "offer" /\ pc'[p] = "sent" /\ Wanted(p, s) /\ subs' = subs
    BY <1>4, <2>1 DEF SendStep, Sends, Others, Still
  <2>5. \A c \in DOMAIN chans' : Chosen(c)'
    <3>1. ASSUME NEW c \in DOMAIN chans, c # s PROVE Chosen(c)'
      BY <1>0, <2>2, <3>1, SameReach DEF ReachInv
    <3>2. Chosen(s)'
      <4>1. Selects(s, frame[p].ID)
        BY <2>4, WantedSelects
      <4>2. \A id : Selects(s, id) => Selects(s, id)'
        BY <2>2 DEF Selects
      <4>3. Chosen(s)
        BY DEF ReachInv
      <4> QED  BY <2>3, <4>1, <4>2, <4>3 DEF Chosen
    <3> QED  BY <2>2, <3>1, <3>2
  <2>6. ASSUME NEW q \in Proc
        PROVE  \A c \in DOMAIN chans :
                 /\ Holds(q, c) => Holds(q, c)'
                 /\ Served(q, c) => Served(q, c)'
    <3>1. ASSUME NEW c \in DOMAIN chans, c # s
          PROVE  (Holds(q, c) => Holds(q, c)') /\ (Served(q, c) => Served(q, c)')
      BY <1>0, <2>2, <2>4, <3>1, SameReach
    <3>2. Holds(q, s) => Holds(q, s)'
      BY <2>3, <2>4 DEF Holds
    <3>3. Served(q, s) => Served(q, s)'
      BY <2>2, <2>4, <3>2 DEF Served, Selects
    <3> QED  BY <3>1, <3>2, <3>3
  <2>7. ASSUME NEW q \in Proc, pc[q] \in Exchanging
        PROVE  \A c \in DOMAIN chans : Same(q, c) => Same(q, c)'
    <3>1. ASSUME NEW c \in DOMAIN chans, c # s PROVE Same(q, c) => Same(q, c)'
      BY <1>0, <2>2, <2>4, <3>1, SameReach
    <3>2. frame[q].src = frame[p].src => q = p
      <4>1. frame[q].src = <<q, calls[q]>> /\ frame[p].src = <<p, calls[p]>>
        BY <2>4, <2>7 DEF OrderInv, Exchanging
      <4> QED  BY <4>1
    <3>3. Same(q, s) => Same(q, s)'
      BY <2>3, <2>4, <3>2 DEF Same
    <3> QED  BY <3>1, <3>3
  <2>8. ASSUME NEW q \in Proc, q # p PROVE Id(q)' /\ Suf(q)' /\ Done(q)' /\ Here(q)'
    <3>1. CASE pc[q] \in Exchanging
      BY <1>1, <2>2, <2>4, <2>6, <2>7, <2>8, <3>1
    <3>2. CASE pc[q] \notin Exchanging
      BY <2>4, <2>8, <3>2 DEF Still, Exchanging, Offering
    <3> QED  BY <3>1, <3>2
  <2>9. Id(p)'
    BY <2>2, <2>4, <2>7 DEF ReachInv, Exchanging
  <2>10. Suffix(p)' /\ Passed(p)' = Passed(p)
    BY <2>4, ZenonT(60) DEF Suffix, Passed, ReachInv, Offering
  <2>11. Done(p)'
    BY <1>p, <2>2, <2>4, <2>6, <2>10 DEF ReachInv, Offering
  <2>12. Here(p)'
    <3>1. Holds(p, s)'
      BY <2>3, <2>4 DEF Holds
    <3> QED  BY <2>1, <2>4, <3>1
  <2> QED  BY <2>5, <2>8, <2>9, <2>10, <2>11, <2>12 DEF ReachInv
<1>5. ASSUME NEW p \in Proc, JoinStep(p) PROVE ReachInv'
  <2>1. PICK n : n = Len(chans) + 1
    OBVIOUS
  <2>2. /\ DOMAIN chans' = DOMAIN chans \cup {n} /\ Taken(n)' = <<>>
        /\ \A c \in DOMAIN chans : SameStream(c)
    BY <1>5, <2>1 DEF JoinStep, Joined
  <2>3. Chosen(n)' /\ \A q \in Proc : Same(q, n)'
    BY <2>2 DEF Chosen, Same
  <2>4. \A c \in DOMAIN chans' : Chosen(c)'
    BY <1>0, <2>2, <2>3, SameReach DEF ReachInv
  <2>5. ASSUME NEW q \in Proc, q # p PROVE Id(q)' /\ Suf(q)' /\ Done(q)' /\ Here(q)'
    <3>1. Still(q) /\ readers = {}
      BY <1>5, <2>5 DEF JoinStep, Others
    <3>2. \A s \in DOMAIN chans :
            /\ Same(q, s) => Same(q, s)'
            /\ Holds(q, s) => Holds(q, s)'
            /\ Served(q, s) => Served(q, s)'
      BY <1>0, <2>2, <3>1, SameReach DEF Still
    <3>3. \A s \in DOMAIN chans' \ DOMAIN chans : Same(q, s)'
      BY <2>2, <2>3, <2>5
    <3> HIDE DEF Id, Suf, Done, Here
    <3> QED  BY <1>1, <3>1, <3>2, <3>3
  <2>6. Id(p)' /\ Suf(p)' /\ Done(p)' /\ Here(p)'
    <3>1. /\ pc'[p] \notin Offering /\ frame'[p] = frame[p]
          /\ pc'[p] \in Exchanging => pc[p] \in Exchanging
      BY <1>5 DEF JoinStep, Outside
    <3>2. \A s \in DOMAIN chans : Same(p, s) => Same(p, s)'
      BY <1>0, <2>2, <3>1, SameReach
    <3> QED  BY <2>2, <2>3, <3>1, <3>2 DEF ReachInv, Offering
  <2> QED  BY <2>4, <2>5, <2>6 DEF ReachInv
<1> QED  BY <1>2, <1>3, <1>4, <1>5, Classified

(* REQ-VIRT-011, 012 and 014 for any number of goroutines, subscriptions   *)
(* and filters: between two sends of a broadcast, every subscription it    *)
(* has passed and whose filters select the frame has taken it or has lost  *)
(* frames to a full channel, and no other one has taken it.                *)
THEOREM BroadcastComplete == Spec => []BroadcastReachesAll
<1>1. Init => ReachInv
  BY DEF Init, ReachInv, Exchanging, Offering
<1>2. IInv /\ OrderInv /\ ReachInv /\ [Next]_vars => ReachInv'
  BY ReachStep
<1>3. TypeOK /\ ReachInv => BroadcastReachesAll
  <2> SUFFICES ASSUME TypeOK, ReachInv, NEW p \in Proc, pc[p] = "offer", NEW i \in 1..Passed(p)
               PROVE  IF Selects(subs[i], frame[p].ID) THEN Holds(p, subs[i]) \/ chans[subs[i]].lost > 0
                      ELSE ~Holds(p, subs[i])
    BY DEF BroadcastReachesAll, Passed, Holds
  <2>1. Served(p, subs[i])
    BY DEF ReachInv, Offering
  <2>2. subs[i] \in DOMAIN chans
    BY DEF TypeOK, ReachInv, Suffix, Passed, Offering
  <2>3. Chosen(subs[i]) /\ Same(p, subs[i])
    BY <2>2 DEF ReachInv, Exchanging
  <2>4. Holds(p, subs[i]) => Selects(subs[i], frame[p].ID)
    BY <2>3 DEF Chosen, Same, Holds
  <2> QED  BY <2>1, <2>4 DEF Served
<1>4. IInv => TypeOK
  BY DEF IInv
<1> QED  BY <1>1, <1>2, <1>3, <1>4, OrderInvariance, PTL DEF Spec

-----------------------------------------------------------------------------
(* The bus keeps the contract of its interfaces.  Flight and Streams are   *)
(* the refinement mapping of VirtualBus.                                   *)
Flight == {frame[p] : p \in {q \in Proc : pc[q] \in Exchanging}}

Streams ==
  [s \in DOMAIN chans |->
     [filters |-> chans[s].filters, taken |-> Taken(s), ended |-> chans[s].closed]]

(* Streams that keep filters, frames and end are the contract's streams.   *)
LEMMA StreamsSame ==
  ASSUME SameStreams, \A s \in DOMAIN chans : chans'[s].closed = chans[s].closed
  PROVE  Streams' = Streams
  BY DEF SameStreams, SameStream, Streams

(* What the contract does not see.                                         *)
LEMMA ContractStutter ==
  ASSUME responses' = responses, closed' = closed, Flight' = Flight, Streams' = Streams
  PROVE  UNCHANGED Contract!cvars
  BY DEF Contract!cvars, Flight, Streams

(* A new bus is a new contract.                                            *)
LEMMA ContractInit == Init => Contract!Init
<1> SUFFICES ASSUME Init PROVE Contract!Init
  OBVIOUS
<1>1. Flight = {}
  BY DEF Init, Flight, Exchanging
<1>2. Streams = <<>>
  BY DEF Init, Streams
<1>3. responses = [id \in 0..LINMaxID |-> NoEntry] /\ ~closed = TRUE
  BY Zenon DEF Init
<1> QED  BY <1>1, <1>2, <1>3 DEF Contract!Init, Contract!LINMaxID, LINMaxID, Flight, Streams

(* Publish is Register, or changes nothing.                                *)
LEMMA PublishContract ==
  ASSUME IInv, IInv', NEW p \in Proc, Publish(p)
  PROVE  [Contract!Next]_(Contract!cvars)
<1>1. Flight' = Flight
  BY SMTT(30) DEF Publish, Locked, Return, Goto, IInv, TypeOK, Flight, Exchanging, local
<1>2. Streams' = Streams
  BY DEF Publish, Streams, Taken
<1>3. closed' = closed
  BY DEF Publish
<1>4. CASE responses' = responses
  BY <1>1, <1>2, <1>3, <1>4, ContractStutter
<1>5. CASE responses' # responses
  <2>1. ~closed /\ call[p].op = "Publish" /\ ~BadArgs(call[p])
    BY <1>5, Zenon DEF Publish, Locked, IInv, LockInv, Writing
  <2>2. PICK e : responses' = [responses EXCEPT ![call[p].id] = e]
    BY <1>5, Zenon DEF Publish
  <2>3. call[p].id \in 0..LINMaxID
    BY <2>1, CheckedArgs DEF IInv, TypeOK
  <2>4. responses \in [0..LINMaxID -> Entry \cup {NoEntry}]
        /\ responses' \in [0..LINMaxID -> Entry \cup {NoEntry}]
    BY DEF IInv, TypeOK
  <2>5. \A other \in 0..LINMaxID \ {call[p].id} : responses'[other] = responses[other]
    BY <2>2, <2>4
  <2>6. Contract!Register
    BY <1>1, <1>2, <1>3, <1>5, <2>1, <2>3, <2>4, <2>5
       DEF Contract!Register, Contract!LINMaxID, LINMaxID, Flight, Streams
  <2> QED  BY <2>6 DEF Contract!Next
<1> QED  BY <1>4, <1>5

(* Two exchanges under way are told apart by their senders.                *)
LEMMA FlightSenders ==
  ASSUME OrderInv, NEW p \in Proc, NEW q \in Proc, pc[p] \in Exchanging, pc[q] \in Exchanging,
         p # q
  PROVE  frame[p].src[1] = p /\ frame[q].src[1] = q /\ frame[p] # frame[q]
  BY DEF OrderInv

(* The lookup that finds a response is Exchange.                           *)
LEMMA LookupContract ==
  ASSUME IInv, OrderInv, NEW p \in Proc, Lookup(p), Finds(p), Others(p)
  PROVE  Contract!Exchange
<1>1. ~closed /\ UNCHANGED <<responses, closed, chans>>
  <2>1. pc'[p] = "found"
    BY DEF Finds
  <2> QED  BY <2>1 DEF Lookup, Return, Goto, IInv, TypeOK, bus
<1>2. Streams' = Streams
  BY <1>1 DEF Streams, Taken
<1> DEFINE id == call[p].id
           f  == Synthesise(id, responses[id], <<p, calls[p]>>)
<1>3. responses[id] = [data |-> f.Data, ct |-> f.ChecksumType] /\ f.ID = id
  <2>1. id \in 0..LINMaxID /\ responses[id] # NoEntry
    BY CheckedArgs DEF Finds, IInv, TypeOK
  <2>2. responses[id] \in Entry
    BY <2>1 DEF IInv, TypeOK
  <2> QED  BY <2>2 DEF Entry, Synthesise
<1>4. f.src[1] = p /\ f.src[2] = calls[p] /\ frame'[p] = f
  BY DEF Synthesise, Finds
<1> HIDE DEF f
<1>5. \A g \in Flight : g.src[1] # f.src[1]
  <2>1. \A q \in Proc : pc[q] \in Exchanging => q # p /\ frame[q].src[1] = q
    BY DEF Finds, Exchanging, OrderInv
  <2> QED  BY <1>4, <2>1 DEF Flight
<1>6. Flight' = Flight \cup {f}
  <2>1. pc[p] \notin Exchanging /\ pc'[p] \in Exchanging
    BY DEF Finds, Exchanging
  <2> QED  BY <1>4, <2>1 DEF Flight, Others, Still
<1>7. f \in Flight' \ Flight
  BY <1>5, <1>6
<1>8. ASSUME NEW s \in DOMAIN chans PROVE Contract!Newer(f, Taken(s))
  <2>1. Behind(p, s)
    BY DEF Finds, OrderInv, Offering
  <2> QED  BY <1>4, <2>1 DEF Contract!Newer, Behind
<1>9. \A s \in DOMAIN Streams : Contract!Newer(f, Streams[s].taken)
  BY <1>8 DEF Streams
<1> QED  BY <1>1, <1>2, <1>3, <1>5, <1>6, <1>7, <1>9 DEF Contract!Exchange, Flight, Streams

(* The send to a subscriber is Deliver.                                    *)
LEMMA SendContract ==
  ASSUME IInv, OrderInv, NEW p \in Proc, NEW s \in DOMAIN chans, s = Head(rest[p]),
         Offer(p), OfferSend(p, s), SentTo(p, s)
  PROVE  s \in DOMAIN Streams /\ \E f \in Flight : Contract!Deliver(f, s)
<1>f. PICK f : f = frame[p]
  OBVIOUS
<1>1. pc[p] = "offer" /\ rest[p] # <<>> /\ rest[p] \in Seq(DOMAIN chans) /\ p \in readers
  BY DEF Offer, IInv, TypeOK, LockInv, Reading
<1>2. ~closed /\ UNCHANGED <<responses, closed, calls, frame>>
  BY <1>1 DEF Offer, IInv, LockInv, bus
<1>3. f \in Flight /\ s \in DOMAIN Streams
  BY <1>f, <1>1 DEF Flight, Exchanging, Streams
<1>4. Flight' = Flight
  BY <1>1, <1>2 DEF OfferSend, Goto, IInv, TypeOK, Flight, Exchanging
<1>5. Contract!Newer(f, Taken(s))
  <2>1. Behind(p, s) /\ f.src = <<p, calls[p]>>
    BY <1>f, <1>1, TailSeq DEF OrderInv, Offering, Exchanging, Pending
  <2> QED  BY <2>1 DEF Contract!Newer, Behind
<1>6. chans[s].filters = {} \/ \E flt \in chans[s].filters : Contract!Matches(flt, f.ID)
  BY <1>f DEF OfferSend, Wanted, matchesAny, Matches, Contract!Matches
<1>7. Streams' = [Streams EXCEPT ![s].taken = Append(@, f)]
  <2>1. /\ DOMAIN chans' = DOMAIN chans
        /\ \A c \in DOMAIN chans : /\ chans'[c].closed = chans[c].closed
                                   /\ chans'[c].filters = chans[c].filters
        /\ \A c \in DOMAIN chans \ {s} : Taken(c)' = Taken(c)
        /\ Taken(s)' = Append(Taken(s), f)
    BY <1>f, SendStreams DEF SentTo, SameStream, IInv
  <2> DEFINE R(c) == [filters |-> chans[c].filters, taken |-> Taken(c), ended |-> chans[c].closed]
  <2>2. Streams = [c \in DOMAIN chans |-> R(c)] /\ Streams' = [c \in DOMAIN chans |-> R(c)']
    BY <2>1 DEF Streams
  <2>3. \A c \in DOMAIN chans \ {s} : R(c)' = R(c)
    BY <2>1, Zenon
  <2>4. R(s)' = [R(s) EXCEPT !.taken = Append(@, f)]
    <3>1. PICK a, t, u, e : a = chans[s].filters /\ t = Taken(s) /\ u = Append(t, f) /\ e = chans[s].closed
      OBVIOUS
    <3>2. [[filters |-> a, taken |-> t, ended |-> e] EXCEPT !.taken = u]
            = [filters |-> a, taken |-> u, ended |-> e]
      OBVIOUS
    <3>3. R(s)' = [filters |-> a, taken |-> u, ended |-> e] /\ R(s).taken = t
      BY <2>1, <3>1, Zenon
    <3> QED  BY <3>1, <3>2, <3>3, Zenon
  <2>5. PICK n : n = [R(s) EXCEPT !.taken = Append(@, f)]
    OBVIOUS
  <2> HIDE DEF R
  <2>6. Streams' = [c \in DOMAIN chans |-> IF c = s THEN n ELSE R(c)]
    BY <2>2, <2>3, <2>4, <2>5, Zenon
  <2>7. s \in DOMAIN chans /\ Streams[s] = R(s)
    BY <1>3, <2>2
  <2> QED  BY <2>2, <2>5, <2>6, <2>7
<1>8. Streams[s].filters = chans[s].filters /\ Streams[s].taken = Taken(s)
  BY DEF Streams
<1>9. Contract!Deliver(f, s)
  BY <1>2, <1>3, <1>4, <1>5, <1>6, <1>7, <1>8 DEF Contract!Deliver, Flight, Streams
<1> QED  BY <1>3, <1>9

(* The end of a broadcast is Complete.                                     *)
LEMMA LeaveContract ==
  ASSUME IInv, OrderInv, NEW p \in Proc, BroadcastRUnlock(p)
  PROVE  \E f \in Flight : Contract!Complete(f)
<1>f. PICK f : f = frame[p]
  OBVIOUS
<1>1. pc[p] = "offer" /\ UNCHANGED <<responses, closed, chans, frame>>
  BY DEF BroadcastRUnlock, bus, local
<1>2. Streams' = Streams
  BY <1>1 DEF Streams, Taken
<1>3. pc'[p] = "idle" /\ \A q \in Proc : q # p => pc'[q] = pc[q]
  BY DEF BroadcastRUnlock, Return, Goto, IInv, TypeOK
<1>4. \A q \in Proc : pc[q] \in Exchanging /\ q # p => frame[q] # frame[p]
  BY <1>1, FlightSenders DEF Exchanging
<1>5. f \in Flight /\ Flight' = Flight \ {f}
  BY <1>f, <1>1, <1>3, <1>4 DEF Flight, Exchanging
<1>6. Contract!Complete(f)
  BY <1>1, <1>2, <1>5, SMTT(30) DEF Contract!Complete, Flight, Streams
<1> QED  BY <1>5, <1>6

(* Subscribe on an open bus is Join.                                       *)
LEMMA JoinContract ==
  ASSUME IInv, NEW p \in Proc, Subscribe(p), ~closed
  PROVE  Contract!Join
<1>1. AddSubscription(call[p]) /\ UNCHANGED <<responses, closed, frame>>
  BY DEF Subscribe, local
<1>2. Flight' = Flight
  BY <1>1, SMTT(30) DEF Subscribe, Locked, Return, Goto, IInv, TypeOK, Flight, Exchanging
<1>n. PICK n : n = Len(chans) + 1
  OBVIOUS
<1> DEFINE r == [filters |-> call[p].filters, taken |-> <<>>, ended |-> FALSE]
<1>3. /\ chans \in Seq(Chan) /\ DOMAIN chans' = DOMAIN chans \cup {n}
      /\ \A s \in DOMAIN chans : chans'[s] = chans[s]
      /\ chans'[n] = NewChan(call[p])
  <2>1. chans' = Append(chans, NewChan(call[p]))
    BY <1>1 DEF AddSubscription
  <2>2. NewChan(call[p]) \in Chan
    BY NewChanType DEF Subscribe, Locked, IInv, TypeOK
  <2> QED  BY <1>n, <2>1, <2>2, AppendSeq DEF IInv, TypeOK
<1>4. DOMAIN Streams = 1..Len(chans) /\ Len(Streams) = Len(chans) /\ Streams \in Seq({Streams[s] : s \in DOMAIN chans})
  <2>1. DOMAIN chans = 1..Len(chans) /\ Len(chans) \in Nat
    BY <1>3
  <2> QED  BY <2>1 DEF Streams
<1>5. DOMAIN Streams' = 1..n /\ Streams'[n] = r /\ \A s \in DOMAIN chans : Streams'[s] = Streams[s]
  <2>1. DOMAIN Streams' = 1..n
    BY <1>n, <1>3 DEF Streams
  <2>2. Streams'[n] = r
    <3>1. Taken(n)' = <<>>
      BY <1>3 DEF NewChan, Taken
    <3>2. chans'[n].filters = call[p].filters /\ chans'[n].closed = FALSE
      BY <1>3 DEF NewChan
    <3> QED  BY <1>3, <3>1, <3>2 DEF Streams
  <2>3. \A s \in DOMAIN chans : Streams'[s] = Streams[s]
    BY <1>3 DEF Streams, Taken
  <2> QED  BY <2>1, <2>2, <2>3
<1>6. Streams' = Append(Streams, r)
  <2> HIDE DEF r
  <2>1. DOMAIN Append(Streams, r) = 1..n /\ Append(Streams, r)[n] = r
        /\ \A s \in DOMAIN chans : Append(Streams, r)[s] = Streams[s]
    BY <1>n, <1>3, <1>4
  <2>2. \A s \in 1..n : Streams'[s] = Append(Streams, r)[s]
    BY <1>n, <1>3, <1>5, <2>1
  <2>3. Streams' = [s \in DOMAIN Streams' |-> Streams'[s]]
    BY DEF Streams
  <2>4. Append(Streams, r) = [s \in 1..n |-> Append(Streams, r)[s]]
    <3> DEFINE S == {Streams[s] : s \in DOMAIN chans} \cup {r}
    <3>1. Streams \in Seq(S) /\ r \in S
      BY <1>4, SeqMono
    <3> HIDE DEF S
    <3>2. Append(Streams, r) \in Seq(S)
      BY <3>1
    <3>3. ASSUME NEW q \in Seq(S), DOMAIN q = 1..n PROVE q = [s \in 1..n |-> q[s]]
      BY <3>3
    <3> QED  BY <2>1, <3>2, <3>3, Zenon
  <2> QED  BY <1>5, <2>2, <2>3, <2>4
<1>7. Len(Streams') = n /\ Len(Streams) + 1 = n
  BY <1>n, <1>3, <1>4, <1>5
<1>8. Streams'[Len(Streams')].filters = call[p].filters
  BY <1>5, <1>7
<1> QED  BY <1>1, <1>2, <1>6, <1>7, <1>8 DEF Contract!Join, Flight, Streams

(* Close of an open bus is Shut: b.subs names every channel, so all the    *)
(* streams end at once.                                                    *)
LEMMA ShutContract ==
  ASSUME IInv, SubsInv, NEW p \in Proc, Close(p), ~closed
  PROVE  Contract!Shut
<1>1. CloseAll(subs) /\ closed' /\ UNCHANGED <<responses, frame>>
  BY Zenon DEF Close, local
<1>2. Flight' = Flight
  BY <1>1 DEF Close, Locked, Return, Goto, IInv, TypeOK, Flight, Exchanging
<1>3. SameStreams
  BY <1>1, CloseStreams DEF IInv
<1>4. ASSUME NEW s \in DOMAIN chans PROVE chans'[s].closed = TRUE
  <2>1. chans[s] \in Chan
    BY DEF IInv, TypeOK
  <2>2. \E i \in DOMAIN subs : subs[i] = s
    BY DEF SubsInv
  <2>3. chans'[s] = [chans[s] EXCEPT !.closed = TRUE]
    <3>1. chans'[s] = [chans[s] EXCEPT !.closed = @ \/ \E i \in DOMAIN subs : subs[i] = s]
      BY <1>1 DEF CloseAll
    <3>2. (chans[s].closed \/ \E i \in DOMAIN subs : subs[i] = s) = TRUE
      BY <2>2, Zenon
    <3> QED  BY <3>1, <3>2, Zenon
  <2> QED  BY <2>1, <2>3 DEF Chan
<1>5. Streams' = [s \in DOMAIN Streams |-> [Streams[s] EXCEPT !.ended = TRUE]]
  <2>1. \A s \in DOMAIN chans : [Streams[s] EXCEPT !.ended = TRUE]
          = [filters |-> chans[s].filters, taken |-> Taken(s), ended |-> TRUE]
    <3>1. \A s \in DOMAIN chans : Streams[s]
            = [filters |-> chans[s].filters, taken |-> Taken(s), ended |-> chans[s].closed]
      BY DEF Streams
    <3>2. ASSUME NEW s \in DOMAIN chans, NEW d
          PROVE  [Streams[s] EXCEPT !.ended = d]
                   = [filters |-> chans[s].filters, taken |-> Taken(s), ended |-> d]
      <4>1. PICK c : Streams[s] = [filters |-> chans[s].filters, taken |-> Taken(s), ended |-> c]
        BY <3>1, Zenon
      <4> QED  BY <4>1
    <3> QED  BY <3>2, Zenon
  <2>2. DOMAIN Streams = DOMAIN chans
    BY DEF Streams
  <2>3. Streams' = [s \in DOMAIN chans |->
          [filters |-> chans[s].filters, taken |-> Taken(s), ended |-> TRUE]]
    BY <1>3, <1>4 DEF Streams, SameStreams, SameStream
  <2> QED  BY <2>1, <2>2, <2>3
<1> QED  BY <1>1, <1>2, <1>5 DEF Contract!Shut, Flight, Streams

(* Every step of the bus is a step of the contract or changes nothing its  *)
(* clients can see.                                                        *)
LEMMA ContractStep ==
  ASSUME IInv, IInv', SubsInv, OrderInv, [Next]_vars
  PROVE  [Contract!Next]_(Contract!cvars)
<1> USE DEF bus, mutex, local
<1>0. TypeOK
  BY DEF IInv
<1>1. ASSUME NEW p \in Proc, UNCHANGED <<responses, closed, chans, frame>>, Goto(p, pc'[p]),
             pc'[p] \in Exchanging <=> pc[p] \in Exchanging
      PROVE  UNCHANGED Contract!cvars
  <2>1. Flight' = Flight
    BY <1>0, <1>1 DEF Goto, TypeOK, Flight
  <2>2. Streams' = Streams
    BY <1>1 DEF Streams, Taken
  <2> QED  BY <1>1, <2>1, <2>2, ContractStutter
<1>2. ASSUME NEW s \in DOMAIN chans, Receive(s) PROVE UNCHANGED Contract!cvars
  <2>1. Streams' = Streams
    BY <1>0, <1>2, ReceiveStreams, StreamsSame
  <2>2. Flight' = Flight
    BY <1>2 DEF Receive, Flight
  <2> QED  BY <1>2, <2>1, <2>2, ContractStutter DEF Receive
<1>3. ASSUME NEW p \in Proc, Subscribe(p) PROVE [Contract!Next]_(Contract!cvars)
  <2>1. CASE ~closed
    BY <1>3, <2>1, JoinContract DEF Contract!Next
  <2>2. CASE closed
    BY <1>0, <1>1, <1>3, <2>2 DEF Subscribe, Locked, Return, Goto, TypeOK, Exchanging
  <2> QED  BY <2>1, <2>2
<1>4. ASSUME NEW p \in Proc, Close(p) PROVE [Contract!Next]_(Contract!cvars)
  <2>1. CASE ~closed
    BY <1>4, <2>1, ShutContract DEF Contract!Next
  <2>2. CASE closed
    <3>1. UNCHANGED <<responses, chans, frame>> /\ closed' = TRUE /\ closed = TRUE
      BY <1>0, <1>4, <2>2, Zenon DEF Close, TypeOK
    <3>2. Goto(p, "idle") /\ pc[p] \in {"crit", "critExpired"}
      BY <1>4, Zenon DEF Close, Return, Locked
    <3> QED  BY <1>0, <1>1, <3>1, <3>2 DEF Goto, TypeOK, Exchanging
  <2> QED  BY <2>1, <2>2
<1>5. ASSUME NEW p \in Proc, Lookup(p) PROVE [Contract!Next]_(Contract!cvars)
  <2>1. CASE Finds(p) /\ Others(p)
    BY <1>5, <2>1, LookupContract DEF Contract!Next
  <2>2. CASE pc'[p] # "found"
    <3>1. /\ UNCHANGED <<responses, closed, chans, frame>> /\ pc[p] = "enter"
          /\ Goto(p, "idle")
      BY <1>0, <1>5, <2>2 DEF Lookup, Return, Goto, TypeOK
    <3> QED  BY <1>0, <1>1, <3>1 DEF Goto, TypeOK, Exchanging
  <2>3. pc'[p] = "found" => Finds(p) /\ Others(p)
    BY <1>0, <1>5 DEF Lookup, Return, Goto, TypeOK, Finds, Others, Still
  <2> QED  BY <2>1, <2>2, <2>3
<1>6. ASSUME NEW p \in Proc, Offer(p) PROVE [Contract!Next]_(Contract!cvars)
  <2>0. PICK s \in DOMAIN chans : s = Head(rest[p])
    BY <1>0, <1>6, TailSeq DEF Offer, TypeOK
  <2>1. UNCHANGED <<responses, closed, frame>> /\ (OfferSkip(p, s) \/ OfferSend(p, s) \/ OfferDrop(p, s))
    BY <1>6, <2>0 DEF Offer
  <2>2. CASE OfferSend(p, s)
    <3>1. SentTo(p, s)
      BY <1>0, <2>2, SendStreams
    <3>2. s \in DOMAIN Streams /\ \E f \in Flight : Contract!Deliver(f, s)
      BY <1>6, <2>0, <2>2, <3>1, SendContract
    <3> QED  BY <3>2 DEF Contract!Next, Flight, Streams
  <2>3. CASE OfferSkip(p, s) \/ OfferDrop(p, s)
    <3>1. pc' = pc
      BY <2>3 DEF OfferSkip, OfferDrop
    <3>2. Flight' = Flight
      BY <2>1, <3>1 DEF Flight
    <3>3. Streams' = Streams
      <4>1. CASE OfferSkip(p, s)
        BY <4>1 DEF OfferSkip, Streams, Taken
      <4>2. CASE OfferDrop(p, s)
        BY <1>0, <4>2, DropStreams, StreamsSame
      <4> QED  BY <2>3, <4>1, <4>2
    <3> QED  BY <2>1, <3>2, <3>3, ContractStutter
  <2> QED  BY <2>1, <2>2, <2>3
<1>7. ASSUME NEW p \in Proc, BroadcastRUnlock(p) PROVE [Contract!Next]_(Contract!cvars)
  <2>1. \E f \in Flight : Contract!Complete(f)
    BY <1>7, LeaveContract
  <2> QED  BY <2>1 DEF Contract!Next, Flight
<1>8. ASSUME NEW p \in Proc, Publish(p) PROVE [Contract!Next]_(Contract!cvars)
  BY <1>8, PublishContract
<1>9. ASSUME NEW p \in Proc, Begin(p) PROVE UNCHANGED Contract!cvars
  BY <1>0, <1>1, <1>9 DEF Begin, Goto, TypeOK, Exchanging
<1>10. ASSUME NEW p \in Proc,
              \/ Reject(p) \/ Lock(p) \/ SetSchedule(p) \/ CountWrite(p) \/ CountBytesWritten(p)
              \/ BroadcastRLock(p) \/ CountDelivery(p) \/ CountBytesDelivered(p)
              \/ Health(p) \/ LoadMetric(p) \/ PollRLock(p) \/ Scan(p)
              \/ Tick(p) \/ CtxDone(p) \/ CountRLock(p) \/ CountBuffered(p)
       PROVE  UNCHANGED Contract!cvars
  <2>1. UNCHANGED <<responses, closed, chans, frame>>
    BY <1>10 DEF Reject, Lock, SetSchedule, CountWrite, CountBytesWritten, BroadcastRLock,
                 CountDelivery, CountBytesDelivered, Health, LoadMetric, PollRLock, Scan,
                 Tick, CtxDone, CountRLock, CountBuffered
  <2>2. Goto(p, pc'[p]) /\ (pc'[p] \in Exchanging <=> pc[p] \in Exchanging)
    BY <1>0, <1>10 DEF Reject, Lock, SetSchedule, Locked, Return, CountWrite, CountBytesWritten,
                 BroadcastRLock, CountDelivery, CountBytesDelivered, Health, LoadMetric,
                 PollRLock, Scan, Tick, CtxDone, CountRLock, CountBuffered,
                 Goto, TypeOK, Exchanging
  <2> QED  BY <1>1, <2>1, <2>2
<1>11. CASE UNCHANGED vars
  BY <1>11, ContractStutter DEF vars, Flight, Streams, Taken
<1> QED  BY <1>2, <1>3, <1>4, <1>5, <1>6, <1>7, <1>8, <1>9, <1>10, <1>11 DEF Next, Step, Finished

(* The bus implements the contract of lin.Bus and lin.MasterBus, for any   *)
(* goroutines, calls and channel capacity: no interleaving of its locked   *)
(* sections shows a client anything the contract does not allow.           *)
THEOREM Refinement == Spec => ImplementsContract
<1>1. Init => Contract!Init
  BY ContractInit
<1>2. IInv /\ IInv' /\ SubsInv /\ OrderInv /\ [Next]_vars => [Contract!Next]_(Contract!cvars)
  BY ContractStep
<1> QED  BY <1>1, <1>2, OrderInvariance, PTL DEF Spec, ImplementsContract, Contract!Spec

-----------------------------------------------------------------------------
(* The counters.                                                           *)

(* The marks of a tally.                                                   *)
LEMMA InTally ==
  ASSUME NEW m, NEW x
  PROVE  x \in Tally(m) <=> \E y \in DOMAIN m : \E k \in 1..m[y] : x = <<y, k>>
  BY DEF Tally

(* One value of a function grows, or one argument comes in.                *)
Grows(f, g, x, old, more) ==
  /\ DOMAIN g = DOMAIN f \cup {x}
  /\ x \in DOMAIN f => f[x] = old
  /\ x \notin DOMAIN f => old = 0
  /\ g[x] = old + more
  /\ \A y \in DOMAIN f : y # x => g[y] = f[y]

(* The sum grows by as much.                                               *)
LEMMA TallyGrows ==
  ASSUME NEW f, NEW g, NEW x, NEW old \in Nat, NEW more \in Nat,
         Grows(f, g, x, old, more), IsFiniteSet(Tally(f))
  PROVE  IsFiniteSet(Tally(g)) /\ Sum(g) = Sum(f) + more
<1> USE DEF Grows
<1> DEFINE New == {x} \X ((old + 1)..(old + more))
<1>1. \A z : z \in New <=> \E k \in (old + 1)..(old + more) : z = <<x, k>>
  OBVIOUS
<1>2. IsFiniteSet(New) /\ Cardinality(New) = more
  <2>1. IsFiniteSet({x}) /\ Cardinality({x}) = 1
    BY FS_Singleton
  <2>2. PICK I : I = (old + 1)..(old + more)
    OBVIOUS
  <2>3. IsFiniteSet(I) /\ Cardinality(I) = more
    <3>1. PICK a \in Int, b \in Int : a = old + 1 /\ b = old + more
      OBVIOUS
    <3>2. IsFiniteSet(a..b) /\ Cardinality(a..b) = IF a > b THEN 0 ELSE b - a + 1
      BY FS_Interval
    <3>3. (IF a > b THEN 0 ELSE b - a + 1) = more
      BY <3>1
    <3> QED  BY <2>2, <3>1, <3>2, <3>3
  <2>4. IsFiniteSet({x} \X I) /\ Cardinality({x} \X I) = 1 * more
    BY <2>1, <2>3, FS_Product
  <2>5. 1 * more = more
    OBVIOUS
  <2> QED  BY <2>2, <2>4, <2>5
<1> HIDE DEF New
<1>3. Tally(g) = Tally(f) \cup New
  <2>1. ASSUME NEW z \in Tally(g) PROVE z \in Tally(f) \cup New
    <3>1. PICK y \in DOMAIN g : \E k \in 1..g[y] : z = <<y, k>>
      BY InTally
    <3>2. PICK k \in 1..g[y] : z = <<y, k>>
      BY <3>1
    <3>3. CASE y # x
      <4>1. y \in DOMAIN f /\ k \in 1..f[y]
        BY <3>3
      <4> QED  BY <3>2, <4>1, InTally
    <3>4. CASE y = x
      <4>1. k \in 1..(old + more)
        BY <3>4
      <4>2. CASE k > old
        <5>1. k \in (old + 1)..(old + more)
          BY <4>1, <4>2
        <5> QED  BY <1>1, <3>2, <3>4, <5>1
      <4>3. CASE ~(k > old)
        <5>1. k \in 1..old
          BY <4>1, <4>3
        <5>2. x \in DOMAIN f
          BY <5>1
        <5> QED  BY <3>2, <3>4, <5>1, <5>2, InTally
      <4> QED  BY <4>2, <4>3
    <3> QED  BY <3>3, <3>4
  <2>2. ASSUME NEW z \in Tally(f) PROVE z \in Tally(g)
    <3>1. PICK y \in DOMAIN f : \E k \in 1..f[y] : z = <<y, k>>
      BY InTally
    <3>2. PICK k \in 1..f[y] : z = <<y, k>>
      BY <3>1
    <3>3. k \in 1..g[y] /\ y \in DOMAIN g
      OBVIOUS
    <3> QED  BY <3>2, <3>3, InTally
  <2>3. ASSUME NEW z \in New PROVE z \in Tally(g)
    <3>1. PICK k \in (old + 1)..(old + more) : z = <<x, k>>
      BY <1>1
    <3>2. k \in 1..g[x] /\ x \in DOMAIN g
      OBVIOUS
    <3> QED  BY <3>1, <3>2, InTally
  <2> QED  BY <2>1, <2>2, <2>3
<1>4. Tally(f) \cap New = {}
  <2> SUFFICES ASSUME NEW z \in Tally(f), z \in New PROVE FALSE
    OBVIOUS
  <2>1. PICK y \in DOMAIN f : \E k \in 1..f[y] : z = <<y, k>>
    BY InTally
  <2>2. PICK k \in 1..f[y] : z = <<y, k>>
    BY <2>1
  <2>3. PICK n \in (old + 1)..(old + more) : z = <<x, n>>
    BY <1>1
  <2>4. y = x /\ k = n
    BY <2>2, <2>3
  <2>5. k \in 1..old
    BY <2>4
  <2> QED  BY <2>4, <2>5
<1>5. PICK a \in Nat : a = Cardinality(Tally(f))
  BY FS_CardinalityType
<1>6. IsFiniteSet(Tally(g)) /\ Cardinality(Tally(g)) = a + more - 0
  <2>1. PICK T, N : T = Tally(f) /\ N = New
    OBVIOUS
  <2>2. IsFiniteSet(T) /\ IsFiniteSet(N) /\ Cardinality(T) = a /\ Cardinality(N) = more /\ T \cap N = {}
    BY <1>2, <1>4, <1>5, <2>1
  <2>3. /\ IsFiniteSet(T \cup N)
        /\ Cardinality(T \cup N) = Cardinality(T) + Cardinality(N) - Cardinality(T \cap N)
    BY <2>2, FS_Union
  <2>4. Cardinality(T \cap N) = 0
    BY <2>2, FS_EmptySet
  <2> QED  BY <1>3, <2>1, <2>2, <2>3, <2>4
<1> QED  BY <1>5, <1>6 DEF Sum

(* An argument leaves.                                                     *)
LEMMA TallyLeaves ==
  ASSUME NEW f, NEW g, NEW x \in DOMAIN f, NEW n \in Nat,
         f[x] = n, DOMAIN g = DOMAIN f \ {x}, \A y \in DOMAIN g : g[y] = f[y],
         IsFiniteSet(Tally(f))
  PROVE  IsFiniteSet(Tally(g)) /\ Sum(f) = Sum(g) + n
<1>1. Tally(g) \in SUBSET Tally(f)
  <2> SUFFICES ASSUME NEW z \in Tally(g) PROVE z \in Tally(f)
    OBVIOUS
  <2>1. PICK y \in DOMAIN g : \E k \in 1..g[y] : z = <<y, k>>
    BY InTally
  <2> QED  BY <2>1, InTally
<1>2. IsFiniteSet(Tally(g))
  BY <1>1, FS_Subset
<1>3. PICK zero \in Nat : zero = 0
  OBVIOUS
<1>4. Grows(g, f, x, zero, n)
  BY <1>3 DEF Grows
<1>5. Sum(f) = Sum(g) + n
  BY <1>2, <1>4, TallyGrows
<1> QED  BY <1>2, <1>5

(* The labels between two counters, and a step that touches none of them.  *)
Busy == {"wrote", "sent", "delivered"}

SameCounts ==
  /\ metrics'.write = metrics.write /\ metrics'.bytesWritten = metrics.bytesWritten
  /\ metrics'.deliver = metrics.deliver /\ metrics'.bytesDelivered = metrics.bytesDelivered
  /\ metrics'.drop = metrics.drop

Unaccounted ==
  /\ SameCounts
  /\ \A q \in Proc : pc'[q] = pc[q] \/ (pc[q] \notin Busy /\ pc'[q] \notin Busy)
  /\ \A q \in Proc : pc[q] \in Busy => frame'[q] = frame[q]
  /\ SameStreams \/ Joined
  /\ \A s \in DOMAIN chans : chans'[s].lost = chans[s].lost

(* An error is counted in a field of its own.                              *)
LEMMA ErrorFields ==
  ASSUME TypeOK, CountError \/ UNCHANGED metrics
  PROVE  SameCounts
<1>1. metrics \in Metrics
  BY DEF TypeOK
<1> QED  BY <1>1 DEF CountError, SameCounts, Metrics

(* A goroutine that moves between other labels touches no account.         *)
LEMMA Unbusy ==
  ASSUME TypeOK, NEW p \in Proc, NEW label, Goto(p, label), pc[p] \notin Busy, label \notin Busy,
         UNCHANGED chans, \A q \in Proc \ {p} : frame'[q] = frame[q],
         CountError \/ UNCHANGED metrics
  PROVE  Unaccounted
<1>1. SameCounts
  BY ErrorFields
<1>2. SameStreams
  BY UnchangedStreams
<1>3. pc'[p] = label /\ \A q \in Proc \ {p} : pc'[q] = pc[q]
  BY DEF Goto, TypeOK
<1> QED  BY <1>1, <1>2, <1>3 DEF Unaccounted

Offers(p, s) ==
  /\ pc[p] = "offer" /\ s = Head(rest[p]) /\ UNCHANGED frame
  /\ OfferSend(p, s) \/ OfferDrop(p, s)

(* Every step leaves the accounts alone or is one of the six that keep     *)
(* them.                                                                   *)
LEMMA Accounts ==
  ASSUME IInv, [Next]_vars
  PROVE  \/ Unaccounted
         \/ \E p \in Proc : \/ CountWrite(p) \/ CountBytesWritten(p)
                            \/ CountDelivery(p) \/ CountBytesDelivered(p)
                            \/ CountBuffered(p) /\ rest[p] = <<>>
                            \/ \E s \in DOMAIN chans : Offers(p, s)
<1> USE DEF bus, mutex, local
<1>0. TypeOK /\ LockInv
  BY DEF IInv
<1>1. CASE UNCHANGED vars
  <2>1. SameStreams /\ SameCounts
    BY <1>0, <1>1, UnchangedStreams, ErrorFields DEF vars
  <2> QED  BY <1>1, <2>1 DEF Unaccounted, vars
<1>2. ASSUME NEW s \in DOMAIN chans, Receive(s) PROVE Unaccounted
  <2>1. SameStreams /\ SameCounts
    BY <1>0, <1>2, ReceiveStreams, ErrorFields DEF Receive
  <2>2. ASSUME NEW c \in DOMAIN chans PROVE chans'[c].lost = chans[c].lost
    <3>1. chans[s] \in Chan /\ chans[c] \in Chan /\ chans \in Seq(Chan)
      BY <1>0 DEF TypeOK
    <3>2. PICK k : chans' = [chans EXCEPT ![s] = k] /\ k.lost = chans[s].lost
      <4>1. CASE chans[s].buf # <<>>
        <5>1. chans' = [chans EXCEPT ![s].got = Append(@, Head(chans[s].buf)), ![s].buf = Tail(@)]
          BY <1>2, <4>1 DEF Receive
        <5> DEFINE k1 == [chans[s] EXCEPT !.got = Append(@, Head(chans[s].buf))]
                   k2 == [k1 EXCEPT !.buf = Tail(@)]
        <5>2. chans' = [chans EXCEPT ![s] = k2]
          BY <3>1, <5>1
        <5>3. k2.lost = chans[s].lost
          BY <3>1 DEF Chan
        <5> HIDE DEF k2
        <5> QED  BY <5>2, <5>3
      <4>2. CASE chans[s].buf = <<>>
        <5> DEFINE k == [chans[s] EXCEPT !.eof = TRUE]
        <5>1. chans' = [chans EXCEPT ![s] = k]
          BY <1>2, <4>2 DEF Receive
        <5>2. k.lost = chans[s].lost
          BY <3>1 DEF Chan
        <5> HIDE DEF k
        <5> QED  BY <5>1, <5>2
      <4> QED  BY <4>1, <4>2
    <3> QED  BY <3>1, <3>2
  <2> QED  BY <1>2, <2>1, <2>2, SMTT(30) DEF Receive, Unaccounted
<1>3. ASSUME NEW p \in Proc, Begin(p) PROVE Unaccounted
  BY <1>0, <1>3, Unbusy DEF Begin, Busy
<1>4. ASSUME NEW p \in Proc, Reject(p) PROVE Unaccounted
  BY <1>0, <1>4, Unbusy DEF Reject, Return, Busy
<1>5. ASSUME NEW p \in Proc, Lock(p) PROVE Unaccounted
  <2>1. CASE pc[p] = "expired"
    BY <1>0, <1>5, <2>1, Unbusy DEF Lock, Busy
  <2>2. CASE pc[p] # "expired"
    BY <1>0, <1>5, <2>2, Unbusy DEF Lock, Busy
  <2> QED  BY <2>1, <2>2
<1>6. ASSUME NEW p \in Proc, Publish(p) \/ SetSchedule(p) PROVE Unaccounted
  <2>1. Goto(p, "idle") /\ pc[p] \in Writing /\ UNCHANGED <<chans, frame>> /\ (CountError \/ UNCHANGED metrics)
    BY <1>6 DEF Publish, SetSchedule, Locked, Return, Writing
  <2> QED  BY <1>0, <2>1, Unbusy DEF Busy, Writing
<1>7. ASSUME NEW p \in Proc, Subscribe(p) PROVE Unaccounted
  <2>1. Goto(p, "idle") /\ pc[p] \in Writing /\ UNCHANGED frame
    BY <1>7 DEF Subscribe, Locked, Return, Writing
  <2>2. CASE closed
    <3>1. UNCHANGED chans /\ CountError
      BY <1>7, <2>2 DEF Subscribe
    <3> QED  BY <1>0, <2>1, <3>1, Unbusy DEF Busy, Writing
  <2>3. CASE ~closed
    <3>1. AddSubscription(call[p]) /\ UNCHANGED metrics
      BY <1>7, <2>3 DEF Subscribe
    <3>2. Joined /\ SameCounts
      BY <1>0, <3>1, AddStreams, ErrorFields
    <3>3. \A s \in DOMAIN chans : chans'[s].lost = chans[s].lost
      <4>1. chans' = Append(chans, NewChan(call[p])) /\ chans \in Seq(Chan)
        BY <1>0, <3>1 DEF AddSubscription, TypeOK
      <4> DEFINE e == NewChan(call[p])
                 S == Chan \cup {e}
      <4>2. chans \in Seq(S) /\ e \in S /\ chans' = Append(chans, e)
        BY <4>1, SeqMono
      <4> HIDE DEF e, S
      <4>3. \A s \in DOMAIN chans : chans'[s] = chans[s]
        BY <4>2, AppendSeq
      <4> QED  BY <4>3
    <3>4. pc'[p] = "idle" /\ \A q \in Proc \ {p} : pc'[q] = pc[q]
      BY <1>0, <2>1 DEF Goto, TypeOK
    <3> QED  BY <2>1, <3>2, <3>3, <3>4 DEF Unaccounted, Busy, Writing
  <2> QED  BY <2>2, <2>3
<1>8. ASSUME NEW p \in Proc, Close(p) PROVE Unaccounted
  <2>1. Goto(p, "idle") /\ pc[p] \in Writing /\ UNCHANGED <<frame, metrics>>
    BY <1>8 DEF Close, Locked, Return, Writing
  <2>2. CASE closed
    <3>1. UNCHANGED chans
      BY <1>8, <2>2 DEF Close
    <3> QED  BY <1>0, <2>1, <3>1, Unbusy DEF Busy, Writing
  <2>3. CASE ~closed
    <3>1. CloseAll(subs)
      BY <1>8, <2>3, Zenon DEF Close
    <3>2. SameStreams /\ SameCounts
      BY <1>0, <2>1, <3>1, CloseStreams, ErrorFields
    <3>3. ASSUME NEW s \in DOMAIN chans PROVE chans'[s].lost = chans[s].lost
      <4>1. chans[s] \in Chan
        BY <1>0 DEF TypeOK
      <4>2. \A b : [chans[s] EXCEPT !.closed = b].lost = chans[s].lost
        BY <4>1 DEF Chan
      <4> QED  BY <3>1, <4>2, Zenon DEF CloseAll
    <3>4. pc'[p] = "idle" /\ \A q \in Proc \ {p} : pc'[q] = pc[q]
      BY <1>0, <2>1 DEF Goto, TypeOK
    <3> QED  BY <2>1, <3>2, <3>3, <3>4 DEF Unaccounted, Busy, Writing
  <2> QED  BY <2>2, <2>3
<1>9. ASSUME NEW p \in Proc, Lookup(p) PROVE Unaccounted
  <2>1. /\ Goto(p, "idle") \/ Goto(p, "found")
        /\ pc[p] = "enter" /\ UNCHANGED chans /\ (CountError \/ UNCHANGED metrics)
    BY <1>9, Zenon DEF Lookup, Return
  <2>2. \A q \in Proc \ {p} : frame'[q] = frame[q]
    BY <1>0, <1>9 DEF Lookup, TypeOK
  <2>3. PICK label : Goto(p, label) /\ label \in {"idle", "found"}
    BY <2>1
  <2> QED  BY <1>0, <2>1, <2>2, <2>3, Unbusy DEF Busy
<1>10. ASSUME NEW p \in Proc, BroadcastRLock(p) \/ BroadcastRUnlock(p) PROVE Unaccounted
  <2>1. PICK label : Goto(p, label) /\ label \in {"idle", "offer"}
    BY <1>10 DEF BroadcastRLock, BroadcastRUnlock, Return
  <2>2. pc[p] \in {"counted", "offer"} /\ UNCHANGED <<chans, metrics, frame>>
    BY <1>10 DEF BroadcastRLock, BroadcastRUnlock
  <2> QED  BY <1>0, <2>1, <2>2, Unbusy DEF Busy
<1>11. ASSUME NEW p \in Proc, Health(p) \/ LoadMetric(p) PROVE Unaccounted
  <2>1. /\ Goto(p, "loading") \/ Goto(p, "idle")
        /\ pc[p] \in {"enter", "loading"} /\ UNCHANGED <<chans, metrics, frame>>
    BY <1>11, Zenon DEF Health, LoadMetric, Return
  <2>2. PICK label : Goto(p, label) /\ label \in {"idle", "loading"}
    BY <2>1
  <2> QED  BY <1>0, <2>1, <2>2, Unbusy DEF Busy
<1>12. ASSUME NEW p \in Proc, pc' = pc, UNCHANGED <<chans, metrics, frame>> PROVE Unaccounted
  <2>1. SameStreams /\ SameCounts
    BY <1>0, <1>12, UnchangedStreams, ErrorFields
  <2> QED  BY <1>12, <2>1 DEF Unaccounted
<1>13. ASSUME NEW p \in Proc, Offer(p) PROVE Unaccounted \/ \E s \in DOMAIN chans : Offers(p, s)
  <2>1. PICK s \in DOMAIN chans : s = Head(rest[p])
    BY <1>0, <1>13, TailSeq DEF Offer, TypeOK
  <2>2. pc[p] = "offer" /\ UNCHANGED frame
    BY <1>13 DEF Offer
  <2>3. CASE OfferSkip(p, s)
    BY <1>12, <2>2, <2>3 DEF OfferSkip
  <2>4. CASE OfferSend(p, s) \/ OfferDrop(p, s)
    BY <2>1, <2>2, <2>4 DEF Offers
  <2> QED  BY <1>13, <2>1, <2>3, <2>4 DEF Offer
<1>14. ASSUME NEW p \in Proc, PollRLock(p) \/ CountRLock(p) \/ Tick(p) \/ CtxDone(p)
       PROVE  Unaccounted
  <2>1. /\ Goto(p, "scan") \/ Goto(p, "count") \/ Goto(p, "enter") \/ Goto(p, "late")
        /\ pc[p] \in {"enter", "late", "select"} /\ UNCHANGED <<chans, metrics, frame>>
    BY <1>14, Zenon DEF PollRLock, CountRLock, Tick, CtxDone
  <2>2. PICK label : Goto(p, label) /\ label \in {"scan", "count", "enter", "late"}
    BY <2>1
  <2> QED  BY <1>0, <2>1, <2>2, Unbusy DEF Busy
<1>15. ASSUME NEW p \in Proc, Scan(p) \/ (CountBuffered(p) /\ rest[p] # <<>>) PROVE Unaccounted
  <2>1. /\ pc' = pc \/ Goto(p, "drained") \/ Goto(p, "select")
        /\ pc[p] \in {"scan", "count"} /\ UNCHANGED <<chans, metrics, frame>>
    BY <1>15, Zenon DEF Scan, CountBuffered
  <2>2. CASE ~(pc' = pc)
    <3>1. PICK label : Goto(p, label) /\ label \in {"drained", "select"}
      BY <2>1, <2>2
    <3> QED  BY <1>0, <2>1, <3>1, Unbusy DEF Busy
  <2> QED  BY <1>12, <2>1, <2>2
<1> QED  BY <1>1, <1>2, <1>3, <1>4, <1>5, <1>6, <1>7, <1>8, <1>9, <1>10, <1>11, <1>13, <1>14, <1>15
         DEF Next, Step, Finished

(* The call a goroutine is in.                                             *)
Draining == {"scan", "select", "late", "count", "expired", "critExpired", "drained"}

CallInv ==
  \A p \in Proc :
    /\ pc[p] # "idle" => call[p] \in Menu[p]
    /\ pc[p] \in Exchanging => call[p].op = "SendHeader" /\ frame[p].Data \in Payload
    /\ pc[p] \in Draining => call[p].op = "CloseWithDrain"

Onward(q) ==
  /\ pc[q] = "idle" => pc'[q] = "idle"
  /\ pc'[q] \in Exchanging => (pc[q] \in Exchanging /\ frame'[q] = frame[q]) \/ Finds(q)
  /\ pc'[q] \in Draining => pc[q] \in Draining \/ call[q].op = "CloseWithDrain"

(* Every step keeps each goroutine in its call, or begins one.             *)
LEMMA Calling ==
  ASSUME TypeOK, [Next]_vars
  PROVE  \/ \E p \in Proc : Begin(p)
         \/ UNCHANGED call /\ \A q \in Proc : Onward(q)
<1> USE DEF bus, mutex, local
<1>1. ASSUME UNCHANGED <<pc, call, frame>> PROVE UNCHANGED call /\ \A q \in Proc : Onward(q)
  BY <1>1 DEF Onward
<1>2. ASSUME NEW p \in Proc, NEW label, Goto(p, label), UNCHANGED <<call, frame>>, pc[p] # "idle",
             label \in Exchanging => pc[p] \in Exchanging,
             label \in Draining => pc[p] \in Draining \/ call[p].op = "CloseWithDrain"
      PROVE  UNCHANGED call /\ \A q \in Proc : Onward(q)
  <2>1. pc'[p] = label /\ \A q \in Proc \ {p} : pc'[q] = pc[q]
    BY <1>2 DEF Goto, TypeOK
  <2> QED  BY <1>2, <2>1 DEF Onward
<1>3. ASSUME NEW p \in Proc, Step(p) PROVE UNCHANGED call /\ \A q \in Proc : Onward(q)
  <2>1. CASE Reject(p) \/ Health(p)
    BY <1>2, <2>1 DEF Reject, Health, Return, Exchanging, Draining
  <2>2. CASE Lock(p)
    <3>1. CASE pc[p] = "expired"
      BY <1>2, <2>2, <3>1 DEF Lock, Exchanging, Draining
    <3>2. CASE pc[p] # "expired"
      BY <1>2, <2>2, <3>2 DEF Lock, Exchanging, Draining
    <3> QED  BY <3>1, <3>2
  <2>3. CASE Publish(p) \/ Subscribe(p) \/ SetSchedule(p) \/ Close(p)
    <3>1. Goto(p, "idle") /\ UNCHANGED <<call, frame>> /\ pc[p] \in {"crit", "critExpired"}
      BY <2>3 DEF Publish, Subscribe, SetSchedule, Close, Locked, Return
    <3> QED  BY <1>2, <3>1 DEF Exchanging, Draining
  <2>4. CASE Lookup(p)
    <3>1. CASE Goto(p, "idle")
      <4>1. pc[p] = "enter" /\ UNCHANGED call /\ \A q \in Proc \ {p} : frame'[q] = frame[q]
        BY <2>4 DEF Lookup, TypeOK
      <4>2. pc'[p] = "idle" /\ \A q \in Proc \ {p} : pc'[q] = pc[q]
        BY <3>1 DEF Goto, TypeOK
      <4> QED  BY <4>1, <4>2 DEF Onward, Exchanging, Draining
    <3>2. CASE ~Goto(p, "idle")
      <4>1. /\ pc[p] = "enter" /\ call[p].op = "SendHeader" /\ ~BadArgs(call[p])
            /\ responses[call[p].id] # NoEntry
            /\ frame' = [frame EXCEPT ![p] = Synthesise(call[p].id, responses[call[p].id], <<p, calls[p]>>)]
            /\ Goto(p, "found")
            /\ UNCHANGED <<call, calls, rest>>
        BY <2>4, <3>2, Zenon DEF Lookup, Return
      <4>2. Finds(p) /\ pc'[p] = "found" /\ \A q \in Proc \ {p} : pc'[q] = pc[q] /\ frame'[q] = frame[q]
        BY <4>1 DEF Finds, Goto, TypeOK
      <4> QED  BY <4>1, <4>2 DEF Onward, Exchanging, Draining
    <3> QED  BY <3>1, <3>2
  <2>5. CASE CountWrite(p) \/ CountBytesWritten(p) \/ BroadcastRLock(p)
    <3>1. PICK label : Goto(p, label) /\ label \in {"wrote", "counted", "offer"}
      BY <2>5 DEF CountWrite, CountBytesWritten, BroadcastRLock
    <3>2. pc[p] \in {"found", "wrote", "counted"} /\ UNCHANGED <<call, frame>>
      BY <2>5 DEF CountWrite, CountBytesWritten, BroadcastRLock
    <3> QED  BY <1>2, <3>1, <3>2 DEF Exchanging, Draining
  <2>6. CASE CountDelivery(p) \/ CountBytesDelivered(p) \/ BroadcastRUnlock(p)
    <3>1. PICK label : Goto(p, label) /\ label \in {"delivered", "offer", "idle"}
      BY <2>6 DEF CountDelivery, CountBytesDelivered, BroadcastRUnlock, Return
    <3>2. pc[p] \in {"sent", "delivered", "offer"} /\ UNCHANGED <<call, frame>>
      BY <2>6 DEF CountDelivery, CountBytesDelivered, BroadcastRUnlock
    <3> QED  BY <1>2, <3>1, <3>2 DEF Exchanging, Draining
  <2>7. CASE Offer(p)
    <3>1. pc[p] = "offer" /\ UNCHANGED <<call, frame>> /\ (pc' = pc \/ Goto(p, "sent"))
      BY <2>7 DEF Offer, OfferSkip, OfferSend, OfferDrop
    <3>2. CASE pc' = pc
      <4>1. UNCHANGED <<pc, call, frame>>
        BY <3>1, <3>2
      <4> QED  BY <1>1, <4>1, Zenon
    <3>3. CASE Goto(p, "sent")
      BY <1>2, <3>1, <3>3 DEF Exchanging, Draining
    <3> QED  BY <3>1, <3>2, <3>3
  <2>8. CASE LoadMetric(p)
    <3>1. /\ Goto(p, "loading") \/ Goto(p, "idle")
          /\ pc[p] \in {"enter", "loading"} /\ UNCHANGED <<call, frame>>
      BY <2>8, Zenon DEF LoadMetric, Return
    <3>2. PICK label : Goto(p, label) /\ label \in {"idle", "loading"}
      BY <3>1
    <3> QED  BY <1>2, <3>1, <3>2 DEF Exchanging, Draining
  <2>9. CASE PollRLock(p)
    BY <1>2, <2>9 DEF PollRLock, Exchanging, Draining
  <2>10. CASE CountRLock(p) \/ Tick(p) \/ CtxDone(p)
    <3>1. PICK label : Goto(p, label) /\ label \in {"count", "enter", "late"}
      BY <2>10 DEF CountRLock, Tick, CtxDone
    <3>2. pc[p] \in {"late", "select"} /\ UNCHANGED <<call, frame>>
      BY <2>10 DEF CountRLock, Tick, CtxDone
    <3> QED  BY <1>2, <3>1, <3>2 DEF Exchanging, Draining
  <2>11. CASE Scan(p) \/ CountBuffered(p)
    <3>1. /\ pc' = pc \/ Goto(p, "drained") \/ Goto(p, "select") \/ Goto(p, "expired")
          /\ pc[p] \in {"scan", "count"} /\ UNCHANGED <<call, frame>>
      BY <2>11, Zenon DEF Scan, CountBuffered
    <3>2. CASE ~(pc' = pc)
      <4>1. PICK label : Goto(p, label) /\ label \in {"drained", "select", "expired"}
        BY <3>1, <3>2
      <4> QED  BY <1>2, <3>1, <4>1 DEF Exchanging, Draining
    <3>3. CASE pc' = pc
      <4>1. UNCHANGED <<pc, call, frame>>
        BY <3>1, <3>3, SMTT(30)
      <4> QED  BY <1>1, <4>1, Zenon
    <3> QED  BY <3>2, <3>3
  <2> QED  BY <1>3, <2>1, <2>2, <2>3, <2>4, <2>5, <2>6, <2>7, <2>8, <2>9, <2>10, <2>11 DEF Step
<1>4. CASE UNCHANGED vars \/ \E s \in DOMAIN chans : Receive(s)
  BY <1>1, <1>4 DEF vars, Receive
<1> QED  BY <1>3, <1>4 DEF Next, Finished

(* A goroutine is in the call its label says, after every step.            *)
LEMMA CallStep == TypeOK /\ CallInv /\ [Next]_vars => CallInv'
<1> SUFFICES ASSUME TypeOK, CallInv, [Next]_vars PROVE CallInv'
  OBVIOUS
<1>1. CASE \E p \in Proc : Begin(p)
  <2>1. PICK p \in Proc : Begin(p)
    BY <1>1
  <2>2. PICK c \in Menu[p] : call' = [call EXCEPT ![p] = c]
    BY <2>1 DEF Begin
  <2>3. /\ pc'[p] = "enter" /\ call'[p] \in Menu[p] /\ frame' = frame
        /\ \A q \in Proc \ {p} : pc'[q] = pc[q] /\ call'[q] = call[q]
    BY <2>1, <2>2 DEF Begin, Goto, TypeOK, local
  <2> QED  BY <2>3 DEF CallInv, Exchanging, Draining
<1>2. CASE UNCHANGED call /\ \A q \in Proc : Onward(q)
  <2> SUFFICES ASSUME NEW q \in Proc
               PROVE  /\ pc'[q] # "idle" => call[q] \in Menu[q]
                      /\ pc'[q] \in Exchanging => call[q].op = "SendHeader" /\ frame'[q].Data \in Payload
                      /\ pc'[q] \in Draining => call[q].op = "CloseWithDrain"
    BY <1>2 DEF CallInv
  <2>1. Onward(q)
    BY <1>2
  <2>2. ASSUME Finds(q) PROVE call[q].op = "SendHeader" /\ frame'[q].Data \in Payload
    <3>1. /\ call[q].op = "SendHeader" /\ ~BadArgs(call[q]) /\ responses[call[q].id] # NoEntry
          /\ frame'[q] = Synthesise(call[q].id, responses[call[q].id], <<q, calls[q]>>)
      BY <2>2 DEF Finds
    <3>2. call[q].id \in 0..LINMaxID
      BY <3>1, CheckedArgs DEF TypeOK
    <3>3. responses[call[q].id] \in Entry
      BY <3>1, <3>2 DEF TypeOK
    <3> QED  BY <3>1, <3>3 DEF Entry, Synthesise
  <2> QED  BY <2>1, <2>2 DEF CallInv, Onward
<1> QED  BY <1>1, <1>2, Calling

(* The goroutines at a label, when one of them moves.                      *)
LEMMA AtMoves ==
  ASSUME TypeOK, NEW p \in Proc, NEW label, Goto(p, label), NEW L
  PROVE  /\ IsFiniteSet(At(L)) /\ Cardinality(At(L)) \in Nat
         /\ (label \in L <=> pc[p] \in L) => At(L)' = At(L)
         /\ label \in L /\ pc[p] \notin L => Cardinality(At(L)') = Cardinality(At(L)) + 1
         /\ label \notin L /\ pc[p] \in L => Cardinality(At(L)) = Cardinality(At(L)') + 1
<1>1. pc'[p] = label /\ \A q \in Proc \ {p} : pc'[q] = pc[q]
  BY DEF Goto, TypeOK
<1>2. PICK A, B : A = At(L) /\ B = At(L)'
  OBVIOUS
<1>3. A = {q \in Proc : pc[q] \in L} /\ B = {q \in Proc : pc'[q] \in L}
  BY <1>2 DEF At
<1>4. A \in SUBSET Proc /\ B \in SUBSET Proc
  BY <1>3
<1>5. IsFiniteSet(A) /\ IsFiniteSet(B)
  BY <1>4, FiniteAssumption, FS_Subset
<1>6. Cardinality(A) \in Nat /\ Cardinality(B) \in Nat
  BY <1>5, FS_CardinalityType
<1>7. (label \in L <=> pc[p] \in L) => B = A
  BY <1>1, <1>3
<1>8. ASSUME label \in L, pc[p] \notin L PROVE Cardinality(B) = Cardinality(A) + 1
  <2>1. B = A \cup {p} /\ p \notin A
    BY <1>1, <1>3, <1>8
  <2> QED  BY <1>5, <2>1, FS_AddElement
<1>9. ASSUME label \notin L, pc[p] \in L PROVE Cardinality(A) = Cardinality(B) + 1
  <2>1. A = B \cup {p} /\ p \notin B
    BY <1>1, <1>3, <1>9
  <2> QED  BY <1>5, <2>1, FS_AddElement
<1> QED  BY <1>2, <1>5, <1>6, <1>7, <1>8, <1>9

(* A counter of frames runs ahead of its counter of bytes by no more than  *)
(* the goroutines between the two.                                         *)
LagInv ==
  /\ metrics.write <= metrics.bytesWritten + Cardinality(At({"wrote"}))
  /\ metrics.deliver <= metrics.bytesDelivered + Cardinality(At({"delivered"}))

(* Counters only grow.                                                     *)
Monotone ==
  /\ metrics'.bytesWritten >= metrics.bytesWritten
  /\ metrics'.bytesDelivered >= metrics.bytesDelivered

(* A frame under way has at least one byte.                                *)
LEMMA FrameSize ==
  ASSUME CallInv, NEW p \in Proc, pc[p] \in Exchanging
  PROVE  Len(frame[p].Data) \in Nat /\ Len(frame[p].Data) >= 1
<1>1. frame[p].Data \in Payload
  BY DEF CallInv
<1>2. PICK d \in Seq(Byte) : d = frame[p].Data /\ Len(d) \in 1..LINMaxDataLen
  BY <1>1 DEF Payload
<1>3. LINMaxDataLen = 8
  BY DEF LINMaxDataLen
<1>4. PICK n \in 1..8 : n = Len(d)
  BY <1>2, <1>3
<1>5. n \in Nat /\ n >= 1
  OBVIOUS
<1> QED  BY <1>2, <1>4, <1>5, Zenon

(* What the counting steps do to the counters.                             *)
LEMMA CountFields ==
  ASSUME TypeOK, NEW n \in Nat
  PROVE  /\ metrics.write \in Nat /\ metrics.deliver \in Nat /\ metrics.drop \in Nat
         /\ metrics.bytesWritten \in Nat /\ metrics.bytesDelivered \in Nat
         /\ metrics' = [metrics EXCEPT !.write = @ + 1] =>
              /\ metrics'.write = metrics.write + 1
              /\ UNCHANGED <<metrics.deliver, metrics.drop, metrics.bytesWritten, metrics.bytesDelivered>>
         /\ metrics' = [metrics EXCEPT !.deliver = @ + 1] =>
              /\ metrics'.deliver = metrics.deliver + 1
              /\ UNCHANGED <<metrics.write, metrics.drop, metrics.bytesWritten, metrics.bytesDelivered>>
         /\ metrics' = [metrics EXCEPT !.drop = @ + n] =>
              /\ metrics'.drop = metrics.drop + n
              /\ UNCHANGED <<metrics.write, metrics.deliver, metrics.bytesWritten, metrics.bytesDelivered>>
         /\ metrics' = [metrics EXCEPT !.bytesWritten = @ + n] =>
              /\ metrics'.bytesWritten = metrics.bytesWritten + n
              /\ UNCHANGED <<metrics.write, metrics.deliver, metrics.drop, metrics.bytesDelivered>>
         /\ metrics' = [metrics EXCEPT !.bytesDelivered = @ + n] =>
              /\ metrics'.bytesDelivered = metrics.bytesDelivered + n
              /\ UNCHANGED <<metrics.write, metrics.deliver, metrics.drop, metrics.bytesWritten>>
<1>1. metrics \in Metrics
  BY DEF TypeOK
<1> QED  BY <1>1 DEF Metrics

(* The lag is kept by every step, and no counter goes back.                *)
LEMMA LagStep ==
  ASSUME IInv, CallInv, LagInv, [Next]_vars
  PROVE  LagInv' /\ Monotone
<1>0. TypeOK
  BY DEF IInv
<1> DEFINE W == Cardinality(At({"wrote"}))
           D == Cardinality(At({"delivered"}))
<1>1. /\ metrics.write \in Nat /\ metrics.deliver \in Nat
      /\ metrics.bytesWritten \in Nat /\ metrics.bytesDelivered \in Nat
  BY <1>0, CountFields
<1>2. CASE Unaccounted
  <2>1. At({"wrote"})' = At({"wrote"}) /\ At({"delivered"})' = At({"delivered"})
    BY <1>2 DEF Unaccounted, Busy, At
  <2>2. SameCounts
    BY <1>2 DEF Unaccounted
  <2> QED  BY <1>1, <2>1, <2>2 DEF LagInv, Monotone, SameCounts
<1>3. ASSUME NEW p \in Proc, CountWrite(p) PROVE LagInv' /\ Monotone
  <2>1. pc[p] = "found" /\ Goto(p, "wrote") /\ metrics' = [metrics EXCEPT !.write = @ + 1]
    BY <1>3 DEF CountWrite
  <2>2. W \in Nat /\ D \in Nat /\ W' = W + 1 /\ D' = D
    BY <1>0, <2>1, AtMoves
  <2>3. /\ metrics'.write = metrics.write + 1 /\ metrics'.deliver = metrics.deliver
        /\ metrics'.bytesWritten = metrics.bytesWritten
        /\ metrics'.bytesDelivered = metrics.bytesDelivered
    BY <1>0, <2>1, CountFields
  <2> QED  BY <1>1, <2>2, <2>3 DEF LagInv, Monotone
<1>4. ASSUME NEW p \in Proc, CountBytesWritten(p) PROVE LagInv' /\ Monotone
  <2>1. PICK n \in Nat : n = Len(frame[p].Data) /\ n >= 1
    BY <1>4, FrameSize DEF CountBytesWritten, Exchanging
  <2>2. pc[p] = "wrote" /\ Goto(p, "counted") /\ metrics' = [metrics EXCEPT !.bytesWritten = @ + n]
    BY <1>4, <2>1 DEF CountBytesWritten
  <2>3. W \in Nat /\ D \in Nat /\ W = W' + 1 /\ D' = D
    BY <1>0, <2>2, AtMoves
  <2>4. /\ metrics'.write = metrics.write /\ metrics'.deliver = metrics.deliver
        /\ metrics'.bytesWritten = metrics.bytesWritten + n
        /\ metrics'.bytesDelivered = metrics.bytesDelivered
    BY <1>0, <2>2, CountFields
  <2>5. W' \in Nat
    <3>1. At({"wrote"})' \in SUBSET Proc
      BY DEF At
    <3> QED  BY <3>1, FiniteAssumption, FS_Subset, FS_CardinalityType
  <2>6. metrics'.bytesWritten >= metrics.bytesWritten + 1
    BY <1>1, <2>1, <2>4
  <2>7. metrics'.write <= metrics'.bytesWritten + W'
    <3>1. metrics.write <= metrics.bytesWritten + W
      BY DEF LagInv
    <3> HIDE DEF W
    <3>2. PICK a, b, c, d \in Nat : a = metrics.write /\ b = metrics.bytesWritten /\ c = W /\ d = W'
      BY <1>1, <2>3, <2>5
    <3>3. a <= b + c /\ c = d + 1
      BY <2>3, <3>1, <3>2
    <3>4. a <= b + n + d
      BY <2>1, <3>3
    <3> QED  BY <2>4, <3>2, <3>4
  <2>8. metrics'.deliver <= metrics'.bytesDelivered + D'
    BY <2>3, <2>4 DEF LagInv
  <2> QED  BY <1>1, <2>4, <2>6, <2>7, <2>8 DEF LagInv, Monotone
<1>5. ASSUME NEW p \in Proc, CountDelivery(p) PROVE LagInv' /\ Monotone
  <2>1. pc[p] = "sent" /\ Goto(p, "delivered") /\ metrics' = [metrics EXCEPT !.deliver = @ + 1]
    BY <1>5 DEF CountDelivery
  <2>2. W \in Nat /\ D \in Nat /\ W' = W /\ D' = D + 1
    BY <1>0, <2>1, AtMoves
  <2>3. /\ metrics'.write = metrics.write /\ metrics'.deliver = metrics.deliver + 1
        /\ metrics'.bytesWritten = metrics.bytesWritten
        /\ metrics'.bytesDelivered = metrics.bytesDelivered
    BY <1>0, <2>1, CountFields
  <2> QED  BY <1>1, <2>2, <2>3 DEF LagInv, Monotone
<1>6. ASSUME NEW p \in Proc, CountBytesDelivered(p) PROVE LagInv' /\ Monotone
  <2>1. PICK n \in Nat : n = Len(frame[p].Data) /\ n >= 1
    BY <1>6, FrameSize DEF CountBytesDelivered, Exchanging
  <2>2. pc[p] = "delivered" /\ Goto(p, "offer") /\ metrics' = [metrics EXCEPT !.bytesDelivered = @ + n]
    BY <1>6, <2>1 DEF CountBytesDelivered
  <2>3. W \in Nat /\ D \in Nat /\ W = W' /\ D = D' + 1
    BY <1>0, <2>2, AtMoves
  <2>4. /\ metrics'.write = metrics.write /\ metrics'.deliver = metrics.deliver
        /\ metrics'.bytesWritten = metrics.bytesWritten
        /\ metrics'.bytesDelivered = metrics.bytesDelivered + n
    BY <1>0, <2>2, CountFields
  <2>5. D' \in Nat
    <3>1. At({"delivered"})' \in SUBSET Proc
      BY DEF At
    <3> QED  BY <3>1, FiniteAssumption, FS_Subset, FS_CardinalityType
  <2>6. metrics'.bytesDelivered >= metrics.bytesDelivered + 1
    BY <1>1, <2>1, <2>4
  <2>7. metrics'.deliver <= metrics'.bytesDelivered + D'
    <3>1. metrics.deliver <= metrics.bytesDelivered + D
      BY DEF LagInv
    <3> HIDE DEF D
    <3>2. PICK a, b, c, d \in Nat : a = metrics.deliver /\ b = metrics.bytesDelivered /\ c = D /\ d = D'
      BY <1>1, <2>3, <2>5
    <3>3. a <= b + c /\ c = d + 1
      BY <2>3, <3>1, <3>2
    <3>4. a <= b + n + d
      BY <2>1, <3>3
    <3> QED  BY <2>4, <3>2, <3>4
  <2>8. metrics'.write <= metrics'.bytesWritten + W'
    BY <2>3, <2>4 DEF LagInv
  <2> QED  BY <1>1, <2>4, <2>6, <2>7, <2>8 DEF LagInv, Monotone
<1>7. ASSUME NEW p \in Proc, NEW n \in Nat, NEW label,
             metrics' = metrics \/ metrics' = [metrics EXCEPT !.drop = @ + n],
             pc' = pc \/ Goto(p, label), pc[p] \notin {"wrote", "delivered"},
             label \notin {"wrote", "delivered"}
      PROVE  LagInv' /\ Monotone
  <2>1. At({"wrote"})' = At({"wrote"}) /\ At({"delivered"})' = At({"delivered"})
    BY <1>0, <1>7, SMTT(30) DEF At, Goto, TypeOK
  <2>2. /\ metrics'.write = metrics.write /\ metrics'.deliver = metrics.deliver
        /\ metrics'.bytesWritten = metrics.bytesWritten
        /\ metrics'.bytesDelivered = metrics.bytesDelivered
    BY <1>0, <1>7, CountFields
  <2> QED  BY <1>1, <2>1, <2>2 DEF LagInv, Monotone
<1>8. ASSUME NEW p \in Proc, CountBuffered(p), rest[p] = <<>> PROVE LagInv' /\ Monotone
  <2>1. PICK n \in Nat : n = sum[p]
    BY <1>0 DEF TypeOK
  <2>2. pc[p] = "count" /\ Goto(p, "expired") /\ metrics' = [metrics EXCEPT !.drop = @ + n]
    BY <1>8, <2>1 DEF CountBuffered
  <2> QED  BY <1>7, <2>2
<1>9. ASSUME NEW p \in Proc, NEW s \in DOMAIN chans, Offers(p, s) PROVE LagInv' /\ Monotone
  <2>1. PICK n \in Nat : n = 1
    OBVIOUS
  <2>2. /\ pc[p] = "offer" /\ (pc' = pc \/ Goto(p, "sent"))
        /\ metrics' = metrics \/ metrics' = [metrics EXCEPT !.drop = @ + n]
    BY <1>9, <2>1 DEF Offers, OfferSend, OfferDrop
  <2> QED  BY <1>7, <2>2
<1> QED  BY <1>2, <1>3, <1>4, <1>5, <1>6, <1>8, <1>9, Accounts

(* The values loaded so far by a goroutine in Metrics, against what is     *)
(* loaded later or still counting.                                         *)
Later(p, i, now) == IF Len(snap[p]) >= i THEN snap[p][i] ELSE now

SnapInv ==
  \A p \in Proc :
    /\ Len(snap[p]) >= 1 =>
         snap[p][1] <= Later(p, 4, metrics.bytesWritten) + Cardinality(OtherSenders(p))
    /\ Len(snap[p]) >= 2 =>
         snap[p][2] <= Later(p, 5, metrics.bytesDelivered) + Cardinality(OtherSenders(p))

(* A goroutine between two counters of SendHeader is another one than the  *)
(* caller of Metrics.                                                      *)
LEMMA OthersCount ==
  ASSUME CallInv, NEW p \in Proc, pc[p] \notin {"wrote", "delivered"}
  PROVE  /\ Cardinality(OtherSenders(p)) \in Nat
         /\ Cardinality(At({"wrote"})) \in Nat /\ Cardinality(At({"delivered"})) \in Nat
         /\ Cardinality(At({"wrote"})) <= Cardinality(OtherSenders(p))
         /\ Cardinality(At({"delivered"})) <= Cardinality(OtherSenders(p))
<1>1. PICK O, W, D : O = OtherSenders(p) /\ W = At({"wrote"}) /\ D = At({"delivered"})
  OBVIOUS
<1>2. O \in SUBSET Proc
  BY <1>1 DEF OtherSenders
<1>3. IsFiniteSet(O)
  BY <1>2, FiniteAssumption, FS_Subset
<1>4. ASSUME NEW q \in Proc, pc[q] \in {"wrote", "delivered"} PROVE q \in O
  <2>1. call[q] \in Menu[q] /\ call[q].op = "SendHeader"
    BY <1>4 DEF CallInv, Exchanging
  <2>2. q # p
    BY <1>4
  <2> QED  BY <1>1, <2>1, <2>2 DEF OtherSenders
<1>5. W \in SUBSET O /\ D \in SUBSET O
  BY <1>1, <1>4 DEF At
<1> QED  BY <1>1, <1>3, <1>5, FS_Subset, FS_CardinalityType

(* A load, and every counting step under it, keeps the snapshots in bounds.*)
LEMMA SnapStep ==
  ASSUME IInv, CallInv, LagInv, SnapInv, [Next]_vars, Monotone
  PROVE  SnapInv'
<1>0. TypeOK
  BY DEF IInv
<1>1. /\ metrics.write \in Nat /\ metrics.deliver \in Nat
      /\ metrics.bytesWritten \in Nat /\ metrics.bytesDelivered \in Nat
  BY <1>0, CountFields
<1> SUFFICES ASSUME NEW p \in Proc
             PROVE  /\ Len(snap'[p]) >= 1 =>
                         snap'[p][1] <= Later(p, 4, metrics.bytesWritten)' + Cardinality(OtherSenders(p))
                    /\ Len(snap'[p]) >= 2 =>
                         snap'[p][2] <= Later(p, 5, metrics.bytesDelivered)' + Cardinality(OtherSenders(p))
  BY DEF SnapInv, OtherSenders
<1>2. PICK z : z = snap[p]
  OBVIOUS
<1>3. PICK lag : lag = Cardinality(OtherSenders(p))
  OBVIOUS
<1>4. lag \in Nat
  <2>1. OtherSenders(p) \in SUBSET Proc
    BY DEF OtherSenders
  <2>2. IsFiniteSet(OtherSenders(p))
    BY <2>1, FiniteAssumption, FS_Subset
  <2> QED  BY <1>3, <2>2, FS_CardinalityType
<1>5. z \in Seq(Nat)
  BY <1>0, <1>2 DEF TypeOK
<1>6. PICK bw \in Nat, bd \in Nat : bw = metrics.bytesWritten /\ bd = metrics.bytesDelivered
  BY <1>1
<1>7. /\ Len(z) >= 1 => z[1] <= (IF Len(z) >= 4 THEN z[4] ELSE bw) + lag
      /\ Len(z) >= 2 => z[2] <= (IF Len(z) >= 5 THEN z[5] ELSE bd) + lag
  BY <1>2, <1>3, <1>6 DEF SnapInv, Later
<1>8. CASE snap'[p] = snap[p]
  <2>1. PICK x, y : x = metrics'.bytesWritten /\ y = metrics'.bytesDelivered
    OBVIOUS
  <2>2. x >= bw /\ y >= bd
    BY <1>6, <2>1 DEF Monotone
  <2>3. x \in Nat /\ y \in Nat
    BY <2>1, StepInv DEF IInv, TypeOK, Metrics
  <2>4. /\ Len(z) >= 1 => z[1] <= (IF Len(z) >= 4 THEN z[4] ELSE x) + lag
        /\ Len(z) >= 2 => z[2] <= (IF Len(z) >= 5 THEN z[5] ELSE y) + lag
    <3>1. /\ Len(z) \in Nat
          /\ Len(z) >= 1 => z[1] \in Nat
          /\ Len(z) >= 2 => z[2] \in Nat
      BY <1>5
    <3> QED  BY <1>4, <1>5, <1>7, <2>2, <2>3, <3>1, SMTT(30)
  <2> QED  BY <1>2, <1>3, <1>8, <2>1, <2>4 DEF Later
<1>9. CASE LoadMetric(p)
  <2>1. PICK l : l = IF pc[p] = "enter" THEN <<>> ELSE snap[p]
    OBVIOUS
  <2>2. snap' = [snap EXCEPT ![p] = Append(l, metrics[LoadOrder[Len(l) + 1]])] /\ metrics' = metrics
        /\ (Len(l) < 5 \/ Len(l) = 5) /\ pc[p] \in {"enter", "loading"}
    BY <1>9, <2>1 DEF LoadMetric
  <2>3. l \in Seq(Nat)
    BY <1>2, <1>5, <2>1
  <2>4. /\ Len(l) >= 1 => l[1] <= (IF Len(l) >= 4 THEN l[4] ELSE bw) + lag
        /\ Len(l) >= 2 => l[2] <= (IF Len(l) >= 5 THEN l[5] ELSE bd) + lag
    <3>1. CASE pc[p] = "enter"
      <4>1. Len(l) = 0
        BY <2>1, <3>1
      <4> QED  BY <4>1
    <3>2. CASE pc[p] # "enter"
      BY <1>2, <1>7, <2>1, <3>2
    <3> QED  BY <3>1, <3>2
  <2>5. PICK n \in 0..5 : n = Len(l)
    <3>1. Len(l) \in Nat
      BY <2>3
    <3>2. PICK k \in Nat : k = Len(l)
      BY <3>1
    <3>3. k \in 0..5
      BY <2>2, <3>2
    <3> QED  BY <3>2, <3>3
  <2>6. PICK v \in Nat : v = metrics[LoadOrder[n + 1]]
    <3>1. n + 1 \in 1..6
      OBVIOUS
    <3>2. metrics \in Metrics
      BY <1>0 DEF TypeOK
    <3> QED  BY <3>1, <3>2, LoadedType
  <2>7. /\ n = 0 => v = metrics.write
        /\ n = 1 => v = metrics.deliver
        /\ n = 3 => v = bw
        /\ n = 4 => v = bd
    BY <1>6, <2>6 DEF LoadOrder
  <2>8. metrics.write <= bw + lag /\ metrics.deliver <= bd + lag
    <3>1. PICK w \in Nat, d \in Nat : w = Cardinality(At({"wrote"})) /\ d = Cardinality(At({"delivered"}))
          /\ w <= lag /\ d <= lag
      BY <1>3, <2>2, OthersCount
    <3>2. metrics.write <= bw + w /\ metrics.deliver <= bd + d
      BY <1>6, <3>1 DEF LagInv
    <3> QED  BY <1>1, <1>4, <3>1, <3>2
  <2>9. PICK r : r = Append(l, v)
    OBVIOUS
  <2>10. snap'[p] = r
    BY <1>0, <2>2, <2>5, <2>6, <2>9 DEF TypeOK
  <2>11. /\ r \in Seq(Nat) /\ Len(r) = n + 1 /\ r[n + 1] = v
         /\ \A i \in 1..n : r[i] = l[i] /\ l[i] \in Nat
    BY <2>3, <2>5, <2>9, SMTT(30)
  <2>12. Len(r) >= 1 => r[1] <= (IF Len(r) >= 4 THEN r[4] ELSE bw) + lag
    <3>1. CASE n = 0
      BY <2>7, <2>8, <2>11, <3>1
    <3>2. CASE n \in {1, 2}
      <4>1. l[1] <= bw + lag
        BY <2>4, <2>5, <3>2
      <4> QED  BY <2>11, <3>2, <4>1
    <3>3. CASE n = 3
      BY <2>4, <2>5, <2>7, <2>11, <3>3
    <3>4. CASE n \in {4, 5}
      BY <2>4, <2>5, <2>11, <3>4
    <3> QED  BY <3>1, <3>2, <3>3, <3>4
  <2>13. Len(r) >= 2 => r[2] <= (IF Len(r) >= 5 THEN r[5] ELSE bd) + lag
    <3>1. CASE n = 0
      BY <2>11, <3>1
    <3>2. CASE n = 1
      BY <2>7, <2>8, <2>11, <3>2
    <3>3. CASE n \in {2, 3}
      BY <2>4, <2>5, <2>11, <3>3, SMTT(30)
    <3>4. CASE n = 4
      BY <2>4, <2>5, <2>7, <2>11, <3>4
    <3>5. CASE n = 5
      BY <2>4, <2>5, <2>11, <3>5
    <3> QED  BY <3>1, <3>2, <3>3, <3>4, <3>5
  <2>14. /\ Later(p, 4, metrics.bytesWritten)' = IF Len(r) >= 4 THEN r[4] ELSE bw
         /\ Later(p, 5, metrics.bytesDelivered)' = IF Len(r) >= 5 THEN r[5] ELSE bd
    BY <1>6, <2>2, <2>10, SMTT(30) DEF Later
  <2> QED  BY <1>3, <2>10, <2>12, <2>13, <2>14
<1>10. LoadMetric(p) \/ snap'[p] = snap[p]
  <2> USE DEF bus, mutex, local
  <2>1. CASE UNCHANGED vars \/ \E s \in DOMAIN chans : Receive(s)
    BY <2>1 DEF vars, Receive
  <2>2. ASSUME NEW q \in Proc, LoadMetric(q), q # p PROVE snap'[p] = snap[p]
    BY <1>0, <2>2 DEF LoadMetric, TypeOK
  <2>3. ASSUME NEW q \in Proc,
               \/ Begin(q) \/ Reject(q) \/ Lock(q) \/ Publish(q) \/ Subscribe(q) \/ SetSchedule(q)
               \/ Close(q) \/ Lookup(q) \/ CountWrite(q) \/ CountBytesWritten(q)
        PROVE  snap' = snap
    BY <2>3 DEF Begin, Reject, Lock, Publish, Subscribe, SetSchedule, Close, Lookup, CountWrite,
                CountBytesWritten
  <2>4. ASSUME NEW q \in Proc,
               \/ BroadcastRLock(q) \/ Offer(q) \/ CountDelivery(q) \/ CountBytesDelivered(q)
               \/ BroadcastRUnlock(q) \/ Health(q) \/ PollRLock(q) \/ Scan(q) \/ Tick(q)
               \/ CtxDone(q) \/ CountRLock(q) \/ CountBuffered(q)
        PROVE  snap' = snap
    BY <2>4 DEF BroadcastRLock, Offer, CountDelivery, CountBytesDelivered, BroadcastRUnlock, Health,
                PollRLock, Scan, Tick, CtxDone, CountRLock, CountBuffered
  <2> QED  BY <2>1, <2>2, <2>3, <2>4 DEF Next, Step, Finished
<1> QED  BY <1>8, <1>9, <1>10

(* Where the order of the loads puts a counter.                            *)
LEMMA LoadPlace ==
  /\ (CHOOSE i \in 1..6 : LoadOrder[i] = "write") = 1
  /\ (CHOOSE i \in 1..6 : LoadOrder[i] = "deliver") = 2
  /\ (CHOOSE i \in 1..6 : LoadOrder[i] = "bytesWritten") = 4
  /\ (CHOOSE i \in 1..6 : LoadOrder[i] = "bytesDelivered") = 5
<1>1. ASSUME NEW i \in 1..6
      PROVE  /\ LoadOrder[i] = "write" <=> i = 1
             /\ LoadOrder[i] = "deliver" <=> i = 2
             /\ LoadOrder[i] = "bytesWritten" <=> i = 4
             /\ LoadOrder[i] = "bytesDelivered" <=> i = 5
  BY DEF LoadOrder
<1>2. 1 \in 1..6 /\ 2 \in 1..6 /\ 4 \in 1..6 /\ 5 \in 1..6
  OBVIOUS
<1> QED  BY <1>1, <1>2

(* The lag of a snapshot of Metrics, which takes no lock: the counts       *)
(* outrun the byte totals by at most one frame for every other sender.     *)
THEOREM SnapshotsLag == Spec => []SnapshotLag
<1>1. Init => CallInv /\ LagInv /\ SnapInv
  <2> SUFFICES ASSUME Init PROVE CallInv /\ LagInv /\ SnapInv
    OBVIOUS
  <2>1. CallInv
    BY DEF Init, CallInv, Exchanging, Draining
  <2>2. LagInv
    <3>1. At({"wrote"}) = {} /\ At({"delivered"}) = {}
      BY DEF Init, At
    <3>2. Cardinality(At({"wrote"})) = 0 /\ Cardinality(At({"delivered"})) = 0
      BY <3>1, FS_EmptySet
    <3>3. /\ metrics.write = 0 /\ metrics.bytesWritten = 0
          /\ metrics.deliver = 0 /\ metrics.bytesDelivered = 0
      BY DEF Init, NoMetrics
    <3> QED  BY <3>2, <3>3 DEF LagInv
  <2>3. SnapInv
    <3>1. \A p \in Proc : Len(snap[p]) = 0
      BY DEF Init
    <3> QED  BY <3>1 DEF SnapInv
  <2> QED  BY <2>1, <2>2, <2>3
<1>2. IInv /\ CallInv /\ LagInv /\ SnapInv /\ [Next]_vars => (CallInv /\ LagInv /\ SnapInv)'
  BY CallStep, LagStep, SnapStep DEF IInv
<1>3. SnapInv => SnapshotLag
  <2> SUFFICES ASSUME SnapInv, NEW p \in Snapshots
               PROVE  /\ snap[p][1] <= snap[p][4] + Cardinality(OtherSenders(p))
                      /\ snap[p][2] <= snap[p][5] + Cardinality(OtherSenders(p))
    BY LoadPlace DEF SnapshotLag
  <2> QED  BY DEF SnapInv, Snapshots, Later
<1> QED  BY <1>1, <1>2, <1>3, Invariance, PTL DEF Spec

(* What an expired CloseWithDrain has counted stays in its local; it is    *)
(* not counted again, because by then the bus is closed.                   *)
Expiring == {"count", "expired", "critExpired"}

DrainInv ==
  \A p \in Proc : sum[p] # 0 =>
    pc[p] \notin {"select", "late"} /\ (closed \/ pc[p] \in Expiring)

(* A local of CloseWithDrain is reset only where it is 0 already.          *)
LEMMA DrainStep ==
  ASSUME IInv, CallInv, DrainInv, [Next]_vars
  PROVE  DrainInv' /\ \A p \in Proc : sum'[p] = 0 => sum[p] = 0
<1> USE DEF bus, mutex, local
<1>0. TypeOK /\ LockInv
  BY DEF IInv
<1>1. ASSUME UNCHANGED <<pc, sum, closed>> PROVE DrainInv' /\ \A p \in Proc : sum'[p] = 0 => sum[p] = 0
  BY <1>1, Zenon DEF DrainInv
<1>2. ASSUME NEW p \in Proc, NEW label, Goto(p, label), UNCHANGED sum, closed => closed',
             sum[p] # 0 => label \notin {"select", "late"} /\ (closed' \/ label \in Expiring)
      PROVE  DrainInv' /\ \A q \in Proc : sum'[q] = 0 => sum[q] = 0
  <2>1. pc'[p] = label /\ \A q \in Proc \ {p} : pc'[q] = pc[q]
    BY <1>0, <1>2 DEF Goto, TypeOK
  <2>2. ASSUME NEW q \in Proc, sum'[q] # 0
        PROVE  pc'[q] \notin {"select", "late"} /\ (closed' \/ pc'[q] \in Expiring)
    <3>1. CASE q = p
      BY <1>2, <2>1, <2>2, <3>1, Zenon
    <3>2. CASE q # p
      BY <1>2, <2>1, <2>2, <3>2, Zenon DEF DrainInv
    <3> QED  BY <3>1, <3>2
  <2> QED  BY <1>2, <2>2, Zenon DEF DrainInv
<1>3. ASSUME NEW p \in Proc, NEW label, Goto(p, label), UNCHANGED <<sum, closed>>,
             pc[p] \notin Expiring, label \notin {"select", "late"}
      PROVE  DrainInv' /\ \A q \in Proc : sum'[q] = 0 => sum[q] = 0
  <2>1. sum[p] # 0 => closed'
    BY <1>3, Zenon DEF DrainInv
  <2>2. closed => closed'
    BY <1>3, Zenon
  <2> QED  BY <1>2, <1>3, <2>1, <2>2, Zenon
<1>4. ASSUME NEW p \in Proc, Begin(p) \/ Step(p)
      PROVE  DrainInv' /\ \A q \in Proc : sum'[q] = 0 => sum[q] = 0
  <2>1. CASE Begin(p) \/ Reject(p) \/ Health(p)
    BY <1>3, <2>1 DEF Begin, Reject, Health, Return, Expiring
  <2>2. CASE Lock(p)
    <3>1. UNCHANGED <<sum, closed>>
      BY <2>2 DEF Lock
    <3>2. CASE pc[p] = "expired"
      <4>1. Goto(p, "critExpired")
        BY <2>2, <3>2 DEF Lock
      <4>2. closed => closed'
        BY <3>1, Zenon
      <4> QED  BY <1>2, <3>1, <4>1, <4>2 DEF Expiring
    <3>3. CASE pc[p] # "expired"
      BY <1>3, <2>2, <3>1, <3>3 DEF Lock, Expiring
    <3> QED  BY <3>2, <3>3
  <2>3. CASE Publish(p) \/ Subscribe(p) \/ SetSchedule(p)
    <3>1. /\ Goto(p, "idle") /\ UNCHANGED <<sum, closed>> /\ pc[p] \in {"crit", "critExpired"}
          /\ call[p].op \in {"Publish", "Subscribe", "SetSchedule"}
      BY <2>3 DEF Publish, Subscribe, SetSchedule, Locked, Return
    <3>2. pc[p] \notin Expiring
      BY <3>1 DEF CallInv, Draining, Expiring
    <3> QED  BY <1>3, <3>1, <3>2
  <2>4. CASE Close(p)
    <3>1. Goto(p, "idle") /\ UNCHANGED sum /\ closed'
      BY <2>4, Zenon DEF Close, Return
    <3> QED  BY <1>2, <3>1
  <2>5. CASE Lookup(p)
    <3>1. PICK label : Goto(p, label) /\ label \in {"idle", "found"}
      BY <2>5, Zenon DEF Lookup, Return
    <3>2. pc[p] = "enter" /\ UNCHANGED <<sum, closed>>
      BY <2>5 DEF Lookup
    <3> QED  BY <1>3, <3>1, <3>2 DEF Expiring
  <2>6. CASE CountWrite(p) \/ CountBytesWritten(p) \/ BroadcastRLock(p) \/ CountDelivery(p)
             \/ CountBytesDelivered(p) \/ BroadcastRUnlock(p)
    <3>1. PICK label : Goto(p, label) /\ label \in {"wrote", "counted", "offer", "delivered", "idle"}
      BY <2>6 DEF CountWrite, CountBytesWritten, BroadcastRLock, CountDelivery, CountBytesDelivered,
                  BroadcastRUnlock, Return
    <3>2. /\ pc[p] \in {"found", "wrote", "counted", "sent", "delivered", "offer"}
          /\ UNCHANGED <<sum, closed>>
      BY <2>6 DEF CountWrite, CountBytesWritten, BroadcastRLock, CountDelivery, CountBytesDelivered,
                  BroadcastRUnlock
    <3> QED  BY <1>3, <3>1, <3>2 DEF Expiring
  <2>7. CASE Offer(p)
    <3>1. pc[p] = "offer" /\ UNCHANGED <<sum, closed>> /\ (pc' = pc \/ Goto(p, "sent"))
      BY <2>7 DEF Offer, OfferSkip, OfferSend, OfferDrop
    <3>2. CASE pc' = pc
      BY <1>1, <3>1, <3>2, Zenon
    <3>3. CASE Goto(p, "sent")
      BY <1>3, <3>1, <3>3 DEF Expiring
    <3> QED  BY <3>1, <3>2, <3>3
  <2>8. CASE LoadMetric(p)
    <3>1. PICK label : Goto(p, label) /\ label \in {"idle", "loading"}
      BY <2>8, Zenon DEF LoadMetric, Return
    <3>2. pc[p] \in {"enter", "loading"} /\ UNCHANGED <<sum, closed>>
      BY <2>8 DEF LoadMetric
    <3> QED  BY <1>3, <3>1, <3>2 DEF Expiring
  <2>9. CASE PollRLock(p)
    BY <1>3, <2>9 DEF PollRLock, Expiring
  <2>10. CASE Tick(p)
    BY <1>3, <2>10 DEF Tick, Expiring
  <2>11. CASE CtxDone(p)
    <3>1. sum[p] = 0
      BY <2>11 DEF CtxDone, DrainInv
    <3>2. Goto(p, "late") /\ UNCHANGED <<sum, closed>>
      BY <2>11 DEF CtxDone
    <3>3. closed => closed'
      BY <3>2, Zenon
    <3> QED  BY <1>2, <3>1, <3>2, <3>3
  <2>12. CASE Scan(p)
    <3>1. pc[p] = "scan" /\ UNCHANGED <<sum, closed>>
      BY <2>12 DEF Scan
    <3>2. CASE pc' = pc
      BY <1>1, <3>1, <3>2, Zenon
    <3>3. CASE Goto(p, "drained")
      BY <1>3, <3>1, <3>3 DEF Expiring
    <3>4. CASE Goto(p, "select") /\ rest[p] # <<>>
      <4>1. p \in readers
        BY <1>0, <3>1 DEF LockInv, Reading
      <4>2. ~closed
        BY <1>0, <3>4, <4>1 DEF LockInv
      <4>3. sum[p] = 0
        BY <3>1, <4>2 DEF DrainInv, Expiring
      <4> QED  BY <1>2, <3>1, <3>4, <4>2, <4>3
    <3> QED  BY <2>12, <3>2, <3>3, <3>4 DEF Scan
  <2>13. CASE CountRLock(p)
    <3>1. /\ pc[p] = "late" /\ sum' = [sum EXCEPT ![p] = 0] /\ Goto(p, "count") /\ UNCHANGED closed
      BY <2>13 DEF CountRLock
    <3>2. sum[p] = 0
      BY <3>1 DEF DrainInv
    <3>3. sum' = sum
      BY <1>0, <3>1, <3>2 DEF TypeOK
    <3>4. closed => closed'
      BY <3>1, Zenon
    <3> QED  BY <1>2, <3>1, <3>2, <3>3, <3>4
  <2>14. CASE CountBuffered(p)
    <3>1. pc[p] = "count" /\ UNCHANGED closed
      BY <2>14 DEF CountBuffered
    <3>2. closed => closed'
      BY <3>1, Zenon
    <3>3. CASE rest[p] = <<>>
      <4>1. Goto(p, "expired") /\ UNCHANGED sum
        BY <2>14, <3>3 DEF CountBuffered
      <4> QED  BY <1>2, <3>2, <4>1 DEF Expiring
    <3>4. CASE rest[p] # <<>>
      <4>1. PICK s \in DOMAIN chans : s = Head(rest[p])
        BY <1>0, <3>4, TailSeq DEF TypeOK
      <4>2. PICK n \in Nat : n = Len(chans[s].buf)
        <5>1. chans[s].buf \in Seq(Frame)
          BY <1>0, ChanParts
        <5> QED  BY <5>1
      <4>3. sum' = [sum EXCEPT ![p] = @ + n] /\ pc' = pc
        BY <2>14, <3>4, <4>1, <4>2 DEF CountBuffered
      <4>4. sum'[p] = 0 => sum[p] = 0
        <5>1. PICK m \in Nat : m = sum[p]
          BY <1>0 DEF TypeOK
        <5>2. sum'[p] = m + n
          BY <1>0, <4>3, <5>1 DEF TypeOK
        <5> QED  BY <5>1, <5>2
      <4>5. \A q \in Proc \ {p} : sum'[q] = sum[q]
        BY <1>0, <4>3 DEF TypeOK
      <4>6. \A q \in Proc : sum'[q] = 0 => sum[q] = 0
        BY <4>4, <4>5
      <4>7. DrainInv'
        <5> SUFFICES ASSUME NEW q \in Proc, sum'[q] # 0
                     PROVE  pc[q] \notin {"select", "late"} /\ (closed' \/ pc[q] \in Expiring)
          BY <4>3 DEF DrainInv
        <5>1. CASE q = p
          BY <3>1, <5>1 DEF Expiring
        <5>2. CASE q # p
          BY <3>2, <4>5, <5>2, Zenon DEF DrainInv
        <5> QED  BY <5>1, <5>2
      <4> QED  BY <4>6, <4>7
    <3> QED  BY <3>3, <3>4
  <2> QED  BY <1>4, <2>1, <2>2, <2>3, <2>4, <2>5, <2>6, <2>7, <2>8, <2>9, <2>10, <2>11, <2>12,
              <2>13, <2>14 DEF Step
<1>5. CASE UNCHANGED vars \/ \E s \in DOMAIN chans : Receive(s)
  <2>1. UNCHANGED <<pc, sum, closed>>
    BY <1>5 DEF vars, Receive
  <2> QED  BY <1>1, <2>1, ZenonT(60)
<1> QED  BY <1>4, <1>5 DEF Next, Finished

(* A new argument with value 0 leaves no mark.                             *)
LEMMA TallySame ==
  ASSUME NEW f, NEW g, DOMAIN f \subseteq DOMAIN g, \A y \in DOMAIN f : g[y] = f[y],
         \A y \in DOMAIN g : y \notin DOMAIN f => g[y] = 0
  PROVE  Tally(g) = Tally(f)
<1>1. ASSUME NEW z \in Tally(g) PROVE z \in Tally(f)
  <2>1. PICK y \in DOMAIN g : \E k \in 1..g[y] : z = <<y, k>>
    BY InTally
  <2>2. PICK k \in 1..g[y] : z = <<y, k>>
    BY <2>1
  <2>3. y \in DOMAIN f
    OBVIOUS
  <2> QED  BY <2>2, <2>3, InTally
<1>2. ASSUME NEW z \in Tally(f) PROVE z \in Tally(g)
  <2>1. PICK y \in DOMAIN f : \E k \in 1..f[y] : z = <<y, k>>
    BY InTally
  <2> QED  BY <2>1, InTally
<1> QED  BY <1>1, <1>2

(* A mark of TakenBy is a frame of a stream.                               *)
LEMMA TakenMark ==
  ASSUME TypeOK
  PROVE  \A d : d \in Tally(TakenBy) <=>
                  \E s \in DOMAIN chans : \E k \in DOMAIN Taken(s) : d = <<s, k>>
<1>1. DOMAIN TakenBy = DOMAIN chans /\ \A s \in DOMAIN chans : TakenBy[s] = Len(Taken(s))
  BY DEF TakenBy
<1>2. ASSUME NEW s \in DOMAIN chans PROVE DOMAIN Taken(s) = 1..Len(Taken(s))
  <2>1. PICK q : q = Taken(s)
    OBVIOUS
  <2>2. q \in Seq(Frame)
    BY <2>1, ChanParts
  <2>3. DOMAIN q = 1..Len(q)
    BY <2>2
  <2> QED  BY <2>1, <2>3
<1> QED  BY <1>1, <1>2, InTally

(* The accounts of a step that leaves the streams as they are, but for new *)
(* empty ones.                                                             *)
SameTaken ==
  /\ DOMAIN chans \subseteq DOMAIN chans'
  /\ \A s \in DOMAIN chans : Taken(s)' = Taken(s)
  /\ \A s \in DOMAIN chans' : s \notin DOMAIN chans => Taken(s)' = <<>>

(* Such a step leaves what the channels took, and its bytes.               *)
LEMMA KeepsTaken ==
  ASSUME TypeOK, SameTaken
  PROVE  Tally(TakenBy)' = Tally(TakenBy) /\ TakenBytes' = TakenBytes
<1>1. PICK f, g : f = TakenBy /\ g = TakenBy'
  OBVIOUS
<1>2. DOMAIN f = DOMAIN chans /\ DOMAIN g = DOMAIN chans'
  BY <1>1 DEF TakenBy
<1>3. \A s \in DOMAIN f : g[s] = f[s]
  BY <1>1, <1>2 DEF TakenBy, SameTaken
<1>4. \A s \in DOMAIN g : s \notin DOMAIN f => g[s] = 0
  <2> SUFFICES ASSUME NEW s \in DOMAIN chans', s \notin DOMAIN chans PROVE g[s] = 0
    BY <1>2
  <2>1. Taken(s)' = <<>>
    BY DEF SameTaken
  <2>2. g[s] = Len(Taken(s)')
    BY <1>1 DEF TakenBy
  <2> QED  BY <2>1, <2>2
<1>5. Tally(g) = Tally(f)
  BY <1>2, <1>3, <1>4, TallySame DEF SameTaken
<1>6. Tally(TakenBy)' = Tally(TakenBy)
  BY <1>1, <1>5 DEF Tally
<1>7. TakenBytes' = TakenBytes
  <2>1. ASSUME NEW d \in Tally(TakenBy) PROVE Len(Taken(d[1])[d[2]].Data)' = Len(Taken(d[1])[d[2]].Data)
    <3>1. d[1] \in DOMAIN chans
      BY TakenMark
    <3>2. Taken(d[1])' = Taken(d[1])
      BY <3>1 DEF SameTaken
    <3> QED  BY <3>2
  <2> QED  BY <1>6, <2>1 DEF TakenBytes
<1> QED  BY <1>6, <1>7

(* The bytes on their way to the counter do not change either.             *)
LEMMA KeepsSent ==
  ASSUME At({"sent", "delivered"})' = At({"sent", "delivered"}),
         \A p \in At({"sent", "delivered"}) : frame'[p] = frame[p]
  PROVE  SentBytes' = SentBytes
  BY DEF SentBytes

(* The frame that p sends to s comes into all three accounts.              *)
LEMMA SendAccounts ==
  ASSUME TypeOK, CallInv, NEW p \in Proc, NEW s \in DOMAIN chans, pc[p] = "offer",
         OfferSend(p, s), UNCHANGED frame,
         IsFiniteSet(Tally(TakenBy)), IsFiniteSet(Tally(TakenBytes)), IsFiniteSet(Tally(SentBytes))
  PROVE  /\ IsFiniteSet(Tally(TakenBy)') /\ Sum(TakenBy)' = Sum(TakenBy) + 1
         /\ \E n \in Nat : /\ IsFiniteSet(Tally(TakenBytes)') /\ Sum(TakenBytes)' = Sum(TakenBytes) + n
                           /\ IsFiniteSet(Tally(SentBytes)') /\ Sum(SentBytes)' = Sum(SentBytes) + n
<1>1. SentTo(p, s)
  BY SendStreams
<1>2. PICK q : q = Taken(s)
  OBVIOUS
<1>3. q \in Seq(Frame) /\ frame[p] \in Frame
  BY <1>2, ChanParts DEF TypeOK
<1>4. PICK len \in Nat : len = Len(q)
  BY <1>3
<1>5. /\ Taken(s)' = Append(q, frame[p])
      /\ Len(Append(q, frame[p])) = len + 1 /\ DOMAIN Append(q, frame[p]) = 1..(len + 1)
      /\ Append(q, frame[p])[len + 1] = frame[p]
      /\ \A k \in 1..len : Append(q, frame[p])[k] = q[k]
  <2>1. Taken(s)' = Append(q, frame[p])
    BY <1>1, <1>2 DEF SentTo
  <2>2. PICK e \in Frame : e = frame[p]
    BY <1>3
  <2>3. /\ Len(Append(q, e)) = len + 1 /\ DOMAIN Append(q, e) = 1..(len + 1)
        /\ Append(q, e)[len + 1] = e /\ \A k \in 1..len : Append(q, e)[k] = q[k]
    BY <1>3, <1>4
  <2> QED  BY <2>1, <2>2, <2>3
<1>6. DOMAIN chans' = DOMAIN chans /\ \A c \in DOMAIN chans \ {s} : Taken(c)' = Taken(c)
  BY <1>1 DEF SentTo, SameStream
<1>7. PICK n \in Nat : n = Len(frame[p].Data)
  BY FrameSize DEF Exchanging
<1>8. PICK one \in Nat, zero \in Nat : one = 1 /\ zero = 0
  OBVIOUS
<1>9. IsFiniteSet(Tally(TakenBy)') /\ Sum(TakenBy)' = Sum(TakenBy) + 1
  <2>1. PICK f, g : f = TakenBy /\ g = TakenBy'
    OBVIOUS
  <2>2. Grows(f, g, s, len, one)
    BY <1>2, <1>4, <1>5, <1>6, <1>8, <2>1 DEF TakenBy, Grows
  <2>3. IsFiniteSet(Tally(g)) /\ Sum(g) = Sum(f) + one
    BY <2>1, <2>2, TallyGrows
  <2> QED  BY <1>8, <2>1, <2>3
<1>10. IsFiniteSet(Tally(TakenBytes)') /\ Sum(TakenBytes)' = Sum(TakenBytes) + n
  <2>1. PICK f, g : f = TakenBytes /\ g = TakenBytes'
    OBVIOUS
  <2>2. PICK x : x = <<s, len + 1>>
    OBVIOUS
  <2>4. PICK T, U : T = Tally(TakenBy) /\ U = Tally(TakenBy)'
    OBVIOUS
  <2>5. U = T \cup {x} /\ x \notin T
    <3>1. \A d : d \in T <=> \E c \in DOMAIN chans : \E k \in 1..Len(Taken(c)) : d = <<c, k>>
      BY <2>4, InTally DEF TakenBy
    <3>2. \A d : d \in U <=> \E c \in DOMAIN chans : \E k \in 1..Len(Taken(c)') : d = <<c, k>>
      BY <1>6, <2>4, InTally DEF TakenBy
    <3>3. ASSUME NEW d \in U PROVE d \in T \cup {x}
      <4>0. PICK c \in DOMAIN chans : \E k \in 1..Len(Taken(c)') : d = <<c, k>>
        BY <3>2
      <4>1. PICK k \in 1..Len(Taken(c)') : d = <<c, k>>
        BY <4>0
      <4>2. CASE c # s
        BY <1>6, <3>1, <4>1, <4>2
      <4>3. CASE c = s
        <5>1. k \in 1..(len + 1)
          BY <1>5, <4>3
        <5>2. CASE k = len + 1
          BY <2>2, <4>1, <4>3, <5>2
        <5>3. CASE k # len + 1
          <6>1. k \in 1..len
            BY <5>1, <5>3
          <6> QED  BY <1>2, <1>4, <3>1, <4>1, <4>3, <6>1
        <5> QED  BY <5>2, <5>3
      <4> QED  BY <4>2, <4>3
    <3>4. ASSUME NEW d \in T PROVE d \in U
      <4>0. PICK c \in DOMAIN chans : \E k \in 1..Len(Taken(c)) : d = <<c, k>>
        BY <3>1
      <4>1. PICK k \in 1..Len(Taken(c)) : d = <<c, k>>
        BY <4>0
      <4>2. k \in 1..Len(Taken(c)')
        <5>1. CASE c # s
          BY <1>6, <5>1
        <5>2. CASE c = s
          <6>1. k \in 1..(len + 1)
            BY <1>2, <1>4, <5>2
          <6> QED  BY <1>5, <5>2, <6>1
        <5> QED  BY <5>1, <5>2
      <4> QED  BY <3>2, <4>1, <4>2
    <3>5. x \in U
      <4>1. len + 1 \in 1..Len(Taken(s)')
        BY <1>5
      <4> QED  BY <2>2, <3>2, <4>1
    <3>6. x \notin T
      <4>1. ~(len + 1 \in 1..len)
        OBVIOUS
      <4> QED  BY <1>2, <1>4, <2>2, <3>1, <4>1
    <3> QED  BY <3>3, <3>4, <3>5, <3>6
  <2>6. DOMAIN f = T /\ DOMAIN g = U
    BY <2>1, <2>4 DEF TakenBytes
  <2>7. g[x] = n
    <3>1. g[x] = Len(Taken(x[1])'[x[2]].Data)
      BY <2>1, <2>4, <2>5 DEF TakenBytes
    <3>2. x[1] = s /\ x[2] = len + 1
      BY <2>2
    <3>3. Taken(s)'[len + 1] = frame[p]
      BY <1>5
    <3> QED  BY <1>7, <3>1, <3>2, <3>3
  <2>8. ASSUME NEW d \in T PROVE g[d] = f[d]
    <3>0. PICK c \in DOMAIN chans : \E k \in 1..Len(Taken(c)) : d = <<c, k>>
      BY <2>4, <2>8, InTally DEF TakenBy
    <3>1. PICK k \in 1..Len(Taken(c)) : d = <<c, k>>
      BY <3>0
    <3>2. Taken(c)'[k] = Taken(c)[k]
      <4>1. CASE c # s
        BY <1>6, <4>1
      <4>2. CASE c = s
        BY <1>2, <1>4, <1>5, <4>2
      <4> QED  BY <4>1, <4>2
    <3>3. f[d] = Len(Taken(d[1])[d[2]].Data) /\ g[d] = Len(Taken(d[1])'[d[2]].Data)
      BY <2>1, <2>4, <2>5, <2>8 DEF TakenBytes
    <3>4. d[1] = c /\ d[2] = k
      BY <3>1
    <3> QED  BY <3>2, <3>3, <3>4
  <2>9. Grows(f, g, x, zero, n)
    BY <1>8, <2>5, <2>6, <2>7, <2>8 DEF Grows
  <2>10. IsFiniteSet(Tally(g)) /\ Sum(g) = Sum(f) + n
    BY <2>1, <2>9, TallyGrows
  <2> QED  BY <2>1, <2>10
<1>11. IsFiniteSet(Tally(SentBytes)') /\ Sum(SentBytes)' = Sum(SentBytes) + n
  <2>1. PICK f, g : f = SentBytes /\ g = SentBytes'
    OBVIOUS
  <2>2. Goto(p, "sent")
    BY DEF OfferSend
  <2>3. p \notin At({"sent", "delivered"}) /\ At({"sent", "delivered"})' = At({"sent", "delivered"}) \cup {p}
    BY <2>2 DEF At, Goto, TypeOK
  <2>4. Grows(f, g, p, zero, n)
    BY <1>7, <1>8, <2>1, <2>3 DEF SentBytes, Grows
  <2>5. IsFiniteSet(Tally(g)) /\ Sum(g) = Sum(f) + n
    BY <2>1, <2>4, TallyGrows
  <2> QED  BY <2>1, <2>5
<1> QED  BY <1>9, <1>10, <1>11

(* The accounts are finite, and they balance.                              *)
FiniteAccounts ==
  /\ IsFiniteSet(Tally(TakenBy)) /\ IsFiniteSet(Tally(LostBy))
  /\ IsFiniteSet(Tally(TakenBytes)) /\ IsFiniteSet(Tally(SentBytes))

CountInv == FiniteAccounts /\ CountersMatchChannels

(* The accounts in numbers.                                                *)
LEMMA Numbers ==
  ASSUME TypeOK, FiniteAccounts
  PROVE  /\ Sum(TakenBy) \in Nat /\ Sum(LostBy) \in Nat
         /\ Sum(TakenBytes) \in Nat /\ Sum(SentBytes) \in Nat
         /\ Cardinality(At({"sent"})) \in Nat
<1>1. At({"sent"}) \in SUBSET Proc
  BY DEF At
<1>2. IsFiniteSet(At({"sent"}))
  BY <1>1, FiniteAssumption, FS_Subset
<1> QED  BY <1>2, FS_CardinalityType DEF FiniteAccounts, Sum

(* A step that leaves chans alone leaves what the channels took and lost.  *)
LEMMA KeepsChans ==
  ASSUME TypeOK, chans' = chans
  PROVE  Tally(TakenBy)' = Tally(TakenBy) /\ TakenBytes' = TakenBytes /\ LostBy' = LostBy
<1>1. SameTaken
  BY DEF SameTaken, Taken
<1>2. LostBy' = LostBy
  BY DEF LostBy
<1> QED  BY <1>1, <1>2, KeepsTaken

(* What has to be shown of a step.                                         *)
LEMMA Balance ==
  ASSUME TypeOK, CountInv, \A p \in Proc : sum'[p] = 0 => sum[p] = 0,
         FiniteAccounts', NEW taken \in Nat, NEW n \in Nat, NEW lost \in Nat,
         metrics'.deliver + Cardinality(At({"sent"})') = metrics.deliver + Cardinality(At({"sent"})) + taken,
         Sum(TakenBy)' = Sum(TakenBy) + taken,
         Sum(TakenBytes)' = Sum(TakenBytes) + n,
         metrics'.bytesDelivered + Sum(SentBytes)' = metrics.bytesDelivered + Sum(SentBytes) + n,
         Sum(LostBy)' = Sum(LostBy) + lost,
         (\A p \in Proc : sum'[p] = 0) => metrics'.drop = metrics.drop + lost
  PROVE  CountInv'
<1>1. /\ metrics.deliver + Cardinality(At({"sent"})) = Sum(TakenBy)
      /\ metrics.bytesDelivered + Sum(SentBytes) = Sum(TakenBytes)
      /\ (\A p \in Proc : sum[p] = 0) => metrics.drop = Sum(LostBy)
  BY DEF CountInv, CountersMatchChannels
<1>2. metrics'.deliver + Cardinality(At({"sent"})') = Sum(TakenBy)'
  BY <1>1
<1>3. metrics'.bytesDelivered + Sum(SentBytes)' = Sum(TakenBytes)'
  BY <1>1
<1>4. ASSUME \A p \in Proc : sum'[p] = 0 PROVE metrics'.drop = Sum(LostBy)'
  BY <1>1, <1>4
<1>5. CountersMatchChannels'
  BY <1>2, <1>3, <1>4 DEF CountersMatchChannels
<1> QED  BY <1>5 DEF CountInv

(* Every step keeps the balance.                                           *)
LEMMA CountStep ==
  ASSUME IInv, CallInv, DrainInv, CountInv, [Next]_vars
  PROVE  CountInv'
<1>0. TypeOK /\ FiniteAccounts /\ \A p \in Proc : sum'[p] = 0 => sum[p] = 0
  BY DrainStep DEF IInv, CountInv
<1>1. PICK zero \in Nat : zero = 0
  OBVIOUS
<1>2. /\ metrics.deliver \in Nat /\ metrics.drop \in Nat /\ metrics.bytesDelivered \in Nat
      /\ Sum(TakenBy) \in Nat /\ Sum(LostBy) \in Nat /\ Sum(TakenBytes) \in Nat /\ Sum(SentBytes) \in Nat
      /\ Cardinality(At({"sent"})) \in Nat
  BY <1>0, CountFields, Numbers
<1>3. ASSUME Tally(TakenBy)' = Tally(TakenBy), TakenBytes' = TakenBytes, SentBytes' = SentBytes,
             Tally(LostBy)' = Tally(LostBy), At({"sent"})' = At({"sent"}),
             metrics'.deliver = metrics.deliver, metrics'.bytesDelivered = metrics.bytesDelivered,
             (\A p \in Proc : sum'[p] = 0) => metrics'.drop = metrics.drop
      PROVE  CountInv'
  <2>1. /\ Sum(TakenBy)' = Sum(TakenBy) /\ Sum(LostBy)' = Sum(LostBy)
        /\ Sum(TakenBytes)' = Sum(TakenBytes) /\ Sum(SentBytes)' = Sum(SentBytes)
    BY <1>3 DEF Sum
  <2>2. FiniteAccounts'
    BY <1>0, <1>3 DEF FiniteAccounts
  <2>3. CountersMatchChannels
    BY DEF CountInv
  <2> QED  BY <1>0, <1>3, <2>1, <2>2, <2>3 DEF CountInv, CountersMatchChannels
<1>4. CASE Unaccounted
  <2>1. SameCounts /\ (SameStreams \/ Joined)
    BY <1>4 DEF Unaccounted
  <2>2. SameTaken
    <3>1. CASE SameStreams
      BY <3>1 DEF SameTaken, SameStreams, SameStream
    <3>2. CASE Joined
      BY <3>2 DEF SameTaken, Joined, SameStream
    <3> QED  BY <2>1, <3>1, <3>2
  <2>3. Tally(TakenBy)' = Tally(TakenBy) /\ TakenBytes' = TakenBytes
    BY <1>0, <2>2, KeepsTaken
  <2>4. At({"sent"})' = At({"sent"}) /\ At({"sent", "delivered"})' = At({"sent", "delivered"})
    BY <1>4 DEF Unaccounted, Busy, At
  <2>5. \A p \in At({"sent", "delivered"}) : frame'[p] = frame[p]
    BY <1>4 DEF Unaccounted, Busy, At
  <2>6. SentBytes' = SentBytes
    BY <2>4, <2>5, KeepsSent
  <2>7. Tally(LostBy)' = Tally(LostBy)
    <3>1. PICK f, g : f = LostBy /\ g = LostBy'
      OBVIOUS
    <3>2. DOMAIN f = DOMAIN chans /\ DOMAIN g = DOMAIN chans'
      BY <3>1 DEF LostBy
    <3>3. \A s \in DOMAIN f : g[s] = f[s]
      BY <1>4, <2>2, <3>1, <3>2 DEF LostBy, Unaccounted, SameTaken
    <3>4. \A s \in DOMAIN g : s \notin DOMAIN f => g[s] = 0
      <4>1. CASE SameStreams
        BY <3>2, <4>1 DEF SameStreams
      <4>2. CASE Joined
        BY <3>1, <3>2, <4>2 DEF LostBy, Joined
      <4> QED  BY <2>1, <4>1, <4>2
    <3>5. Tally(g) = Tally(f)
      BY <2>2, <3>2, <3>3, <3>4, TallySame DEF SameTaken
    <3> QED  BY <3>1, <3>5
  <2> QED  BY <1>3, <2>1, <2>3, <2>4, <2>6, <2>7 DEF SameCounts
<1>5. ASSUME NEW p \in Proc, NEW label, Goto(p, label), label \notin {"sent", "delivered"},
             pc[p] \notin {"sent", "delivered"}, UNCHANGED <<chans, frame>>,
             metrics'.deliver = metrics.deliver, metrics'.bytesDelivered = metrics.bytesDelivered,
             (\A q \in Proc : sum'[q] = 0) => metrics'.drop = metrics.drop
      PROVE  CountInv'
  <2>1. At({"sent"})' = At({"sent"}) /\ At({"sent", "delivered"})' = At({"sent", "delivered"})
    BY <1>0, <1>5 DEF At, Goto, TypeOK
  <2>2. SentBytes' = SentBytes
    BY <1>5, <2>1, KeepsSent
  <2>3. Tally(TakenBy)' = Tally(TakenBy) /\ TakenBytes' = TakenBytes /\ LostBy' = LostBy
    BY <1>0, <1>5, KeepsChans
  <2> QED  BY <1>3, <1>5, <2>1, <2>2, <2>3
<1>6. ASSUME NEW p \in Proc, CountWrite(p) PROVE CountInv'
  <2>1. /\ Goto(p, "wrote") /\ pc[p] = "found" /\ UNCHANGED <<chans, frame>>
        /\ metrics' = [metrics EXCEPT !.write = @ + 1]
    BY <1>6 DEF CountWrite, local
  <2>2. /\ metrics'.deliver = metrics.deliver /\ metrics'.bytesDelivered = metrics.bytesDelivered
        /\ metrics'.drop = metrics.drop
    BY <1>0, <2>1, CountFields
  <2> QED  BY <1>5, <2>1, <2>2
<1>7. ASSUME NEW p \in Proc, CountBytesWritten(p) PROVE CountInv'
  <2>1. PICK n \in Nat : n = Len(frame[p].Data)
    BY <1>7, FrameSize DEF CountBytesWritten, Exchanging
  <2>2. /\ Goto(p, "counted") /\ pc[p] = "wrote" /\ UNCHANGED <<chans, frame>>
        /\ metrics' = [metrics EXCEPT !.bytesWritten = @ + n]
    BY <1>7, <2>1 DEF CountBytesWritten, local
  <2>3. /\ metrics'.deliver = metrics.deliver /\ metrics'.bytesDelivered = metrics.bytesDelivered
        /\ metrics'.drop = metrics.drop
    BY <1>0, <2>2, CountFields
  <2> QED  BY <1>5, <2>2, <2>3
<1>8. ASSUME NEW p \in Proc, CountBuffered(p), rest[p] = <<>> PROVE CountInv'
  <2>1. PICK n \in Nat : n = sum[p]
    BY <1>0 DEF TypeOK
  <2>2. /\ Goto(p, "expired") /\ pc[p] = "count" /\ UNCHANGED <<chans, frame>>
        /\ metrics' = [metrics EXCEPT !.drop = @ + n]
    BY <1>8, <2>1 DEF CountBuffered, local
  <2>3. /\ metrics'.deliver = metrics.deliver /\ metrics'.bytesDelivered = metrics.bytesDelivered
        /\ metrics'.drop = metrics.drop + n
    BY <1>0, <2>2, CountFields
  <2>4. (\A q \in Proc : sum'[q] = 0) => metrics'.drop = metrics.drop
    <3>1. (\A q \in Proc : sum'[q] = 0) => n = 0
      BY <1>0, <2>1
    <3> QED  BY <1>2, <2>3, <3>1
  <2> QED  BY <1>5, <2>2, <2>3, <2>4
<1>9. ASSUME NEW p \in Proc, CountDelivery(p) PROVE CountInv'
  <2>1. /\ Goto(p, "delivered") /\ pc[p] = "sent" /\ UNCHANGED <<chans, frame>>
        /\ metrics' = [metrics EXCEPT !.deliver = @ + 1]
    BY <1>9 DEF CountDelivery, local
  <2>2. /\ metrics'.deliver = metrics.deliver + 1 /\ metrics'.bytesDelivered = metrics.bytesDelivered
        /\ metrics'.drop = metrics.drop
    BY <1>0, <2>1, CountFields
  <2>3. /\ At({"sent", "delivered"})' = At({"sent", "delivered"})
        /\ Cardinality(At({"sent"})) = Cardinality(At({"sent"})') + 1
    BY <1>0, <2>1, AtMoves
  <2>4. SentBytes' = SentBytes
    BY <2>1, <2>3, KeepsSent
  <2>5. Tally(TakenBy)' = Tally(TakenBy) /\ TakenBytes' = TakenBytes /\ LostBy' = LostBy
    BY <1>0, <2>1, KeepsChans
  <2>6. FiniteAccounts'
    BY <1>0, <2>4, <2>5 DEF FiniteAccounts
  <2>7. /\ Sum(TakenBy)' = Sum(TakenBy) + zero /\ Sum(LostBy)' = Sum(LostBy) + zero
        /\ Sum(TakenBytes)' = Sum(TakenBytes) + zero /\ Sum(SentBytes)' = Sum(SentBytes) + zero
    <3>1. /\ Sum(TakenBy)' = Sum(TakenBy) /\ Sum(LostBy)' = Sum(LostBy)
          /\ Sum(TakenBytes)' = Sum(TakenBytes) /\ Sum(SentBytes)' = Sum(SentBytes)
      BY <2>4, <2>5 DEF Sum
    <3> QED  BY <1>1, <1>2, <3>1
  <2>8. metrics'.deliver + Cardinality(At({"sent"})')
          = metrics.deliver + Cardinality(At({"sent"})) + zero
    <3>1. Cardinality(At({"sent"})') \in Nat
      <4>1. At({"sent"})' \in SUBSET Proc
        BY DEF At
      <4> QED  BY <4>1, FiniteAssumption, FS_Subset, FS_CardinalityType
    <3> QED  BY <1>1, <1>2, <2>2, <2>3, <3>1
  <2>9. /\ metrics'.bytesDelivered + Sum(SentBytes)' = metrics.bytesDelivered + Sum(SentBytes) + zero
        /\ metrics'.drop = metrics.drop + zero
    BY <1>1, <1>2, <2>2, <2>7
  <2> QED  BY <1>0, <2>6, <2>7, <2>8, <2>9, Balance
<1>10. ASSUME NEW p \in Proc, CountBytesDelivered(p) PROVE CountInv'
  <2>1. PICK n \in Nat : n = Len(frame[p].Data)
    BY <1>10, FrameSize DEF CountBytesDelivered, Exchanging
  <2>2. /\ Goto(p, "offer") /\ pc[p] = "delivered" /\ UNCHANGED <<chans, frame>>
        /\ metrics' = [metrics EXCEPT !.bytesDelivered = @ + n]
    BY <1>10, <2>1 DEF CountBytesDelivered
  <2>3. /\ metrics'.deliver = metrics.deliver /\ metrics'.drop = metrics.drop
        /\ metrics'.bytesDelivered = metrics.bytesDelivered + n
    BY <1>0, <2>2, CountFields
  <2>4. At({"sent"})' = At({"sent"})
    BY <1>0, <2>2, AtMoves
  <2>5. Tally(TakenBy)' = Tally(TakenBy) /\ TakenBytes' = TakenBytes /\ LostBy' = LostBy
    BY <1>0, <2>2, KeepsChans
  <2>6. IsFiniteSet(Tally(SentBytes)') /\ Sum(SentBytes) = Sum(SentBytes)' + n
    <3>1. PICK f, g : f = SentBytes /\ g = SentBytes'
      OBVIOUS
    <3>2. /\ p \in At({"sent", "delivered"})
          /\ At({"sent", "delivered"})' = At({"sent", "delivered"}) \ {p}
      BY <1>0, <2>2 DEF At, Goto, TypeOK
    <3>3. p \in DOMAIN f /\ f[p] = n /\ DOMAIN g = DOMAIN f \ {p}
      BY <2>1, <3>1, <3>2 DEF SentBytes
    <3>4. \A y \in DOMAIN g : g[y] = f[y]
      BY <2>2, <3>1, <3>2 DEF SentBytes
    <3>5. IsFiniteSet(Tally(f))
      BY <1>0, <3>1 DEF FiniteAccounts
    <3>6. IsFiniteSet(Tally(g)) /\ Sum(f) = Sum(g) + n
      BY <3>3, <3>4, <3>5, TallyLeaves
    <3> QED  BY <3>1, <3>6
  <2>7. FiniteAccounts'
    BY <1>0, <2>5, <2>6 DEF FiniteAccounts
  <2>8. /\ Sum(TakenBy)' = Sum(TakenBy) + zero /\ Sum(LostBy)' = Sum(LostBy) + zero
        /\ Sum(TakenBytes)' = Sum(TakenBytes) + zero
    <3>1. /\ Sum(TakenBy)' = Sum(TakenBy) /\ Sum(LostBy)' = Sum(LostBy)
          /\ Sum(TakenBytes)' = Sum(TakenBytes)
      BY <2>5 DEF Sum
    <3> QED  BY <1>1, <1>2, <3>1
  <2>9. metrics'.bytesDelivered + Sum(SentBytes)' = metrics.bytesDelivered + Sum(SentBytes) + zero
    <3>1. PICK b \in Nat : b = Sum(SentBytes)'
      BY <2>6, FS_CardinalityType DEF Sum
    <3> QED  BY <1>1, <1>2, <2>3, <2>6, <3>1
  <2>10. /\ metrics'.deliver + Cardinality(At({"sent"})')
              = metrics.deliver + Cardinality(At({"sent"})) + zero
         /\ metrics'.drop = metrics.drop + zero
    BY <1>1, <1>2, <2>3, <2>4
  <2> QED  BY <1>0, <2>7, <2>8, <2>9, <2>10, Balance
<1>11. ASSUME NEW p \in Proc, NEW s \in DOMAIN chans, pc[p] = "offer", OfferSend(p, s), UNCHANGED frame
       PROVE  CountInv'
  <2>1. /\ IsFiniteSet(Tally(TakenBy)') /\ Sum(TakenBy)' = Sum(TakenBy) + 1
        /\ \E n \in Nat : /\ IsFiniteSet(Tally(TakenBytes)') /\ Sum(TakenBytes)' = Sum(TakenBytes) + n
                          /\ IsFiniteSet(Tally(SentBytes)') /\ Sum(SentBytes)' = Sum(SentBytes) + n
    BY <1>0, <1>11, SendAccounts DEF FiniteAccounts
  <2>2. PICK n \in Nat : /\ IsFiniteSet(Tally(TakenBytes)') /\ Sum(TakenBytes)' = Sum(TakenBytes) + n
                         /\ IsFiniteSet(Tally(SentBytes)') /\ Sum(SentBytes)' = Sum(SentBytes) + n
    BY <2>1
  <2>3. PICK one \in Nat : one = 1
    OBVIOUS
  <2>4. LostBy' = LostBy
    <3>1. SentTo(p, s)
      BY <1>0, <1>11, SendStreams
    <3>2. chans \in Seq(Chan) /\ chans' = [chans EXCEPT ![s].buf = Append(@, frame[p])]
      BY <1>0, <1>11 DEF OfferSend, TypeOK
    <3>3. \A c \in DOMAIN chans : c # s => chans'[c] = chans[c]
      BY <3>2
    <3>4. \A c \in DOMAIN chans : chans'[c].lost = chans[c].lost
      BY <3>1, <3>3 DEF SentTo
    <3> QED  BY <3>1, <3>4 DEF LostBy, SentTo
  <2>5. FiniteAccounts'
    BY <1>0, <2>1, <2>2, <2>4 DEF FiniteAccounts
  <2>6. Goto(p, "sent") /\ metrics' = metrics
    BY <1>11 DEF OfferSend
  <2>7. Cardinality(At({"sent"})') = Cardinality(At({"sent"})) + 1
    BY <1>0, <1>11, <2>6, AtMoves
  <2>8. metrics'.deliver + Cardinality(At({"sent"})')
          = metrics.deliver + Cardinality(At({"sent"})) + one
    BY <1>2, <2>3, <2>6, <2>7
  <2>9. /\ metrics'.bytesDelivered + Sum(SentBytes)' = metrics.bytesDelivered + Sum(SentBytes) + n
        /\ metrics'.drop = metrics.drop + zero /\ Sum(TakenBy)' = Sum(TakenBy) + one
    BY <1>1, <1>2, <2>1, <2>2, <2>3, <2>6
  <2>10. Sum(LostBy)' = Sum(LostBy) + zero
    BY <1>1, <1>2, <2>4 DEF Sum
  <2> QED  BY <1>0, <2>2, <2>5, <2>8, <2>9, <2>10, Balance
<1>12. ASSUME NEW p \in Proc, NEW s \in DOMAIN chans, OfferDrop(p, s), UNCHANGED frame
       PROVE  CountInv'
  <2>1. PICK one \in Nat : one = 1
    OBVIOUS
  <2>2. pc' = pc /\ metrics' = [metrics EXCEPT !.drop = @ + one]
    BY <1>12, <2>1 DEF OfferDrop
  <2>3. /\ metrics'.deliver = metrics.deliver /\ metrics'.bytesDelivered = metrics.bytesDelivered
        /\ metrics'.drop = metrics.drop + one
    BY <1>0, <2>2, CountFields
  <2>4. At({"sent"})' = At({"sent"}) /\ At({"sent", "delivered"})' = At({"sent", "delivered"})
    BY <2>2 DEF At
  <2>5. SentBytes' = SentBytes
    BY <1>12, <2>4, KeepsSent
  <2>6. SameTaken
    <3>1. SameStreams
      BY <1>0, <1>12, DropStreams
    <3> QED  BY <3>1 DEF SameTaken, SameStreams, SameStream
  <2>7. Tally(TakenBy)' = Tally(TakenBy) /\ TakenBytes' = TakenBytes
    BY <1>0, <2>6, KeepsTaken
  <2>8. IsFiniteSet(Tally(LostBy)') /\ Sum(LostBy)' = Sum(LostBy) + one
    <3>1. PICK f, g : f = LostBy /\ g = LostBy'
      OBVIOUS
    <3>2. PICK old \in Nat : old = chans[s].lost
      BY <1>0, ChanParts
    <3> DEFINE k == [chans[s] EXCEPT !.lost = @ + 1]
    <3>3. chans \in Seq(Chan) /\ chans[s] \in Chan /\ chans' = [chans EXCEPT ![s] = k]
      BY <1>0, <1>12 DEF OfferDrop, TypeOK
    <3>4. k.lost = old + one
      BY <2>1, <3>2, <3>3 DEF Chan
    <3> HIDE DEF k
    <3>5. /\ DOMAIN chans' = DOMAIN chans /\ chans'[s] = k
          /\ \A c \in DOMAIN chans : c # s => chans'[c] = chans[c]
      BY <3>3
    <3>6. Grows(f, g, s, old, one)
      BY <3>1, <3>2, <3>4, <3>5 DEF LostBy, Grows
    <3>7. IsFiniteSet(Tally(f))
      BY <1>0, <3>1 DEF FiniteAccounts
    <3>8. IsFiniteSet(Tally(g)) /\ Sum(g) = Sum(f) + one
      BY <3>6, <3>7, TallyGrows
    <3> QED  BY <3>1, <3>8
  <2>9. FiniteAccounts'
    BY <1>0, <2>5, <2>7, <2>8 DEF FiniteAccounts
  <2>10. /\ Sum(TakenBy)' = Sum(TakenBy) + zero /\ Sum(TakenBytes)' = Sum(TakenBytes) + zero
         /\ Sum(SentBytes)' = Sum(SentBytes)
    <3>1. /\ Sum(TakenBy)' = Sum(TakenBy) /\ Sum(TakenBytes)' = Sum(TakenBytes)
          /\ Sum(SentBytes)' = Sum(SentBytes)
      BY <2>5, <2>7 DEF Sum
    <3> QED  BY <1>1, <1>2, <3>1
  <2>11. /\ metrics'.deliver + Cardinality(At({"sent"})')
              = metrics.deliver + Cardinality(At({"sent"})) + zero
         /\ metrics'.bytesDelivered + Sum(SentBytes)' = metrics.bytesDelivered + Sum(SentBytes) + zero
    BY <1>1, <1>2, <2>3, <2>4, <2>10
  <2> QED  BY <1>0, <2>3, <2>8, <2>9, <2>10, <2>11, Balance
<1> QED  BY <1>4, <1>6, <1>7, <1>8, <1>9, <1>10, <1>11, <1>12, Accounts DEF Offers

(* DeliverCount, BytesDelivered and DropCount are what happened to the     *)
(* channels, at every moment and for any number of goroutines that         *)
(* broadcast, subscribe, drain and close at once.                          *)
THEOREM CountersExact == Spec => []CountersMatchChannels
<1>1. Init => CallInv /\ DrainInv /\ CountInv
  <2> SUFFICES ASSUME Init PROVE CallInv /\ DrainInv /\ CountInv
    OBVIOUS
  <2>1. CallInv /\ DrainInv
    BY DEF Init, CallInv, DrainInv, Exchanging, Draining
  <2>2. DOMAIN chans = {}
    BY DEF Init
  <2>3. DOMAIN TakenBy = {} /\ DOMAIN LostBy = {}
    BY <2>2 DEF TakenBy, LostBy
  <2>4. Tally(TakenBy) = {} /\ Tally(LostBy) = {}
    BY <2>3, InTally
  <2>5. At({"sent"}) = {} /\ At({"sent", "delivered"}) = {}
    BY DEF Init, At
  <2>6. DOMAIN TakenBytes = {} /\ DOMAIN SentBytes = {}
    BY <2>4, <2>5 DEF TakenBytes, SentBytes
  <2>7. Tally(TakenBytes) = {} /\ Tally(SentBytes) = {}
    BY <2>6, InTally
  <2>8. IsFiniteSet({}) /\ Cardinality({}) = 0
    BY FS_EmptySet
  <2>9. metrics.deliver = 0 /\ metrics.bytesDelivered = 0 /\ metrics.drop = 0
    BY DEF Init, NoMetrics
  <2>10. FiniteAccounts
    BY <2>4, <2>7, <2>8 DEF FiniteAccounts
  <2>11. /\ Sum(TakenBy) = 0 /\ Sum(LostBy) = 0 /\ Sum(TakenBytes) = 0 /\ Sum(SentBytes) = 0
         /\ Cardinality(At({"sent"})) = 0
    BY <2>4, <2>5, <2>7, <2>8 DEF Sum
  <2>12. CountersMatchChannels
    BY <2>9, <2>11 DEF CountersMatchChannels
  <2> QED  BY <2>1, <2>10, <2>12 DEF CountInv
<1>2. IInv /\ CallInv /\ DrainInv /\ CountInv /\ [Next]_vars => (CallInv /\ DrainInv /\ CountInv)'
  BY CallStep, DrainStep, CountStep DEF IInv
<1>3. CountInv => CountersMatchChannels
  BY DEF CountInv
<1> QED  BY <1>1, <1>2, <1>3, Invariance, PTL DEF Spec
=============================================================================
