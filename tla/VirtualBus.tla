----------------------------- MODULE VirtualBus -----------------------------
(***************************************************************************)
(* The in-process LIN bus of virtual/bus.go, at the grain of its lock.     *)
(*                                                                         *)
(* Goroutines (Proc) call the methods of one Bus concurrently.  A section  *)
(* under mu.Lock is one step: nothing else the bus guards can move while   *)
(* it is held.  A section under mu.RLock is as many steps as it has        *)
(* accesses to the subscriber channels, because other readers and the      *)
(* consumers of those channels run in the middle of it.  A waiting writer  *)
(* holds back new readers, as sync.RWMutex does.                           *)
(***************************************************************************)
EXTENDS LinFrame, Tallies

CONSTANTS
  Proc,       \* the goroutines that call the bus
  Menu,       \* Menu[p]: the calls goroutine p may make
  MaxCalls,   \* bound: calls made by each goroutine
  ChanSize,   \* defaultChanSize, the capacity of a subscriber channel
  Nil,        \* a nil payload
  NoEntry,    \* the absence of a map entry
  NoProc      \* nobody holds or awaits the write lock

Payload == {d \in Seq(Byte) : Len(d) \in 1..LINMaxDataLen}
Entry   == [data : Payload, ct : LINChecksumType]

Call ==
  [op : {"Publish"}, id : Byte, data : {Nil} \cup Seq(Byte), ct : LINChecksumType]
    \cup [op : {"SendHeader"}, id : Byte]
    \cup [op : {"Subscribe"}, filters : SUBSET Filter]
    \cup [op : {"SetSchedule"}, entries : Seq(Byte)]
    \cup [op : {"Close", "CloseWithDrain", "Health", "Metrics"}]

ASSUME BoundAssumption == MaxCalls \in Nat /\ ChanSize \in Nat \ {0}
ASSUME MenuAssumption  == Menu \in [Proc -> SUBSET Call]
ASSUME NoProcAssumption == NoProc \notin Proc
ASSUME FiniteAssumption == IsFiniteSet(Proc)

VARIABLES
  responses,  \* Bus.responses: identifier -> registered response
  schedule,   \* Bus.schedule: the identifiers of the installed table
  subs,       \* Bus.subs: the channels of the live subscriptions, in order
  closed,     \* Bus.closed
  metrics,    \* the six atomic counters
  chans,      \* every channel Subscribe ever made, and what became of it
  writer,     \* who holds or awaits mu.Lock
  readers,    \* who holds mu.RLock
  pc, call,   \* where each goroutine is, in which call
  calls,      \* how many calls it has made
  frame,      \* SendHeader's local f
  rest,       \* what is left of a range over b.subs
  sum,        \* CloseWithDrain's local undelivered
  snap,       \* the counters Metrics has loaded so far
  result,     \* what its last call returned
  panicked    \* a send on, or a close of, a closed channel

bus   == <<responses, schedule, subs, closed>>
mutex == <<writer, readers>>
local == <<frame, rest, sum, snap>>
vars  == <<bus, metrics, chans, mutex, pc, call, calls, local, result, panicked>>

-----------------------------------------------------------------------------
(* A channel: the filters it was made for, its buffer, whether it is       *)
(* closed, what its consumer has received, whether the consumer's range    *)
(* loop has ended, and how many frames were dropped for it.                *)
NewChan(c) ==
  [filters |-> c.filters, buf |-> <<>>, closed |-> FALSE, got |-> <<>>,
   eof |-> FALSE, lost |-> 0]

NoMetrics ==
  [write |-> 0, deliver |-> 0, drop |-> 0, bytesWritten |-> 0,
   bytesDelivered |-> 0, error |-> 0]

NoFrame == [ID |-> 0, Data |-> <<>>, ChecksumType |-> "classic", src |-> <<NoProc, 0>>]

(* Mutant: the checksum type of the registration is not looked at.         *)
EnhancedOnly(id, e, src) ==
  [ID |-> id, Data |-> e.data, ChecksumType |-> "enhanced", src |-> src]

(* The frame SendHeader builds for a response.  Its PID and checksum are   *)
(* functions of these fields (ProtectID, CalcChecksum).  src is history:   *)
(* the call the frame comes from.                                          *)
Synthesise(id, e, src) ==
  [ID |-> id, Data |-> e.data, ChecksumType |-> e.ct, src |-> src]

MatchAll(filters, f) == \A flt \in filters : Matches(flt, f.ID)  \* mutant of matchesAny

matchesAny(filters, f) == filters = {} \/ \E flt \in filters : Matches(flt, f.ID)

Init ==
  /\ responses = [id \in 0..LINMaxID |-> NoEntry]
  /\ schedule = <<>>
  /\ subs = <<>>
  /\ closed = FALSE
  /\ metrics = NoMetrics
  /\ chans = <<>>
  /\ writer = NoProc
  /\ readers = {}
  /\ pc = [p \in Proc |-> "idle"]
  /\ call = [p \in Proc |-> [op |-> "Close"]]
  /\ calls = [p \in Proc |-> 0]
  /\ frame = [p \in Proc |-> NoFrame]
  /\ rest = [p \in Proc |-> <<>>]
  /\ sum = [p \in Proc |-> 0]
  /\ snap = [p \in Proc |-> <<>>]
  /\ result = [p \in Proc |-> "none"]
  /\ panicked = FALSE

Goto(p, label) == pc' = [pc EXCEPT ![p] = label]

Return(p, r) ==
  /\ Goto(p, "idle")
  /\ result' = [result EXCEPT ![p] = r]

(* RLock is granted only when no writer holds or awaits the lock.          *)
NoRLock(p) == writer = NoProc /\ UNCHANGED mutex  \* mutant: the lock is not taken
RLock(p)   == writer = NoProc /\ readers' = readers \cup {p} /\ UNCHANGED writer
RUnlock(p) == readers' = readers \ {p} /\ UNCHANGED writer

(* A goroutine enters one of the calls on its menu.                        *)
Begin(p) ==
  /\ pc[p] = "idle"
  /\ calls[p] < MaxCalls
  /\ \E c \in Menu[p] : call' = [call EXCEPT ![p] = c]
  /\ calls' = [calls EXCEPT ![p] = @ + 1]
  /\ Goto(p, "enter")
  /\ UNCHANGED <<bus, metrics, chans, mutex, local, result, panicked>>

(* Mutant: an empty payload that is not nil gets through.                  *)
EmptyAllowed(c) ==
  \/ c.op \in {"Publish", "SendHeader"} /\ c.id > LINMaxID
  \/ c.op = "Publish" /\ c.data # Nil /\ Len(c.data) > LINMaxDataLen

(* The argument checks made before any lock is taken.                      *)
BadArgs(c) ==
  \/ c.op \in {"Publish", "SendHeader"} /\ c.id > LINMaxID
  \/ /\ c.op = "Publish"
     /\ c.data # Nil
     /\ Len(c.data) = 0 \/ Len(c.data) > LINMaxDataLen

Reject(p) ==
  /\ pc[p] = "enter"
  /\ BadArgs(call[p])
  /\ Return(p, "error")
  /\ UNCHANGED <<bus, metrics, chans, mutex, call, calls, local, panicked>>

(* mu.Lock(): announce the writer, which holds back new readers; the       *)
(* critical section itself runs once the readers have left.                *)
Lock(p) ==
  /\ \/ pc[p] = "enter" /\ call[p].op \notin {"SendHeader", "CloseWithDrain", "Health", "Metrics"}
     \/ pc[p] \in {"drained", "expired"}
  /\ ~BadArgs(call[p])
  /\ writer = NoProc
  /\ writer' = p
  /\ Goto(p, IF pc[p] = "expired" THEN "critExpired" ELSE "crit")
  /\ UNCHANGED <<bus, metrics, chans, readers, call, calls, local, result, panicked>>

Locked(p, ops) ==
  /\ pc[p] \in {"crit", "critExpired"}
  /\ call[p].op \in ops
  /\ writer = p
  /\ readers = {}

Unlock == writer' = NoProc /\ UNCHANGED readers

CountError == metrics' = [metrics EXCEPT !.error = @ + 1]

(* Publish, PublishClassic and PublishFrame, which picks one of the two.   *)
Publish(p) ==
  /\ Locked(p, {"Publish"})
  /\ Unlock
  /\ \/ /\ closed
        /\ CountError
        /\ Return(p, "ErrClosed")
        /\ UNCHANGED responses
     \/ /\ ~closed
        /\ responses' = [responses EXCEPT ![call[p].id] =
             IF call[p].data = Nil THEN NoEntry
             ELSE [data |-> call[p].data, ct |-> call[p].ct]]
        /\ Return(p, "nil")
        /\ UNCHANGED metrics
  /\ UNCHANGED <<schedule, subs, closed, chans, call, calls, local, panicked>>

(* Mutant: the subscription is registered twice.                           *)
AddTwice(c) ==
  /\ chans' = Append(chans, NewChan(c))
  /\ subs' = subs \o <<Len(chans) + 1, Len(chans) + 1>>

AddSubscription(c) ==
  /\ chans' = Append(chans, NewChan(c))
  /\ subs' = Append(subs, Len(chans) + 1)

(* Mutant: Subscribe does not look at closed.                              *)
SubscribeAnyway(p) ==
  /\ Locked(p, {"Subscribe"})
  /\ Unlock
  /\ AddSubscription(call[p])
  /\ Return(p, "nil")
  /\ UNCHANGED <<responses, schedule, closed, metrics, call, calls, local, panicked>>

(* Subscribe: opts are accepted and not looked at.                         *)
Subscribe(p) ==
  /\ Locked(p, {"Subscribe"})
  /\ Unlock
  /\ \/ /\ closed
        /\ CountError
        /\ Return(p, "ErrClosed")
        /\ UNCHANGED <<subs, chans>>
     \/ /\ ~closed
        /\ AddSubscription(call[p])
        /\ Return(p, "nil")
        /\ UNCHANGED metrics
  /\ UNCHANGED <<responses, schedule, closed, call, calls, local, panicked>>

SetSchedule(p) ==
  /\ Locked(p, {"SetSchedule"})
  /\ Unlock
  /\ schedule' = IF closed THEN schedule ELSE call[p].entries
  /\ Return(p, IF closed THEN "ErrClosed" ELSE "nil")
  /\ UNCHANGED <<responses, subs, closed, metrics, chans, call, calls, local, panicked>>

CloseFirst(q) ==  \* mutant: only the first channel is closed
  chans' = IF q = <<>> THEN chans ELSE [chans EXCEPT ![q[1]].closed = TRUE]

(* close(s.ch) for every subscription.                                     *)
CloseAll(q) ==
  chans' = [s \in DOMAIN chans |->
              [chans[s] EXCEPT !.closed = @ \/ \E i \in DOMAIN q : q[i] = s]]

(* Close, called directly or at the end of CloseWithDrain.                 *)
Close(p) ==
  /\ Locked(p, {"Close", "CloseWithDrain"})
  /\ Unlock
  /\ closed' = TRUE
  /\ IF closed THEN UNCHANGED <<subs, chans, panicked>>
     ELSE /\ subs' = <<>>
          /\ CloseAll(subs)
          /\ panicked' = (panicked \/ \E i \in DOMAIN subs : chans[subs[i]].closed)
  /\ Return(p, IF pc[p] = "critExpired" THEN "ErrTimeout" ELSE "nil")
  /\ UNCHANGED <<responses, schedule, metrics, call, calls, local>>

-----------------------------------------------------------------------------
(* SendHeader, first half: the lookup under RLock, which is released       *)
(* before the frame is built and counted.                                  *)
Lookup(p) ==
  /\ pc[p] = "enter"
  /\ call[p].op = "SendHeader"
  /\ ~BadArgs(call[p])
  /\ writer = NoProc
  /\ LET id == call[p].id
         e  == responses[id]
     IN  \/ /\ closed
            /\ CountError
            /\ Return(p, "ErrClosed")
            /\ UNCHANGED frame
         \/ /\ ~closed
            /\ e = NoEntry
            /\ CountError
            /\ Return(p, "ErrNoResponse")
            /\ UNCHANGED frame
         \/ /\ ~closed
            /\ e # NoEntry
            /\ frame' = [frame EXCEPT ![p] = Synthesise(id, e, <<p, calls[p]>>)]
            /\ Goto(p, "found")
            /\ UNCHANGED <<metrics, result>>
  /\ UNCHANGED <<bus, chans, mutex, call, calls, rest, sum, snap, panicked>>

(* The two counters of a write, each an atomic of its own.                 *)
CountWrite(p) ==
  /\ pc[p] = "found"
  /\ metrics' = [metrics EXCEPT !.write = @ + 1]
  /\ Goto(p, "wrote")
  /\ UNCHANGED <<bus, chans, mutex, call, calls, local, result, panicked>>

CountBytesWritten(p) ==
  /\ pc[p] = "wrote"
  /\ metrics' = [metrics EXCEPT !.bytesWritten = @ + Len(frame[p].Data)]
  /\ Goto(p, "counted")
  /\ UNCHANGED <<bus, chans, mutex, call, calls, local, result, panicked>>

(* broadcast: RLock again, then range over the subscriptions of now.       *)
BroadcastRLock(p) ==
  /\ pc[p] = "counted"
  /\ RLock(p)
  /\ rest' = [rest EXCEPT ![p] = subs]
  /\ Goto(p, "offer")
  /\ UNCHANGED <<bus, metrics, chans, call, calls, frame, sum, snap, result, panicked>>

Next1(p) == rest' = [rest EXCEPT ![p] = Tail(@)]

(* The non-blocking send to subscriber s: skip it, buffer or drop.  A send *)
(* on a closed channel panics, whatever the channel holds.                 *)
Wanted(p, s)  == matchesAny(chans[s].filters, frame[p])
RoomButOne(s) == Len(chans[s].buf) + 1 < ChanSize  \* mutant
Room(s)       == Len(chans[s].buf) < ChanSize

OfferSkip(p, s) ==
  /\ ~Wanted(p, s)
  /\ Next1(p)
  /\ UNCHANGED <<chans, metrics, pc>>

OfferSend(p, s) ==
  /\ Wanted(p, s) /\ Room(s)
  /\ chans' = [chans EXCEPT ![s].buf = Append(@, frame[p])]
  /\ Goto(p, "sent")
  /\ UNCHANGED <<metrics, rest>>

BlockWhenFull(p, s) == FALSE  \* mutant: no default case

OfferDrop(p, s) ==
  /\ Wanted(p, s) /\ ~Room(s)
  /\ chans' = [chans EXCEPT ![s].lost = @ + 1]
  /\ metrics' = [metrics EXCEPT !.drop = @ + 1]
  /\ Next1(p)
  /\ UNCHANGED pc

Offer(p) ==
  /\ pc[p] = "offer"
  /\ rest[p] # <<>>
  /\ LET s == Head(rest[p])
     IN  /\ OfferSkip(p, s) \/ OfferSend(p, s) \/ OfferDrop(p, s)
         /\ panicked' = (panicked \/ (Wanted(p, s) /\ chans[s].closed))
  /\ UNCHANGED <<bus, mutex, call, calls, frame, sum, snap, result>>

(* The counters of a delivery move after the frame is in the channel, one  *)
(* after the other.                                                        *)
CountDelivery(p) ==
  /\ pc[p] = "sent"
  /\ metrics' = [metrics EXCEPT !.deliver = @ + 1]
  /\ Goto(p, "delivered")
  /\ UNCHANGED <<bus, chans, mutex, call, calls, local, result, panicked>>

(* Mutant: the frame is counted, its bytes are not.                        *)
CountNoBytes(p) ==
  /\ pc[p] = "delivered"
  /\ Next1(p)
  /\ Goto(p, "offer")
  /\ UNCHANGED <<bus, metrics, chans, mutex, call, calls, frame, sum, snap, result, panicked>>

CountBytesDelivered(p) ==
  /\ pc[p] = "delivered"
  /\ metrics' = [metrics EXCEPT !.bytesDelivered = @ + Len(frame[p].Data)]
  /\ Next1(p)
  /\ Goto(p, "offer")
  /\ UNCHANGED <<bus, chans, mutex, call, calls, frame, sum, snap, result, panicked>>

BroadcastRUnlock(p) ==
  /\ pc[p] = "offer"
  /\ rest[p] = <<>>
  /\ RUnlock(p)
  /\ Return(p, "frame")
  /\ UNCHANGED <<bus, metrics, chans, call, calls, local, panicked>>

-----------------------------------------------------------------------------
(* CloseWithDrain: poll the channels one by one under RLock.               *)
PollRLock(p) ==
  /\ pc[p] = "enter"
  /\ call[p].op = "CloseWithDrain"
  /\ RLock(p)
  /\ rest' = [rest EXCEPT ![p] = subs]
  /\ Goto(p, "scan")
  /\ UNCHANGED <<bus, metrics, chans, call, calls, frame, sum, snap, result, panicked>>

Scan(p) ==
  /\ pc[p] = "scan"
  /\ \/ /\ rest[p] = <<>>
        /\ RUnlock(p)
        /\ Goto(p, "drained")
        /\ UNCHANGED rest
     \/ /\ rest[p] # <<>>
        /\ chans[Head(rest[p])].buf # <<>>
        /\ RUnlock(p)
        /\ Goto(p, "select")
        /\ UNCHANGED rest
     \/ /\ rest[p] # <<>>
        /\ chans[Head(rest[p])].buf = <<>>
        /\ Next1(p)
        /\ UNCHANGED <<mutex, pc>>
  /\ UNCHANGED <<bus, metrics, chans, call, calls, frame, sum, snap, result, panicked>>

(* The select between the poll ticker and ctx.Done.                        *)
Tick(p) ==
  /\ pc[p] = "select"
  /\ Goto(p, "enter")
  /\ UNCHANGED <<bus, metrics, chans, mutex, call, calls, local, result, panicked>>

CtxDone(p) ==
  /\ pc[p] = "select"
  /\ Goto(p, "late")
  /\ UNCHANGED <<bus, metrics, chans, mutex, call, calls, local, result, panicked>>

(* The count of what is still buffered, again channel by channel.          *)
CountRLock(p) ==
  /\ pc[p] = "late"
  /\ RLock(p)
  /\ rest' = [rest EXCEPT ![p] = subs]
  /\ sum' = [sum EXCEPT ![p] = 0]
  /\ Goto(p, "count")
  /\ UNCHANGED <<bus, metrics, chans, call, calls, frame, snap, result, panicked>>

CountBuffered(p) ==
  /\ pc[p] = "count"
  /\ \/ /\ rest[p] # <<>>
        /\ sum' = [sum EXCEPT ![p] = @ + Len(chans[Head(rest[p])].buf)]
        /\ Next1(p)
        /\ UNCHANGED <<metrics, mutex, pc>>
     \/ /\ rest[p] = <<>>
        /\ RUnlock(p)
        /\ metrics' = [metrics EXCEPT !.drop = @ + sum[p]]
        /\ Goto(p, "expired")
        /\ UNCHANGED <<rest, sum>>
  /\ UNCHANGED <<bus, chans, call, calls, frame, snap, result, panicked>>

-----------------------------------------------------------------------------
(* Health: one look at closed under RLock.                                 *)
Health(p) ==
  /\ pc[p] = "enter"
  /\ call[p].op = "Health"
  /\ writer = NoProc
  /\ Return(p, IF closed THEN "HealthDown" ELSE "HealthOK")
  /\ UNCHANGED <<bus, metrics, chans, mutex, call, calls, local, panicked>>

BytesFirst ==  \* mutant: the byte totals are loaded before the counts
  <<"bytesWritten", "bytesDelivered", "drop", "write", "deliver", "error">>

(* The counters in the order in which Metrics loads them.                  *)
LoadOrder ==
  <<"write", "deliver", "drop", "bytesWritten", "bytesDelivered", "error">>

(* Metrics: six loads without a lock, each a step.                         *)
LoadMetric(p) ==
  /\ pc[p] \in {"enter", "loading"}
  /\ call[p].op = "Metrics"
  /\ LET loaded == IF pc[p] = "enter" THEN <<>> ELSE snap[p]
     IN  /\ snap' = [snap EXCEPT ![p] = Append(loaded, metrics[LoadOrder[Len(loaded) + 1]])]
         /\ \/ Len(loaded) < 5 /\ Goto(p, "loading") /\ UNCHANGED result
            \/ Len(loaded) = 5 /\ Return(p, "metrics")
  /\ UNCHANGED <<bus, metrics, chans, mutex, call, calls, frame, rest, sum, panicked>>

-----------------------------------------------------------------------------
(* The consumer of channel s: a range loop over it, outside the bus.       *)
Receive(s) ==
  /\ \/ /\ chans[s].buf # <<>>
        /\ chans' = [chans EXCEPT ![s].got = Append(@, Head(chans[s].buf)),
                                  ![s].buf = Tail(@)]
     \/ /\ chans[s].buf = <<>>
        /\ chans[s].closed
        /\ ~chans[s].eof
        /\ chans' = [chans EXCEPT ![s].eof = TRUE]
  /\ UNCHANGED <<bus, metrics, mutex, pc, call, calls, local, result, panicked>>

(* Every goroutine has made its calls.                                     *)
Finished ==
  /\ \A p \in Proc : pc[p] = "idle" /\ (calls[p] = MaxCalls \/ Menu[p] = {})
  /\ UNCHANGED vars

Step(p) ==
  \/ Reject(p) \/ Lock(p)
  \/ Publish(p) \/ Subscribe(p) \/ SetSchedule(p) \/ Close(p)
  \/ Lookup(p) \/ CountWrite(p) \/ CountBytesWritten(p)
  \/ BroadcastRLock(p) \/ Offer(p) \/ CountDelivery(p) \/ CountBytesDelivered(p)
  \/ BroadcastRUnlock(p) \/ Health(p) \/ LoadMetric(p)
  \/ PollRLock(p) \/ Scan(p) \/ Tick(p) \/ CtxDone(p) \/ CountRLock(p) \/ CountBuffered(p)

Next ==
  \/ \E p \in Proc : Begin(p) \/ Step(p)
  \/ \E s \in DOMAIN chans : Receive(s)
  \/ Finished

Spec == Init /\ [][Next]_vars

(* Goroutines are scheduled and the lock is fair, so a call that can move  *)
(* moves.  A draining caller passes a context that expires, and a select   *)
(* with two ready cases picks either, so the expiry is not ignored for     *)
(* ever.  Nothing obliges a consumer to read.                              *)
FairSpec == Spec /\ \A p \in Proc : WF_vars(Step(p)) /\ SF_vars(CtxDone(p))

-----------------------------------------------------------------------------
Frame ==
  [ID : 0..LINMaxID, Data : Payload \cup {<<>>}, ChecksumType : LINChecksumType,
   src : (Proc \cup {NoProc}) \X Nat]

Chan ==
  [filters : SUBSET Filter, buf : Seq(Frame), closed : BOOLEAN, got : Seq(Frame),
   eof : BOOLEAN, lost : Nat]

Metrics ==
  [write : Nat, deliver : Nat, drop : Nat, bytesWritten : Nat,
   bytesDelivered : Nat, error : Nat]

Label ==
  {"idle", "enter", "crit", "critExpired", "found", "wrote", "counted", "offer", "sent",
   "delivered", "scan", "select", "drained", "late", "count", "expired", "loading"}

Outcome ==
  {"none", "nil", "frame", "error", "ErrClosed", "ErrNoResponse", "ErrTimeout",
   "HealthOK", "HealthDown", "metrics"}

(* Every variable has the type its Go counterpart has; the cursors into    *)
(* b.subs name channels that exist.                                        *)
TypeOK ==
  /\ responses \in [0..LINMaxID -> Entry \cup {NoEntry}]
  /\ schedule \in Seq(Byte)
  /\ closed \in BOOLEAN
  /\ metrics \in Metrics
  /\ chans \in Seq(Chan)
  /\ subs \in Seq(DOMAIN chans)
  /\ writer \in Proc \cup {NoProc}
  /\ readers \in SUBSET Proc
  /\ pc \in [Proc -> Label]
  /\ call \in [Proc -> Call]
  /\ calls \in [Proc -> Nat]
  /\ frame \in [Proc -> Frame]
  /\ rest \in [Proc -> Seq(DOMAIN chans)]
  /\ sum \in [Proc -> Nat]
  /\ snap \in [Proc -> Seq(Nat)]
  /\ result \in [Proc -> Outcome]
  /\ panicked \in BOOLEAN

(* The lock discipline behind the safety of Close: readers are exactly the *)
(* goroutines inside an RLock section, the write lock belongs to the one   *)
(* in a critical section with checked arguments, a closed bus has no       *)
(* subscription and an open one no closed channel, and a reader of a       *)
(* closed bus has no channel left to visit.                                *)
Reading == {"offer", "sent", "delivered", "scan", "count"}
Writing == {"crit", "critExpired"}

LockInv ==
  /\ readers = {p \in Proc : pc[p] \in Reading}
  /\ \A p \in Proc : pc[p] \in Writing <=> writer = p
  /\ \A p \in Proc : pc[p] \in Writing => ~BadArgs(call[p])
  /\ \A p \in Proc : pc[p] \in {"sent", "delivered"} => rest[p] # <<>>
  /\ closed => subs = <<>>
  /\ ~closed => \A s \in DOMAIN chans : ~chans[s].closed
  /\ closed => \A p \in readers : rest[p] = <<>>

(* No goroutine ever sends on a closed subscriber channel or closes one    *)
(* twice: Close and CloseWithDrain may run while broadcast and other       *)
(* closers do, and only the lock keeps them apart (bus.go 255-267,         *)
(* 332-347).                                                               *)
NoPanic == ~panicked

Taken(s) == chans[s].got \o chans[s].buf

At(labels) == {p \in Proc : pc[p] \in labels}

(* What each channel took and lost, the size of each frame taken, and of   *)
(* each frame that is in a channel and not yet in BytesDelivered.          *)
TakenBy    == [s \in DOMAIN chans |-> Len(Taken(s))]
LostBy     == [s \in DOMAIN chans |-> chans[s].lost]
TakenBytes == [d \in Tally(TakenBy) |-> Len(Taken(d[1])[d[2]].Data)]
SentBytes  == [p \in At({"sent", "delivered"}) |-> Len(frame[p].Data)]

(* DeliverCount, BytesDelivered and DropCount are what happened to the     *)
(* channels, up to the goroutines that have sent and not yet counted, at   *)
(* every moment and for any number of concurrent broadcasts.  Frames that  *)
(* an expired CloseWithDrain wrote off come on top of the drops.           *)
CountersMatchChannels ==
  /\ metrics.deliver + Cardinality(At({"sent"})) = Sum(TakenBy)
  /\ metrics.bytesDelivered + Sum(SentBytes) = Sum(TakenBytes)
  /\ (\A p \in Proc : sum[p] = 0) => metrics.drop = Sum(LostBy)

(* Metrics takes no lock, so its six values need not belong to one moment: *)
(* a snapshot can show a delivery and not yet its write.  What the order   *)
(* of the loads still gives is that the counts outrun the byte totals by   *)
(* at most the one frame that each other goroutine may have in SendHeader  *)
(* (bus.go 208-209, 339-340, 321-330).                                     *)
Snapshots == {p \in Proc : Len(snap[p]) = 6}

OtherSenders(p) == {q \in Proc \ {p} : \E c \in Menu[q] : c.op = "SendHeader"}

SnapshotLag ==
  \A p \in Snapshots :
    LET Loaded(name) == snap[p][CHOOSE i \in 1..6 : LoadOrder[i] = name]
        lag          == Cardinality(OtherSenders(p))
    IN  /\ Loaded("write") <= Loaded("bytesWritten") + lag
        /\ Loaded("deliver") <= Loaded("bytesDelivered") + lag

(* A channel carries the frames of one sender in the order of its          *)
(* SendHeader calls and none of them twice, though broadcasts overlap and  *)
(* subscribers come and go.                                                *)
SenderOrder ==
  \A s \in DOMAIN chans : \A i, j \in DOMAIN Taken(s) :
    /\ i < j
    /\ Taken(s)[i].src[1] = Taken(s)[j].src[1]
    => Taken(s)[i].src[2] < Taken(s)[j].src[2]

(* REQ-VIRT-011, 012 and 014: of the subscriptions a broadcast has passed  *)
(* over, each one whose filters select the frame has taken it or has lost  *)
(* frames to a full channel, and no other one has taken it.                *)
Selects(s, id) ==
  \/ chans[s].filters = {}
  \/ \E flt \in chans[s].filters : flt.All
  \/ id \in {flt.ID : flt \in chans[s].filters}

BroadcastReachesAll ==
  \A p \in Proc : pc[p] = "offer" =>
    \A i \in 1..(Len(subs) - Len(rest[p])) :
      LET s  == subs[i]
          in == \E k \in DOMAIN Taken(s) : Taken(s)[k].src = frame[p].src
      IN  IF Selects(s, frame[p].ID) THEN in \/ chans[s].lost > 0 ELSE ~in

(* REQ-VIRT-013: a frame is dropped for a full channel and for no other    *)
(* reason, so a channel that lost one had taken ChanSize before.           *)
LossNeedsFullChannel ==
  \A s \in DOMAIN chans : chans[s].lost > 0 => Len(Taken(s)) >= ChanSize

(* Once the bus is closed it stays closed and only its consumers move: no  *)
(* registration, no subscription and no delivery, not even by a SendHeader *)
(* that had found its response before Close (bus.go 193-209).              *)
ClosedIsFinal ==
  [][closed => /\ closed'
               /\ UNCHANGED <<responses, schedule, subs>>
               /\ DOMAIN chans' = DOMAIN chans
               /\ \A s \in DOMAIN chans : Len(chans'[s].buf) <= Len(chans[s].buf)]_vars

(* Every call returns, even when no consumer reads and other goroutines    *)
(* broadcast, drain and close: nobody waits for a full channel, for a      *)
(* drain that does not come or for the lock for ever.                      *)
CallsReturn == \A p \in Proc : pc[p] # "idle" ~> pc[p] = "idle"

(* REQ-VIRT-015: every consumer that keeps ranging over its channel comes  *)
(* to the end of it once the bus is closed.                                *)
ChanIds ==
  LET subscribers == {p \in Proc : \E c \in Menu[p] : c.op = "Subscribe"}
  IN  1..(MaxCalls * Cardinality(subscribers))

ConsumersSeeClose ==
  \A s \in ChanIds :
    WF_vars(s \in DOMAIN chans /\ Receive(s))
      => (closed /\ s \in DOMAIN chans ~> s \in DOMAIN chans /\ chans[s].eof)

-----------------------------------------------------------------------------
(* The promise of lin.Bus and lin.MasterBus, seen through the bus's state: *)
(* a stream has been sent what its consumer received and what its channel  *)
(* holds, and an exchange is under way from the lookup of its response to  *)
(* the end of its broadcast.                                               *)
Exchanging == {"found", "wrote", "counted", "offer", "sent", "delivered"}

Contract == INSTANCE BusContract WITH
  reg     <- responses,
  open    <- ~closed,
  flight  <- {frame[p] : p \in {q \in Proc : pc[q] \in Exchanging}},
  streams <- [s \in DOMAIN chans |->
                [filters |-> chans[s].filters, taken |-> Taken(s), ended |-> chans[s].closed]]

(* The bus keeps the promise of the interfaces it implements (lin.go       *)
(* 168-217), whatever its goroutines do between two sections of its lock:  *)
(* a frame carries the response and the checksum type registered when its  *)
(* header went out, reaches a stream at most once, in its sender's order   *)
(* and never after Close, and all streams end at once.                     *)
ImplementsContract == Contract!Spec

-----------------------------------------------------------------------------
(* What the comment on CloseWithDrain says, refuted by the code.           *)

Undrained   == \E i \in DOMAIN subs : chans[subs[i]].buf # <<>>

ClosesNow(p, label) ==
  pc[p] = label /\ call[p].op = "CloseWithDrain" /\ ~closed /\ closed'

(* "CloseWithDrain closes the bus after waiting for all subscriber         *)
(* channels to be drained or until ctx expires" (bus.go 269-273): a close  *)
(* without expiry finds every channel empty.                               *)
DrainClosesEmpty == [][\A p \in Proc : ClosesNow(p, "crit") => ~Undrained]_vars
=============================================================================
