----------------------------- MODULE Collector ------------------------------
(***************************************************************************)
(* The statistics of stats/stats.go: one goroutine runs Watch over a       *)
(* subscriber channel, others reset and read the counters.  Each method    *)
(* holds mu from start to end and is one step; two calls of a reader are   *)
(* two.  FrameRate and BusLoad divide totalCount and totalBits by the time *)
(* since start, which is not modelled.                                     *)
(***************************************************************************)
EXTENDS LinFrame, Tallies

CONSTANTS
  WatchDepth,  \* capacity of the subscriber channel
  MaxResets,   \* bound: calls of Reset
  NoFrame      \* nothing in hand

ASSUME CollectorAssumption == WatchDepth \in Nat \ {0} /\ MaxResets \in Nat

VARIABLES
  watch, watchClosed,            \* the channel Watch ranges over
  hand,                          \* Watch's f
  totalCount, totalBits, perID,  \* the Collector
  watched, discarded, resets,    \* history: frames taken in, cleared away, Reset calls
  report                         \* what a reader got from TotalCount

cvars == <<watch, watchClosed, hand, totalCount, totalBits, perID,
           watched, discarded, resets, report>>

perFrameOverheadBits == 13 + 1 + 10 + 10
bitsPerByteOnWire    == 10
bitsOnWire(dataLen)  == perFrameOverheadBits + (dataLen + 1) * bitsPerByteOnWire

NoReport == [total |-> -1, at |-> 0]

New ==
  /\ watch = <<>> /\ watchClosed = FALSE /\ hand = NoFrame
  /\ totalCount = 0 /\ totalBits = 0 /\ perID = <<>>
  /\ watched = 0 /\ discarded = 0 /\ resets = 0
  /\ report = NoReport

(* The bus offers f to the channel, which takes it if it has room.         *)
WatchOffer(f) ==
  /\ IF Len(watch) < WatchDepth
     THEN watch' = Append(watch, f) /\ watched' = watched + 1
     ELSE UNCHANGED <<watch, watched>>
  /\ UNCHANGED <<watchClosed, hand, totalCount, totalBits, perID, discarded, resets, report>>

(* The head of Watch's range loop.                                         *)
Watch ==
  /\ hand = NoFrame /\ watch # <<>>
  /\ hand' = Head(watch)
  /\ watch' = Tail(watch)
  /\ UNCHANGED <<watchClosed, totalCount, totalBits, perID, watched, discarded, resets, report>>

Observe ==
  /\ hand # NoFrame
  /\ totalCount' = totalCount + 1
  /\ perID' = [id \in DOMAIN perID \cup {hand.ID} |->
                  (IF id \in DOMAIN perID THEN perID[id] ELSE 0) + (IF id = hand.ID THEN 1 ELSE 0)]
  /\ totalBits' = totalBits + bitsOnWire(Len(hand.Data))
  /\ hand' = NoFrame
  /\ UNCHANGED <<watch, watchClosed, watched, discarded, resets, report>>

ResetTotals ==  \* mutant of Reset: perID keeps its entries
  /\ resets < MaxResets
  /\ totalCount' = 0 /\ totalBits' = 0
  /\ resets' = resets + 1 /\ discarded' = discarded + totalCount
  /\ UNCHANGED <<perID, watch, watchClosed, hand, watched, report>>

Reset ==
  /\ resets < MaxResets
  /\ totalCount' = 0 /\ totalBits' = 0
  /\ perID' = <<>>
  /\ resets' = resets + 1 /\ discarded' = discarded + totalCount
  /\ UNCHANGED <<watch, watchClosed, hand, watched, report>>

(* A reader asks for the total and then for the counters by identifier; at *)
(* is history: the Reset calls before the first question.                  *)
TotalCount ==
  /\ report = NoReport
  /\ report' = [total |-> totalCount, at |-> resets]
  /\ UNCHANGED <<watch, watchClosed, hand, totalCount, totalBits, perID, watched, discarded, resets>>

PerID ==
  /\ report # NoReport
  /\ report' = NoReport
  /\ UNCHANGED <<watch, watchClosed, hand, totalCount, totalBits, perID, watched, discarded, resets>>

Collect == Watch \/ Observe \/ Reset \/ TotalCount \/ PerID

-----------------------------------------------------------------------------
InHand == IF hand = NoFrame THEN 0 ELSE 1

(* Watch, Reset and the readers overlap, and still every frame the channel *)
(* took is in the channel, in Watch's hand, counted or cleared away, none  *)
(* twice; the total is the sum over the identifiers; and a reader who has  *)
(* the total finds no less than that in the counters by identifier, unless *)
(* a Reset came between its two calls (REQ-STATS-002, 005 to 008).         *)
CollectorExact ==
  /\ watched = Len(watch) + InHand + totalCount + discarded
  /\ Sum(perID) = totalCount
  /\ report # NoReport /\ report.at = resets => Sum(perID) >= report.total
=============================================================================
