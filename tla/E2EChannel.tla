----------------------------- MODULE E2EChannel -----------------------------
(***************************************************************************)
(* End-to-end protection (safety/e2e.go) over a medium that may lose,      *)
(* delay, repeat and reorder frames: goroutines share one Protector, one   *)
(* Receiver unwraps.  The counter is uint32 in the code and counts modulo  *)
(* SeqMod here, so that it wraps around within reach.                      *)
(*                                                                         *)
(* The medium is the set of frames ever transmitted; a frame that is never *)
(* picked is lost, one picked again is a repetition.  It may also come     *)
(* truncated, damaged or from a stream of another identity.                *)
(***************************************************************************)
EXTENDS Integers, Sequences

CONSTANTS
  Proc,       \* the goroutines that call Protect
  SeqMod,     \* 2^32 in the code
  MaxFrames,  \* bound: Protect calls
  MaxUnwraps, \* bound: frames unwrapped with their CRC and identity intact
  None        \* no frame in hand

ASSUME E2EAssumption ==
  SeqMod \in Nat \ {0} /\ MaxFrames \in Nat /\ MaxUnwraps \in Nat

VARIABLES
  seq,      \* Protector.seq
  made,     \* history: how many frames were protected
  hand,     \* the frame each goroutine has protected and not yet sent
  medium,   \* every frame transmitted
  lastSeq, first,  \* the Receiver
  log,      \* history: the genuine frames unwrapped, with the verdict
  err       \* what Unwrap last returned

vars == <<seq, made, hand, medium, lastSeq, first, log, err>>

Init ==
  /\ seq = 0 /\ made = 0
  /\ hand = [p \in Proc |-> None]
  /\ medium = {}
  /\ lastSeq = 0 /\ first = TRUE
  /\ log = <<>> /\ err = "nil"

ProtectLosesUpdate(p) ==  \* mutant of Protect: load and store in place of Add
  /\ hand[p] = None
  /\ made < MaxFrames
  /\ hand' = [hand EXCEPT ![p] = [n |-> made, seq |-> seq]]
  /\ seq' = IF \E q \in Proc : hand[q] # None THEN seq ELSE (seq + 1) % SeqMod
  /\ made' = made + 1
  /\ UNCHANGED <<medium, lastSeq, first, log, err>>

(* Protect: seq.Add(1) - 1 takes a number atomically.  n is history: which *)
(* call it was.                                                            *)
Protect(p) ==
  /\ hand[p] = None
  /\ made < MaxFrames
  /\ hand' = [hand EXCEPT ![p] = [n |-> made, seq |-> seq]]
  /\ seq' = (seq + 1) % SeqMod
  /\ made' = made + 1
  /\ UNCHANGED <<medium, lastSeq, first, log, err>>

(* The goroutine sends what Protect gave it, in its own time.              *)
Transmit(p) ==
  /\ hand[p] # None
  /\ medium' = medium \cup {hand[p]}
  /\ hand' = [hand EXCEPT ![p] = None]
  /\ UNCHANGED <<seq, made, lastSeq, first, log, err>>

(* Unwrap of a frame whose CRC and identity hold: the counter check and    *)
(* its effect on the Receiver, under mu.                                   *)
InSequence(s) == first \/ s = (lastSeq + 1) % SeqMod

KeepLast(f) == IF InSequence(f.seq) THEN f.seq ELSE lastSeq  \* mutant of NewLast
NewLast(f)  == f.seq

Unwrap ==
  /\ Len(log) < MaxUnwraps
  /\ \E f \in medium :
       /\ log' = Append(log, [n |-> f.n, ok |-> InSequence(f.seq)])
       /\ lastSeq' = NewLast(f)
       /\ err' = IF InSequence(f.seq) THEN "nil" ELSE "ErrSequenceGap"
       /\ first' = FALSE
  /\ UNCHANGED <<seq, made, hand, medium>>

(* The checks before the lock reject input without touching the Receiver.  *)
Damage == {"ErrHeaderTooShort", "ErrCRCMismatch", "ErrIDMismatch"}

Reject ==
  /\ medium # {}
  /\ err' \in Damage
  /\ UNCHANGED <<seq, made, hand, medium, lastSeq, first, log>>

Finished ==
  /\ made = MaxFrames /\ Len(log) = MaxUnwraps
  /\ \A p \in Proc : hand[p] = None
  /\ UNCHANGED vars

Next == \/ \E p \in Proc : Protect(p) \/ Transmit(p)
        \/ Unwrap \/ Reject \/ Finished

Spec == Init /\ [][Next]_vars

-----------------------------------------------------------------------------
Within(d) == d > -SeqMod /\ d < SeqMod

(* The i-th frame unwrapped is a repetition of an earlier one.             *)
Repeated(i) == \E j \in 1..(i - 1) : log[j].n = log[i].n

(* A frame passes only when it was protected right after the one unwrapped *)
(* before it, and such a frame passes unless it is a repetition, if the    *)
(* counter has not wrapped all the way round in between.                   *)
Followed(i) ==
  Within(log[i].n - (log[i - 1].n + 1)) =>
    /\ log[i].ok => log[i].n = log[i - 1].n + 1
    /\ log[i].n = log[i - 1].n + 1 /\ ~Repeated(i) => log[i].ok

(* No frame comes a second time, within a turn of the counter, without a   *)
(* gap reported since its first time.                                      *)
RepeatReported ==
  \A i, j \in DOMAIN log :
    i < j /\ log[i].n = log[j].n /\ j - i < SeqMod =>
      \E k \in (i + 1)..j : ~log[k].ok

(* What the counter comparison of Unwrap gives, wherever in the stream the *)
(* receiver is and however often it has lost its place: loss and disorder  *)
(* are noticed, a stream in order passes again after a gap (REQ-SAFETY-009 *)
(* and -013), and a repetition is reported at the latest when it comes,    *)
(* though not always on the repeated frame itself: see ReplayRefused.      *)
VerdictRight ==
  /\ \A i \in DOMAIN log : IF i = 1 THEN log[i].ok ELSE Followed(i)
  /\ RepeatReported

(* REQ-SEC-003: "Receiver.Unwrap shall return an ErrSequenceGap error when *)
(* a frame's sequence counter indicates a replayed or skipped frame".  The *)
(* gap branch of Unwrap moves lastSeq to whatever came, so that after one  *)
(* reported repetition the ones that follow it are in sequence and pass.   *)
ReplayRefused ==
  \A i, j \in DOMAIN log : i < j /\ log[i].n = log[j].n => ~log[j].ok

(* REQ-SAFETY-014: frames on their way have different counters, unless     *)
(* they are a whole turn of the counter apart.                             *)
CountersUnique ==
  LET frames == medium \cup {hand[p] : p \in {q \in Proc : hand[q] # None}}
  IN  \A f, g \in frames : f # g /\ Within(f.n - g.n) => f.seq # g.seq
=============================================================================
