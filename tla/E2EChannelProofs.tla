-------------------------- MODULE E2EChannelProofs --------------------------
(***************************************************************************)
(* The sequence counter of safety/e2e.go does what it is for: numbers      *)
(* taken by concurrent goroutines stay apart and the Receiver's verdict is *)
(* right, for any goroutines, any width of the counter, any number of      *)
(* frames and any loss, repetition or reordering of them.                  *)
(***************************************************************************)
EXTENDS E2EChannel, TLAPS

(* A frame carries its number, reduced to the width of the counter.        *)
Genuine(f) ==
  /\ f.n \in Nat /\ f.n < made
  /\ f = [n |-> f.n, seq |-> f.n % SeqMod]

(* The Protector's counter is the number of calls, reduced.                *)
CounterInv ==
  /\ made \in Nat /\ seq = made % SeqMod
  /\ DOMAIN hand = Proc
  /\ \A p \in Proc : hand[p] # None => Genuine(hand[p])
  /\ \A f \in medium : Genuine(f)

(* The Receiver remembers the frame it unwrapped last, whatever its        *)
(* verdict was.                                                            *)
ReceiverInv ==
  /\ log \in Seq([n : Nat, ok : BOOLEAN])
  /\ first \in BOOLEAN /\ (first <=> log = <<>>)
  /\ log # <<>> => lastSeq = log[Len(log)].n % SeqMod

(* The verdict as the code computes it: the counters of two frames         *)
(* unwrapped one after the other follow each other, or not.                *)
Verdicts ==
  \A i \in DOMAIN log :
    IF i = 1 THEN log[i].ok
    ELSE log[i].ok <=> log[i].n % SeqMod = (log[i - 1].n + 1) % SeqMod

(* As long as every frame passes, the counter moves on by one per frame.   *)
Runs ==
  \A i, j \in DOMAIN log :
    i <= j /\ (\A k \in (i + 1)..j : log[k].ok) =>
      log[j].n % SeqMod = (log[i].n + (j - i)) % SeqMod

IInv == CounterInv /\ ReceiverInv /\ Verdicts /\ Runs

-----------------------------------------------------------------------------
(* Reducing before the increment of the counter changes nothing.           *)
LEMMA ReduceFirst ==
  ASSUME NEW a \in Nat, NEW m \in Nat \ {0}
  PROVE  ((a % m) + 1) % m = (a + 1) % m
<1> DEFINE q == a \div m
           r == a % m
<1>1. q \in Nat /\ r \in 0..(m - 1) /\ a = m * q + r
  OBVIOUS
<1>2. PICK x, y : x = (r + 1) \div m /\ y = (r + 1) % m
  OBVIOUS
<1>3. x \in Nat /\ y \in 0..(m - 1) /\ r + 1 = m * x + y
  BY <1>1, <1>2
<1> HIDE DEF q, r
<1>4. a + 1 = m * (q + x) + y
  BY <1>1, <1>3
<1>5. (a + 1) % m = y
  BY <1>1, <1>3, <1>4
<1> QED  BY <1>2, <1>5 DEF r

(* Two numbers less than a turn apart that reduce alike are equal.         *)
LEMMA ReduceApart ==
  ASSUME NEW a \in Nat, NEW b \in Nat, NEW m \in Nat \ {0},
         a - b > -m, a - b < m, a % m = b % m
  PROVE  a = b
<1> DEFINE q == a \div m
           s == b \div m
<1>1. /\ q \in Nat /\ s \in Nat
      /\ a = m * q + (a % m) /\ b = m * s + (b % m)
      /\ a % m \in Nat /\ b % m \in Nat
  OBVIOUS
<1> HIDE DEF q, s
<1>2. a - b = m * q - m * s
  BY <1>1
<1>3. CASE q = s
  BY <1>2, <1>3, <1>1
<1>4. CASE q > s
  <2>1. PICK t \in Nat : q = s + 1 + t
    <3>1. q - s - 1 \in Nat /\ q = s + 1 + (q - s - 1)
      BY <1>1, <1>4
    <3> QED  BY <3>1
  <2>2. m * q = m * s + m + m * t /\ m * t >= 0
    BY <2>1, <1>1
  <2> QED  BY <2>2, <1>2, <1>1
<1>5. CASE q < s
  <2>1. PICK t \in Nat : s = q + 1 + t
    <3>1. s - q - 1 \in Nat /\ s = q + 1 + (s - q - 1)
      BY <1>1, <1>5
    <3> QED  BY <3>1
  <2>2. m * s = m * q + m + m * t /\ m * t >= 0
    BY <2>1, <1>1
  <2> QED  BY <2>2, <1>2, <1>1
<1> QED  BY <1>1, <1>3, <1>4, <1>5

(* A genuine frame stays genuine as more frames are made.                  *)
LEMMA StaysGenuine ==
  ASSUME NEW f, Genuine(f), made \in Nat, made' \in Nat, made <= made'
  PROVE  Genuine(f)'
  BY DEF Genuine

-----------------------------------------------------------------------------
(* The counter and the frames in hand and on the medium stay as described. *)
LEMMA CounterStep == CounterInv /\ [Next]_vars => CounterInv'
<1> SUFFICES ASSUME CounterInv, [Next]_vars PROVE CounterInv'
  OBVIOUS
<1> USE DEF CounterInv
<1>1. ASSUME NEW p \in Proc, Protect(p) PROVE CounterInv'
  <2>1. made' \in Nat /\ made <= made' /\ made' = made + 1
    BY <1>1 DEF Protect
  <2>2. seq' = made' % SeqMod
    BY <1>1, <2>1, ReduceFirst, E2EAssumption DEF Protect
  <2>3. PICK g : g = [n |-> made, seq |-> seq]
    OBVIOUS
  <2>4. Genuine(g)'
    BY <2>3, <2>1 DEF Genuine
  <2>5. DOMAIN hand' = Proc /\ hand'[p] = g /\ \A q \in Proc : q # p => hand'[q] = hand[q]
    BY <1>1, <2>3 DEF Protect
  <2>6. ASSUME NEW q \in Proc, hand'[q] # None PROVE Genuine(hand[q])'
    <3>1. PICK h : h = hand'[q]
      OBVIOUS
    <3>2. Genuine(h)'
      <4>1. CASE q = p
        BY <4>1, <2>4, <2>5, <3>1
      <4>2. CASE q # p
        BY <4>2, <2>5, <2>6, <2>1, <3>1, StaysGenuine
      <4> QED  BY <4>1, <4>2
    <3> QED  BY <3>1, <3>2 DEF Genuine
  <2>7. \A f \in medium' : Genuine(f)'
    BY <1>1, <2>1, StaysGenuine DEF Protect
  <2> QED  BY <2>1, <2>2, <2>5, <2>6, <2>7
<1>2. ASSUME NEW p \in Proc, Transmit(p) PROVE CounterInv'
  <2>1. made' = made /\ seq' = seq /\ medium' = medium \cup {hand[p]}
    BY <1>2 DEF Transmit
  <2>2. \A f \in medium' : Genuine(f)'
    BY <1>2, <2>1 DEF Transmit, Genuine
  <2>3. DOMAIN hand' = Proc /\ \A q \in Proc : hand'[q] # None => hand'[q] = hand[q]
    BY <1>2 DEF Transmit
  <2>4. \A q \in Proc : hand'[q] # None => Genuine(hand[q])'
    BY <2>1, <2>3 DEF Genuine
  <2> QED  BY <2>1, <2>2, <2>3, <2>4
<1>3. CASE UNCHANGED <<seq, made, hand, medium>>
  BY <1>3 DEF Genuine
<1> QED  BY <1>1, <1>2, <1>3 DEF Next, Unwrap, Reject, Finished, vars

(* The Receiver stays as described, and so do its verdicts.                *)
LEMMA ReceiverStep == IInv /\ [Next]_vars => ReceiverInv' /\ Verdicts' /\ Runs'
<1> SUFFICES ASSUME IInv, [Next]_vars PROVE ReceiverInv' /\ Verdicts' /\ Runs'
  OBVIOUS
<1> USE DEF IInv
<1>1. CASE Unwrap
  <2>1. PICK f \in medium :
          /\ log' = Append(log, [n |-> f.n, ok |-> InSequence(f.seq)])
          /\ lastSeq' = f.seq
          /\ first' = FALSE
    BY <1>1 DEF Unwrap, NewLast
  <2>2. f.n \in Nat /\ f.seq = f.n % SeqMod
    BY DEF CounterInv, Genuine
  <2>3. PICK ok \in BOOLEAN : ok = InSequence(f.seq)
    BY Zenon DEF InSequence
  <2>4. PICK e \in [n : Nat, ok : BOOLEAN] : e = [n |-> f.n, ok |-> ok]
    BY <2>2
  <2>5. log' = Append(log, e) /\ e.n = f.n /\ e.ok = ok
    BY <2>1, <2>3, <2>4
  <2>6. log \in Seq([n : Nat, ok : BOOLEAN]) /\ Len(log) \in Nat
    BY DEF ReceiverInv
  <2>7. /\ log' \in Seq([n : Nat, ok : BOOLEAN]) /\ Len(log') = Len(log) + 1
        /\ log'[Len(log) + 1] = e
        /\ \A i \in 1..Len(log) : log'[i] = log[i]
    BY <2>5, <2>6
  <2>8. ReceiverInv'
    <3>1. log' # <<>> /\ log'[Len(log')].n = f.n
      BY <2>5, <2>6, <2>7
    <3>2. lastSeq' = log'[Len(log')].n % SeqMod
      BY <2>1, <2>2, <3>1
    <3>3. first' \in BOOLEAN /\ (first' <=> log' = <<>>)
      BY <2>1, <3>1, Zenon
    <3> QED  BY <2>7, <3>2, <3>3, Zenon DEF ReceiverInv
  <2>9. CASE log = <<>>
    <3>1. first
      BY <2>9, Zenon DEF ReceiverInv
    <3>2. e.ok
      BY <3>1, <2>3, <2>5, Zenon DEF InSequence
    <3>3. DOMAIN log' = {1} /\ log'[1] = e
      BY <2>7, <2>9
    <3>4. Verdicts'
      BY <3>2, <3>3 DEF Verdicts
    <3>5. Runs'
      BY <3>3, <2>5, <2>2, E2EAssumption DEF Runs
    <3> QED  BY <2>8, <3>4, <3>5
  <2>10. CASE log # <<>>
    <3>1. PICK l : l = Len(log)
      OBVIOUS
    <3>2. l \in Nat /\ l >= 1
      BY <2>6, <2>10, <3>1
    <3>3. log[l] \in [n : Nat, ok : BOOLEAN]
      <4>1. \A S : \A q \in Seq(S) : \A i \in 1..Len(q) : q[i] \in S
        OBVIOUS
      <4>2. l \in 1..Len(log)
        BY <3>1, <3>2
      <4> QED  BY <4>1, <4>2, <2>6, Zenon
    <3>4. PICK m \in Nat : m = log[l].n
      BY <3>3
    <3>5. ~first /\ lastSeq = m % SeqMod
      BY <2>10, <3>1, <3>4, Zenon DEF ReceiverInv
    <3>6. ok <=> f.n % SeqMod = ((m % SeqMod) + 1) % SeqMod
      BY <3>5, <2>2, <2>3, Zenon DEF InSequence
    <3>7. ((m % SeqMod) + 1) % SeqMod = (m + 1) % SeqMod
      BY ReduceFirst, E2EAssumption
    <3>8. DOMAIN log' = 1..(l + 1) /\ DOMAIN log = 1..l
      BY <2>6, <2>7, <3>1
    <3>9. Verdicts'
      <4>1. SUFFICES ASSUME NEW i \in 1..(l + 1)
                     PROVE  IF i = 1 THEN log'[i].ok
                            ELSE log'[i].ok <=>
                                   log'[i].n % SeqMod = (log'[i - 1].n + 1) % SeqMod
        BY <3>8 DEF Verdicts
      <4>2. CASE i = l + 1
        <5>1. i # 1 /\ i - 1 = l /\ log'[i] = e /\ log'[i - 1] = log[l]
          BY <4>2, <3>1, <3>2, <2>7
        <5> QED  BY <5>1, <3>4, <3>6, <3>7, <2>5
      <4>3. CASE i # l + 1
        <5>1. i \in DOMAIN log /\ log'[i] = log[i] /\ (i # 1 => log'[i - 1] = log[i - 1])
          BY <4>3, <3>1, <3>2, <2>6, <2>7, SMTT(30)
        <5> QED  BY <5>1 DEF Verdicts
      <4> QED  BY <4>2, <4>3
    <3>10. Runs'
      <4>1. SUFFICES ASSUME NEW i \in 1..(l + 1), NEW j \in 1..(l + 1), i <= j,
                            \A k \in (i + 1)..j : log'[k].ok
                     PROVE  log'[j].n % SeqMod = (log'[i].n + (j - i)) % SeqMod
        BY <3>8 DEF Runs
      <4>2. CASE j # l + 1
        <5>1. i \in 1..l /\ j \in 1..l /\ \A k \in i..j : log'[k] = log[k]
          BY <4>1, <4>2, <2>7, <3>1, <3>2, SMTT(30)
        <5>2. \A k \in (i + 1)..j : log[k].ok
          BY <5>1, <4>1
        <5> QED  BY <5>1, <5>2, <4>1, <3>8 DEF Runs
      <4>3. CASE i = l + 1
        <5>1. j = i /\ log'[i].n = f.n
          BY <4>1, <4>3, <2>5, <2>7, <3>1
        <5> QED  BY <5>1, <2>2, <4>1
      <4>4. CASE j = l + 1 /\ i # l + 1
        <5>1. i \in 1..l /\ log'[i] = log[i] /\ log'[j] = e
          BY <4>4, <2>7, <3>1, <3>2
        <5>2. ok
          <6>1. j \in (i + 1)..j
            BY <4>4, <5>1, <3>2
          <6> QED  BY <6>1, <4>1, <5>1, <2>5, Zenon
        <5>3. \A k \in (i + 1)..l : log[k].ok
          BY <4>1, <4>4, <5>1, <2>7, <3>1, <3>2
        <5>4. PICK a \in Nat : a = log[i].n
          <6>1. \A S : \A q \in Seq(S) : \A x \in 1..Len(q) : q[x] \in S
            OBVIOUS
          <6>2. log[i] \in [n : Nat, ok : BOOLEAN]
            BY <6>1, <5>1, <2>6, <3>1, Zenon
          <6> QED  BY <6>2
        <5>5. m % SeqMod = (a + (l - i)) % SeqMod
          <6>1. i \in DOMAIN log /\ l \in DOMAIN log /\ i <= l
            BY <5>1, <3>2, <3>8
          <6>2. Runs
            OBVIOUS
          <6> QED  BY <6>1, <6>2, <5>3, <5>4, <3>4, Zenon DEF Runs
        <5>6. PICK b \in Nat : b = a + (l - i)
          BY <5>1, <5>4, <3>2
        <5>7. (m + 1) % SeqMod = (b + 1) % SeqMod
          <6>1. ((b % SeqMod) + 1) % SeqMod = (b + 1) % SeqMod
            BY ReduceFirst, E2EAssumption
          <6> QED  BY <6>1, <3>7, <5>5, <5>6
        <5>8. b + 1 = a + (j - i)
          BY <5>6, <5>1, <4>4, <3>2
        <5> QED  BY <5>1, <5>2, <5>4, <5>7, <5>8, <3>6, <3>7, <2>5
      <4> QED  BY <4>2, <4>3, <4>4
    <3> QED  BY <2>8, <3>9, <3>10
  <2> QED  BY <2>9, <2>10
<1>2. CASE UNCHANGED <<lastSeq, first, log>>
  BY <1>2 DEF ReceiverInv, Verdicts, Runs
<1> QED  BY <1>1, <1>2 DEF Next, Protect, Transmit, Reject, Finished, vars

(* The invariant holds initially and every step preserves it.              *)
LEMMA Invariance == Spec => []IInv
<1>1. Init => IInv
  <2> SUFFICES ASSUME Init PROVE IInv
    OBVIOUS
  <2>1. CounterInv
    <3>1. 0 = 0 % SeqMod
      BY E2EAssumption
    <3> QED  BY <3>1 DEF Init, CounterInv
  <2>2. log \in Seq([n : Nat, ok : BOOLEAN]) /\ DOMAIN log = {}
    BY DEF Init
  <2>3. ReceiverInv
    <3>1. first = TRUE /\ log = <<>>
      BY DEF Init
    <3> QED  BY <3>1, <2>2, Zenon DEF ReceiverInv
  <2>4. Verdicts /\ Runs
    BY <2>2 DEF Verdicts, Runs
  <2> QED  BY <2>1, <2>3, <2>4 DEF IInv
<1>2. IInv /\ [Next]_vars => IInv'
  BY CounterStep, ReceiverStep DEF IInv
<1> QED  BY <1>1, <1>2, PTL DEF Spec

(* A number of the log and the one before it are natural numbers.          *)
LEMMA Logged ==
  ASSUME ReceiverInv, NEW i \in DOMAIN log
  PROVE  /\ i \in Nat /\ log[i].n \in Nat /\ log[i].ok \in BOOLEAN
         /\ i # 1 => i - 1 \in DOMAIN log
<1>1. log \in Seq([n : Nat, ok : BOOLEAN]) /\ i \in 1..Len(log) /\ Len(log) \in Nat
  BY DEF ReceiverInv
<1>2. \A S : \A q \in Seq(S) : \A x \in 1..Len(q) : q[x] \in S
  OBVIOUS
<1>3. log[i] \in [n : Nat, ok : BOOLEAN]
  BY <1>1, <1>2, Zenon
<1> QED  BY <1>1, <1>3

(* Unwrap passes the successor of the frame before, and nothing else.      *)
LEMMA EachFollowed ==
  ASSUME IInv, NEW i \in DOMAIN log
  PROVE  IF i = 1 THEN log[i].ok ELSE Followed(i)
<1>1. CASE i = 1
  BY <1>1 DEF IInv, Verdicts
<1>2. CASE i # 1
  <2>1. i - 1 \in DOMAIN log
    BY <1>2, Logged DEF IInv
  <2>2. PICK a \in Nat, b \in Nat : a = log[i].n /\ b = log[i - 1].n + 1
    BY <2>1, Logged DEF IInv
  <2>3. log[i].ok <=> a % SeqMod = b % SeqMod
    BY <1>2, <2>2 DEF IInv, Verdicts
  <2>4. Within(a - b) => (a % SeqMod = b % SeqMod <=> a = b)
    BY ReduceApart, E2EAssumption DEF Within
  <2>5. Within(log[i].n - (log[i - 1].n + 1)) => (log[i].ok <=> log[i].n = log[i - 1].n + 1)
    BY <2>2, <2>3, <2>4
  <2>6. Followed(i)
    BY <2>5 DEF Followed
  <2> QED  BY <1>2, <2>6
<1> QED  BY <1>1, <1>2

(* Within a turn of the counter no frame passes Unwrap's comparison twice  *)
(* without a gap reported in between.                                      *)
LEMMA RepeatsReported ==
  ASSUME IInv PROVE RepeatReported
<1> SUFFICES ASSUME NEW i \in DOMAIN log, NEW j \in DOMAIN log,
                    i < j, log[i].n = log[j].n, j - i < SeqMod,
                    \A k \in (i + 1)..j : log[k].ok
             PROVE  FALSE
  BY DEF RepeatReported
<1>1. PICK a \in Nat : a = log[i].n
  BY Logged DEF IInv
<1>2. i \in Nat /\ j \in Nat
  BY Logged DEF IInv
<1>3. a % SeqMod = (a + (j - i)) % SeqMod
  BY <1>1, <1>2 DEF IInv, Runs
<1>4. PICK b \in Nat : b = a + (j - i)
  BY <1>1, <1>2
<1>5. b - a > -SeqMod /\ b - a < SeqMod /\ b # a /\ b % SeqMod = a % SeqMod
  BY <1>2, <1>3, <1>4, E2EAssumption
<1> QED  BY <1>5, ReduceApart, E2EAssumption

(* Whatever was lost, repeated or reordered before, Unwrap passes only the *)
(* successor of the frame before, always passes it when it comes for the   *)
(* first time, and lets no repetition go by without a gap, unless the      *)
(* counter went all the way round.                                         *)
THEOREM VerdictsRight == Spec => []VerdictRight
<1>1. IInv => VerdictRight
  BY EachFollowed, RepeatsReported DEF VerdictRight
<1> QED  BY <1>1, Invariance, PTL

(* No two frames less than a turn of the counter apart carry the same      *)
(* counter, however the goroutines that share the Protector interleave.    *)
THEOREM CountersApart == Spec => []CountersUnique
<1>1. IInv => CountersUnique
  <2> SUFFICES ASSUME CounterInv PROVE CountersUnique
    BY DEF IInv
  <2> DEFINE frames == medium \cup {hand[p] : p \in {q \in Proc : hand[q] # None}}
  <2>1. \A f \in frames : Genuine(f)
    BY DEF CounterInv
  <2> HIDE DEF frames
  <2>2. ASSUME NEW f \in frames, NEW g \in frames, f # g, Within(f.n - g.n), f.seq = g.seq
        PROVE  FALSE
    <3>1. /\ f.n \in Nat /\ g.n \in Nat /\ f.n % SeqMod = g.n % SeqMod
          /\ f.n # g.n
      BY <2>1, <2>2 DEF Genuine
    <3>2. PICK a \in Nat, b \in Nat : a = f.n /\ b = g.n
      BY <3>1
    <3>3. a - b > -SeqMod /\ a - b < SeqMod /\ a % SeqMod = b % SeqMod
      BY <3>1, <3>2, <2>2 DEF Within
    <3> QED  BY <3>1, <3>2, <3>3, ReduceApart, E2EAssumption
  <2> QED  BY <2>2 DEF CountersUnique, frames
<1> QED  BY <1>1, Invariance, PTL
=============================================================================
